------------------------------ MODULE Buffers ------------------------------
(***************************************************************************)
(* common/src/buffer: DataBuffer, a view of some bytes, BufferList, a list *)
(* of such views that answers as if it were one, and base64.               *)
(*                                                                         *)
(* A buffer is its bytes and a list a sequence of buffers; indices are     *)
(* those of the code, from 0.  A call that throws answers Thrown, reading  *)
(* past the end Undefined.                                                 *)
(***************************************************************************)
EXTENDS Integers, Sequences, FiniteSets, SequencesExt

Undefined == -1
Thrown == <<Undefined>>

Least(a, b) == IF a < b THEN a ELSE b
Most(a, b) == IF a > b THEN a ELSE b

\* Uint8Array.subarray(), which counts a negative index from the end.
Subarray(b, start, end) ==
  LET clamp(i) == IF i < 0 THEN Most(Len(b) + i, 0) ELSE Least(i, Len(b))
  IN  SubSeq(b, clamp(start) + 1, clamp(end))

-----------------------------------------------------------------------------
(* DataBuffer.                                                             *)

\* copy(): what dst becomes.
CopyBuffer(src, dst, targetStart, start, wanted) ==
  LET at == Least(targetStart, Len(dst))
      end == IF wanted > 0 /\ wanted < start THEN start ELSE wanted
      upTo == Least(Least(end, Len(src)), Len(dst) - at + start)
      chunk == Subarray(src, start, upTo)
  IN  IF end = start \/ dst = <<>> \/ src = <<>> THEN dst
      ELSE IF at < 0 \/ start < 0 \/ start >= Len(src) \/ end < 0 THEN Thrown
      ELSE [i \in DOMAIN dst |-> IF i - at \in DOMAIN chunk THEN chunk[i - at] ELSE dst[i]]

Matches(b, search, i) == i + Len(search) <= Len(b) /\ SubSeq(b, i + 1, i + Len(search)) = search

\* arrayIndexOf() and bidirectionalIndexOf(), forwards: the first match from an offset on.
IndexInBuffer(b, search, given) ==
  LET offset == Most(IF given < 0 THEN Len(b) + given ELSE given, 0)
      found == {i \in offset .. Len(b) - 1 : Matches(b, search, i)}
  IN  IF found = {} \/ search = <<>> THEN -1 ELSE CHOOSE i \in found : \A j \in found : i <= j

\* Backwards: the last match up to an offset.
LastIndexInBuffer(b, search, given) ==
  LET offset == Least(IF given < 0 THEN Len(b) + given ELSE given, Len(b) - Len(search))
      found == {i \in 0 .. offset : Matches(b, search, i)}
  IN  IF found = {} \/ search = <<>> \/ (given < 0 /\ Len(b) + given < 0) THEN -1
      ELSE CHOOSE i \in found : \A j \in found : j <= i

\* A number is its bytes, the most significant first, and whether it came out negative:
\* the shifts of the 32 bit little-endian reader end in a signed number.  What is past
\* the end counts as zero in a shift, and makes a sum or a single byte not a number.
Number(digits, negative) == [digits |-> digits, negative |-> negative]
NaN == Number(<<>>, FALSE)

ReadUInt(b, offset, width, little) ==
  LET bytes == [k \in 1 .. width |-> IF offset + k \in DOMAIN b THEN b[offset + k] ELSE 0]
      digits == IF little THEN Reverse(bytes) ELSE bytes
      short == offset + width > Len(b)
  IN  IF short /\ (width = 1 \/ (width = 4 /\ ~little)) THEN NaN
      ELSE Number(digits, little /\ width = 4 /\ digits[1] >= 128)

\* The bug of one order of bytes for both.
WriteUIntBig(b, number, offset, width, little) ==
  [i \in DOMAIN b |-> IF i - offset \in 1 .. width THEN number.digits[i - offset] ELSE b[i]]

WriteUInt(b, number, offset, width, little) ==
  LET bytes == IF little THEN Reverse(number.digits) ELSE number.digits
  IN  [i \in DOMAIN b |-> IF i - offset \in 1 .. width THEN bytes[i - offset] ELSE b[i]]

-----------------------------------------------------------------------------
(* BufferList.                                                             *)

Concat(list) == FlattenSeq(list)
ListLength(list) == FoldLeft(LAMBDA n, b : n + Len(b), 0, list)
Before(list, k) == ListLength(SubSeq(list, 1, k))

\* The bug of an index past the end of a buffer taken for one inside.
OffsetInclusive(list, offset) ==
  LET holds == {i \in 1 .. Len(list) : offset <= Before(list, i) \/ i = Len(list)}
      first == CHOOSE i \in holds : \A j \in holds : i <= j
  IN  IF offset = 0 \/ list = <<>> THEN [buf |-> 1, at |-> 0]
      ELSE [buf |-> first, at |-> offset - Before(list, first - 1)]

\* _offset(): the buffer that holds an index, the last one if none does.
Offset(list, offset) ==
  LET holds == {i \in 1 .. Len(list) : offset < Before(list, i) \/ i = Len(list)}
      first == CHOOSE i \in holds : \A j \in holds : i <= j
  IN  IF offset = 0 \/ list = <<>> THEN [buf |-> 1, at |-> 0]
      ELSE [buf |-> first, at |-> offset - Before(list, first - 1)]

Get(list, index) ==
  LET o == Offset(list, index)
  IN  IF index > ListLength(list) \/ index < 0 THEN Undefined
      ELSE IF list = <<>> THEN Thrown
      ELSE IF o.at < Len(list[o.buf]) THEN list[o.buf][o.at + 1] ELSE Undefined

\* The loops of copy(): from the first buffer on, each copies what it has of what is still
\* wanted.
CopyAll(list, dst, at) ==
  FoldLeft(LAMBDA acc, b : [acc EXCEPT !.dst = CopyBuffer(b, acc.dst, acc.at, 0, Len(b)), !.at = acc.at + Len(b)],
           [dst |-> dst, at |-> at], list).dst

CopySome(list, o, dst, at, bytes) ==
  LET step(acc, b) ==
        LET l == Len(b) - acc.start
            copied == CopyBuffer(b, acc.dst, acc.at, acc.start,
                                 IF acc.bytes > l THEN Len(b) ELSE acc.start + acc.bytes)
        IN  IF acc.done THEN acc
            ELSE [dst |-> copied, at |-> acc.at + l, bytes |-> acc.bytes - l, start |-> 0,
                  done |-> acc.bytes <= l]
      end == FoldLeft(step, [dst |-> dst, at |-> at, bytes |-> bytes, start |-> o.at, done |-> FALSE],
                      SubSeq(list, o.buf, Len(list)))
  IN  IF Len(end.dst) > end.at THEN Subarray(end.dst, 0, end.at) ELSE end.dst

Copy(list, dst, dstStart, wantedStart, wantedEnd) ==
  LET start == Most(wantedStart, 0)
      end == Least(wantedEnd, ListLength(list))
      o == Offset(list, start)
      bytes == end - start
  IN  IF start >= ListLength(list) \/ end <= 0 THEN dst
      ELSE IF start = 0 /\ end = ListLength(list) THEN CopyAll(list, dst, dstStart)
      ELSE IF bytes <= Len(list[o.buf]) - o.at
           THEN CopyBuffer(list[o.buf], dst, dstStart, o.at, o.at + bytes)
           ELSE CopySome(list, o, dst, dstStart, bytes)

\* slice(): copy() without a destination.
FromEnd(list, i) == IF i < 0 THEN i + ListLength(list) ELSE i

Slice(list, wantedStart, wantedEnd) ==
  LET start == Most(FromEnd(list, wantedStart), 0)
      end == Least(FromEnd(list, wantedEnd), ListLength(list))
      o == Offset(list, start)
      blank == [i \in 1 .. end - start |-> 0]
  IN  IF start >= ListLength(list) \/ end <= 0 THEN <<>>
      ELSE IF start = 0 /\ end = ListLength(list) THEN Concat(list)
      ELSE IF end - start <= Len(list[o.buf]) - o.at
           THEN Subarray(list[o.buf], o.at, o.at + end - start)
           ELSE CopySome(list, o, blank, 0, end - start)

\* shallowSlice(): a list of views, or what was thrown for one.
ShallowSlice(list, wantedStart, wantedEnd) ==
  LET start == FromEnd(list, wantedStart)
      end == FromEnd(list, wantedEnd)
      from == Offset(list, start)
      to == Offset(list, end)
      bufs == SubSeq(list, from.buf, Least(to.buf, Len(list)))
      cut == IF to.at = 0 THEN IF bufs = <<>> THEN bufs ELSE Front(bufs)
             ELSE ReplaceAt(bufs, Len(bufs), Subarray(Last(bufs), 0, to.at))
  IN  IF start = end THEN <<>>
      ELSE IF to.at # 0 /\ bufs = <<>> THEN <<Thrown>>
      ELSE IF from.at = 0 THEN cut
      ELSE IF cut = <<>> THEN <<Thrown>>
      ELSE ReplaceAt(cut, 1, Subarray(Head(cut), from.at, Len(Head(cut))))

\* consume(): whole buffers go as long as enough is asked for, then a part of the next.
Consume(list, bytes) ==
  LET whole == {k \in 0 .. Len(list) : bytes >= Before(list, k)}
      k == CHOOSE x \in whole : \A y \in whole : y <= x
  IN  IF bytes <= 0 \/ k = Len(list) THEN IF bytes <= 0 THEN list ELSE <<>>
      ELSE <<Subarray(list[k + 1], bytes - Before(list, k), Len(list[k + 1]))>> \o SubSeq(list, k + 2, Len(list))

\* _match() reads byte by byte across buffers.
Match(list, offset, search) ==
  /\ ListLength(list) - offset >= Len(search)
  /\ \A i \in DOMAIN search : Get(list, offset + i - 1) = search[i]

\* indexOf(): in a buffer as far as the search fits, then byte by byte.
IndexOf(list, search, given) ==
  LET offset == Most(FromEnd(list, given), 0)
      o == Offset(list, offset)
      fits(k) == Len(list[k]) - Len(search)
      found == {x \in offset .. ListLength(list) - 1 :
                  \E k \in o.buf .. Len(list) :
                     LET i == x - Before(list, k - 1)
                     IN  /\ i \in (IF k = o.buf THEN o.at ELSE 0) .. Len(list[k]) - 1
                         /\ IF i <= fits(k) THEN Matches(list[k], search, i) ELSE Match(list, x, search)}
  IN  IF search = <<>> THEN Least(offset, ListLength(list))
      ELSE IF found = {} THEN -1 ELSE CHOOSE x \in found : \A y \in found : x <= y

\* The readers that the class is given at the end of the file.
ReadUIntOfList(list, offset, width, little) ==
  ReadUInt(Slice(list, offset, offset + width), 0, width, little)

-----------------------------------------------------------------------------
(* Base64: a character is the number it stands for, "=" is -1.             *)

Pad == -1

EncodeTriple(t, padded) ==
  LET a == t[1]
      b == IF Len(t) > 1 THEN t[2] ELSE 0
      c == IF Len(t) > 2 THEN t[3] ELSE 0
      digits == <<a \div 4, (a % 4) * 16 + b \div 16, (b % 16) * 4 + c \div 64, c % 64>>
  IN  SubSeq(digits, 1, Len(t) + 1) \o (IF padded THEN [i \in 1 .. 3 - Len(t) |-> Pad] ELSE <<>>)

EncodeBase64(b, padded) ==
  FlattenSeq([i \in 1 .. (Len(b) + 2) \div 3 |-> EncodeTriple(SubSeq(b, 3 * i - 2, Least(3 * i, Len(b))), padded)])

\* decodeBase64(): bits pile up in building, and a byte goes out with every character but
\* the first of four.
DecodeBase64(s) ==
  LET pads == {i \in DOMAIN s : s[i] = Pad}
      used == IF pads = {} THEN s ELSE SubSeq(s, 1, (CHOOSE i \in pads : \A j \in pads : i <= j) - 1)
      step(acc, v) ==
        CASE acc.remainder = 0 -> [acc EXCEPT !.building = v * 4, !.remainder = 1]
          [] acc.remainder = 1 -> [out |-> Append(acc.out, acc.building + v \div 16),
                                   building |-> (v % 16) * 16, remainder |-> 2]
          [] acc.remainder = 2 -> [out |-> Append(acc.out, acc.building + v \div 4),
                                   building |-> (v % 4) * 64, remainder |-> 3]
          [] acc.remainder = 3 -> [out |-> Append(acc.out, acc.building + v), building |-> 0, remainder |-> 0]
  IN  FoldLeft(step, [out |-> <<>>, building |-> 0, remainder |-> 0], used).out

=============================================================================
