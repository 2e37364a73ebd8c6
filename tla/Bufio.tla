-------------------------------- MODULE Bufio --------------------------------
(***************************************************************************)
(* An object written field by field into a buffer and read back:           *)
(* Struct.encode() and Struct.decode() of bufio/src/struct.ts over         *)
(* BufferWriter, StaticWriter and BufferReader.                            *)
(*                                                                         *)
(* BufferWriter notes operations, adds up their size and performs them     *)
(* when it renders; StaticWriter performs each one at once, in a buffer of *)
(* a size computed beforehand.  Between the two halves the data may lose   *)
(* its tail or have a byte changed.                                        *)
(*                                                                         *)
(* A field is a record whose "t" names the method.  Strings are the bytes  *)
(* of their encoding; aliasing of slices (zeroCopy, pool), copy(), hashes, *)
(* child readers and start()/end() are left out.                           *)
(***************************************************************************)
EXTENDS Encoding

CONSTANTS Objects,      \* the sequences of fields an object may have
          Slack,        \* how far a computed size may be from the right one
          Garbage,      \* what uninitialised memory may hold
          MaxDamaged    \* objects of at most this many fields have bytes changed

VARIABLES fields,    \* the fields of the object
          room,      \* the size of the static buffer, or Growing
          phase,     \* "write", "send", "read", "decoded", "notEncoded", "notDecoded"
          written,   \* how many fields have been written
          ops,       \* BufferWriter.ops
          offset,    \* the writer's offset
          mem,       \* StaticWriter.data
          data,      \* what render() returned, and the reader reads
          intact,    \* nothing happened to data
          at,        \* BufferReader.offset
          got        \* the values read so far

vars == <<fields, room, phase, written, ops, offset, mem, data, intact, at, got>>

Growing == -1        \* Struct.getSize() of an object that computes no size

NumberField(format, n) == [t |-> "number", format |-> format, n |-> n]
VarintField(n) == [t |-> "varint", n |-> n]
BytesField(v) == [t |-> "bytes", v |-> v]
StringField(v) == [t |-> "string", v |-> v]
U8 == [signed |-> FALSE, width |-> 1, be |-> FALSE]

\* The formats a writer has methods for: one byte has no order.
UnsignedFormats == {f \in [signed : {FALSE}, width : 1 .. 8, be : BOOLEAN] : f.width > 1 \/ ~f.be}
SignedFormats == {f \in [signed : {TRUE}, width : 1 .. 8, be : BOOLEAN] : f.width > 1 \/ ~f.be}

-----------------------------------------------------------------------------
(* What the writers share.                                                 *)

\* A method that calls others is those calls.
Calls(f) ==
  CASE f.t = "varbytes"                -> <<VarintField(Len(f.v)), BytesField(f.v)>>
    [] f.t = "varstring" /\ f.v = <<>> -> <<VarintField(0)>>
    [] f.t = "varstring" /\ f.v # <<>> -> <<VarintField(Len(f.v)), StringField(f.v)>>
    [] f.t = "nullstring"              -> <<StringField(f.v), NumberField(U8, 0)>>
    [] OTHER                           -> <<f>>

Size(p) ==
  CASE p.t = "number"  -> p.format.width
    [] p.t = "varint"  -> SizeVarint(p.n)
    [] p.t = "varint2" -> SizeVarint2(p.n)
    [] p.t \in {"bytes", "string", "float"} -> Len(p.v)
    [] p.t = "checksum" -> 4
    [] p.t = "fill"    -> p.size
    [] p.t = "seek"    -> p.off

\* The size an object computes of itself: sizeVarBytes, sizeVarString, ...
SizeOf(s) == FoldLeft(LAMBDA sum, f : FoldLeft(LAMBDA n, p : n + Size(p), sum, Calls(f)), 0, s)

\* A hash of bytes, cut to four.
Digest(s) == Digits(FoldLeft(LAMBDA sum, i : sum + s[i] * i, 0, [i \in 1 .. Len(s) |-> i]), 4)

Wire(p, before) ==
  CASE p.t = "number"  -> WriteNumber(p.format, p.n)
    [] p.t = "float"   -> WriteFloat(p.v, p.be)
    [] p.t = "varint"  -> WriteVarint(p.n)
    [] p.t = "varint2" -> WriteVarint2(p.n)
    [] p.t \in {"bytes", "string"} -> p.v
    [] p.t = "checksum" -> Digest(before)
    [] p.t = "fill"    -> [i \in 1 .. p.size |-> p.value]
    [] p.t = "seek"    -> <<>>

\* enforce(): numbers are safe integers, floats are finite.
Enforced(p) ==
  /\ p.t \in {"number", "varint", "varint2"} => IsSafeInteger(p.n)
  /\ p.t = "float" => p.finite

\* One operation on a buffer w = [mem, off, ok].  Copies tell how many bytes
\* they copied; a string, a fill and a varint2 do not start or end outside.
Perform(w, p) ==
  LET b == Wire(p, SubSeq(w.mem, 1, w.off))
      left == Len(w.mem) - w.off
      copied == Min({Len(b), Max({left, 0})})
  IN  IF /\ w.ok /\ Enforced(p)
         /\ p.t \in {"fill", "varint2"} => Len(b) <= left
         /\ p.t = "string" => left >= 0
      THEN [mem |-> Put(w.mem, w.off, b), ok |-> TRUE,
            off |-> w.off + (IF p.t = "seek" THEN p.off
                             ELSE IF p.t \in {"bytes", "string", "checksum"} THEN copied
                             ELSE Len(b))]
      ELSE [w EXCEPT !.ok = FALSE]

-----------------------------------------------------------------------------
Field == fields[written + 1]

Init ==
  /\ fields \in Objects
  /\ room \in {Growing} \cup ({SizeOf(fields) + s : s \in Slack} \cap Nat)
  /\ \E g \in Garbage : mem = [i \in 1 .. IF room = Growing THEN 0 ELSE room |-> g]
  /\ phase = "write" /\ written = 0 /\ ops = <<>> /\ offset = 0
  /\ data = <<>> /\ intact = TRUE /\ at = 0 /\ got = <<>>

GiveUp(end) ==
  /\ phase' = end
  /\ UNCHANGED <<fields, room, written, ops, offset, mem, data, intact, at, got>>

\* BufferWriter: nothing is noted of what is empty.
Empty(p) == \/ p.t \in {"bytes", "string"} /\ p.v = <<>>
            \/ p.t = "fill" /\ p.size = 0

Noted(f) == SelectSeq(Calls(f), LAMBDA p : ~Empty(p))

\* writeVarString() of an empty string notes the length and does not count it.
Growth(f) == IF f.t = "varstring" /\ f.v = <<>> THEN 0 ELSE SizeOf(<<f>>)

Deferrable == /\ Field.t \in {"varint", "varint2"} => IsSafeInteger(Field.n)
              /\ Field.t = "seek" => offset + Field.off >= 0

Defer ==
  /\ phase = "write" /\ room = Growing /\ written < Len(fields)
  /\ IF Deferrable
     THEN /\ ops' = ops \o Noted(Field)
          /\ offset' = offset + Growth(Field)
          /\ written' = written + 1
          /\ UNCHANGED <<fields, room, phase, mem, data, intact, at, got>>
     ELSE GiveUp("notEncoded")

\* StaticWriter: check() before the operation, but for varints and empty strings.
Checked(w, p) ==
  /\ p.t \notin {"varint", "varint2"} /\ p # StringField(<<>>) => w.off + Size(p) <= Len(w.mem)
  /\ p.t = "seek" => w.off + p.off >= 0

StaticCall(w, p) == IF Checked(w, p) THEN Perform(w, p) ELSE [w EXCEPT !.ok = FALSE]

Store ==
  /\ phase = "write" /\ room # Growing /\ written < Len(fields)
  /\ LET w == FoldLeft(StaticCall, [mem |-> mem, off |-> offset, ok |-> TRUE], Calls(Field))
     IN  IF w.ok
         THEN /\ mem' = w.mem /\ offset' = w.off /\ written' = written + 1
              /\ UNCHANGED <<fields, room, phase, ops, data, intact, at, got>>
         ELSE GiveUp("notEncoded")

\* render(), which returns the buffer and empties the writer, or throws.
Rendered(w) ==
  IF w.ok /\ w.off = Len(w.mem)
  THEN /\ data' = w.mem /\ phase' = "send"
       /\ ops' = <<>> /\ offset' = 0 /\ mem' = <<>>
       /\ UNCHANGED <<fields, room, written, intact, at, got>>
  ELSE GiveUp("notEncoded")

Render ==
  /\ phase = "write" /\ room = Growing /\ written = Len(fields)
  /\ \E g \in Garbage :
       Rendered(FoldLeft(Perform, [mem |-> [i \in 1 .. offset |-> g], off |-> 0, ok |-> TRUE], ops))

RenderStatic ==
  /\ phase = "write" /\ room # Growing /\ written = Len(fields)
  /\ Rendered([mem |-> mem, off |-> offset, ok |-> TRUE])

\* The data reaches the reader whole, without its tail, or with another byte.
Arrive(d) ==
  /\ phase = "send"
  /\ data' = d /\ intact' = (d = data) /\ phase' = "read"
  /\ UNCHANGED <<fields, room, written, ops, offset, mem, at, got>>

Transmit == Arrive(data)
Truncate == \E n \in 0 .. Len(data) - 1 : Arrive(SubSeq(data, 1, n))
Damage == /\ Len(fields) <= MaxDamaged
          /\ \E i \in 1 .. Len(data), b \in Byte : b # data[i] /\ Arrive([data EXCEPT ![i] = b])

-----------------------------------------------------------------------------
(* BufferReader: a read is [ok, next, value], next its offset afterwards.  *)

Rest == SubSeq(data, at + 1, Len(data))

Take(from, n) ==
  IF from + n <= Len(data)
  THEN [ok |-> TRUE, next |-> from + n, value |-> SubSeq(data, from + 1, from + n)]
  ELSE [ok |-> FALSE, next |-> from, value |-> <<>>]

Fail == [ok |-> FALSE, next |-> at, value |-> <<>>]

ReadNumberField(format) ==
  LET taken == Take(at, format.width)
      number == ReadNumber(format, taken.value)
  IN  IF taken.ok /\ number.ok THEN [taken EXCEPT !.value = <<number.value>>] ELSE Fail

ReadFloatField(size, be) ==
  LET taken == Take(at, size)
  IN  IF taken.ok THEN [taken EXCEPT !.value = ReadFloat(taken.value, be)] ELSE Fail

ReadVarintField(r) == IF r.ok THEN [ok |-> TRUE, next |-> at + r.size, value |-> <<r.value>>] ELSE Fail

\* Length first: a limit of zero is none.
ReadLong(limit) ==
  LET length == ReadVarintField(ReadVarint(Rest))
  IN  IF ~length.ok THEN Fail
      ELSE IF limit # 0 /\ length.value[1] > limit THEN [Fail EXCEPT !.next = length.next]
      ELSE Take(length.next, length.value[1])

\* A bug: the end of the data ends the string.
ReadNullStringToEnd ==
  LET ends == {i \in at + 1 .. Len(data) : data[i] = 0} \cup {Len(data)}
      end == CHOOSE i \in ends : \A j \in ends : i <= j
  IN  [Take(at, Max({end - 1 - at, 0})) EXCEPT !.next = end]

ReadNullString ==
  LET ends == {i \in at + 1 .. Len(data) : data[i] = 0}
      end == CHOOSE i \in ends : \A j \in ends : i <= j
  IN  IF ends = {} THEN Fail ELSE [Take(at, end - 1 - at) EXCEPT !.next = end]

Seek(off) ==
  IF at + off < 0 THEN Fail
  ELSE [Take(at, off) EXCEPT !.value = <<>>]

VerifyChecksum ==
  LET taken == Take(at, 4)
  IN  [taken EXCEPT !.ok = taken.ok /\ taken.value = Digest(SubSeq(data, 1, at)), !.value = <<>>]

ReadField(f) ==
  CASE f.t = "number"     -> ReadNumberField(f.format)
    [] f.t = "float"      -> ReadFloatField(Len(f.v), f.be)
    [] f.t = "varint"     -> ReadVarintField(ReadVarint(Rest))
    [] f.t = "varint2"    -> ReadVarintField(ReadVarint2(Rest))
    [] f.t \in {"bytes", "string"} -> Take(at, Len(f.v))
    [] f.t = "varbytes"   -> ReadLong(0)
    [] f.t = "varstring"  -> ReadLong(f.limit)
    [] f.t = "nullstring" -> ReadNullString
    [] f.t = "fill"       -> Take(at, f.size)
    [] f.t = "seek"       -> Seek(f.off)
    [] f.t = "checksum"   -> VerifyChecksum

Read ==
  /\ phase = "read" /\ Len(got) < Len(fields)
  /\ LET r == ReadField(fields[Len(got) + 1])
     IN  /\ at' = r.next
         /\ IF r.ok THEN got' = Append(got, r.value) /\ phase' = phase
                    ELSE got' = got /\ phase' = "notDecoded"
  /\ UNCHANGED <<fields, room, written, ops, offset, mem, data, intact>>

Decoded ==
  /\ phase = "read" /\ Len(got) = Len(fields)
  /\ GiveUp("decoded")

Finished == phase \in {"decoded", "notDecoded", "notEncoded"} /\ UNCHANGED vars

Next == \/ Defer \/ Store \/ Render \/ RenderStatic
        \/ Transmit \/ Truncate \/ Damage
        \/ Read \/ Decoded
        \/ Finished

Spec == Init /\ [][Next]_vars

-----------------------------------------------------------------------------
(* Which fields come back as they were written.                            *)

\* What the formats are known to lose.
Misread(f) ==
  \/ f.t = "number" /\ Cut(f.format, f.n)
  \/ f.t = "varint2" /\ TooHigh(f.n)

Representable(f) ==
  /\ Enforced(f) /\ ~Misread(f)
  /\ f.t = "number" => InRange(f.format, f.n)
  /\ f.t \in {"varint", "varint2"} => f.n >= 0
  /\ f.t = "varstring" => f.limit = 0 \/ Len(f.v) <= f.limit
  /\ f.t = "nullstring" => \A i \in 1 .. Len(f.v) : f.v[i] # 0
  /\ f.t = "seek" => f.off >= 0

AllRepresentable == \A i \in 1 .. Len(fields) : Representable(fields[i])

\* A growing writer that was given an empty string has miscounted: getSize() is one
\* less than the "size of data written so far" that buffer-writer.ts:221 promises,
\* and render() throws, or cuts the checksum that follows and returns.
Miscounted == room = Growing /\ \E i \in 1 .. Len(fields) : fields[i].t = "varstring" /\ fields[i].v = <<>>

Value(f) ==
  CASE f.t \in {"number", "varint", "varint2"} -> <<f.n>>
    [] f.t = "fill" -> [i \in 1 .. f.size |-> f.value]
    [] f.t \in {"seek", "checksum"} -> <<>>
    [] OTHER -> f.v

\* A value handed to the object is the one that was written, even from data
\* that lost its tail: a reader that runs out throws before it answers.  An
\* unsigned number of seven or eight bytes given a negative number is refused,
\* never read as another (what encoding.test.ts expects of readU64).
NothingMadeUp ==
  \A i \in 1 .. Len(got) :
    (/\ intact \/ Len(data) < SizeOf(fields)
     /\ ~Miscounted
     /\ \A j \in 1 .. i - 1 : Representable(fields[j])
     /\ \/ Representable(fields[i])
        \/ fields[i].t = "number" /\ ~fields[i].format.signed /\ fields[i].format.width >= 7)
      => got[i] = Value(fields[i])

\* An object that reached the reader whole is read to its end.
IntactIsRead == phase = "notDecoded" /\ AllRepresentable => ~intact \/ Miscounted

\* No object is read to its end from data that lost its tail.
TruncationDetected ==
  phase = "decoded" /\ AllRepresentable => Len(data) = SizeOf(fields) \/ Miscounted

\* Writing fails only for a reason: a value that enforce() refuses, a step
\* back, a buffer of the wrong size, or the empty string of BufferWriter.
EncodesWhenItFits ==
  phase = "notEncoded" =>
    \/ \E i \in 1 .. Len(fields) :
         \/ ~Enforced(fields[i])
         \/ fields[i].t = "seek" /\ fields[i].off < 0
    \/ Miscounted
    \/ room # Growing /\ room # SizeOf(fields)

\* What render() returns has every field, and nothing after: no buffer of
\* another size gets out, although varints are stored without a check.
RenderedIsComplete ==
  phase = "send" => Len(data) = SizeOf(fields) \/ Miscounted

\* A varint that is accepted, from whatever data, has the only form its value
\* can be written in: no two encodings are read as one value.
CanonicalForm ==
  got # <<>> /\ phase = "read" =>
    LET n == Len(got)
        form == CASE fields[n].t = "varint"  -> WriteVarint(got[n][1])
                  [] fields[n].t = "varint2" -> WriteVarint2(got[n][1])
                  [] OTHER -> <<>>
    IN  SubSeq(data, at + 1 - Len(form), at) = form

\* Reading is the inverse of writing: what was written is read, and nothing else.
ReadIsWritten == NothingMadeUp /\ IntactIsRead /\ CanonicalForm

\* An object gets through whole or is refused, by the writer or by the reader,
\* whose offset stays within the data whatever was cut or changed.
WholeOrRefused ==
  EncodesWhenItFits /\ RenderedIsComplete /\ TruncationDetected /\ at \in 0 .. Len(data)
=============================================================================
