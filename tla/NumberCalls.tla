----------------------------- MODULE NumberCalls -----------------------------
(***************************************************************************)
(* The functions that bufio/src/index.ts exports beside its classes:       *)
(* numbers, varints and bytes read and written at an offset of a buffer.   *)
(* A call that enforce() or a check refuses leaves the buffer alone.       *)
(*                                                                         *)
(* There are two ways to ask for a number: the function of its format      *)
(* (readU24, writeI32BE, ...) and the function that is given the width     *)
(* (readU, writeIBE, ...).                                                 *)
(***************************************************************************)
EXTENDS Encoding

Widths == 1 .. 8

\* The formats with a function of their own: one byte has no order.
Formats == {f \in [signed : BOOLEAN, width : Widths, be : BOOLEAN] : f.width > 1 \/ ~f.be}

\* The format of a varint, which has none.
NoFormat == [signed |-> FALSE, width |-> 0, be |-> FALSE]

\* Where a call may read or write: enforce() of the offset, then the check of the end.
Inside(data, off, size) == off >= 0 /\ size >= 0 /\ off + size <= Len(data)
From(data, off, size) == SubSeq(data, off + 1, off + size)

\* What a write leaves behind and returns: a number the offset after it, bytes their count.
Left(data, off, b) == [ok |-> TRUE, data |-> Put(data, off, b), next |-> off + Len(b)]
Unwritten(data) == [ok |-> FALSE, data |-> data, next |-> 0]

-----------------------------------------------------------------------------
(* Numbers.                                                                *)

\* readU24() and the like, and writeU24() and the like.
ReadAt(format, data, off) ==
  IF Inside(data, off, format.width) THEN ReadNumber(format, From(data, off, format.width)) ELSE Refused

WriteAt(format, data, n, off) ==
  IF Inside(data, off, format.width) /\ IsSafeInteger(n) THEN Left(data, off, WriteNumber(format, n))
  ELSE Unwritten(data)

\* The functions given a width choose among those of a format.
ReadU(b, len) == ReadUnsigned(b)
ReadUBE(b, len) == ReadUnsignedBE(b)
ReadI(b, len) == ReadSigned(b)
ReadIBE(b, len) == ReadSignedBE(b)

WriteU(n, len) == WriteUnsigned(n, len)
WriteUBE(n, len) == WriteUnsignedBE(n, len)
WriteIBE(n, len) == WriteUnsignedBE(n, len)

\* Three bytes take the function of four, and four that of three.
WriteI(n, len) == WriteUnsigned(n, CASE len = 3 -> 4 [] len = 4 -> 3 [] OTHER -> len)

ReadSized(format, data, off) ==
  LET len == format.width
      b == From(data, off, len)
  IN  IF ~Inside(data, off, len) \/ len \notin Widths THEN Refused
      ELSE IF format.signed THEN IF format.be THEN ReadIBE(b, len) ELSE ReadI(b, len)
      ELSE IF format.be THEN ReadUBE(b, len) ELSE ReadU(b, len)

WriteSized(format, data, n, off) ==
  LET len == format.width
  IN  IF ~Inside(data, off, len) \/ len \notin Widths \/ ~IsSafeInteger(n) THEN Unwritten(data)
      ELSE Left(data, off,
                IF format.signed THEN IF format.be THEN WriteIBE(n, len) ELSE WriteI(n, len)
                ELSE IF format.be THEN WriteUBE(n, len) ELSE WriteU(n, len))

-----------------------------------------------------------------------------
(* Varints, which are measured before they are written.                    *)

ReadVarintAt(data, off, second) ==
  LET b == SubSeq(data, off + 1, Len(data))
  IN  IF off < 0 THEN Refused ELSE IF second THEN ReadVarint2(b) ELSE ReadVarint(b)

WriteVarintAt(data, n, off, second) ==
  IF ~IsSafeInteger(n) \/ ~Inside(data, off, IF second THEN SizeVarint2(n) ELSE SizeVarint(n)) THEN Unwritten(data)
  ELSE Left(data, off, IF second THEN WriteVarint2(n) ELSE WriteVarint(n))

-----------------------------------------------------------------------------
(* Bytes; a string is the bytes of its encoding.                           *)

SliceBytes(data, off, size) == IF Inside(data, off, size) THEN Got(From(data, off, size)) ELSE Refused
ReadBytes(data, off, size) == SliceBytes(data, off, size)
ReadString(data, off, size) == SliceBytes(data, off, size)

WriteBytes(data, value, off) ==
  IF Inside(data, off, Len(value)) THEN [Left(data, off, value) EXCEPT !.next = Len(value)] ELSE Unwritten(data)

\* An empty string may be written beyond the end.
WriteString(data, str, off) ==
  IF str = <<>> /\ off >= 0 THEN [Unwritten(data) EXCEPT !.ok = TRUE] ELSE WriteBytes(data, str, off)

\* A longer copy ends in whatever was in memory.
Realloc(data, size, garbage) == Put([i \in 1 .. size |-> garbage], 0, data)
Copied(data, garbage) == Realloc(data, Len(data), garbage)
Concatenated(a, b) == a \o b
=============================================================================
