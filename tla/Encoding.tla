------------------------------ MODULE Encoding ------------------------------
(***************************************************************************)
(* The byte formats of bufio/src/encoding.ts: numbers of one to eight      *)
(* bytes in either order, with or without a sign, two kinds of varint, and *)
(* floats.  A buffer is a sequence of bytes, first byte first; what the    *)
(* code reads at (data, off) is here the slice it reads.                   *)
(*                                                                         *)
(* A byte has Base values where the code has 256, and a safe integer       *)
(* SafeHi * Word - 1 at most where the code has 2^21 * 2^32 - 1: the       *)
(* arithmetic of the code, on smaller digits.                              *)
(***************************************************************************)
EXTENDS Integers, Sequences, SequencesExt

CONSTANTS Base,        \* values of a byte: 256 in the code
          SafeHi,      \* high words of a safe integer: 2^21 in the code
          BIG_ENDIAN   \* the host's order

\* SafeHi lies where 2^21 lies: above the high part of 48 bits, below that of 56.
ASSUME EncodingAssumption ==
  /\ Base \in Nat /\ Base % 2 = 0 /\ Base >= 4
  /\ SafeHi \in Nat /\ Base ^ 2 <= SafeHi /\ 2 * SafeHi <= Base ^ 3
  /\ BIG_ENDIAN \in BOOLEAN

Byte == 0 .. Base - 1
Half == Base \div 2
Word == Base ^ 4
MaxSafe == SafeHi * Word - 1

IsSafeInteger(n) == n \in -MaxSafe .. MaxSafe

-----------------------------------------------------------------------------
(* Numbers.  A format is [signed, width, be].                              *)

\* The k low bytes of n, lowest first, in two's complement: what `dst[off] = n`
\* and `n >>>= 8` leave of a number.
Digits(n, k) == [i \in 1 .. k |-> (n \div Base ^ (i - 1)) % Base]

\* (num * HI) | 0: the high word, cut towards zero and not downwards.
HighWord(n) == IF n < 0 THEN -((-n) \div Word) ELSE n \div Word

\* write64, write56: sign and magnitude to two's complement, word by word.
WriteWords(n, k) ==
  LET magnitude == IF n < 0 THEN -n ELSE n
      hi == magnitude \div Word
      lo == magnitude % Word
      words == IF n >= 0 THEN [hi |-> hi, lo |-> lo]
               ELSE IF lo = 0 THEN [hi |-> -hi, lo |-> 0]
               ELSE [hi |-> -hi - 1, lo |-> -lo]
  IN  Digits(words.lo, 4) \o Digits(words.hi, k - 4)

WriteUnsigned(n, k) ==
  IF k >= 7 THEN WriteWords(n, k)
  ELSE IF k >= 5 THEN Digits(n, 4) \o Digits(HighWord(n), k - 4)
  ELSE Digits(n, k)

WriteUnsignedBE(n, k) == Reverse(WriteUnsigned(n, k))

\* Signed numbers are written by the unsigned functions.
WriteSigned(n, k) == WriteUnsigned(n, k)
WriteSignedBE(n, k) == WriteUnsignedBE(n, k)

WriteNumber(format, n) ==
  CASE ~format.signed /\ ~format.be -> WriteUnsigned(n, format.width)
    [] ~format.signed /\ format.be  -> WriteUnsignedBE(n, format.width)
    [] format.signed /\ ~format.be  -> WriteSigned(n, format.width)
    [] format.signed /\ format.be   -> WriteSignedBE(n, format.width)

Low(b) == SubSeq(b, 1, 4)
High(b) == SubSeq(b, 5, Len(b))
Sum(b) == FoldLeft(LAMBDA sum, i : sum + b[i] * Base ^ (i - 1), 0, [i \in 1 .. Len(b) |-> i])

\* `val | ((val & signbit) * ...)`: the sign bit spread over the upper bits.
Signed(n, k) == IF n >= Base ^ k \div 2 THEN n - Base ^ k ELSE n

\* What a read hands back: a value, or an EncodingError.
Got(v) == [ok |-> TRUE, value |-> v]
Refused == [ok |-> FALSE, value |-> 0]

\* The eight byte and the seven byte reads refuse what a double cannot hold.
ReadUnsigned(b) ==
  IF Len(b) >= 7 /\ Sum(High(b)) >= SafeHi THEN Refused ELSE Got(Sum(b))

ReadUnsignedBE(b) == ReadUnsigned(Reverse(b))

IsSafe(hi, lo) ==
  LET magnitude == IF hi >= 0 THEN hi ELSE IF lo = 0 THEN -hi ELSE -hi - 1
  IN  magnitude < SafeHi

ReadSigned(b) ==
  IF Len(b) <= 4 THEN Got(Signed(Sum(b), Len(b)))
  ELSE LET hi == Signed(Sum(High(b)), Len(b) - 4)
           lo == Sum(Low(b))
       IN  IF Len(b) >= 7 /\ ~IsSafe(hi, lo) THEN Refused ELSE Got(hi * Word + lo)

ReadSignedBE(b) == ReadSigned(Reverse(b))

ReadNumber(format, b) ==
  CASE ~format.signed /\ ~format.be -> ReadUnsigned(b)
    [] ~format.signed /\ format.be  -> ReadUnsignedBE(b)
    [] format.signed /\ ~format.be  -> ReadSigned(b)
    [] format.signed /\ format.be   -> ReadSignedBE(b)

-----------------------------------------------------------------------------
(* Buffers.                                                                *)

\* Bytes stored past the end of a buffer are dropped without an error.
Put(m, off, b) == [i \in 1 .. Len(m) |-> IF i - off \in 1 .. Len(b) THEN b[i - off] ELSE m[i]]

\* The numbers that a format holds.
InRange(format, n) ==
  IF format.signed THEN -(Base ^ format.width \div 2) <= n /\ n < Base ^ format.width \div 2
                   ELSE 0 <= n /\ n < Base ^ format.width

\* Negative numbers of five and six bytes lose their high word: a known defect.
Cut(format, n) == format.signed /\ format.width \in {5, 6} /\ n < 0

\* Numbers near MaxSafe are refused as varints of the second kind: a known defect.
TooHigh(n) == n \div Half > (MaxSafe \div Half) - (n % Half)

-----------------------------------------------------------------------------
(* Floats.  A float is known by the bytes the host keeps it in; writing    *)
(* and reading go through them, forwards or backwards.                     *)

WriteFloat(host, be) == IF be = BIG_ENDIAN THEN host ELSE Reverse(host)
ReadFloat(b, be) == IF be = BIG_ENDIAN THEN b ELSE Reverse(b)

-----------------------------------------------------------------------------
(* Varints: a byte, or a mark and two, four or eight bytes.                *)

WriteVarint(n) ==
  CASE n < Base - 3                  -> Digits(n, 1)
    [] n >= Base - 3 /\ n < Base ^ 2 -> <<Base - 3>> \o WriteUnsigned(n, 2)
    [] n >= Base ^ 2 /\ n < Word     -> <<Base - 2>> \o WriteUnsigned(n, 4)
    [] n >= Word                     -> <<Base - 1>> \o WriteUnsigned(n, 8)

SizeVarint(n) ==
  CASE n < Base - 3 -> 1
    [] n >= Base - 3 /\ n < Base ^ 2 -> 3
    [] n >= Base ^ 2 /\ n < Word -> 5
    [] n >= Word -> 9

\* A bug: two bytes are accepted for a number that needs one.
CanonicalFromFive(size, n) == (size = 5 => n >= Base ^ 2) /\ (size = 9 => n >= Word)

\* No longer form than the number needs.
Canonical(size, n) ==
  /\ size = 3 => n >= Base - 3
  /\ size = 5 => n > Base ^ 2 - 1
  /\ size = 9 => n > Word - 1

\* The varint at the head of b, with its size.
ReadVarint(b) ==
  IF b = <<>> THEN Refused @@ [size |-> 0]
  ELSE LET size == CASE b[1] < Base - 3 -> 1 [] b[1] = Base - 3 -> 3
                     [] b[1] = Base - 2 -> 5 [] b[1] = Base - 1 -> 9
           number == IF size > Len(b) THEN Refused
                     ELSE IF size = 1 THEN Got(b[1])
                     ELSE ReadUnsigned(SubSeq(b, 2, size))
       IN  (IF number.ok /\ Canonical(size, number.value) THEN number ELSE Refused) @@ [size |-> size]

(* Varints of the second kind: seven bits to a byte, high ones first, all  *)
(* but the last one marked, and one subtracted for every byte that follows. *)

WriteVarint2(n) ==
  LET marked[m \in Nat] == (IF m < Half THEN <<>> ELSE marked[m \div Half - 1]) \o <<Half + (m % Half)>>
  IN  (IF n < Half THEN <<>> ELSE marked[n \div Half - 1]) \o <<n % Half>>

\* sizeVarint2 counts on its own what writeVarint2 will write.
SizeVarint2(n) ==
  LET size[m \in Nat] == IF m < Half THEN 1 ELSE 1 + size[m \div Half - 1]
  IN  IF n < Half THEN 1 ELSE size[n]

ReadVarint2(b) ==
  LET Stop(i) == Refused @@ [size |-> i]
      from[i \in Nat, num \in Nat] ==
        IF i > Len(b) THEN Stop(i)
        ELSE LET digit == b[i] % Half
                 next == num * Half + digit
             IN  IF num > MaxSafe \div Half - digit THEN Stop(i)
                 ELSE IF b[i] < Half THEN Got(next) @@ [size |-> i]
                 ELSE IF next = MaxSafe THEN Stop(i)
                 ELSE from[i + 1, next + 1]
  IN  from[1, 0]
=============================================================================
