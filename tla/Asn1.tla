-------------------------------- MODULE Asn1 --------------------------------
(***************************************************************************)
(* DER as crypto/src/encoding/asn1.ts writes and reads it: headers, the    *)
(* bodies of the primitive types, and Node.getSize(), write() and read()   *)
(* with their tagging modes and optional fields.                           *)
(*                                                                         *)
(* A type is a record with a kind; "class" types (Sequence and Set) carry  *)
(* their fields, "of" types the type of their items.  A field adds to a    *)
(* type what a Node keeps in its flags.  Data are sequences of bytes, and  *)
(* a reader is what it has not read yet.  A point in time is its civil     *)
(* date, not the seconds since 1970.                                       *)
(*                                                                         *)
(* The assertions spelled expect(...).toBeTruthy() need the test runner's  *)
(* global; the model is the code as the tests run it.                      *)
(***************************************************************************)
EXTENDS Integers, Sequences, FiniteSets, SequencesExt

Universal == 0
Context == 2

\* The number of a type, types.* of the code.
TypeNumber ==
  [BOOLEAN |-> 1, INTEGER |-> 2, UNSIGNED |-> 2, BITSTRING |-> 3, OCTSTRING |-> 4, NULL |-> 5,
   OID |-> 6, ENUM |-> 10, UTF8STRING |-> 12, SEQUENCE |-> 16, SET |-> 17, NUMSTRING |-> 18,
   PRINTSTRING |-> 19, T61STRING |-> 20, IA5STRING |-> 22, UTCTIME |-> 23, GENTIME |-> 24,
   GENSTRING |-> 27]

Strings == {"UTF8STRING", "NUMSTRING", "PRINTSTRING", "T61STRING", "IA5STRING", "GENSTRING"}
Constructed == {TypeNumber.SEQUENCE, TypeNumber.SET}

\* typeToClass(): what Any makes of a number it meets.
KindOf(number) == CHOOSE k \in DOMAIN TypeNumber \ {"UNSIGNED"} : TypeNumber[k] = number
Known(number) == \E k \in DOMAIN TypeNumber : TypeNumber[k] = number

Prim(k) == [kind |-> k]
Class(tag, fields) == [kind |-> "class", tag |-> tag, fields |-> fields]
Of(tag, item, atLeast) == [kind |-> "of", tag |-> tag, item |-> item, atLeast |-> atLeast]
Choice(kinds) == [kind |-> "choice", kinds |-> kinds]
AnyType == [kind |-> "any"]

Plain(t) == [t |-> t, mode |-> "normal", target |-> 0, opt |-> FALSE]
Explicit(n, t) == [t |-> t, mode |-> "explicit", target |-> n, opt |-> FALSE]
Implicit(n, t) == [t |-> t, mode |-> "implicit", target |-> n, opt |-> FALSE]
Optional(f) == [f EXCEPT !.opt = TRUE]

\* Reading gives a value and what is left, or fails.
Failed == [ok |-> FALSE]
Got(v, rest) == [ok |-> TRUE, v |-> v, rest |-> rest]

\* What was read before the others, and what was read of a part of which rest is left.
Before(first, others) ==
  IF first.ok /\ others.ok THEN Got(<<first.v>> \o others.v, others.rest) ELSE Failed
Then(read, rest) == IF read.ok THEN Got(read.v, rest) ELSE Failed

From(b, i) == SubSeq(b, i, Len(b))

-----------------------------------------------------------------------------
(* Headers.                                                                *)

MaxSize == 256 * 256 * 256 - 1

\* The bug of a limit taken for one more.
SizeHeaderShort(size) ==
  CASE size <= 128   -> 2
    [] size \in 129 .. 255 -> 3
    [] size \in 256 .. 65535 -> 4
    [] size > 65535  -> 5

SizeHeader(size) ==
  CASE size <= 127   -> 2
    [] size \in 128 .. 255 -> 3
    [] size \in 256 .. 65535 -> 4
    [] size > 65535  -> 5

WriteSize(size) ==
  CASE size <= 127   -> <<size>>
    [] size \in 128 .. 255 -> <<129, size>>
    [] size \in 256 .. 65535 -> <<130, size \div 256, size % 256>>
    [] size > 65535  -> <<131, size \div 65536, (size \div 256) % 256, size % 256>>

WriteHeader(type, cls, primitive, size) ==
  <<type + (IF primitive THEN 0 ELSE 32) + 64 * cls>> \o WriteSize(size)

\* A length of n bytes; -1 once the code has thrown.  The model counts no further than
\* MaxSize + 1, which no buffer of the model reaches and the next byte refuses.
LongSize(digits) ==
  FoldLeft(LAMBDA len, ch : IF len = -1 \/ len > MaxSize \/ (len = 0 /\ ch = 0) THEN -1
                            ELSE IF len * 256 + ch > MaxSize THEN MaxSize + 1 ELSE len * 256 + ch,
           0, digits)

\* Lengths that fit in one byte are taken in the long form too.
ReadSizeLoose(b) ==
  IF b = <<>> THEN Failed
  ELSE LET n == b[1] % 128 IN
    IF b[1] < 128 THEN Got(n, Tail(b))
    ELSE IF n = 0 \/ Len(b) <= n THEN Failed
    ELSE LET len == LongSize(SubSeq(b, 2, n + 1)) IN
         IF len = -1 THEN Failed ELSE Got(len, From(b, n + 2))

ReadSize(b) ==
  IF b = <<>> THEN Failed
  ELSE LET n == b[1] % 128 IN
    IF b[1] < 128 THEN Got(n, Tail(b))
    ELSE IF n = 0 \/ Len(b) <= n THEN Failed
    ELSE LET len == LongSize(SubSeq(b, 2, n + 1)) IN
         IF len < 128 THEN Failed ELSE Got(len, From(b, n + 2))

\* Base 128, five bytes at most and 32 bits at most.
WriteBase128(n) ==
  LET width == CHOOSE w \in 1 .. 5 : n < 128^w /\ (w > 1 => n >= 128^(w - 1))
  IN  [i \in 1 .. width |-> ((n \div 128^(width - i)) % 128) + (IF i = width THEN 0 ELSE 128)]

SizeBase128(n) == Len(WriteBase128(n))

ReadBase128(b) ==
  LET ends == {i \in DOMAIN b : i <= 5 /\ b[i] < 128 /\ \A j \in 1 .. i - 1 : b[j] >= 128}
  IN  IF ends = {} THEN Failed
      ELSE LET last == CHOOSE i \in ends : TRUE
           IN  Got(FoldLeft(LAMBDA num, x : num * 128 + (x % 128), 0, SubSeq(b, 1, last)),
                   From(b, last + 1))

HighNumber(high) == IF high.ok /\ high.v >= 31 THEN high ELSE Failed

HeaderOf(first, type, size) ==
  IF ~size.ok THEN Failed
  ELSE Got([type |-> type.v, cls |-> first \div 64, primitive |-> (first \div 32) % 2 = 0,
            size |-> size.v], size.rest)

ReadHeader(b) ==
  IF b = <<>> THEN Failed
  ELSE LET short == b[1] % 32
           type == IF short < 31 THEN Got(short, Tail(b)) ELSE HighNumber(ReadBase128(Tail(b)))
       IN  HeaderOf(b[1], type, IF type.ok /\ b[1] \div 64 \in {Universal, Context}
                                THEN ReadSize(type.rest) ELSE Failed)

-----------------------------------------------------------------------------
(* Bodies of the primitive types.                                          *)

Zero == <<0>>

\* trimLeft(): no leading zeroes, at least one byte.
Trim(b) ==
  IF \A i \in DOMAIN b : b[i] = 0 THEN Zero
  ELSE From(b, CHOOSE i \in DOMAIN b : b[i] # 0 /\ \A j \in 1 .. i - 1 : b[j] = 0)

\* twosComplement(): the bytes after the last that is not zero stay zero.
TwosComplement(b) ==
  [i \in DOMAIN b |->
     IF \A j \in i + 1 .. Len(b) : b[j] = 0 THEN (256 - b[i]) % 256 ELSE 255 - b[i]]

\* An Integer is a magnitude and a sign.
IntegerBody(v) ==
  LET b == v.mag
      more == \E i \in 2 .. Len(b) : b[i] # 0
  IN  CASE b = <<>>                    -> Zero
        [] b # <<>> /\ ~v.neg          -> (IF b[1] > 127 THEN Zero ELSE <<>>) \o b
        [] b # <<>> /\ v.neg /\ (b[1] > 128 \/ (b[1] = 128 /\ more))
                                       -> <<255>> \o TwosComplement(b)
        [] b # <<>> /\ v.neg /\ b[1] = 128 /\ ~more -> b
        [] b # <<>> /\ v.neg /\ b[1] < 128 -> TwosComplement(b)

ReadInteger(p) ==
  LET neg == p[1] >= 128
      more == \E i \in 2 .. Len(p) : p[i] # 0
      pad == p[1] = 0 \/ (p[1] = 255 /\ more)
      q == IF pad THEN Tail(p) ELSE p
  IN  CASE p = <<>>     -> Failed
        [] Len(p) = 1   -> Got([mag |-> IF neg THEN <<256 - p[1]>> ELSE p, neg |-> neg], <<>>)
        [] Len(p) > 1   ->
             IF (p[1] = 0 /\ p[2] < 128) \/ (p[1] = 255 /\ p[2] >= 128) THEN Failed
             ELSE Got([mag |-> Trim(IF neg THEN TwosComplement(q) ELSE q), neg |-> neg], <<>>)

BitStringBody(v) == <<(8 - (v.bits % 8)) % 8>> \o v.bytes

ReadBitString(p) ==
  IF p = <<>> \/ p[1] > 7 \/ (Len(p) = 1 /\ p[1] > 0) \/ p[Len(p)] % 2^(p[1]) # 0 THEN Failed
  ELSE Got([bits |-> (Len(p) - 1) * 8 - p[1], bytes |-> Tail(p)], <<>>)

OIDNumbers(v) == <<v[1] * 40 + v[2]>> \o From(v, 3)
OIDBody(v) == FlattenSeq([i \in DOMAIN OIDNumbers(v) |-> WriteBase128(OIDNumbers(v)[i])])

RECURSIVE ReadNumbers(_)
ReadNumbers(p) ==
  IF p = <<>> THEN Got(<<>>, <<>>)
  ELSE LET first == ReadBase128(p) IN Before(first, ReadNumbers(first.rest))

\* The first number holds the first two of the identifier.
OIDOf(numbers) ==
  LET n == numbers.v[1]
  IN  IF ~numbers.ok THEN Failed
      ELSE Got((IF n < 80 THEN <<n \div 40, n % 40>> ELSE <<2, n - 80>>) \o Tail(numbers.v), <<>>)

ReadOID(p) == IF p = <<>> THEN Failed ELSE OIDOf(ReadNumbers(p))

\* The characters a string of a kind may have when it is read; writing checks nothing.
Digits == 48 .. 57
PrintChars == Digits \cup 65 .. 90 \cup 97 .. 122 \cup {32, 38, 39, 40, 41, 42, 43, 44, 45, 46, 47, 58, 61, 63}
CharsOf(kind) ==
  CASE kind = "NUMSTRING"   -> Digits \cup {32}
    [] kind = "PRINTSTRING" -> PrintChars
    [] kind = "IA5STRING"   -> 0 .. 127
    [] OTHER                -> 0 .. 255

-----------------------------------------------------------------------------
(* Times.                                                                  *)

Two(n) == <<48 + (n \div 10), 48 + (n % 10)>>
Year(y) == IF y >= 1000 THEN Two(y \div 100) \o Two(y % 100) ELSE Tail(Two(y \div 100) \o Two(y % 100))

\* serializeOffset() of an offset in minutes.
Zone(offset) ==
  IF offset = 0 THEN <<90>>
  ELSE LET m == IF offset < 0 THEN -offset ELSE offset
       IN  <<IF offset < 0 THEN 45 ELSE 43>> \o Two(m \div 60) \o Two(m % 60)

TimeBody(kind, v) ==
  (IF kind = "UTCTIME" THEN Two(v.year % 100) ELSE Year(v.year))
    \o Two(v.mon) \o Two(v.day) \o Two(v.hour) \o Two(v.min) \o Two(v.sec) \o Zone(v.offset)

TimeSize(kind, v) == (IF kind = "UTCTIME" THEN 13 ELSE 15) + (IF v.offset = 0 THEN 0 ELSE 4)

AllDigits(s) == \A i \in DOMAIN s : s[i] \in Digits
Number(s) == FoldLeft(LAMBDA n, c : n * 10 + c - 48, 0, s)

\* parseOffset().
ReadZone(z) ==
  LET m == Number(SubSeq(z, 2, 3)) * 60 + Number(SubSeq(z, 4, 5))
      offset == IF z[1] = 45 THEN -m ELSE m
  IN  CASE z = <<90>> -> Got(0, <<>>)
        [] z # <<90>> /\ Len(z) = 5 /\ z[1] \in {43, 45} /\ AllDigits(Tail(z))
                      /\ offset >= -720 /\ offset <= 840 -> Got(offset, <<>>)
        [] OTHER      -> Failed

\* Date.UTC(): years below 100 are of the 20th century, and days past the month's end
\* belong to the next month; toSeconds() lets day 32 through.
Leap(y) == y % 4 = 0 /\ (y % 100 # 0 \/ y % 400 = 0)
MonthLength(y, m) ==
  IF m = 2 THEN (IF Leap(y) THEN 29 ELSE 28) ELSE IF m \in {4, 6, 9, 11} THEN 30 ELSE 31
Date(y, m, d) ==
  LET over == d > MonthLength(y, m)
  IN  [year |-> IF over /\ m = 12 THEN y + 1 ELSE y,
       mon  |-> IF over THEN (m % 12) + 1 ELSE m,
       day  |-> IF over THEN d - MonthLength(y, m) ELSE d]

FullYear(kind, y) ==
  CASE kind = "UTCTIME" /\ y < 70 -> 2000 + y
    [] kind = "UTCTIME" /\ y >= 70 -> 1900 + y
    [] kind = "GENTIME" -> IF y < 100 THEN 1900 + y ELSE y

\* t is the month, the day, the hour, the minute and the second that were read.
TimeOf(date, t, zone) ==
  IF ~zone.ok \/ date.year > 9999 THEN Failed
  ELSE Got([year |-> date.year, mon |-> date.mon, day |-> date.day, hour |-> t[3],
            min |-> t[4], sec |-> t[5], offset |-> zone.v], <<>>)

TimeIn(year, t, zone) ==
  IF t[1] \notin 1 .. 12 \/ t[2] \notin 1 .. 32 \/ t[3] > 23 \/ t[4] > 59 \/ t[5] > 59 THEN Failed
  ELSE TimeOf(Date(year, t[1], t[2]), t, zone)

ReadTime(kind, p) ==
  LET w == IF kind = "UTCTIME" THEN 2 ELSE 4
  IN  IF Len(p) \notin {w + 11, w + 15} \/ ~AllDigits(SubSeq(p, 1, w + 10)) THEN Failed
      ELSE TimeIn(FullYear(kind, Number(SubSeq(p, 1, w))),
                  [i \in 1 .. 5 |-> Number(SubSeq(p, w + 2 * i - 1, w + 2 * i))],
                  ReadZone(From(p, w + 11)))

Epoch == [year |-> 1970, mon |-> 1, day |-> 1, hour |-> 0, min |-> 0, sec |-> 0, offset |-> 0]

-----------------------------------------------------------------------------
(* Nodes.                                                                  *)

\* The number a type is tagged with; Any and Choice take that of their node.
NumberOf(t, v) ==
  CASE t.kind \in {"class", "of"} -> TypeNumber[t.tag]
    [] t.kind = "choice"          -> TypeNumber[v.kind]
    [] t.kind = "any"             -> TypeNumber[v.kind]
    [] OTHER                      -> TypeNumber[t.kind]

RECURSIVE Default(_)
Default(t) ==
  CASE t.kind = "BOOLEAN"  -> FALSE
    [] t.kind \in {"INTEGER", "UNSIGNED", "ENUM"} -> [mag |-> Zero, neg |-> FALSE]
    [] t.kind = "BITSTRING" -> [bits |-> 0, bytes |-> <<>>]
    [] t.kind = "NULL"     -> "null"
    [] t.kind = "OID"      -> <<0, 0>>
    [] t.kind \in {"UTCTIME", "GENTIME"} -> Epoch
    [] t.kind = "choice"   -> [kind |-> t.kinds[1], v |-> Default(Prim(t.kinds[1]))]
    [] t.kind = "any"      -> [kind |-> "NULL", body |-> <<>>]
    [] t.kind = "class"    -> [i \in DOMAIN t.fields |-> Default(t.fields[i].t)]
    [] t.kind = "of"       -> [i \in 1 .. t.atLeast |-> Default(t.item)]
    [] OTHER               -> <<>>       \* strings, octets, raw sequences and sets

\* clean(): the value an optional node is left out with.
Clean(t, v) == v = Default(t)

RECURSIVE BodySize(_, _), SizeNode(_, _), WriteBody(_, _), WriteNode(_, _)

BodySize(t, v) ==
  CASE t.kind = "BOOLEAN"  -> 1
    [] t.kind \in {"INTEGER", "UNSIGNED", "ENUM"} -> Len(IntegerBody(v))
    [] t.kind = "BITSTRING" -> 1 + Len(v.bytes)
    [] t.kind = "NULL"     -> 0
    [] t.kind = "OID"      -> FoldLeft(LAMBDA n, x : n + SizeBase128(x), 0, OIDNumbers(v))
    [] t.kind \in {"UTCTIME", "GENTIME"} -> TimeSize(t.kind, v)
    [] t.kind = "choice"   -> BodySize(Prim(v.kind), v.v)
    [] t.kind = "any"      -> Len(v.body)
    [] t.kind = "class"    -> FoldLeft(LAMBDA n, i : n + SizeNode(t.fields[i], v[i]), 0,
                                       [i \in DOMAIN t.fields |-> i])
    [] t.kind = "of"       -> FoldLeft(LAMBDA n, x : n + SizeNode(Plain(t.item), x), 0, v)
    [] OTHER               -> Len(v)

SizeNode(f, v) ==
  LET body == BodySize(f.t, v)
      size == SizeHeader(body) + body
  IN  CASE f.opt /\ Clean(f.t, v) -> 0
        [] ~(f.opt /\ Clean(f.t, v)) /\ f.mode = "explicit" -> size + SizeHeader(size)
        [] ~(f.opt /\ Clean(f.t, v)) /\ f.mode # "explicit" -> size

WriteBody(t, v) ==
  CASE t.kind = "BOOLEAN"  -> <<IF v THEN 255 ELSE 0>>
    [] t.kind \in {"INTEGER", "UNSIGNED", "ENUM"} -> IntegerBody(v)
    [] t.kind = "BITSTRING" -> BitStringBody(v)
    [] t.kind = "NULL"     -> <<>>
    [] t.kind = "OID"      -> OIDBody(v)
    [] t.kind \in {"UTCTIME", "GENTIME"} -> TimeBody(t.kind, v)
    [] t.kind = "choice"   -> WriteBody(Prim(v.kind), v.v)
    [] t.kind = "any"      -> v.body
    [] t.kind = "class"    -> FlattenSeq([i \in DOMAIN t.fields |-> WriteNode(t.fields[i], v[i])])
    [] t.kind = "of"       -> FlattenSeq([i \in DOMAIN v |-> WriteNode(Plain(t.item), v[i])])
    [] OTHER               -> v

\* The size in a header is getBodySize(), computed apart from the body.
WriteNode(f, v) ==
  LET body == BodySize(f.t, v)
      number == NumberOf(f.t, v)
      primitive == number \notin Constructed
      inner == WriteHeader(number, Universal, primitive, body)
  IN  CASE f.opt /\ Clean(f.t, v) -> <<>>
        [] ~(f.opt /\ Clean(f.t, v)) /\ f.mode = "normal" -> inner \o WriteBody(f.t, v)
        [] ~(f.opt /\ Clean(f.t, v)) /\ f.mode = "explicit" ->
             WriteHeader(f.target, Context, FALSE, SizeHeader(body) + body) \o inner
               \o WriteBody(f.t, v)
        [] ~(f.opt /\ Clean(f.t, v)) /\ f.mode = "implicit" ->
             WriteHeader(f.target, Context, primitive, body) \o WriteBody(f.t, v)

RECURSIVE ReadBody(_, _), ReadNode(_, _), ReadFields(_, _), ReadItems(_, _)

\* readBody() of a child reader.  Classes do not look at what they leave unread.
ReadBody(t, p) ==
  CASE t.kind = "BOOLEAN" -> IF Len(p) = 1 /\ p[1] \in {0, 255} THEN Got(p[1] = 255, <<>>) ELSE Failed
    [] t.kind \in {"INTEGER", "ENUM"} -> ReadInteger(p)
    [] t.kind = "UNSIGNED" -> IF p # <<>> /\ p[1] < 128 THEN ReadInteger(p) ELSE Failed
    [] t.kind = "BITSTRING" -> ReadBitString(p)
    [] t.kind = "NULL"     -> IF p = <<>> THEN Got("null", <<>>) ELSE Failed
    [] t.kind = "OID"      -> ReadOID(p)
    [] t.kind \in {"UTCTIME", "GENTIME"} -> ReadTime(t.kind, p)
    [] t.kind \in Strings  -> IF \A i \in DOMAIN p : p[i] \in CharsOf(t.kind) THEN Got(p, <<>>) ELSE Failed
    [] t.kind = "class"    -> ReadFields(t.fields, p)
    [] t.kind = "of"       -> ReadItems(t, p)
    [] OTHER               -> Got(p, <<>>)

ReadFields(fields, p) ==
  IF fields = <<>> THEN Got(<<>>, p)
  ELSE LET first == ReadNode(Head(fields), p) IN Before(first, ReadFields(Tail(fields), first.rest))

\* A loop while (br.left()); RDN reads its first item before it looks.
ReadItems(t, p) ==
  IF p = <<>> /\ t.atLeast = 0 THEN Got(<<>>, <<>>)
  ELSE LET first == ReadNode(Plain(t.item), p)
       IN  Before(first, ReadItems([t EXCEPT !.atLeast = 0], first.rest))

\* A header that must announce the class, the form and the number given.
Expects(h, cls, primitive, number) == h.cls = cls /\ h.primitive = primitive /\ h.type = number

\* What a header announces, and what comes after it.
Contents(h) == SubSeq(h.rest, 1, h.v.size)
After(h) == From(h.rest, h.v.size + 1)
Short(h) == h.v.size > Len(h.rest)

\* An optional node that does not match is left as it was, and what was read of it, an
\* explicit tag, stays read.
Unmatched(f, b) == IF f.opt THEN Got(Default(f.t), b) ELSE Failed

\* Node.read() in one of its modes; h is the header of b.
ReadTagged(f, cls, number, b, h) ==
  LET primitive == NumberOf(f.t, Default(f.t)) \notin Constructed
  IN  IF ~h.ok \/ ~Expects(h.v, cls, primitive, number) THEN Unmatched(f, b)
      ELSE IF Short(h) THEN Failed
      ELSE Then(ReadBody(f.t, Contents(h)), After(h))

ReadExplicit(f, b, h) ==
  IF ~h.ok \/ ~Expects(h.v, Context, FALSE, f.target) THEN Unmatched(f, b)
  ELSE IF Short(h) THEN Failed
  ELSE Then(ReadTagged(f, Universal, NumberOf(f.t, Default(f.t)), Contents(h), ReadHeader(Contents(h))),
            After(h))

\* Any.read() looks up the number, whatever its class, and lets the new node read; the
\* model keeps the body it was read from.
AnyOf(t, read) ==
  IF read.ok THEN Got([kind |-> t.kind, body |-> WriteBody(t, read.v)], read.rest) ELSE Failed

ReadAny(f, b, h) ==
  IF ~h.ok THEN Unmatched(f, b)
  ELSE IF ~Known(h.v.type) THEN Failed
  ELSE LET t == Prim(KindOf(h.v.type))
       IN  AnyOf(t, ReadTagged([f EXCEPT !.t = t], Universal, h.v.type, b, h))

\* Choice.read() throws even for an optional node.
ChoiceOf(kind, read) ==
  IF read.ok THEN Got([kind |-> kind, v |-> read.v], read.rest) ELSE Failed

ReadChoice(f, b, h) ==
  LET kinds == {k \in ToSet(f.t.kinds) : TypeNumber[k] = h.v.type}
      kind == CHOOSE k \in kinds : TRUE
  IN  IF ~h.ok THEN Unmatched(f, b)
      ELSE IF kinds = {} THEN Failed
      ELSE ChoiceOf(kind, ReadTagged([f EXCEPT !.t = Prim(kind)], Universal, h.v.type, b, h))

ReadFrom(f, b, h) ==
  CASE f.t.kind = "any"    -> ReadAny(f, b, h)
    [] f.t.kind = "choice" -> ReadChoice(f, b, h)
    [] f.t.kind \notin {"any", "choice"} /\ f.mode = "normal" ->
         ReadTagged(f, Universal, NumberOf(f.t, Default(f.t)), b, h)
    [] f.t.kind \notin {"any", "choice"} /\ f.mode = "implicit" ->
         ReadTagged(f, Context, f.target, b, h)
    [] f.t.kind \notin {"any", "choice"} /\ f.mode = "explicit" -> ReadExplicit(f, b, h)

ReadNode(f, b) == ReadFrom(f, b, ReadHeader(b))

\* Node.decode() and decodeBody(): a whole buffer is read, and what is left is not looked at.
Decode(f, b) == ReadNode(f, b)
DecodeBody(t, p) == ReadBody(t, p)

=============================================================================
