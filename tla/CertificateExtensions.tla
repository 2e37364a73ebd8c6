----------------------- MODULE CertificateExtensions -----------------------
(***************************************************************************)
(* The extensions of a certificate as pki/src/extensions.ts keeps them,    *)
(* and what they are in its DER.  An extension has an id, a number of dots *)
(* that is here the OID, a flag and, by its id, a set of usages, the       *)
(* constraints of an authority or bytes that nobody looks into.            *)
(***************************************************************************)
EXTENDS CertificateFormats

KEY_USAGE == <<2, 5, 29, 15>>
BASIC_CONSTRAINTS == <<2, 5, 29, 19>>

KeyUsage(critical, usages) == [id |-> KEY_USAGE, critical |-> critical, usages |-> usages]
BasicConstraints(critical, ca, maxPathLen) ==
  [id |-> BASIC_CONSTRAINTS, critical |-> critical, ca |-> ca, maxPathLen |-> maxPathLen]
Generic(id, critical, value) == [id |-> id, critical |-> critical, value |-> value]

\* The bit of a usage.  decipherOnly shares that of digitalSignature.
UsageBit ==
  [digitalSignature |-> 0, nonRepudiation |-> 1, keyEncipherment |-> 2, dataEncipherment |-> 3,
   keyAgreement |-> 4, keyCertSign |-> 5, cRLSign |-> 6, encipherOnly |-> 7, decipherOnly |-> 0]
Usages == DOMAIN UsageBit

\* A bit string of seven bits in which setBit() lets the eighth be set too.
UsageString(usages) ==
  LET set == {UsageBit[u] : u \in usages}
  IN  [bits |-> 7, bytes |-> <<FoldSet(LAMBDA i, sum : sum + 2^(7 - i), 0, set)>>]

GetBit(s, i) ==
  i <= s.bits /\ (i \div 8) + 1 \in DOMAIN s.bytes /\ (s.bytes[(i \div 8) + 1] \div 2^(7 - (i % 8))) % 2 = 1

\* A number of up to two bytes as an Integer holds it; no number, an empty sequence.
Magnitude(n) == [mag |-> Trim(<<n \div 256, n % 256>>), neg |-> FALSE]
ToNumber(v) == FoldLeft(LAMBDA n, b : n * 256 + b, 0, v.mag)

\* Writes the flag always and the length when there is one.
WriteConstraints(e) ==
  LET fields == <<Plain(Prim("BOOLEAN"))>> \o [i \in DOMAIN e.maxPathLen |-> Signed]
      values == <<e.ca>> \o [i \in DOMAIN e.maxPathLen |-> Magnitude(e.maxPathLen[i])]
  IN  WriteNode(Plain(Sequence(fields)), values)

\* Reads each of them as long as something is left: the flag, and then the length.
Constraints(ca, len) ==
  IF ca.rest = <<>> THEN Got([ca |-> ca.v, maxPathLen |-> <<>>], <<>>)
  ELSE IF len.ok THEN Got([ca |-> ca.v, maxPathLen |-> <<ToNumber(len.v)>>], <<>>) ELSE Failed

AfterFlag(ca) == IF ca.ok THEN Constraints(ca, Decode(Signed, ca.rest)) ELSE Failed

InSequence(body) ==
  IF ~body.ok THEN Failed
  ELSE AfterFlag(IF body.v = <<>> THEN Got(FALSE, <<>>) ELSE Decode(Plain(Prim("BOOLEAN")), body.v))

ReadConstraints(b) == InSequence(Decode(Plain(Prim("SEQUENCE")), b))

ExtensionValue(e) ==
  CASE e.id = KEY_USAGE         -> WriteNode(Bits, UsageString(e.usages))
    [] e.id = BASIC_CONSTRAINTS -> WriteConstraints(e)
    [] OTHER                    -> e.value

ExtensionsToASN1(exts) == [i \in DOMAIN exts |-> <<exts[i].id, exts[i].critical, ExtensionValue(exts[i])>>]

\* createExtension() of an id and a value, which must not be empty when nobody reads it.
WithUsages(critical, bits) ==
  IF bits.ok THEN Got(KeyUsage(critical, {u \in Usages : GetBit(bits.v, UsageBit[u])}), <<>>) ELSE Failed

WithConstraints(critical, read) ==
  IF read.ok THEN Got(BasicConstraints(critical, read.v.ca, read.v.maxPathLen), <<>>) ELSE Failed

CreateExtension(id, critical, value) ==
  CASE id = KEY_USAGE         -> WithUsages(critical, Decode(Bits, value))
    [] id = BASIC_CONSTRAINTS -> WithConstraints(critical, ReadConstraints(value))
    [] OTHER -> IF value = <<>> THEN Failed ELSE Got(Generic(id, critical, value), <<>>)

Created(made) ==
  IF \E i \in DOMAIN made : ~made[i].ok THEN Failed ELSE Got([i \in DOMAIN made |-> made[i].v], <<>>)

ExtensionsFromASN1(nodes) ==
  Created([i \in DOMAIN nodes |-> CreateExtension(nodes[i][1], nodes[i][2], nodes[i][3])])

\* verifyExtensions(): a critical extension must be one of the two that are understood.
Supported(exts) ==
  \A i \in DOMAIN exts : exts[i].critical => exts[i].id \in {KEY_USAGE, BASIC_CONSTRAINTS}

=============================================================================
