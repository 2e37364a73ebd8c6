------------------------- MODULE CertificateFormats -------------------------
(***************************************************************************)
(* The sequences of crypto/src/encoding: certificates (x509.ts), requests  *)
(* (pkcs10.ts) and keys (pkcs1, pkcs3, pkcs8, sec1, rfc3279, openssl).     *)
(*                                                                         *)
(* Every class lists its fields three times, in getBodySize(), writeBody() *)
(* and readBody(), and sets their tags in its constructor; the lists agree *)
(* and are given once.  Names of fields are in the comments.               *)
(***************************************************************************)
EXTENDS Asn1

Signed == Plain(Prim("INTEGER"))
Unsigned == Plain(Prim("UNSIGNED"))
Bits == Plain(Prim("BITSTRING"))
Octets == Plain(Prim("OCTSTRING"))
Oid == Plain(Prim("OID"))
Sequence(fields) == Class("SEQUENCE", fields)

-----------------------------------------------------------------------------
(* x509.ts                                                                 *)

\* algorithm, parameters: a NULL parameter is as good as none and is not written.
AlgorithmIdentifier == Sequence(<<Oid, Optional(Plain(AnyType))>>)

\* id, value
Attribute == Sequence(<<Oid, Plain(AnyType)>>)

RDN == Of("SET", Attribute, 1)
RDNSequence == Of("SEQUENCE", RDN, 0)

Time == Choice(<<"UTCTIME", "GENTIME">>)

\* notBefore, notAfter
Validity == Sequence(<<Plain(Time), Plain(Time)>>)

\* algorithm, publicKey
SubjectPublicKeyInfo == Sequence(<<Plain(AlgorithmIdentifier), Bits>>)

\* extnID, critical, extnValue
Extension == Sequence(<<Oid, Optional(Plain(Prim("BOOLEAN"))), Octets>>)
Extensions == Of("SEQUENCE", Extension, 0)

\* version, serialNumber, signature, issuer, validity, subject, subjectPublicKeyInfo,
\* issuerUniqueID, subjectUniqueID, extensions
TBSCertificate ==
  Sequence(<<Optional(Explicit(0, Prim("UNSIGNED"))),
             Signed,
             Plain(AlgorithmIdentifier),
             Plain(RDNSequence),
             Plain(Validity),
             Plain(RDNSequence),
             Plain(SubjectPublicKeyInfo),
             Optional(Implicit(1, Prim("BITSTRING"))),
             Optional(Implicit(2, Prim("BITSTRING"))),
             Optional(Explicit(3, Extensions))>>)

\* tbsCertificate, signatureAlgorithm, signature
Certificate == Sequence(<<Plain(TBSCertificate), Plain(AlgorithmIdentifier), Bits>>)

\* algorithm, with parameters that are not optional, and digest
DigestInfo == Sequence(<<Plain(Sequence(<<Oid, Plain(AnyType)>>)), Octets>>)

-----------------------------------------------------------------------------
(* pkcs10.ts: attributes are written as nothing and read as nothing.       *)

Attributes == Sequence(<<>>)

\* version, subject, subjectPublicKeyInfo, attributes
CertificationRequestInfo ==
  Sequence(<<Signed, Plain(RDNSequence), Plain(SubjectPublicKeyInfo), Optional(Plain(Attributes))>>)

\* certificationRequestInfo, signatureAlgorithm, signature
CertificationRequest ==
  Sequence(<<Plain(CertificationRequestInfo), Plain(AlgorithmIdentifier), Bits>>)

-----------------------------------------------------------------------------
(* Keys.                                                                   *)

\* algorithm, publicKey
PublicKeyInfo == Sequence(<<Plain(AlgorithmIdentifier), Bits>>)

\* version, algorithm, privateKey
PrivateKeyInfo == Sequence(<<Unsigned, Plain(AlgorithmIdentifier), Octets>>)

\* algorithm, data
EncryptedPrivateKeyInfo == Sequence(<<Plain(AlgorithmIdentifier), Octets>>)

\* n, e
RSAPublicKey == Sequence(<<Unsigned, Unsigned>>)

\* version, n, e, d, p, q, dp, dq, qi
RSAPrivateKey == Sequence([i \in 1 .. 9 |-> Unsigned])

\* version, privateKey, namedCurveOID, publicKey
ECPrivateKey ==
  Sequence(<<Unsigned, Octets, Optional(Explicit(0, Prim("OID"))),
             Optional(Explicit(1, Prim("BITSTRING")))>>)

\* r, s
ECDSASignature == Sequence(<<Unsigned, Unsigned>>)

\* p, q, g
DSAParams == Sequence(<<Unsigned, Unsigned, Unsigned>>)

\* y, a bare integer, and r, s
DSAPublicKey == Prim("UNSIGNED")
DSASignature == Sequence(<<Unsigned, Unsigned>>)

\* p, g
DHParams == Sequence(<<Unsigned, Unsigned>>)

\* openssl.ts writes a DSA key with its parameters: y, p, q, g, and version, p, q, g, y, x.
OpensslDSAParams == Sequence([i \in 1 .. 3 |-> Unsigned])
OpensslDSAPublicKey == Sequence([i \in 1 .. 4 |-> Unsigned])
OpensslDSAPrivateKey == Sequence([i \in 1 .. 6 |-> Unsigned])

=============================================================================
