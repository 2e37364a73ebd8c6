----------------------------- MODULE TrustStore -----------------------------
(***************************************************************************)
(* CAStore and verify() of pki/src: which certificates are kept, and what  *)
(* chains of certificates are accepted on account of them.                 *)
(*                                                                         *)
(* A certificate is the record of what is asked of it: the names of its    *)
(* subject and issuer, its key, the key that signed it, the times between  *)
(* which it is valid and its extensions.  Two certificates are the same    *)
(* when their DER is, here when their records are; a signature verifies    *)
(* under the key that made it, and the hash under which the store files a  *)
(* subject is the subject.                                                 *)
(***************************************************************************)
EXTENDS Integers, Sequences, SequencesExt

CONSTANT Supported(_)     \* verifyExtensions(), of the extensions of a certificate

\* A store is a function from the subjects it knows to the certificates they have.
NoCerts == [subject \in {} |-> <<>>]

BySubject(store, subject) == IF subject \in DOMAIN store THEN store[subject] ELSE <<>>

Has(store, cert) == Contains(BySubject(store, cert.subject), cert)

Filed(store, subject, certs) ==
  [s \in DOMAIN store \cup {subject} |-> IF s = subject THEN certs ELSE store[s]]

Add(store, cert) ==
  IF Has(store, cert) THEN store
  ELSE Filed(store, cert.subject, Append(BySubject(store, cert.subject), cert))

AddAll(certs) == FoldLeft(Add, NoCerts, certs)

Without(store, cert) == SelectSeq(BySubject(store, cert.subject), LAMBDA c : c # cert)

\* remove(): the entry of a subject goes with its last certificate.
Delete(store, cert) ==
  IF ~Has(store, cert) THEN store
  ELSE IF Without(store, cert) = <<>> THEN [s \in DOMAIN store \ {cert.subject} |-> store[s]]
  ELSE Filed(store, cert.subject, Without(store, cert))

-----------------------------------------------------------------------------
IsIssuer(cert, parent) == cert.issuer = parent.subject

\* parent.verify(cert), which throws when the parent did not issue it.
VerifiesWith(cert, parent) == IsIssuer(cert, parent) /\ cert.signedBy = parent.key

\* The date of the options as they were given: without one nothing is checked, though
\* verify() has worked out the current date.
VerifyValidity(cert, date) == date = <<>> \/ (cert.notBefore <= date[1] /\ date[1] <= cert.notAfter)

\* The parent is the next of the chain, or any that the store has under the issuer's
\* name, or the certificate itself.
Parents(store, cert, chain) ==
  CASE chain # <<>> -> <<Head(chain)>>
    [] chain = <<>> /\ cert.issuer \in DOMAIN store -> store[cert.issuer]
    [] OTHER -> IF IsIssuer(cert, cert) THEN <<cert>> ELSE <<>>

HasParent(store, cert, chain) == chain # <<>> \/ cert.issuer \in DOMAIN store

Verified(store, cert, chain) ==
  LET parents == Parents(store, cert, chain) IN \E i \in DOMAIN parents : VerifiesWith(cert, parents[i])

\* The bug of taking a certificate that signed itself for its own authority.
VerifyWithParentOrSelf(store, cert, chain) ==
  LET parent == HasParent(store, cert, chain) \/ IsIssuer(cert, cert)
  IN  IF parent /\ ~Verified(store, cert, chain) THEN "signature"
      ELSE IF ~parent /\ ~Has(store, cert) THEN "unknown"
      ELSE "none"

\* Who has no parent but itself must be in the store.
VerifyWithParent(store, cert, chain) ==
  LET parent == HasParent(store, cert, chain)
  IN  IF (parent \/ IsIssuer(cert, cert)) /\ ~Verified(store, cert, chain) THEN "signature"
      ELSE IF ~parent /\ ~Has(store, cert) THEN "unknown"
      ELSE "none"

\* One round of the loop: the checks end at the first that fails.  That the issuer's name
\* is the parent's comes after the signature, which has seen to it.
VerifyOne(store, cert, chain, date) ==
  LET withParent == VerifyWithParent(store, cert, chain)
  IN  CASE ~VerifyValidity(cert, date) -> "expired"
        [] VerifyValidity(cert, date) /\ withParent # "none" -> withParent
        [] VerifyValidity(cert, date) /\ withParent = "none" /\ ~Supported(cert.extensions) -> "unsupported"
        [] OTHER -> "none"

\* What is wrong with each certificate; the callback answers for the errors it forgives,
\* and the first that it does not is thrown.
Verify(store, chain, date, forgiven) ==
  LET error == [i \in DOMAIN chain |-> VerifyOne(store, chain[i], SubSeq(chain, i + 1, Len(chain)), date)]
      thrown == SelectSeq(error, LAMBDA e : e \notin forgiven \cup {"none"})
  IN  IF thrown = <<>> THEN "verified" ELSE Head(thrown)

=============================================================================
