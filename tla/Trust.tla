-------------------------------- MODULE Trust ---------------------------------
(***************************************************************************)
(* What every verifier of the workbench shares: NumericDate claims,        *)
(* certificates, the trust anchors a user supplies, and the key taken from *)
(* the first certificate of a header's x5c.                                *)
(*                                                                         *)
(* Clocks and dates are whole seconds.  A certificate is a record          *)
(*   reads    its base64 and its DER parse                                 *)
(*   id       its identity, which is all a hash of its DER tells           *)
(*   key      its public key                                               *)
(*   point    how that key is encoded: "full", "compressed" or "other"     *)
(*   signer   the key that signed it                                       *)
(*   from, until   its validity                                            *)
(***************************************************************************)
EXTENDS Integers, Sequences

Absent == -1   \* the claim is not there
Garbage == -2  \* the claim is there and is not a number

\* A claim that is present must be a number; a missing one is optional.
Legible(date) == date # Garbage

\* The expiry second is already outside a token's window, its nbf inside.
ExpiredAt(exp, now) == exp \in Nat /\ now >= exp
PrematureAt(nbf, now) == nbf \in Nat /\ now < nbf

-------------------------------------------------------------------------------
(* Certificates and anchors *)

\* Both ends of a certificate's validity are inside it.
CertValidAt(cert, now) == cert.from <= now /\ now <= cert.until

\* A P-256 point in either encoding can check a certificate's signature.
LeafSignedBy(leaf, anchor) ==
  anchor.point \in {"full", "compressed"} /\ leaf.signer = anchor.key

\* One anchor must have signed the leaf, and both be valid: no path is built.
LeafTrustedAt(leaf, anchors, now) ==
  /\ leaf.reads
  /\ \E a \in anchors :
       CertValidAt(leaf, now) /\ CertValidAt(a, now) /\ LeafSignedBy(leaf, a)

\* An anchor file has at least one certificate and every one of them parses.
AnchorsLoad(anchors) == anchors # {} /\ \A a \in anchors : a.reads

-------------------------------------------------------------------------------
(* The key in a header's x5c, and the signer key in a PEM file *)

NoCert == [reads |-> FALSE, id |-> "none", key |-> "none", point |-> "other",
           signer |-> "none", from |-> 0, until |-> 0, selfIssued |-> FALSE]

LeafOf(x5c) == IF x5c = <<>> THEN NoCert ELSE Head(x5c)

\* Only an uncompressed point becomes a JWK.
JwkFromCert(cert) == IF cert.reads /\ cert.point = "full" THEN cert.key ELSE "none"

IssuerKeyFromX5c(x5c) == JwkFromCert(LeafOf(x5c))

\* A PEM of one certificate or of one public key; a bundle is refused.
SignerFromPem(pem) ==
  IF pem.certs = <<>> THEN pem.spki
  ELSE IF Len(pem.certs) = 1 THEN JwkFromCert(Head(pem.certs))
  ELSE "none"
===============================================================================
