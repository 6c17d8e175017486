---------------------------- MODULE RequestObject -----------------------------
(***************************************************************************)
(* The verifier of signed authorization requests (JAR), which holds the    *)
(* request to the key and the hash of its own x5c leaf, then to anchors    *)
(* and to its validity window.                                             *)
(*                                                                         *)
(* A request is a record                                                   *)
(*   compact, json   three segments with a signature; header and payload   *)
(*   alg             the algorithm its header declares                     *)
(*   x5c             the form of the header ("list", "bare", "absent" or   *)
(*                   "other"); leaf, the certificate in it                 *)
(*   signer, sigForm the key that signed it; "raw" or another encoding     *)
(*   clientId        <<scheme, value>>, or <<>> when it has none           *)
(*   exp, nbf        its window                                            *)
(***************************************************************************)
EXTENDS Trust

JarKinds == {"MalformedJar", "JarAlgUnsupported", "MissingX5c", "UnsupportedKey",
             "JarSignature", "JarClientIdUnbound", "JarClientIdMismatch",
             "UntrustedIssuer", "JarExpired", "JarNotYetValid"}

\* A bare string is read like a list of one; only the base64 is looked at here.
JarLeafRead(r) == r.x5c \in {"list", "bare"} /\ r.leafBase64

JarKeyUsable(r) == r.leaf.reads /\ r.leaf.point \in {"full", "compressed"}

JarSigned(r) == r.sigForm = "raw" /\ r.signer = r.leaf.key

\* The client id must name the leaf the signature was checked with.
LeafBinding(leaf) == <<"x509_hash", leaf.id>>

\* Mutant: any x509_hash client id binds.
ClientIdReject_AnyHash(r) ==
  IF r.clientId = <<>> \/ Head(r.clientId) # "x509_hash" THEN "JarClientIdUnbound" ELSE "ok"

ClientIdReject(r) ==
  IF r.clientId = <<>> \/ Head(r.clientId) # "x509_hash" THEN "JarClientIdUnbound"
  ELSE IF r.clientId # LeafBinding(r.leaf) THEN "JarClientIdMismatch"
  ELSE "ok"

JarWindowReject(r, now) ==
  IF ~Legible(r.exp) \/ ~Legible(r.nbf) THEN "MalformedJar"
  ELSE IF ExpiredAt(r.exp, now) THEN "JarExpired"
  ELSE IF PrematureAt(r.nbf, now) THEN "JarNotYetValid"
  ELSE "ok"

VerifyJar(r, anchors, now) ==
  IF ~r.compact \/ ~r.json                  THEN "MalformedJar"
  ELSE IF r.alg # "ES256"                   THEN "JarAlgUnsupported"
  ELSE IF ~JarLeafRead(r)                   THEN "MissingX5c"
  ELSE IF ~JarKeyUsable(r)                  THEN "UnsupportedKey"
  ELSE IF ~JarSigned(r)                     THEN "JarSignature"
  ELSE IF ClientIdReject(r) # "ok"          THEN ClientIdReject(r)
  ELSE IF anchors # {} /\ ~LeafTrustedAt(r.leaf, anchors, now) THEN "UntrustedIssuer"
  ELSE JarWindowReject(r, now)

-------------------------------------------------------------------------------
(* The command and the trust it reports *)

VerifyRequestCmd(r, anchors, now) ==
  IF anchors # {} /\ ~AnchorsLoad(anchors) THEN "error" ELSE VerifyJar(r, anchors, now)

\* The trust line of an accepted request: an anchored self-issued leaf only
\* pins the anchor's own material, an unanchored one proves self-consistency.
TrustSummary(r, anchors) ==
  IF anchors # {} /\ r.leaf.selfIssued THEN "pinned"
  ELSE IF anchors # {} THEN "anchored"
  ELSE IF r.leaf.selfIssued THEN "selfConsistent"
  ELSE "unanchored"
===============================================================================
