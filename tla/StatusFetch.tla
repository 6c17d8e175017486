------------------------------ MODULE StatusFetch -----------------------------
(***************************************************************************)
(* The fetch of a status list from the URI a credential names.  The host   *)
(* is resolved once, every address is vetted, and the client connects to   *)
(* the vetted addresses, follows no redirect and stops at a size.  A URI   *)
(* is a record: its scheme, its host ("domain", "none" or "address") and   *)
(* the address.  An address is a family ("v4", "v6", or "mapped" for a v4  *)
(* address inside v6) and the class of its range.                          *)
(***************************************************************************)
EXTENDS Integers, FiniteSets

CONSTANTS
  Uris,      \* the URIs credentials may name
  Addresses, \* the addresses the resolver may answer with
  MaxBytes,  \* the size of a token that is still read
  Chunks     \* the sizes of the pieces a body arrives in

ASSUME FetchAssumptions == MaxBytes \in Nat /\ Chunks \subseteq Nat

NoAddress == [family |-> "none", class |-> "none"]

VARIABLES
  fetching, \* the stage of the fetch
  uri,      \* the URI
  vetted,   \* the addresses found for its host
  peer,     \* the address the client connected to
  bytes     \* how much of the body was kept

fetchVars == <<fetching, uri, vetted, peer, bytes>>

V4NonPublic == {"loopback", "private", "shared", "link-local", "unspecified",
                "broadcast", "multicast"}
V6NonPublic == {"loopback", "unique-local", "link-local", "unspecified", "multicast"}

\* A v4 address inside a v6 one is judged as the v4 address.
IsNonPublic(ip) == ip.class \in (IF ip.family = "v6" THEN V6NonPublic ELSE V4NonPublic)

ParseUri ==
  /\ fetching = "parse"
  /\ fetching' = IF uri.scheme # "https" \/ uri.host = "none" THEN "failed"
                 ELSE IF uri.host = "domain" THEN "resolve" ELSE "vet"
  /\ vetted' = IF uri.host = "address" THEN {uri.address} ELSE {}
  /\ UNCHANGED <<uri, peer, bytes>>

\* The resolver answers what it likes, and may answer differently next time.
Resolve ==
  /\ fetching = "resolve"
  /\ \/ /\ fetching' = "vet"
        /\ vetted' \in SUBSET Addresses
     \/ fetching' = "failed" /\ vetted' = vetted
  /\ UNCHANGED <<uri, peer, bytes>>

\* Mutant: one public address is enough.
VetOk_Any == \E ip \in vetted : ~IsNonPublic(ip)

\* One address that is not public refuses them all, and so does none.
VetOk == vetted # {} /\ \A ip \in vetted : ~IsNonPublic(ip)

Vet ==
  /\ fetching = "vet"
  /\ fetching' = IF VetOk THEN "connect" ELSE "failed"
  /\ UNCHANGED <<uri, vetted, peer, bytes>>

\* The addresses the client may use: those that were vetted.
Pinned == vetted

Connect ==
  /\ fetching = "connect"
  /\ peer' \in Pinned
  /\ fetching' = "reading"
  /\ UNCHANGED <<uri, vetted, bytes>>

\* A chunk that would pass the limit ends the fetch and is not kept.
ReadChunk ==
  /\ fetching = "reading"
  /\ \E size \in Chunks :
       IF bytes + size > MaxBytes
       THEN fetching' = "failed" /\ bytes' = bytes
       ELSE fetching' = fetching /\ bytes' = bytes + size
  /\ UNCHANGED <<uri, vetted, peer>>

\* A redirect is an answer like any other: its body is taken for the token.
ReadEnd ==
  /\ fetching = "reading"
  /\ fetching' = "fetched"
  /\ UNCHANGED <<uri, vetted, peer, bytes>>

\* An error status, a body that is no text, or ten seconds over.
FetchFails ==
  /\ fetching \in {"connect", "reading"}
  /\ fetching' = "failed"
  /\ UNCHANGED <<uri, vetted, peer, bytes>>

FetchInit ==
  /\ fetching = "parse"
  /\ uri \in Uris
  /\ vetted = {} /\ peer = NoAddress /\ bytes = 0

FetchNext ==
  ParseUri \/ Resolve \/ Vet \/ Connect \/ ReadChunk \/ ReadEnd \/ FetchFails

-------------------------------------------------------------------------------

\* Whatever the credential names and however the resolver answers, the client
\* only ever talks to a public address, over https, and keeps no more than the limit.
FetchStaysPublic ==
  /\ peer # NoAddress => ~IsNonPublic(peer) /\ uri.scheme = "https"
  /\ bytes <= MaxBytes
===============================================================================
