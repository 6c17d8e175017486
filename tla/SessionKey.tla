------------------------------- MODULE SessionKey ------------------------------
(***************************************************************************)
(* What serve promises of a session's response key, whatever its posts do  *)
(* at once: the key is minted once, opens bodies while it is held, and is  *)
(* spent for good before anybody hears how a post ended.  A result is that *)
(* of a post to the session, verified only for a good body that the key    *)
(* opened, and that is what a post is told; who is told that its body is   *)
(* no response opened nothing.                                             *)
(*                                                                         *)
(* ServeSession implements this specification.                             *)
(***************************************************************************)

CONSTANTS
  Sessions,      \* sessions, each with a key of its own
  Posts,         \* the posts that wallets and others make
  Bodies,        \* what a post carries
  SealedBodies,  \* the bodies that are encrypted
  GoodBodies,    \* the bodies that a verifier means to accept
  NoSession,     \* where a post that was not made yet goes to
  NoBody         \* and what it carries

VARIABLES
  key,      \* where the key of each session is
  to,       \* the session of each post
  carries,  \* its body
  opened,   \* the posts whose handler got the key of their session
  result,   \* how each session ended, so far
  told      \* what each post was told

vars == <<key, to, carries, opened, result, told>>

Init ==
  /\ key = [s \in Sessions |-> "none"]
  /\ to = [p \in Posts |-> NoSession]
  /\ carries = [p \in Posts |-> NoBody]
  /\ opened = {}
  /\ result = [s \in Sessions |-> "none"]
  /\ told = [p \in Posts |-> "none"]

Pending(p) == to[p] # NoSession /\ told[p] = "none"

-------------------------------------------------------------------------------

Mint(s) ==
  /\ key[s] = "none"
  /\ key' = [key EXCEPT ![s] = "held"]
  /\ UNCHANGED <<to, carries, opened, result, told>>

Spend(s) ==
  /\ key[s] = "held"
  /\ key' = [key EXCEPT ![s] = "spent"]
  /\ UNCHANGED <<to, carries, opened, result, told>>

Ask(p, s, b) ==
  /\ to[p] = NoSession /\ key[s] # "none"
  /\ to' = [to EXCEPT ![p] = s]
  /\ carries' = [carries EXCEPT ![p] = b]
  /\ UNCHANGED <<key, opened, result, told>>

\* The handler of an encrypted body gets the key while there is one.
Open(p) ==
  /\ Pending(p) /\ carries[p] \in SealedBodies
  /\ key[to[p]] = "held"
  /\ opened' = opened \cup {p}
  /\ UNCHANGED <<key, to, carries, result, told>>

Settle(p, how) ==
  /\ Pending(p)
  /\ how = "verified" => p \in opened /\ carries[p] \in GoodBodies
  /\ result' = [result EXCEPT ![to[p]] = how]
  /\ UNCHANGED <<key, to, carries, opened, told>>

\* A post that is told how it ended has spent the key.
Tell(p, how) ==
  /\ Pending(p)
  /\ how \in {"verified", "rejected"} => result[to[p]] # "none"
  /\ how = "verified" => result[to[p]] = "verified"
  /\ how = "bad_request" => p \notin opened
  /\ key' = [key EXCEPT ![to[p]] = "spent"]
  /\ told' = [told EXCEPT ![p] = how]
  /\ UNCHANGED <<to, carries, opened, result>>

\* An error of the server's own.
Fail(p) ==
  /\ Pending(p)
  /\ told' = [told EXCEPT ![p] = "internal"]
  /\ UNCHANGED <<key, to, carries, opened, result>>

Next ==
  \/ \E s \in Sessions : Mint(s) \/ Spend(s)
  \/ \E p \in Posts, s \in Sessions, b \in Bodies : Ask(p, s, b)
  \/ \E p \in Posts : Open(p) \/ Fail(p)
  \/ \E p \in Posts, how \in {"verified", "rejected"} : Settle(p, how)
  \/ \E p \in Posts, how \in {"verified", "rejected", "bad_request"} : Tell(p, how)

Spec == Init /\ [][Next]_vars
===============================================================================
