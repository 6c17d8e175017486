---------------------------- MODULE WalletExchange ----------------------------
(***************************************************************************)
(* What one relay run promises to the wallets that call its public URL,    *)
(* without saying how: a wallet request is refused, or it takes one of     *)
(* MaxInflight slots; the local serve behind the tunnel sees a request at  *)
(* most once; and a slot is given back when its request is answered or its *)
(* wallet hangs up.  A wallet only ever gets the local reply to its own    *)
(* request, so such an answer needs the request to have been delivered.    *)
(*                                                                         *)
(* RelayForward and, end to end, Tunnel implement this specification.      *)
(***************************************************************************)
EXTENDS Naturals, FiniteSets

CONSTANTS
  Forwards,    \* the wallet requests made to the run
  MaxInflight  \* forwarded requests the relay admits at once

VARIABLES
  status,    \* where each wallet request stands
  delivered  \* the requests the local serve has seen

vars == <<status, delivered>>

Statuses == {"idle", "open", "refused", "failed", "replied", "abandoned"}

Open == {f \in Forwards : status[f] = "open"}

TypeOK ==
  /\ status \in [Forwards -> Statuses]
  /\ delivered \in SUBSET Forwards

Init ==
  /\ status = [f \in Forwards |-> "idle"]
  /\ delivered = {}

-------------------------------------------------------------------------------

Refuse(f) ==
  /\ status[f] = "idle"
  /\ status' = [status EXCEPT ![f] = "refused"]
  /\ UNCHANGED delivered

Admit(f) ==
  /\ status[f] = "idle"
  /\ Cardinality(Open) < MaxInflight
  /\ status' = [status EXCEPT ![f] = "open"]
  /\ UNCHANGED delivered

\* A request whose wallet has gone, or whose slot timed out, may still be
\* delivered: it was already in the tunnel.  A refused one never is.
Deliver(f) ==
  /\ status[f] \in {"open", "failed", "abandoned"}
  /\ f \notin delivered
  /\ delivered' = delivered \cup {f}
  /\ UNCHANGED status

\* An answer the relay makes up itself: a timeout, a closed tunnel, headers
\* it will not forward.
Fail(f) ==
  /\ status[f] = "open"
  /\ status' = [status EXCEPT ![f] = "failed"]
  /\ UNCHANGED delivered

Reply(f) ==
  /\ status[f] = "open"
  /\ f \in delivered
  /\ status' = [status EXCEPT ![f] = "replied"]
  /\ UNCHANGED delivered

Abandon(f) ==
  /\ status[f] \in {"idle", "open"}
  /\ status' = [status EXCEPT ![f] = "abandoned"]
  /\ UNCHANGED delivered

Next ==
  \E f \in Forwards :
    Refuse(f) \/ Admit(f) \/ Deliver(f) \/ Fail(f) \/ Reply(f) \/ Abandon(f)

Spec == Init /\ [][Next]_vars
===============================================================================
