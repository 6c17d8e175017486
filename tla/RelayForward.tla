----------------------------- MODULE RelayForward -----------------------------
(***************************************************************************)
(* One run of the hosted relay: the wallet requests that the HTTP handlers *)
(* forward through it, the run's shared state (in-flight counter, request  *)
(* ids, pending map, bounded channel) and the two tasks that own the two   *)
(* halves of the operator's WebSocket.                                     *)
(*                                                                         *)
(* A step is what a task does between two points where another task may    *)
(* run: an atomic operation, a short mutex section, or the work between    *)
(* two awaits.  The peer of the WebSocket may answer the requests it got   *)
(* in any order, more than once, or never.  How a run is found, expires    *)
(* and is buried is RelayRegistry's subject; here it is registered or not. *)
(***************************************************************************)
EXTENDS Naturals, Sequences, FiniteSets

CONSTANTS
  Forwards,     \* wallet requests, each served by its own handler task
  MaxInflight,  \* RelayConfig::max_inflight
  ChanCap,      \* capacity of the run's frame channel (64 in the code)
  MaxPings      \* bound on the heartbeats of a behaviour

ASSUME RelayForwardAssumption ==
  /\ IsFiniteSet(Forwards)
  /\ MaxInflight \in Nat
  /\ ChanCap \in Nat \ {0}
  /\ MaxPings \in Nat

VARIABLES
  pc,          \* where each handler stands
  answer,      \* what each wallet was answered
  seen,        \* the counter value each handler's CAS loop last read
  reqId,       \* the request id each handler drew, 0 before it does
  slot,        \* what each handler's oneshot channel holds
  inflight,    \* Run::inflight
  nextReqId,   \* Run::next_req_id
  pending,     \* Run::pending, as pairs of a request id and its handler
  chan,        \* the frames queued in Run::tx
  registered,  \* the registry still holds the run
  stalePong,   \* the last pong is more than 35 seconds old
  pings,       \* heartbeats sent
  writer,      \* the task running writer_loop, owner of the receiving end
  reader,      \* the task running reader_loop
  tunnel,      \* the task running handle_socket
  received     \* external: request ids that reached the peer

handlers == <<pc, answer, seen, reqId, slot>>
run == <<inflight, nextReqId, pending, chan>>
tasks == <<stalePong, pings, writer, reader, tunnel>>
vars == <<pc, answer, seen, reqId, slot, inflight, nextReqId, pending, chan,
          registered, stalePong, pings, writer, reader, tunnel, received>>

-------------------------------------------------------------------------------
(* Types *)

\* The handler holds its InflightGuard.
HoldingPCs == {"headers", "register", "send", "wait", "send_failed", "timed_out"}

\* The handler is suspended at an await, where its future may be dropped.
SuspendedPCs == {"lookup", "register", "send", "wait", "send_failed", "timed_out"}

PCs == HoldingPCs \cup {"lookup", "acquire", "cas", "done", "dropped"}

\* Answers given before a slot is taken, answers the relay makes up while it
\* holds one, and replies of the local serve.
Refusals == {"invalid", "gone", "busy"}
Failures == {"bad_headers", "tunnel_closed", "timeout"}
Replies == {"response", "error"}
Answers == {"none"} \cup Refusals \cup Failures \cup Replies

EmptySlot == [kind |-> "empty", id |-> 0]
ReqFrame(id) == [kind |-> "http_request", id |-> id]
CloseFrame == [kind |-> "close", id |-> 0]

Holders == {f \in Forwards : pc[f] \in HoldingPCs}

TypeOK ==
  /\ pc \in [Forwards -> PCs]
  /\ answer \in [Forwards -> Answers]
  /\ seen \in [Forwards -> Nat]
  /\ reqId \in [Forwards -> Nat]
  /\ slot \in [Forwards -> {EmptySlot} \cup [kind : Replies, id : Nat]]
  /\ inflight \in Nat
  /\ nextReqId \in Nat \ {0}
  /\ pending \subseteq Nat \X Forwards
  /\ chan \in Seq([kind : {"http_request", "close"}, id : Nat])
  /\ registered \in BOOLEAN
  /\ stalePong \in BOOLEAN
  /\ pings \in Nat
  /\ writer \in {"running", "ended"}
  /\ reader \in {"running", "ended"}
  /\ tunnel \in {"up", "down"}
  /\ received \subseteq Nat

Init ==
  /\ pc = [f \in Forwards |-> "lookup"]
  /\ answer = [f \in Forwards |-> "none"]
  /\ seen = [f \in Forwards |-> 0]
  /\ reqId = [f \in Forwards |-> 0]
  /\ slot = [f \in Forwards |-> EmptySlot]
  /\ inflight = 0
  /\ nextReqId = 1
  /\ pending = {}
  /\ chan = <<>>
  /\ registered = TRUE
  /\ stalePong = FALSE
  /\ pings = 0
  /\ writer = "running"
  /\ reader = "running"
  /\ tunnel = "up"
  /\ received = {}

-------------------------------------------------------------------------------
(* Helpers *)

\* InflightGuard::drop
Release == inflight' = inflight - 1

Goto(f, from, to) ==
  /\ pc[f] = from
  /\ pc' = [pc EXCEPT ![f] = to]

Finish(f, a) ==
  /\ pc' = [pc EXCEPT ![f] = "done"]
  /\ answer' = [answer EXCEPT ![f] = a]

\* Run::remove_pending
Without(id) == {p \in pending : p[1] # id}

\* mpsc::Sender::try_send of a Close frame: lost when the channel is full or
\* its receiver is gone.
TryClose ==
  IF writer = "running" /\ Len(chan) < ChanCap
  THEN chan' = Append(chan, CloseFrame)
  ELSE UNCHANGED chan

\* When the writer task ends its receiver is dropped with the queued frames.
EndWriter ==
  /\ writer' = "ended"
  /\ chan' = <<>>

-------------------------------------------------------------------------------
(* The handler of a wallet request *)

\* The rate limit, the session segment, the query and the body are checked
\* before the run is looked up.
RefuseInvalid(f) ==
  /\ pc[f] = "lookup"
  /\ Finish(f, "invalid")
  /\ UNCHANGED <<seen, reqId, slot, run, registered, tasks, received>>

LookupGone(f) ==
  /\ pc[f] = "lookup"
  /\ ~registered
  /\ Finish(f, "gone")
  /\ UNCHANGED <<seen, reqId, slot, run, registered, tasks, received>>

LookupActive(f) ==
  /\ registered
  /\ Goto(f, "lookup", "acquire")
  /\ UNCHANGED <<answer, seen, reqId, slot, run, registered, tasks, received>>

\* Run::try_acquire loads the counter once and then loops on compare_exchange.
LoadInflight(f) ==
  /\ Goto(f, "acquire", "cas")
  /\ seen' = [seen EXCEPT ![f] = inflight]
  /\ UNCHANGED <<answer, reqId, slot, run, registered, tasks, received>>

AcquireFull(f) ==
  /\ pc[f] = "cas"
  /\ seen[f] >= MaxInflight
  /\ Finish(f, "busy")
  /\ UNCHANGED <<seen, reqId, slot, run, registered, tasks, received>>

\* Mutant: the limit is off by one.
AcquireSlot_OffByOne(f) ==
  /\ Goto(f, "cas", "headers")
  /\ seen[f] <= MaxInflight
  /\ inflight = seen[f]
  /\ inflight' = seen[f] + 1
  /\ UNCHANGED <<answer, seen, reqId, slot, nextReqId, pending, chan,
                 registered, tasks, received>>

AcquireSlot(f) ==
  /\ Goto(f, "cas", "headers")
  /\ seen[f] < MaxInflight
  /\ inflight = seen[f]
  /\ inflight' = seen[f] + 1
  /\ UNCHANGED <<answer, seen, reqId, slot, nextReqId, pending, chan,
                 registered, tasks, received>>

AcquireRetry(f) ==
  /\ pc[f] = "cas"
  /\ seen[f] < MaxInflight
  /\ inflight # seen[f]
  /\ seen' = [seen EXCEPT ![f] = inflight]
  /\ UNCHANGED <<pc, answer, reqId, slot, run, registered, tasks, received>>

\* Mutant: the early return for bad headers keeps the slot.
RejectHeaders_KeepsSlot(f) ==
  /\ pc[f] = "headers"
  /\ Finish(f, "bad_headers")
  /\ UNCHANGED <<seen, reqId, slot, run, registered, tasks, received>>

RejectHeaders(f) ==
  /\ pc[f] = "headers"
  /\ Finish(f, "bad_headers")
  /\ Release
  /\ UNCHANGED <<seen, reqId, slot, nextReqId, pending, chan, registered, tasks,
                 received>>

TakeReqId(f) ==
  /\ Goto(f, "headers", "register")
  /\ reqId' = [reqId EXCEPT ![f] = nextReqId]
  /\ nextReqId' = nextReqId + 1
  /\ UNCHANGED <<answer, seen, slot, inflight, pending, chan, registered, tasks,
                 received>>

\* Run::register_pending
RegisterPending(f) ==
  /\ Goto(f, "register", "send")
  /\ pending' = Without(reqId[f]) \cup {<<reqId[f], f>>}
  /\ UNCHANGED <<answer, seen, reqId, slot, inflight, nextReqId, chan,
                 registered, tasks, received>>

\* The send waits, without a time limit, while the channel is full.
SendFrame(f) ==
  /\ Goto(f, "send", "wait")
  /\ writer = "running"
  /\ Len(chan) < ChanCap
  /\ chan' = Append(chan, ReqFrame(reqId[f]))
  /\ UNCHANGED <<answer, seen, reqId, slot, inflight, nextReqId, pending,
                 registered, tasks, received>>

SendFails(f) ==
  /\ Goto(f, "send", "send_failed")
  /\ writer = "ended"
  /\ UNCHANGED <<answer, seen, reqId, slot, run, registered, tasks, received>>

AnswerTunnelClosed(f) ==
  /\ pc[f] = "send_failed"
  /\ pending' = Without(reqId[f])
  /\ Finish(f, "tunnel_closed")
  /\ Release
  /\ UNCHANGED <<seen, reqId, slot, nextReqId, chan, registered, tasks, received>>

AnswerReply(f) ==
  /\ pc[f] = "wait"
  /\ slot[f] # EmptySlot
  /\ Finish(f, slot[f].kind)
  /\ Release
  /\ UNCHANGED <<seen, reqId, slot, nextReqId, pending, chan, registered, tasks,
                 received>>

\* Mutant: the timer is cancelled with the run.
TimeOut_WhileRegistered(f) ==
  /\ slot[f] = EmptySlot
  /\ registered
  /\ Goto(f, "wait", "timed_out")
  /\ UNCHANGED <<answer, seen, reqId, slot, run, registered, tasks, received>>

\* tokio's timeout polls the oneshot before its own timer.
TimeOut(f) ==
  /\ slot[f] = EmptySlot
  /\ Goto(f, "wait", "timed_out")
  /\ UNCHANGED <<answer, seen, reqId, slot, run, registered, tasks, received>>

AnswerTimeout(f) ==
  /\ pc[f] = "timed_out"
  /\ pending' = Without(reqId[f])
  /\ Finish(f, "timeout")
  /\ Release
  /\ UNCHANGED <<seen, reqId, slot, nextReqId, chan, registered, tasks, received>>

\* Mutant: a guard is dropped by handlers that hold none.
HangUp_AlwaysReleases(f) ==
  /\ pc[f] \in SuspendedPCs
  /\ pc' = [pc EXCEPT ![f] = "dropped"]
  /\ Release
  /\ UNCHANGED <<answer, seen, reqId, slot, nextReqId, pending, chan,
                 registered, tasks, received>>

\* The wallet hangs up and the server drops the handler's future: the guard
\* is dropped with it, the entry in the pending map stays.
HangUp(f) ==
  /\ pc[f] \in SuspendedPCs
  /\ pc' = [pc EXCEPT ![f] = "dropped"]
  /\ IF pc[f] \in HoldingPCs THEN Release ELSE UNCHANGED inflight
  /\ UNCHANGED <<answer, seen, reqId, slot, nextReqId, pending, chan,
                 registered, tasks, received>>

Handler(f) ==
  \/ RefuseInvalid(f) \/ LookupGone(f) \/ LookupActive(f)
  \/ LoadInflight(f) \/ AcquireFull(f) \/ AcquireSlot(f) \/ AcquireRetry(f)
  \/ RejectHeaders(f) \/ TakeReqId(f) \/ RegisterPending(f)
  \/ SendFrame(f) \/ SendFails(f) \/ AnswerTunnelClosed(f)
  \/ AnswerReply(f) \/ TimeOut(f) \/ AnswerTimeout(f)

-------------------------------------------------------------------------------
(* writer_loop *)

WriteRequest ==
  /\ writer = "running"
  /\ chan # <<>>
  /\ Head(chan).kind = "http_request"
  /\ chan' = Tail(chan)
  /\ received' = received \cup {Head(chan).id}
  /\ UNCHANGED <<handlers, inflight, nextReqId, pending, registered, tasks>>

WriteClose ==
  /\ writer = "running"
  /\ chan # <<>>
  /\ Head(chan).kind = "close"
  /\ EndWriter
  /\ UNCHANGED <<handlers, inflight, nextReqId, pending, registered, stalePong,
                 pings, reader, tunnel, received>>

\* A frame or a ping cannot be sent: the socket is gone.
WriteFails ==
  /\ writer = "running"
  /\ EndWriter
  /\ UNCHANGED <<handlers, inflight, nextReqId, pending, registered, stalePong,
                 pings, reader, tunnel, received>>

\* A heartbeat draws its nonce from the counter of the request ids.
WritePing ==
  /\ writer = "running"
  /\ ~stalePong
  /\ pings < MaxPings
  /\ pings' = pings + 1
  /\ nextReqId' = nextReqId + 1
  /\ UNCHANGED <<handlers, inflight, pending, chan, registered, stalePong,
                 writer, reader, tunnel, received>>

\* Mutant: the heartbeat is watched only while the run is registered.
PongTimeout_WhileRegistered ==
  /\ writer = "running"
  /\ stalePong
  /\ registered
  /\ EndWriter
  /\ UNCHANGED <<handlers, inflight, nextReqId, pending, registered, stalePong,
                 pings, reader, tunnel, received>>

PongTimeout ==
  /\ writer = "running"
  /\ stalePong
  /\ EndWriter
  /\ UNCHANGED <<handlers, inflight, nextReqId, pending, registered, stalePong,
                 pings, reader, tunnel, received>>

-------------------------------------------------------------------------------
(* reader_loop *)

\* Mutant: the reply goes to every handler that waits.
ResolvePending_AnyEntry(id, kind) ==
  /\ pending' = Without(id)
  /\ slot' = [f \in Forwards |->
                IF pc[f] \in {"send", "wait"} /\ slot[f] = EmptySlot
                THEN [kind |-> kind, id |-> id]
                ELSE slot[f]]

\* Run::resolve_pending takes the entry out and sends on its oneshot; the
\* value is lost when the handler no longer listens.
ResolvePending(id, kind) ==
  /\ pending' = Without(id)
  /\ slot' = [f \in Forwards |->
                IF <<id, f>> \in pending /\ pc[f] \in {"send", "wait"}
                THEN [kind |-> kind, id |-> id]
                ELSE slot[f]]

ReadReply(id, kind) ==
  /\ reader = "running"
  /\ ResolvePending(id, kind)
  /\ UNCHANGED <<pc, answer, seen, reqId, inflight, nextReqId, chan, registered,
                 tasks, received>>

ReadTooLarge ==
  /\ reader = "running"
  /\ TryClose
  /\ reader' = "ended"
  /\ UNCHANGED <<handlers, inflight, nextReqId, pending, registered, stalePong,
                 pings, writer, tunnel, received>>

ReadPong ==
  /\ reader = "running"
  /\ stalePong
  /\ stalePong' = FALSE
  /\ UNCHANGED <<handlers, run, registered, pings, writer, reader, tunnel,
                 received>>

\* Bye, a second hello (it resolves id 0, which no request has), a closed or
\* failed socket, a frame that does not parse.
ReadEnd ==
  /\ reader = "running"
  /\ reader' = "ended"
  /\ UNCHANGED <<handlers, run, registered, stalePong, pings, writer, tunnel,
                 received>>

-------------------------------------------------------------------------------
(* The run's end *)

\* RunRegistry::remove
Unregister ==
  IF registered
  THEN registered' = FALSE /\ TryClose
  ELSE UNCHANGED <<registered, chan>>

\* The sweeper finds the run past its expiry.
Expire ==
  /\ registered
  /\ Unregister
  /\ UNCHANGED <<handlers, inflight, nextReqId, pending, tasks, received>>

\* handle_socket's select returns with the first of the two tasks to end.
\* The other one is detached, not aborted.
TunnelEnds ==
  /\ tunnel = "up"
  /\ writer = "ended" \/ reader = "ended"
  /\ tunnel' = "down"
  /\ Unregister
  /\ UNCHANGED <<handlers, inflight, nextReqId, pending, stalePong, pings,
                 writer, reader, received>>

\* Time passes without a pong.
PongAges ==
  /\ ~stalePong
  /\ writer = "running"
  /\ stalePong' = TRUE
  /\ UNCHANGED <<handlers, run, registered, pings, writer, reader, tunnel,
                 received>>

\* The wallets are served or gone and the socket is closed: nothing is left to do.
Over ==
  /\ \A f \in Forwards : pc[f] \in {"done", "dropped"}
  /\ writer = "ended" /\ reader = "ended" /\ tunnel = "down"
  /\ UNCHANGED vars

-------------------------------------------------------------------------------

Next ==
  \/ \E f \in Forwards : Handler(f) \/ HangUp(f)
  \/ \E id \in received, kind \in Replies : ReadReply(id, kind)
  \/ WriteRequest \/ WriteClose \/ WriteFails \/ WritePing \/ PongTimeout
  \/ ReadTooLarge \/ ReadPong \/ ReadEnd
  \/ Expire \/ TunnelEnds \/ PongAges \/ Over

Spec == Init /\ [][Next]_vars

\* The runtime keeps scheduling every task that can run, timers fire, and once
\* nobody reads the socket the last pong grows old.
TaskFairness ==
  /\ \A f \in Forwards : WF_vars(Handler(f))
  /\ WF_vars(TunnelEnds)
  /\ WF_vars(PongTimeout)
  /\ WF_vars(PongAges /\ reader = "ended")

\* The peer keeps reading its socket, so the writer's sends complete.
PeerReads == WF_vars(WriteRequest \/ WriteClose)

FairSpec == Spec /\ TaskFairness /\ PeerReads

\* The peer may stop reading: a send of the writer then never completes.
StalledPeerSpec == Spec /\ TaskFairness

-------------------------------------------------------------------------------
(* Properties *)

\* The in-flight counter of a run is exactly the number of handlers between
\* try_acquire and the drop of their guard, on every path out of the handler.
SlotsAccounted == inflight = Cardinality(Holders)

\* However the CAS loops of concurrent handlers interleave, a run never has
\* more forwards in flight than max_inflight.
InflightBounded == Cardinality(Holders) <= MaxInflight

\* A wallet is answered with the local reply to its own request id, which no
\* other handler of the run drew, and only if the peer got that request.
OwnReply ==
  /\ \A f \in Forwards :
       answer[f] \in Replies => slot[f].id = reqId[f] /\ reqId[f] \in received
  /\ \A f, g \in Forwards : f # g /\ reqId[f] # 0 => reqId[f] # reqId[g]

\* The local serve sees a wallet request at most once: an id is queued once,
\* and never again after the peer got it.
DeliveredOnce ==
  \A i \in DOMAIN chan :
    chan[i].kind = "http_request" =>
      /\ chan[i].id \notin received
      /\ \A j \in DOMAIN chan : chan[j] = chan[i] => i = j

\* An entry outlives its handler in the pending map only when the wallet hung
\* up: every path that answers has taken its own entry out, or the reader has.
NoAnsweredEntry ==
  \A p \in pending : pc[p[2]] \in {"send", "wait", "send_failed", "timed_out", "dropped"}

\* The oneshot of a waiting handler holds a reply, or its sender is still in
\* the pending map: the arm for a dropped sender ("tunnel closed") is dead, and
\* a wallet whose tunnel dies while it waits is answered by the timeout.
SenderAlive ==
  \A f \in Forwards :
    pc[f] \in {"send", "wait"} => slot[f] # EmptySlot \/ <<reqId[f], f>> \in pending

\* A handler that took a slot gives it back: its wallet is answered or gone.
SlotReturned == \A f \in Forwards : (f \in Holders) ~> (f \notin Holders)

\* A handler does not wait forever to hand its request to the tunnel.
ForwardTimesOut == \A f \in Forwards : (pc[f] = "send") ~> (pc[f] # "send")

\* When the reader ends the writer follows, if not by a Close frame then by the
\* pong timeout: no writer is left behind on a socket that nobody reads.
NoOrphanWriter == (reader = "ended") ~> (writer = "ended")

-------------------------------------------------------------------------------
(* The run implements the exchange it promises. *)

\* Where a handler at l that answered a stands in the exchange.
StatusOf(l, a) ==
  CASE l \in HoldingPCs -> "open"
    [] l = "dropped" -> "abandoned"
    [] l = "done" /\ a \in Refusals -> "refused"
    [] l = "done" /\ a \in Failures -> "failed"
    [] l = "done" /\ a \in Replies -> "replied"
    [] OTHER -> "idle"

Exchange == INSTANCE WalletExchange WITH
  status <- [f \in Forwards |-> StatusOf(pc[f], answer[f])],
  delivered <- {f \in Forwards : reqId[f] \in received}

\* Every step of the run maps to a step of the exchange or to a stutter: slots
\* are bounded, and a request is delivered before its reply is passed on.
ImplementsExchange == Exchange!Spec
===============================================================================
