-------------------------- MODULE RelayForward_proofs --------------------------
(***************************************************************************)
(* Proofs about RelayForward, for any number of wallet requests, any limit *)
(* on the requests in flight and any capacity of the run's channel.        *)
(***************************************************************************)
EXTENDS RelayForward, TLAPS, FiniteSetTheorems

-------------------------------------------------------------------------------
(* What a step of one handler does to the set of slot holders *)

\* The holders are finitely many, so their cardinality is a number.
LEMMA HoldersFinite ==
  /\ IsFiniteSet(Holders)
  /\ Cardinality(Holders) \in Nat
<1>1. IsFiniteSet(Holders)
  BY RelayForwardAssumption, FS_Subset DEF Holders
<1> QED
  BY <1>1, FS_CardinalityType

\* A handler that takes a slot (try_acquire returns a guard) adds one holder.
LEMMA HolderEnters ==
  ASSUME NEW f \in Forwards, pc \in [Forwards -> PCs], pc[f] \notin HoldingPCs,
         NEW to \in HoldingPCs, pc' = [pc EXCEPT ![f] = to]
  PROVE  Cardinality(Holders') = Cardinality(Holders) + 1
<1>1. f \notin Holders
  BY DEF Holders
<1>2. Holders' = Holders \cup {f}
  BY Zenon DEF Holders
<1> QED
  BY <1>1, <1>2, HoldersFinite, FS_AddElement

\* A handler that drops its guard removes one holder, so there was one.
LEMMA HolderLeaves ==
  ASSUME NEW f \in Forwards, pc \in [Forwards -> PCs], pc[f] \in HoldingPCs,
         NEW to, to \notin HoldingPCs, pc' = [pc EXCEPT ![f] = to]
  PROVE  /\ Cardinality(Holders') = Cardinality(Holders) - 1
         /\ Cardinality(Holders') \in Nat
<1>1. f \in Holders
  BY DEF Holders
<1>2. Holders' = Holders \ {f}
  BY Zenon DEF Holders
<1>3. IsFiniteSet(Holders')
  BY <1>2, HoldersFinite, FS_RemoveElement
<1> QED
  BY <1>1, <1>2, <1>3, HoldersFinite, FS_RemoveElement, FS_CardinalityType

\* Any other step of a handler leaves the holders as they are.
LEMMA HolderStays ==
  ASSUME NEW f \in Forwards, pc \in [Forwards -> PCs], NEW to,
         pc[f] \in HoldingPCs <=> to \in HoldingPCs,
         pc' = [pc EXCEPT ![f] = to]
  PROVE  Holders' = Holders
BY Zenon DEF Holders

-------------------------------------------------------------------------------
(* Types and slots *)

\* Queueing a Close frame, or losing it, keeps the channel in its type.
LEMMA TryCloseType ==
  ASSUME TypeOK, TryClose \/ UNCHANGED chan
  PROVE  chan' \in Seq([kind : {"http_request", "close"}, id : Nat])
<1> DEFINE Frame == [kind : {"http_request", "close"}, id : Nat]
<1>1. CloseFrame \in Frame
  BY DEF CloseFrame
<1>2. chan \in Seq(Frame)
  BY DEF TypeOK
<1> HIDE DEF Frame
<1>3. Append(chan, CloseFrame) \in Seq(Frame)
  BY <1>1, <1>2
<1>4. chan' \in Seq(Frame)
  BY <1>2, <1>3 DEF TryClose
<1> QED
  BY <1>4 DEF Frame

\* Every step keeps the variables in their types, given that the counter of
\* the slots does not wrap below zero: that it never does is SlotsStep.
LEMMA TypeStep ==
  ASSUME TypeOK, [Next]_vars, inflight' \in Nat
  PROVE  TypeOK'
<1> USE DEF TypeOK
<1>1. ASSUME NEW f \in Forwards, Handler(f) \/ HangUp(f)
      PROVE  TypeOK'
  <2> USE DEF PCs, HoldingPCs, Answers, Refusals, Failures, Replies, Finish, Goto
  <2>1. CASE RefuseInvalid(f)
    BY <1>1, <2>1 DEF RefuseInvalid, run, tasks
  <2>2. CASE LookupGone(f)
    BY <1>1, <2>2 DEF LookupGone, run, tasks
  <2>3. CASE LookupActive(f)
    BY <1>1, <2>3 DEF LookupActive, run, tasks
  <2>4. CASE LoadInflight(f)
    BY <1>1, <2>4 DEF LoadInflight, run, tasks
  <2>5. CASE AcquireFull(f)
    BY <1>1, <2>5 DEF AcquireFull, run, tasks
  <2>6. CASE AcquireSlot(f)
    BY <1>1, <2>6 DEF AcquireSlot, tasks
  <2>7. CASE AcquireRetry(f)
    BY <1>1, <2>7 DEF AcquireRetry, run, tasks
  <2>8. CASE RejectHeaders(f)
    BY <1>1, <2>8 DEF RejectHeaders, tasks
  <2>9. CASE TakeReqId(f)
    BY <1>1, <2>9 DEF TakeReqId, tasks
  <2>10. CASE RegisterPending(f)
    BY <1>1, <2>10 DEF RegisterPending, Without, tasks
  <2>11. CASE SendFrame(f)
    BY <1>1, <2>11 DEF SendFrame, ReqFrame, tasks
  <2>12. CASE SendFails(f)
    BY <1>1, <2>12 DEF SendFails, run, tasks
  <2>13. CASE AnswerTunnelClosed(f)
    BY <1>1, <2>13 DEF AnswerTunnelClosed, Without, tasks
  <2>14. CASE AnswerReply(f)
    <3>1. slot[f].kind \in Replies
      BY <1>1, <2>14, slot[f] \in {EmptySlot} \cup [kind : Replies, id : Nat]
      DEF AnswerReply
    <3> QED
      BY <1>1, <2>14, <3>1 DEF AnswerReply, tasks
  <2>15. CASE TimeOut(f)
    BY <1>1, <2>15 DEF TimeOut, run, tasks
  <2>16. CASE AnswerTimeout(f)
    BY <1>1, <2>16 DEF AnswerTimeout, Without, tasks
  <2>17. CASE HangUp(f)
    BY <1>1, <2>17 DEF HangUp, tasks
  <2> QED
    BY <1>1, <2>1, <2>2, <2>3, <2>4, <2>5, <2>6, <2>7, <2>8, <2>9, <2>10, <2>11,
       <2>12, <2>13, <2>14, <2>15, <2>16, <2>17 DEF Handler
<1>2. ASSUME NEW id \in received, NEW kind \in Replies, ReadReply(id, kind)
      PROVE  TypeOK'
  BY <1>2 DEF ReadReply, ResolvePending, Without, Replies, tasks
<1>3. CASE WriteRequest \/ WriteClose \/ WriteFails \/ WritePing \/ PongTimeout
  <2>1. CASE WriteRequest
    <3>1. Head(chan).id \in Nat /\ Tail(chan) \in Seq([kind : {"http_request", "close"}, id : Nat])
      <4> DEFINE Frame == [kind : {"http_request", "close"}, id : Nat]
      <4>1. chan \in Seq(Frame) /\ chan # <<>>
        BY <2>1 DEF WriteRequest
      <4>2. \A fr \in Frame : fr.id \in Nat
        OBVIOUS
      <4> HIDE DEF Frame
      <4>3. Head(chan) \in Frame /\ Tail(chan) \in Seq(Frame)
        BY <4>1
      <4> QED
        BY <4>2, <4>3 DEF Frame
    <3> QED
      BY <1>3, <2>1, <3>1 DEF WriteRequest, handlers, tasks
  <2>2. CASE WriteClose
    BY <1>3, <2>2 DEF WriteClose, EndWriter, handlers
  <2>3. CASE WriteFails
    BY <1>3, <2>3 DEF WriteFails, EndWriter, handlers
  <2>4. CASE WritePing
    BY <1>3, <2>4 DEF WritePing, handlers
  <2>5. CASE PongTimeout
    BY <1>3, <2>5 DEF PongTimeout, EndWriter, handlers
  <2> QED
    BY <1>3, <2>1, <2>2, <2>3, <2>4, <2>5
<1>4. CASE ReadTooLarge \/ ReadPong \/ ReadEnd
  <2>1. CASE ReadTooLarge
    BY <1>4, <2>1, TryCloseType DEF ReadTooLarge, handlers
  <2>2. CASE ReadPong
    BY <1>4, <2>2 DEF ReadPong, handlers, run
  <2>3. CASE ReadEnd
    BY <1>4, <2>3 DEF ReadEnd, handlers, run
  <2> QED
    BY <1>4, <2>1, <2>2, <2>3
<1>5. CASE Expire \/ TunnelEnds
  <2>0. Unregister /\ (TryClose \/ UNCHANGED chan) /\ registered' \in BOOLEAN
    BY <1>5 DEF Expire, TunnelEnds, Unregister
  <2>1. CASE Expire
    BY <1>5, <2>0, <2>1, TryCloseType DEF Expire, handlers, tasks
  <2>2. CASE TunnelEnds
    BY <1>5, <2>0, <2>2, TryCloseType DEF TunnelEnds, handlers
  <2> QED
    BY <1>5, <2>1, <2>2
<1>6. CASE PongAges \/ Over \/ UNCHANGED vars
  BY <1>6 DEF PongAges, Over, vars, handlers, run
<1> QED
  BY <1>1, <1>2, <1>3, <1>4, <1>5, <1>6 DEF Next

\* What is inductive: the counter is the number of holders, and there are never
\* more of them than the limit.  Neither part is inductive without the other:
\* the compare_exchange compares with the counter, not with the holders.
SlotInv == TypeOK /\ SlotsAccounted /\ InflightBounded

LEMMA SlotInit ==
  ASSUME Init
  PROVE  SlotInv
<1>1. TypeOK
  <2>1. chan \in Seq([kind : {"http_request", "close"}, id : Nat])
    BY DEF Init
  <2>2. slot \in [Forwards -> {EmptySlot} \cup [kind : Replies, id : Nat]]
    BY DEF Init
  <2>3. pc \in [Forwards -> PCs] /\ answer \in [Forwards -> Answers]
        /\ seen \in [Forwards -> Nat] /\ reqId \in [Forwards -> Nat]
    BY DEF Init, PCs, Answers
  <2>4. /\ inflight \in Nat /\ nextReqId \in Nat \ {0} /\ pings \in Nat
        /\ writer \in {"running", "ended"} /\ reader \in {"running", "ended"}
        /\ tunnel \in {"up", "down"}
    BY DEF Init
  <2>5. registered \in BOOLEAN /\ stalePong \in BOOLEAN
    BY Zenon DEF Init
  <2>6. pending \subseteq Nat \X Forwards /\ received \subseteq Nat
    BY DEF Init
  <2> QED
    BY <2>1, <2>2, <2>3, <2>4, <2>5, <2>6 DEF TypeOK
<1>2. Holders = {}
  BY DEF Init, Holders, HoldingPCs
<1>3. Cardinality(Holders) = 0
  BY <1>2, FS_EmptySet
<1> QED
  BY <1>1, <1>3, RelayForwardAssumption DEF SlotInv, SlotsAccounted, InflightBounded, Init

LEMMA SlotStep ==
  ASSUME SlotInv, [Next]_vars
  PROVE  SlotInv'
<1>1. TypeOK /\ inflight = Cardinality(Holders) /\ inflight \in Nat
      /\ Cardinality(Holders) <= MaxInflight
  BY DEF SlotInv, SlotsAccounted, InflightBounded, TypeOK
<1> DEFINE Kept == Holders' = Holders /\ inflight' = inflight
           Goal == /\ inflight' = Cardinality(Holders')
                   /\ inflight' \in Nat
                   /\ Cardinality(Holders') <= MaxInflight
<1>2. Kept => Goal
  BY <1>1
<1>21. pc' = pc /\ inflight' = inflight => Goal
  <2>1. pc' = pc => Holders' = Holders
    BY DEF Holders
  <2> QED
    BY <1>2, <2>1
<1> HIDE DEF Goal
<1>3. ASSUME NEW f \in Forwards, Handler(f) \/ HangUp(f)
      PROVE  Goal
  <2>0. pc \in [Forwards -> PCs]
    BY <1>1 DEF TypeOK
  <2>1. ASSUME NEW to, pc[f] \in HoldingPCs <=> to \in HoldingPCs,
               pc' = [pc EXCEPT ![f] = to], inflight' = inflight
        PROVE  Goal
    BY <1>2, <2>0, <2>1, HolderStays DEF Goal
  <2>2. ASSUME NEW to, pc[f] \in HoldingPCs, to \notin HoldingPCs,
               pc' = [pc EXCEPT ![f] = to], Release
        PROVE  Goal
    <3>1. Cardinality(Holders') = Cardinality(Holders) - 1 /\ Cardinality(Holders') \in Nat
      BY <2>0, <2>2, HolderLeaves
    <3> QED
      BY <1>1, <2>2, <3>1, RelayForwardAssumption DEF Release, Goal
  <2>3. CASE RefuseInvalid(f) \/ LookupGone(f) \/ AcquireFull(f)
    BY <2>3, <2>1 DEF RefuseInvalid, LookupGone, AcquireFull, Finish, run, HoldingPCs
  <2>4. CASE LookupActive(f) \/ LoadInflight(f) \/ SendFails(f) \/ TimeOut(f)
    BY <2>4, <2>1 DEF LookupActive, LoadInflight, SendFails, TimeOut, Goto, run, HoldingPCs
  <2>5. CASE TakeReqId(f) \/ RegisterPending(f) \/ SendFrame(f)
    BY <2>5, <2>1 DEF TakeReqId, RegisterPending, SendFrame, Goto, HoldingPCs
  <2>6. CASE AcquireRetry(f)
    BY <2>6, <1>21 DEF AcquireRetry, run
  <2>7. CASE AcquireSlot(f)
    <3>1. Cardinality(Holders') = Cardinality(Holders) + 1
      BY <2>0, <2>7, HolderEnters DEF AcquireSlot, Goto, HoldingPCs
    <3>2. inflight' = inflight + 1 /\ inflight < MaxInflight
      BY <2>7 DEF AcquireSlot
    <3> QED
      BY <1>1, <3>1, <3>2, RelayForwardAssumption DEF Goal
  <2>8. CASE RejectHeaders(f) \/ AnswerTunnelClosed(f) \/ AnswerReply(f) \/ AnswerTimeout(f)
    BY <2>8, <2>2 DEF RejectHeaders, AnswerTunnelClosed, AnswerReply, AnswerTimeout,
                      Finish, HoldingPCs
  <2>9. CASE HangUp(f)
    <3>1. "dropped" \notin HoldingPCs
      BY DEF HoldingPCs
    <3>2. CASE pc[f] \in HoldingPCs
      BY <2>9, <2>2, <3>1, <3>2 DEF HangUp
    <3>3. CASE pc[f] \notin HoldingPCs
      BY <2>9, <2>1, <3>1, <3>3 DEF HangUp
    <3> QED
      BY <3>2, <3>3
  <2> QED
    BY <1>3, <2>3, <2>4, <2>5, <2>6, <2>7, <2>8, <2>9 DEF Handler
<1>4. ASSUME NEW id \in received, NEW kind \in Replies, ReadReply(id, kind)
      PROVE  Goal
  BY <1>21, <1>4 DEF ReadReply
<1>5. ASSUME WriteRequest \/ WriteClose \/ WriteFails \/ WritePing \/ PongTimeout
      PROVE  Goal
  BY <1>21, <1>5 DEF WriteRequest, WriteClose, WriteFails, WritePing, PongTimeout, handlers
<1>6. ASSUME ReadTooLarge \/ ReadPong \/ ReadEnd \/ Expire \/ TunnelEnds \/ PongAges
      PROVE  Goal
  BY <1>21, <1>6 DEF ReadTooLarge, ReadPong, ReadEnd, Expire, TunnelEnds, PongAges,
                     handlers, run
<1>7. ASSUME Over \/ UNCHANGED vars
      PROVE  Goal
  BY <1>21, <1>7 DEF Over, vars
<1>8. Goal
  BY <1>3, <1>4, <1>5, <1>6, <1>7 DEF Next
<1>9. TypeOK'
  BY <1>1, <1>8, TypeStep DEF Goal
<1> QED
  BY <1>8, <1>9 DEF SlotInv, SlotsAccounted, InflightBounded, Goal

LEMMA SlotInvariant == Spec => []SlotInv
<1>1. Init => SlotInv
  BY SlotInit
<1>2. SlotInv /\ [Next]_vars => SlotInv'
  BY SlotStep
<1> QED
  BY <1>1, <1>2, PTL DEF Spec

\* The variables of the run, its handlers and its tasks keep their types; in
\* particular InflightGuard never takes the counter below zero.
THEOREM TypeCorrect == Spec => []TypeOK
<1>1. SlotInv => TypeOK
  BY DEF SlotInv
<1> QED
  BY <1>1, SlotInvariant, PTL

\* The counter of a run is always the number of handlers that hold a guard,
\* whichever of their ways out they take.
THEOREM SlotsAccountedFor == Spec => []SlotsAccounted
<1>1. SlotInv => SlotsAccounted
  BY DEF SlotInv
<1> QED
  BY <1>1, SlotInvariant, PTL

\* A run never has more than max_inflight forwards in flight, however many
\* handlers loop on compare_exchange at once.
THEOREM InflightStaysBounded == Spec => []InflightBounded
<1>1. SlotInv => InflightBounded
  BY DEF SlotInv
<1> QED
  BY <1>1, SlotInvariant, PTL

-------------------------------------------------------------------------------
(* Request ids *)

\* The ids of the requests queued in the run's channel.
QueuedIds == {chan[i].id : i \in {j \in DOMAIN chan : chan[j].kind = "http_request"}}

\* The counter is ahead of every id in use, and 0 stands for none.
IdsDrawn ==
  /\ \A f \in Forwards : reqId[f] < nextReqId
  /\ QueuedIds \cup received \subseteq 1 .. (nextReqId - 1)

\* A handler that has not drawn its id, and one that has and is not done.
UndrawnPCs == {"lookup", "acquire", "cas", "headers"}
DrawnPCs == {"register", "send", "wait", "send_failed", "timed_out"}

\* A handler draws its id once, and no two draw the same.
IdsOwn ==
  \A f \in Forwards :
    /\ pc[f] \in UndrawnPCs => reqId[f] = 0
    /\ pc[f] \in DrawnPCs => reqId[f] # 0
    /\ \A g \in Forwards : f # g /\ reqId[f] # 0 => reqId[f] # reqId[g]

\* An id is on its way to the peer only after its handler queued it.
IdsUnsent ==
  \A f \in Forwards :
    pc[f] \in {"register", "send"} => reqId[f] \notin QueuedIds \cup received

\* An entry of the pending map is filed under its handler's id, and its
\* oneshot is empty.
EntriesOwn ==
  \A p \in pending : p[1] = reqId[p[2]] /\ p[1] # 0 /\ slot[p[2]] = EmptySlot

\* A reply sits only in the oneshot of the handler that drew its id.
SlotsOwn ==
  \A f \in Forwards :
    /\ slot[f] # EmptySlot => slot[f].id = reqId[f] /\ reqId[f] \in received
    /\ answer[f] \in Replies => slot[f] # EmptySlot

\* What is inductive about ids.
IdParts ==
  /\ IdsDrawn /\ IdsOwn /\ IdsUnsent /\ EntriesOwn /\ SlotsOwn
  /\ SenderAlive /\ NoAnsweredEntry

IdInv == TypeOK /\ IdParts /\ DeliveredOnce

\* What a step may do to the channel, and to the ids queued in it.
LEMMA QueueRequest ==
  ASSUME TypeOK, NEW id \in Nat, chan' = Append(chan, ReqFrame(id))
  PROVE  QueuedIds' = QueuedIds \cup {id}
<1> DEFINE Frame == [kind : {"http_request", "close"}, id : Nat]
<1>1. chan \in Seq(Frame)
  BY DEF TypeOK
<1>2. ReqFrame(id) \in Frame
  BY DEF ReqFrame
<1> HIDE DEF Frame
<1>3. /\ DOMAIN chan = 1 .. Len(chan) /\ Len(chan) \in Nat
      /\ DOMAIN chan' = 1 .. (Len(chan) + 1)
      /\ \A i \in DOMAIN chan : chan'[i] = chan[i]
      /\ chan'[Len(chan) + 1] = ReqFrame(id)
  BY <1>1, <1>2
<1>4. QueuedIds' = {chan'[i].id : i \in {j \in DOMAIN chan' : chan'[j].kind = "http_request"}}
  BY DEF QueuedIds
<1>5. ReqFrame(id).kind = "http_request" /\ ReqFrame(id).id = id
  BY DEF ReqFrame
<1>6. ASSUME NEW x \in QueuedIds'
      PROVE  x \in QueuedIds \cup {id}
  BY <1>3, <1>4, <1>5, <1>6 DEF QueuedIds
<1>7. ASSUME NEW x \in QueuedIds \cup {id}
      PROVE  x \in QueuedIds'
  BY <1>3, <1>4, <1>5, <1>7 DEF QueuedIds
<1> QED
  BY <1>6, <1>7

LEMMA QueueClose ==
  ASSUME TypeOK, TryClose
  PROVE  QueuedIds' = QueuedIds
<1> DEFINE Frame == [kind : {"http_request", "close"}, id : Nat]
<1>1. CASE UNCHANGED chan
  BY <1>1 DEF QueuedIds
<1>2. CASE chan' = Append(chan, CloseFrame)
  <2>1. chan \in Seq(Frame)
    BY DEF TypeOK
  <2>2. CloseFrame \in Frame
    BY DEF CloseFrame
  <2> HIDE DEF Frame
  <2>3. /\ DOMAIN chan = 1 .. Len(chan) /\ Len(chan) \in Nat
        /\ DOMAIN chan' = 1 .. (Len(chan) + 1)
        /\ \A i \in DOMAIN chan : chan'[i] = chan[i]
        /\ chan'[Len(chan) + 1] = CloseFrame
    BY <1>2, <2>1, <2>2
  <2>4. QueuedIds' = {chan'[i].id : i \in {j \in DOMAIN chan' : chan'[j].kind = "http_request"}}
    BY DEF QueuedIds
  <2>5. CloseFrame.kind # "http_request"
    BY DEF CloseFrame
  <2>6. ASSUME NEW x \in QueuedIds'
        PROVE  x \in QueuedIds
    BY <2>3, <2>4, <2>5, <2>6 DEF QueuedIds
  <2>7. ASSUME NEW x \in QueuedIds
        PROVE  x \in QueuedIds'
    BY <2>3, <2>4, <2>5, <2>7 DEF QueuedIds
  <2> QED
    BY <2>6, <2>7
<1> QED
  BY <1>1, <1>2 DEF TryClose

LEMMA TakeFrame ==
  ASSUME TypeOK, chan # <<>>, chan' = Tail(chan)
  PROVE  /\ QueuedIds' \subseteq QueuedIds
         /\ Head(chan).kind = "http_request" => Head(chan).id \in QueuedIds
<1> DEFINE Frame == [kind : {"http_request", "close"}, id : Nat]
<1>1. chan \in Seq(Frame)
  BY DEF TypeOK
<1> HIDE DEF Frame
<1>3. /\ DOMAIN chan = 1 .. Len(chan) /\ Len(chan) \in Nat /\ Len(chan) # 0
      /\ DOMAIN chan' = 1 .. (Len(chan) - 1)
      /\ \A i \in DOMAIN chan' : chan'[i] = chan[i + 1]
      /\ Head(chan) = chan[1]
  BY <1>1
<1>4. QueuedIds' = {chan'[i].id : i \in {j \in DOMAIN chan' : chan'[j].kind = "http_request"}}
  BY DEF QueuedIds
<1>5. ASSUME NEW x \in QueuedIds'
      PROVE  x \in QueuedIds
  <2>1. PICK i \in DOMAIN chan' : chan'[i].kind = "http_request" /\ x = chan'[i].id
    BY <1>4, <1>5
  <2>2. i + 1 \in DOMAIN chan /\ chan[i + 1] = chan'[i]
    BY <1>3, <2>1
  <2> QED
    BY <2>1, <2>2 DEF QueuedIds
<1> QED
  BY <1>3, <1>5 DEF QueuedIds

LEMMA DropQueue ==
  ASSUME chan' = <<>>
  PROVE  QueuedIds' = {}
BY DOMAIN chan' = {} DEF QueuedIds

\* No step delivers a request twice or queues it again.
LEMMA DeliveryStep ==
  ASSUME IdInv, [Next]_vars
  PROVE  DeliveredOnce'
<1> DEFINE Frame == [kind : {"http_request", "close"}, id : Nat]
<1>1. chan \in Seq(Frame) /\ DOMAIN chan = 1 .. Len(chan) /\ Len(chan) \in Nat
  BY DEF IdInv, TypeOK
<1>2. \A i \in DOMAIN chan :
        chan[i].kind = "http_request" =>
          /\ chan[i].id \notin received
          /\ \A j \in DOMAIN chan : chan[j] = chan[i] => i = j
  BY DEF IdInv, DeliveredOnce
<1>3. chan' = <<>> => DeliveredOnce'
  BY DEF DeliveredOnce
<1>4. UNCHANGED <<chan, received>> => DeliveredOnce'
  BY <1>2 DEF DeliveredOnce
<1>5. ASSUME NEW fr \in Frame, chan' = Append(chan, fr), received' = received,
             fr.kind = "http_request" => fr.id \notin QueuedIds \cup received
      PROVE  DeliveredOnce'
  <2> HIDE DEF Frame
  <2>1. /\ DOMAIN chan' = 1 .. (Len(chan) + 1)
        /\ \A i \in DOMAIN chan : chan'[i] = chan[i]
        /\ chan'[Len(chan) + 1] = fr
    BY <1>1, <1>5
  <2>2. \A i \in DOMAIN chan : chan[i].kind = "http_request" => chan[i] # fr
    BY <1>5 DEF QueuedIds
  <2>3. ASSUME NEW i \in DOMAIN chan', chan'[i].kind = "http_request",
               NEW j \in DOMAIN chan', chan'[j] = chan'[i]
        PROVE  i = j
    BY <1>1, <1>2, <2>1, <2>2, <2>3
  <2>4. ASSUME NEW i \in DOMAIN chan', chan'[i].kind = "http_request"
        PROVE  chan'[i].id \notin received'
    BY <1>1, <1>2, <1>5, <2>1, <2>4
  <2> QED
    BY <2>3, <2>4 DEF DeliveredOnce
<1>6. CASE WriteRequest
  <2> HIDE DEF Frame
  <2>1. /\ chan # <<>> /\ Len(chan) # 0
        /\ DOMAIN chan' = 1 .. (Len(chan) - 1)
        /\ \A i \in DOMAIN chan' : chan'[i] = chan[i + 1]
        /\ Head(chan) = chan[1] /\ chan[1].kind = "http_request"
        /\ received' = received \cup {chan[1].id}
    BY <1>1, <1>6 DEF WriteRequest
  <2>2. ASSUME NEW i \in DOMAIN chan', chan'[i].kind = "http_request"
        PROVE  /\ chan'[i].id \notin received'
               /\ \A j \in DOMAIN chan' : chan'[j] = chan'[i] => i = j
    <3>1. i + 1 \in DOMAIN chan /\ 1 \in DOMAIN chan /\ i \in Nat \ {0} /\ i + 1 # 1
      BY <1>1, <2>1
    <3>2. chan[i + 1].id \notin received
      BY <1>2, <2>1, <2>2, <3>1
    <3>3. chan[i + 1] # chan[1]
      BY <1>2, <2>1, <2>2, <3>1
    <3>4. chan[i + 1].id # chan[1].id
      <4>1. chan[i + 1] \in Frame /\ chan[1] \in Frame
        BY <1>1, <3>1
      <4>2. chan[i + 1].kind = chan[1].kind
        BY <2>1, <2>2
      <4> QED
        BY <3>3, <4>1, <4>2 DEF Frame
    <3>5. ASSUME NEW j \in DOMAIN chan', chan'[j] = chan'[i]
          PROVE  i = j
      <4>1. j + 1 \in DOMAIN chan /\ j \in Nat
        BY <1>1, <2>1
      <4>2. chan[j + 1] = chan[i + 1] /\ chan[i + 1].kind = "http_request"
        BY <2>1, <2>2, <3>5
      <4>3. i + 1 = j + 1
        BY <1>2, <3>1, <4>1, <4>2
      <4> QED
        BY <3>1, <4>1, <4>3
    <3> QED
      BY <2>1, <3>1, <3>2, <3>4, <3>5
  <2> QED
    BY <2>2 DEF DeliveredOnce
<1>7. ASSUME TryClose \/ UNCHANGED chan, received' = received
      PROVE  DeliveredOnce'
  BY <1>4, <1>5, <1>7 DEF TryClose, CloseFrame
<1>8. ASSUME NEW f \in Forwards, SendFrame(f)
      PROVE  DeliveredOnce'
  <2>1. reqId[f] \in Nat /\ reqId[f] \notin QueuedIds \cup received
    BY <1>8 DEF IdInv, IdParts, TypeOK, IdsUnsent, SendFrame, Goto
  <2>2. /\ ReqFrame(reqId[f]) \in Frame
        /\ ReqFrame(reqId[f]).kind = "http_request" /\ ReqFrame(reqId[f]).id = reqId[f]
    BY <2>1 DEF ReqFrame
  <2> QED
    BY <1>5, <1>8, <2>1, <2>2 DEF SendFrame
<1>9. ASSUME NEW f \in Forwards, Handler(f) \/ HangUp(f), ~SendFrame(f)
      PROVE  DeliveredOnce'
  BY <1>4, <1>9 DEF Handler, RefuseInvalid, LookupGone, LookupActive, LoadInflight,
     AcquireFull, AcquireSlot, AcquireRetry, RejectHeaders, TakeReqId, RegisterPending,
     SendFails, AnswerTunnelClosed, AnswerReply, TimeOut, AnswerTimeout, HangUp, run
<1>10. CASE WriteClose \/ WriteFails \/ PongTimeout
  BY <1>3, <1>10 DEF WriteClose, WriteFails, PongTimeout, EndWriter
<1>11. CASE ReadTooLarge \/ Expire \/ TunnelEnds
  BY <1>7, <1>11 DEF ReadTooLarge, Expire, TunnelEnds, Unregister
<1>12. CASE WritePing \/ ReadPong \/ ReadEnd \/ PongAges \/ Over \/ UNCHANGED vars
  BY <1>4, <1>12 DEF WritePing, ReadPong, ReadEnd, PongAges, Over, run, vars
<1>13. ASSUME NEW id \in received, NEW kind \in Replies, ReadReply(id, kind)
       PROVE  DeliveredOnce'
  BY <1>4, <1>13 DEF ReadReply
<1> QED
  BY <1>6, <1>8, <1>9, <1>10, <1>11, <1>12, <1>13 DEF Next

\* Steps that write none of the variables that carry ids, except that queued
\* ids may disappear.
LEMMA IdStutter ==
  ASSUME IdInv, UNCHANGED <<pc, answer, reqId, slot, pending>>,
         QueuedIds' \subseteq QueuedIds,
         received' \subseteq received \cup QueuedIds,
         nextReqId' \in Nat, nextReqId' >= nextReqId, received \subseteq received'
  PROVE  IdParts'
<1> USE DEF IdInv, IdParts
<1>1. IdsDrawn'
  <2>1. nextReqId \in Nat /\ \A f \in Forwards : reqId[f] \in Nat /\ reqId'[f] = reqId[f]
    BY DEF TypeOK
  <2>2. QueuedIds' \cup received' \subseteq 1 .. (nextReqId - 1)
    BY DEF IdsDrawn
  <2> QED
    BY <2>1, <2>2 DEF IdsDrawn
<1>2. IdsOwn' /\ SenderAlive' /\ NoAnsweredEntry' /\ EntriesOwn'
  BY DEF IdsOwn, SenderAlive, NoAnsweredEntry, EntriesOwn
<1>3. IdsUnsent'
  BY DEF IdsUnsent
<1>4. SlotsOwn'
  BY DEF SlotsOwn
<1> QED
  BY <1>1, <1>2, <1>3, <1>4

\* Steps in which a handler only moves on or answers.
LEMMA IdMove ==
  ASSUME IdInv, NEW f \in Forwards, NEW to, NEW a,
         pc' = [pc EXCEPT ![f] = to], answer' = [answer EXCEPT ![f] = a],
         UNCHANGED <<reqId, slot, pending, received, nextReqId, chan>>,
         to \in UndrawnPCs => pc[f] \in UndrawnPCs,
         to \in DrawnPCs => pc[f] \in DrawnPCs,
         to \notin {"register", "send"},
         to = "wait" => pc[f] = "wait",
         a \in Replies => slot[f] # EmptySlot,
         (\E p \in pending : p[2] = f) => to \in {"send_failed", "timed_out", "dropped"}
  PROVE  IdParts'
<1>1. /\ pc \in [Forwards -> PCs] /\ answer \in [Forwards -> Answers]
      /\ pending \subseteq Nat \X Forwards
  BY DEF IdInv, TypeOK
<1>2. QueuedIds' = QueuedIds
  BY DEF QueuedIds
<1>3. IdsDrawn /\ IdsOwn /\ IdsUnsent /\ EntriesOwn /\ SlotsOwn /\ SenderAlive /\ NoAnsweredEntry
  BY DEF IdInv, IdParts
<1>4. IdsDrawn' /\ EntriesOwn'
  BY <1>2, <1>3 DEF IdsDrawn, EntriesOwn
<1>5. IdsOwn'
  BY <1>1, <1>3 DEF IdsOwn
<1>6. IdsUnsent'
  BY <1>1, <1>2, <1>3 DEF IdsUnsent
<1>7. SlotsOwn'
  BY <1>1, <1>3 DEF SlotsOwn
<1>8. SenderAlive'
  BY <1>1, <1>3 DEF SenderAlive
<1>9. NoAnsweredEntry'
  BY <1>1, <1>3 DEF NoAnsweredEntry
<1> QED
  BY <1>4, <1>5, <1>6, <1>7, <1>8, <1>9 DEF IdParts

LEMMA IdStep ==
  ASSUME IdInv, [Next]_vars
  PROVE  IdParts'
<1>1. TypeOK /\ IdsDrawn /\ IdsOwn /\ IdsUnsent /\ EntriesOwn /\ SlotsOwn
      /\ SenderAlive /\ NoAnsweredEntry
  BY DEF IdInv, IdParts
<1>2. chan' = chan => QueuedIds' = QueuedIds
  BY DEF QueuedIds
<1>3. ASSUME NEW f \in Forwards, Handler(f) \/ HangUp(f)
      PROVE  IdParts'
  <2>0. /\ answer \in [Forwards -> Answers]
        /\ answer = [answer EXCEPT ![f] = answer[f]]
    BY <1>1 DEF TypeOK
  <2>1. answer[f] \in Replies => slot[f] # EmptySlot
    BY <1>1 DEF SlotsOwn
  <2>2. \A p \in pending : p[2] = f =>
          pc[f] \in {"send", "wait", "send_failed", "timed_out", "dropped"} /\ slot[f] = EmptySlot
    BY <1>1 DEF NoAnsweredEntry, EntriesOwn
  <2>3. CASE RefuseInvalid(f) \/ LookupGone(f) \/ AcquireFull(f) \/ RejectHeaders(f)
    <3>1. ~\E p \in pending : p[2] = f
      BY <2>2, <2>3 DEF RefuseInvalid, LookupGone, AcquireFull, RejectHeaders
    <3>2. UNCHANGED <<reqId, slot, pending, received, nextReqId, chan>>
      BY <2>3 DEF RefuseInvalid, LookupGone, AcquireFull, RejectHeaders, run
    <3>3. \E a \in {"invalid", "gone", "busy", "bad_headers"} :
            pc' = [pc EXCEPT ![f] = "done"] /\ answer' = [answer EXCEPT ![f] = a]
      BY <2>3 DEF RefuseInvalid, LookupGone, AcquireFull, RejectHeaders, Finish
    <3>4. "done" \notin UndrawnPCs \cup DrawnPCs \cup {"register", "send", "wait"}
      BY DEF UndrawnPCs, DrawnPCs
    <3>5. PICK a \in {"invalid", "gone", "busy", "bad_headers"} :
            pc' = [pc EXCEPT ![f] = "done"] /\ answer' = [answer EXCEPT ![f] = a]
      BY <3>3
    <3>6. a \notin Replies
      BY <3>5 DEF Replies
    <3> QED
      BY <3>1, <3>2, <3>4, <3>5, <3>6, IdMove
  <2>4. CASE LookupActive(f) \/ LoadInflight(f) \/ AcquireSlot(f)
    BY <2>0, <2>1, <2>2, <2>4, IdMove DEF LookupActive, LoadInflight, AcquireSlot, Goto,
         run, UndrawnPCs, DrawnPCs
  <2>5. CASE AcquireRetry(f)
    BY <1>1, <1>2, <2>5, IdStutter DEF AcquireRetry, run, TypeOK
  <2>6. CASE TakeReqId(f)
    <3> USE <1>1, <1>2, <2>6 DEF TakeReqId, Goto, TypeOK
    <3>1. reqId[f] = 0 /\ slot[f] = EmptySlot
      BY DEF IdsOwn, UndrawnPCs, SlotsOwn, IdsDrawn
    <3>2. IdsDrawn'
      BY DEF IdsDrawn
    <3>3. IdsOwn'
      BY <3>1 DEF IdsOwn, IdsDrawn, UndrawnPCs, DrawnPCs
    <3>4. IdsUnsent'
      BY DEF IdsUnsent, IdsDrawn
    <3>5. EntriesOwn' /\ NoAnsweredEntry'
      BY <2>2 DEF EntriesOwn, NoAnsweredEntry
    <3>6. SlotsOwn' /\ SenderAlive'
      BY <3>1 DEF SlotsOwn, SenderAlive
    <3> QED
      BY <3>2, <3>3, <3>4, <3>5, <3>6 DEF IdParts
  <2>7. CASE RegisterPending(f)
    BY <1>1, <1>2, <2>7 DEF RegisterPending, Without, Goto, TypeOK, UndrawnPCs, DrawnPCs,
         IdParts, IdsDrawn, IdsOwn, IdsUnsent, EntriesOwn, SlotsOwn, SenderAlive, NoAnsweredEntry
  <2>8. CASE SendFrame(f)
    <3>1. QueuedIds' = QueuedIds \cup {reqId[f]}
      BY <1>1, <2>8, QueueRequest DEF SendFrame, TypeOK
    <3> QED
      BY <1>1, <2>8, <3>1 DEF SendFrame, Goto, TypeOK, UndrawnPCs, DrawnPCs,
         IdParts, IdsDrawn, IdsOwn, IdsUnsent, EntriesOwn, SlotsOwn, SenderAlive, NoAnsweredEntry
  <2>9. CASE SendFails(f) \/ TimeOut(f)
    BY <2>0, <2>1, <2>9, IdMove DEF SendFails, TimeOut, Goto, run, UndrawnPCs, DrawnPCs
  <2>10. CASE AnswerTunnelClosed(f) \/ AnswerTimeout(f)
    <3> USE <1>1, <1>2, <2>10 DEF AnswerTunnelClosed, AnswerTimeout, Finish, TypeOK
    <3>1. pending' = {p \in pending : p[1] # reqId[f]} /\ \A p \in pending' : p[2] # f
      BY DEF Without, EntriesOwn
    <3>2. IdsDrawn' /\ EntriesOwn'
      BY <3>1 DEF IdsDrawn, EntriesOwn
    <3>3. IdsOwn' /\ IdsUnsent'
      BY DEF IdsOwn, IdsUnsent, UndrawnPCs, DrawnPCs
    <3>4. SlotsOwn'
      BY DEF SlotsOwn, Replies
    <3>5. SenderAlive'
      BY <3>1 DEF SenderAlive, IdsOwn, DrawnPCs
    <3>6. NoAnsweredEntry'
      BY <3>1 DEF NoAnsweredEntry
    <3> QED
      BY <3>2, <3>3, <3>4, <3>5, <3>6 DEF IdParts
  <2>11. CASE AnswerReply(f)
    BY <2>2, <2>11, IdMove DEF AnswerReply, Finish, UndrawnPCs, DrawnPCs
  <2>12. CASE HangUp(f)
    <3>1. /\ pc' = [pc EXCEPT ![f] = "dropped"] /\ answer' = answer
          /\ UNCHANGED <<reqId, slot, pending, received, nextReqId, chan>>
      BY <2>12 DEF HangUp
    <3>2. answer' = [answer EXCEPT ![f] = answer[f]]
      BY <2>0, <3>1
    <3>3. "dropped" \notin UndrawnPCs \cup DrawnPCs \cup {"register", "send", "wait"}
      BY DEF UndrawnPCs, DrawnPCs
    <3> QED
      BY <2>1, <3>1, <3>2, <3>3, IdMove
  <2> QED
    BY <1>3, <2>3, <2>4, <2>5, <2>6, <2>7, <2>8, <2>9, <2>10, <2>11, <2>12 DEF Handler
<1>4. ASSUME NEW id \in received, NEW kind \in Replies, ReadReply(id, kind)
      PROVE  IdParts'
  <2> USE <1>1, <1>2, <1>4 DEF ReadReply, ResolvePending, Without, TypeOK
  <2>1. id \in Nat /\ id # 0
    BY DEF IdsDrawn
  <2>2. \A g \in Forwards :
          slot'[g] = IF <<id, g>> \in pending /\ pc[g] \in {"send", "wait"}
                     THEN [kind |-> kind, id |-> id] ELSE slot[g]
    OBVIOUS
  <2>3. [kind |-> kind, id |-> id] # EmptySlot /\ [kind |-> kind, id |-> id].id = id
    BY DEF EmptySlot, Replies
  <2>4. \A g \in Forwards : <<id, g>> \in pending => reqId[g] = id
    BY DEF EntriesOwn
  <2>5. IdsDrawn' /\ IdsOwn' /\ IdsUnsent' /\ NoAnsweredEntry'
    BY DEF IdsDrawn, IdsOwn, IdsUnsent, NoAnsweredEntry
  <2>6. SlotsOwn'
    BY <2>2, <2>3, <2>4 DEF SlotsOwn
  <2>7. EntriesOwn'
    BY <2>2 DEF EntriesOwn
  <2>8. SenderAlive'
    BY <2>2, <2>3 DEF SenderAlive
  <2> QED
    BY <2>5, <2>6, <2>7, <2>8 DEF IdParts
<1>5. CASE WriteRequest
  <2>1. QueuedIds' \subseteq QueuedIds /\ Head(chan).id \in QueuedIds
    BY <1>1, <1>5, TakeFrame DEF WriteRequest
  <2> QED
    BY <1>1, <1>5, <2>1, IdStutter DEF WriteRequest, handlers, TypeOK
<1>6. CASE WriteClose \/ WriteFails \/ PongTimeout
  <2>1. QueuedIds' = {}
    BY <1>6, DropQueue DEF WriteClose, WriteFails, PongTimeout, EndWriter
  <2> QED
    BY <1>1, <1>6, <2>1, IdStutter DEF WriteClose, WriteFails, PongTimeout, handlers, TypeOK
<1>7. CASE ReadTooLarge \/ Expire \/ TunnelEnds
  <2>1. TryClose \/ UNCHANGED chan
    BY <1>7 DEF ReadTooLarge, Expire, TunnelEnds, Unregister
  <2>2. QueuedIds' = QueuedIds
    BY <1>1, <1>2, <2>1, QueueClose
  <2> QED
    BY <1>1, <1>7, <2>2, IdStutter DEF ReadTooLarge, Expire, TunnelEnds, handlers, TypeOK
<1>8. CASE WritePing \/ ReadPong \/ ReadEnd \/ PongAges \/ Over \/ UNCHANGED vars
  BY <1>1, <1>2, <1>8, IdStutter DEF WritePing, ReadPong, ReadEnd, PongAges, Over,
     handlers, run, vars, TypeOK
<1> QED
  BY <1>3, <1>4, <1>5, <1>6, <1>7, <1>8 DEF Next

\* Initially no id was drawn.
LEMMA IdInit ==
  ASSUME Init
  PROVE  IdInv
<1>1. TypeOK
  BY SlotInit DEF SlotInv
<1>2. QueuedIds = {}
  BY DOMAIN chan = {} DEF Init, QueuedIds
<1>3. IdsDrawn /\ IdsOwn /\ IdsUnsent /\ EntriesOwn
  BY <1>2 DEF Init, IdsDrawn, IdsOwn, IdsUnsent, EntriesOwn, UndrawnPCs, DrawnPCs
<1>4. SlotsOwn /\ SenderAlive /\ NoAnsweredEntry /\ DeliveredOnce
  BY DEF Init, SlotsOwn, SenderAlive, NoAnsweredEntry, DeliveredOnce, Replies
<1> QED
  BY <1>1, <1>3, <1>4 DEF IdInv, IdParts

LEMMA IdInvariant == Spec => []IdInv
<1>1. Init => IdInv
  BY IdInit
<1>2. IdInv /\ SlotInv /\ SlotInv' /\ [Next]_vars => IdInv'
  BY IdStep, DeliveryStep DEF IdInv, SlotInv
<1> QED
  BY <1>1, <1>2, SlotInvariant, PTL DEF Spec

\* A wallet is answered with the local reply to its own request, which the
\* peer got, and no two handlers of a run draw the same request id.
THEOREM RepliesAreOwn == Spec => []OwnReply
<1>1. IdInv => OwnReply
  BY DEF IdInv, IdParts, IdsOwn, SlotsOwn, OwnReply
<1> QED
  BY <1>1, IdInvariant, PTL

\* The local serve sees every wallet request at most once.
THEOREM RequestsDeliveredOnce == Spec => []DeliveredOnce
<1>1. IdInv => DeliveredOnce
  BY DEF IdInv
<1> QED
  BY <1>1, IdInvariant, PTL

\* Every way a handler answers leaves no entry of its own in the pending map.
THEOREM AnsweredEntriesGone == Spec => []NoAnsweredEntry
<1>1. IdInv => NoAnsweredEntry
  BY DEF IdInv, IdParts
<1> QED
  BY <1>1, IdInvariant, PTL

\* A waiting handler never finds the sender of its oneshot dropped.
THEOREM SendersStayAlive == Spec => []SenderAlive
<1>1. IdInv => SenderAlive
  BY DEF IdInv, IdParts
<1> QED
  BY <1>1, IdInvariant, PTL

-------------------------------------------------------------------------------
(* Refinement *)

\* A handler has answered exactly when it is done, and a refused request never
\* drew an id.
AnswerInv ==
  \A f \in Forwards :
    /\ answer[f] # "none" <=> pc[f] = "done"
    /\ answer[f] \in Refusals => reqId[f] = 0

LEMMA AnswerStep ==
  ASSUME IdInv, AnswerInv, [Next]_vars
  PROVE  AnswerInv'
<1>1. /\ pc \in [Forwards -> PCs] /\ answer \in [Forwards -> Answers]
      /\ reqId \in [Forwards -> Nat] /\ "none" \notin Refusals
      /\ slot \in [Forwards -> {EmptySlot} \cup [kind : Replies, id : Nat]]
  BY DEF IdInv, TypeOK, Refusals
<1>2. UNCHANGED <<pc, answer, reqId>> => AnswerInv'
  BY DEF AnswerInv
<1>3. ASSUME NEW f \in Forwards, Handler(f) \/ HangUp(f)
      PROVE  AnswerInv'
  <2>1. pc[f] \in UndrawnPCs => reqId[f] = 0
    BY DEF IdInv, IdParts, IdsOwn
  <2>2. ASSUME NEW to \in PCs \ {"done"}, pc[f] # "done", pc' = [pc EXCEPT ![f] = to],
               answer' = answer, reqId' = reqId \/ reqId' = [reqId EXCEPT ![f] = nextReqId]
        PROVE  AnswerInv'
    BY <1>1, <2>2 DEF AnswerInv
  <2>3. ASSUME NEW a \in Answers \ {"none"}, pc' = [pc EXCEPT ![f] = "done"],
               answer' = [answer EXCEPT ![f] = a], reqId' = reqId,
               a \in Refusals => pc[f] \in UndrawnPCs
        PROVE  AnswerInv'
    BY <1>1, <2>1, <2>3 DEF AnswerInv
  <2>4. CASE RefuseInvalid(f) \/ LookupGone(f) \/ AcquireFull(f)
    BY <2>3, <2>4 DEF RefuseInvalid, LookupGone, AcquireFull, Finish, Answers, Refusals,
         UndrawnPCs
  <2>5. CASE RejectHeaders(f) \/ AnswerTunnelClosed(f) \/ AnswerTimeout(f)
    BY <2>3, <2>5 DEF RejectHeaders, AnswerTunnelClosed, AnswerTimeout, Finish, Answers,
         Refusals, Failures
  <2>6. CASE AnswerReply(f)
    <3>1. slot[f].kind \in Replies
      BY <1>1, <2>6 DEF AnswerReply
    <3> QED
      BY <2>3, <2>6, <3>1 DEF AnswerReply, Finish, Answers, Refusals, Replies
  <2>7. CASE LookupActive(f) \/ LoadInflight(f) \/ AcquireSlot(f) \/ TakeReqId(f)
             \/ RegisterPending(f) \/ SendFrame(f) \/ SendFails(f) \/ TimeOut(f) \/ HangUp(f)
    BY <2>2, <2>7 DEF LookupActive, LoadInflight, AcquireSlot, TakeReqId, RegisterPending,
         SendFrame, SendFails, TimeOut, HangUp, Goto, SuspendedPCs, PCs, HoldingPCs
  <2>8. CASE AcquireRetry(f)
    BY <1>2, <2>8 DEF AcquireRetry
  <2> QED
    BY <1>3, <2>4, <2>5, <2>6, <2>7, <2>8 DEF Handler
<1>4. ASSUME NEW id \in received, NEW kind \in Replies, ReadReply(id, kind)
      PROVE  AnswerInv'
  BY <1>2, <1>4 DEF ReadReply
<1>5. CASE WriteRequest \/ WriteClose \/ WriteFails \/ WritePing \/ PongTimeout
  BY <1>2, <1>5 DEF WriteRequest, WriteClose, WriteFails, WritePing, PongTimeout, handlers
<1>6. CASE ReadTooLarge \/ ReadPong \/ ReadEnd \/ Expire \/ TunnelEnds \/ PongAges
  BY <1>2, <1>6 DEF ReadTooLarge, ReadPong, ReadEnd, Expire, TunnelEnds, PongAges, handlers
<1>7. CASE Over \/ UNCHANGED vars
  BY <1>2, <1>7 DEF Over, vars
<1> QED
  BY <1>3, <1>4, <1>5, <1>6, <1>7 DEF Next

\* The variables of the exchange, as the run implements them.
Status == [f \in Forwards |-> StatusOf(pc[f], answer[f])]
Delivered == {f \in Forwards : reqId[f] \in received}

LEMMA StatusMove ==
  ASSUME NEW f \in Forwards, NEW to, NEW a,
         pc \in [Forwards -> PCs], answer \in [Forwards -> Answers],
         pc' = [pc EXCEPT ![f] = to], answer' = [answer EXCEPT ![f] = a]
  PROVE  Status' = [Status EXCEPT ![f] = StatusOf(to, a)]
BY DEF Status

\* Where a handler stands decides its status.
LEMMA StatusCases ==
  ASSUME NEW l, NEW a
  PROVE  /\ l \in HoldingPCs => StatusOf(l, a) = "open"
         /\ l = "dropped" => StatusOf(l, a) = "abandoned"
         /\ l = "done" /\ a \in Refusals => StatusOf(l, a) = "refused"
         /\ l = "done" /\ a \in Failures => StatusOf(l, a) = "failed"
         /\ l = "done" /\ a \in Replies => StatusOf(l, a) = "replied"
         /\ l \in {"lookup", "acquire", "cas"} => StatusOf(l, a) = "idle"
<1> USE DEF HoldingPCs, Refusals, Failures, Replies
<1>1. CASE l \in HoldingPCs
  BY <1>1 DEF StatusOf
<1>2. CASE l = "dropped"
  BY <1>2 DEF StatusOf
<1>3. CASE l = "done"
  BY <1>3 DEF StatusOf
<1>4. CASE l \in {"lookup", "acquire", "cas"}
  BY <1>4 DEF StatusOf
<1> QED
  BY <1>1, <1>2, <1>3, <1>4

\* The requests with an open slot in the exchange are the holders of a guard.
LEMMA OpenAreHolders ==
  ASSUME TypeOK, AnswerInv
  PROVE  Exchange!Open = Holders
<1>1. ASSUME NEW f \in Forwards
      PROVE  StatusOf(pc[f], answer[f]) = "open" <=> pc[f] \in HoldingPCs
  <2>1. pc[f] \in PCs /\ answer[f] \in Answers
    BY DEF TypeOK
  <2>2. pc[f] = "done" => answer[f] \in Refusals \cup Failures \cup Replies
    BY <2>1 DEF AnswerInv, Answers
  <2> QED
    BY <2>1, <2>2, StatusCases DEF PCs
<1> QED
  BY <1>1 DEF Exchange!Open, Holders

LEMMA RefinementStep ==
  ASSUME SlotInv, IdInv, AnswerInv, [Next]_vars
  PROVE  [Exchange!Next]_(Exchange!vars)
<1> DEFINE Goal == [Exchange!Next]_(Exchange!vars)
<1>1. /\ pc \in [Forwards -> PCs] /\ answer \in [Forwards -> Answers]
      /\ reqId \in [Forwards -> Nat]
      /\ slot \in [Forwards -> {EmptySlot} \cup [kind : Replies, id : Nat]]
  BY DEF IdInv, TypeOK
<1>2. ASSUME Status' = Status, Delivered' = Delivered
      PROVE  Goal
  BY <1>2 DEF Exchange!vars, Status, Delivered
<1>3. ASSUME UNCHANGED <<pc, answer, reqId, received>>
      PROVE  Goal
  BY <1>2, <1>3 DEF Status, Delivered
<1>4. ASSUME NEW f \in Forwards, Handler(f) \/ HangUp(f)
      PROVE  Goal
  <2>1. answer = [answer EXCEPT ![f] = answer[f]]
    BY <1>1
  <2>2. reqId' = reqId /\ received' = received => Delivered' = Delivered
    BY DEF Delivered
  <2>3. ASSUME NEW to, pc' = [pc EXCEPT ![f] = to], answer' = answer,
               Delivered' = Delivered,
               \/ pc[f] \in {"lookup", "acquire", "cas"} /\ to \in {"lookup", "acquire", "cas"}
               \/ pc[f] \in HoldingPCs /\ to \in HoldingPCs
        PROVE  Goal
    <3>1. Status' = [Status EXCEPT ![f] = StatusOf(to, answer[f])]
      <4>1. answer' = [answer EXCEPT ![f] = answer[f]]
        BY <2>1, <2>3
      <4> QED
        BY <1>1, <2>3, <4>1, StatusMove
    <3>2. StatusOf(to, answer[f]) = StatusOf(pc[f], answer[f])
      BY <2>3, StatusCases
    <3>3. Status' = Status
      BY <3>1, <3>2 DEF Status
    <3> QED
      BY <1>2, <2>3, <3>3
  <2> HIDE DEF Goal
  <2>4. CASE RefuseInvalid(f) \/ LookupGone(f) \/ AcquireFull(f)
    <3>1. PICK a \in Refusals : pc' = [pc EXCEPT ![f] = "done"] /\ answer' = [answer EXCEPT ![f] = a]
      BY <2>4 DEF RefuseInvalid, LookupGone, AcquireFull, Finish, Refusals
    <3>2. Status' = [Status EXCEPT ![f] = "refused"] /\ Status[f] = "idle"
      BY <1>1, <2>4, <3>1, StatusMove, StatusCases
      DEF RefuseInvalid, LookupGone, AcquireFull, Status
    <3>3. Delivered' = Delivered
      BY <2>2, <2>4 DEF RefuseInvalid, LookupGone, AcquireFull
    <3>4. Exchange!Refuse(f)
      BY <3>2, <3>3 DEF Exchange!Refuse, Status, Delivered
    <3> QED
      BY <3>4 DEF Goal, Exchange!Next
  <2>5. CASE LookupActive(f) \/ LoadInflight(f)
    BY <2>2, <2>3, <2>5 DEF LookupActive, LoadInflight, Goto
  <2>6. CASE AcquireRetry(f)
    BY <1>3, <2>6 DEF AcquireRetry
  <2>7. CASE AcquireSlot(f)
    <3>1. Status' = [Status EXCEPT ![f] = "open"] /\ Status[f] = "idle"
      <4>1. Status' = [Status EXCEPT ![f] = StatusOf("headers", answer[f])]
        <5>1. /\ pc' = [pc EXCEPT ![f] = "headers"]
              /\ answer' = [answer EXCEPT ![f] = answer[f]]
          BY <2>1, <2>7 DEF AcquireSlot, Goto
        <5> QED
          BY <1>1, <5>1, StatusMove
      <4>2. StatusOf("headers", answer[f]) = "open"
        BY StatusCases DEF HoldingPCs
      <4>3. Status[f] = "idle"
        BY <2>7, StatusCases DEF Status, AcquireSlot, Goto
      <4> QED
        BY <4>1, <4>2, <4>3
    <3>2. Cardinality(Exchange!Open) < MaxInflight
      BY <2>7, OpenAreHolders DEF AcquireSlot, SlotInv, SlotsAccounted
    <3>3. Delivered' = Delivered
      BY <2>2, <2>7 DEF AcquireSlot
    <3>4. Exchange!Cardinality(Exchange!Open) < MaxInflight
      BY <3>2 DEF Exchange!Cardinality, Cardinality
    <3>5. Exchange!Admit(f)
      BY <3>1, <3>3, <3>4 DEF Exchange!Admit, Status, Delivered
    <3> QED
      BY <3>5 DEF Goal, Exchange!Next
  <2>8. CASE TakeReqId(f)
    <3>1. reqId[f] \notin received /\ nextReqId \notin received
      BY <1>1, <2>8 DEF TakeReqId, Goto, IdInv, IdParts, TypeOK, IdsOwn, IdsDrawn, UndrawnPCs
    <3>2. Delivered' = Delivered
      BY <1>1, <2>8, <3>1 DEF TakeReqId, Delivered
    <3> QED
      BY <2>3, <2>8, <3>2 DEF TakeReqId, Goto, HoldingPCs
  <2>9. CASE RegisterPending(f) \/ SendFrame(f) \/ SendFails(f) \/ TimeOut(f)
    BY <2>2, <2>3, <2>9 DEF RegisterPending, SendFrame, SendFails, TimeOut, Goto, HoldingPCs
  <2>10. CASE RejectHeaders(f) \/ AnswerTunnelClosed(f) \/ AnswerTimeout(f)
    <3>1. PICK a \in Failures : pc' = [pc EXCEPT ![f] = "done"] /\ answer' = [answer EXCEPT ![f] = a]
      BY <2>10 DEF RejectHeaders, AnswerTunnelClosed, AnswerTimeout, Finish, Failures
    <3>2. pc[f] \in HoldingPCs
      BY <2>10 DEF RejectHeaders, AnswerTunnelClosed, AnswerTimeout, HoldingPCs
    <3>3. Status' = [Status EXCEPT ![f] = "failed"] /\ Status[f] = "open"
      BY <1>1, <3>1, <3>2, StatusMove, StatusCases DEF Status
    <3>4. Delivered' = Delivered
      BY <2>2, <2>10 DEF RejectHeaders, AnswerTunnelClosed, AnswerTimeout
    <3>5. Exchange!Fail(f)
      BY <3>3, <3>4 DEF Exchange!Fail, Status, Delivered
    <3> QED
      BY <3>5 DEF Goal, Exchange!Next
  <2>11. CASE AnswerReply(f)
    <3>1. slot[f].kind \in Replies /\ pc[f] \in HoldingPCs
      BY <1>1, <2>11 DEF AnswerReply, HoldingPCs
    <3>2. pc' = [pc EXCEPT ![f] = "done"] /\ answer' = [answer EXCEPT ![f] = slot[f].kind]
      BY <2>11 DEF AnswerReply, Finish
    <3>3. Status' = [Status EXCEPT ![f] = "replied"] /\ Status[f] = "open"
      BY <1>1, <3>1, <3>2, StatusMove, StatusCases DEF Status
    <3>4. Delivered' = Delivered /\ f \in Delivered
      BY <2>2, <2>11 DEF AnswerReply, IdInv, IdParts, SlotsOwn, Delivered
    <3>5. Exchange!Reply(f)
      BY <3>3, <3>4 DEF Exchange!Reply, Status, Delivered
    <3> QED
      BY <3>5 DEF Goal, Exchange!Next
  <2>12. CASE HangUp(f)
    <3>1. Status' = [Status EXCEPT ![f] = "abandoned"]
      <4>1. pc' = [pc EXCEPT ![f] = "dropped"] /\ answer' = [answer EXCEPT ![f] = answer[f]]
        BY <2>1, <2>12 DEF HangUp
      <4>2. Status' = [Status EXCEPT ![f] = StatusOf("dropped", answer[f])]
        BY <1>1, <4>1, StatusMove
      <4> QED
        BY <4>2, StatusCases
    <3>2. Status[f] \in {"idle", "open"}
      <4>1. pc[f] \in {"lookup", "acquire", "cas"} \/ pc[f] \in HoldingPCs
        BY <2>12 DEF HangUp, SuspendedPCs, HoldingPCs
      <4> QED
        BY <4>1, StatusCases DEF Status
    <3>3. Delivered' = Delivered
      BY <2>2, <2>12 DEF HangUp
    <3>4. Exchange!Abandon(f)
      BY <3>1, <3>2, <3>3 DEF Exchange!Abandon, Status, Delivered
    <3> QED
      BY <3>4 DEF Goal, Exchange!Next
  <2> QED
    BY <1>4, <2>4, <2>5, <2>6, <2>7, <2>8, <2>9, <2>10, <2>11, <2>12 DEF Handler
<1> HIDE DEF Goal
<1>5. ASSUME NEW id \in received, NEW kind \in Replies, ReadReply(id, kind)
      PROVE  Goal
  BY <1>3, <1>5 DEF ReadReply
<1>6. ASSUME WriteRequest
      PROVE  Goal
  <2> DEFINE id == Head(chan).id
  <2>1. UNCHANGED <<pc, answer, reqId>> /\ received' = received \cup {id} /\ Status' = Status
    BY <1>6 DEF WriteRequest, handlers, Status
  <2>2. id # 0 /\ id \notin received
    <3>1. chan # <<>> /\ Head(chan) = chan[1] /\ 1 \in DOMAIN chan /\ chan[1].kind = "http_request"
      BY <1>6 DEF WriteRequest, IdInv, TypeOK
    <3> QED
      BY <3>1 DEF IdInv, IdParts, DeliveredOnce, IdsDrawn, QueuedIds
  <2> HIDE DEF id
  <2>3. CASE \E f \in Forwards : reqId[f] = id
    <3>1. PICK f \in Forwards : reqId[f] = id
      BY <2>3
    <3>2. f \notin Delivered /\ Delivered' = Delivered \cup {f}
      BY <2>1, <2>2, <3>1 DEF Delivered, IdInv, IdParts, IdsOwn
    <3>3. Status[f] \in {"open", "failed", "abandoned"}
      <4>1. pc[f] \in PCs /\ answer[f] \in Answers
        BY <1>1
      <4>2. pc[f] \notin {"lookup", "acquire", "cas"}
        BY <2>2, <3>1 DEF IdInv, IdParts, IdsOwn, UndrawnPCs
      <4>3. answer[f] \notin Replies /\ answer[f] \notin Refusals
        BY <2>2, <3>1 DEF AnswerInv, IdInv, IdParts, SlotsOwn
      <4>4. pc[f] = "done" => answer[f] \in Failures
        BY <4>1, <4>3 DEF AnswerInv, Answers
      <4>5. pc[f] \in HoldingPCs \/ pc[f] = "dropped" \/ pc[f] = "done"
        BY <4>1, <4>2 DEF PCs
      <4> QED
        BY <4>4, <4>5, StatusCases DEF Status
    <3>4. Exchange!Deliver(f)
      BY <2>1, <3>2, <3>3 DEF Exchange!Deliver, Status, Delivered
    <3> QED
      BY <3>4 DEF Goal, Exchange!Next
  <2>4. CASE ~\E f \in Forwards : reqId[f] = id
    BY <1>2, <2>1, <2>4 DEF Delivered
  <2> QED
    BY <2>3, <2>4
<1>7. ASSUME WriteClose \/ WriteFails \/ WritePing \/ PongTimeout
      PROVE  Goal
  BY <1>3, <1>7 DEF WriteClose, WriteFails, WritePing, PongTimeout, handlers
<1>8. ASSUME ReadTooLarge \/ ReadPong \/ ReadEnd \/ Expire \/ TunnelEnds \/ PongAges
      PROVE  Goal
  BY <1>3, <1>8 DEF ReadTooLarge, ReadPong, ReadEnd, Expire, TunnelEnds, PongAges, handlers
<1>9. ASSUME Over \/ UNCHANGED vars
      PROVE  Goal
  BY <1>3, <1>9 DEF Over, vars
<1>10. Goal
  BY <1>4, <1>5, <1>6, <1>7, <1>8, <1>9 DEF Next
<1> QED
  BY <1>10 DEF Goal

\* A run keeps the promise of the exchange: it admits at most max_inflight
\* wallet requests, delivers each at most once, answers a wallet with a local
\* reply only after its own request was delivered, and answers nobody twice.
THEOREM RunImplementsExchange == Spec => ImplementsExchange
<1>1. Init => Exchange!Init
  <2>1. Init => Status = [f \in Forwards |-> "idle"] /\ Delivered = {}
    BY StatusCases DEF Init, Status, Delivered
  <2> QED
    BY <2>1 DEF Exchange!Init, Status, Delivered
<1>2. SlotInv /\ IdInv /\ AnswerInv /\ [Next]_vars => [Exchange!Next]_(Exchange!vars)
  BY RefinementStep
<1>3. Init => AnswerInv
  BY DEF Init, AnswerInv, Refusals
<1>4. IdInv /\ AnswerInv /\ [Next]_vars => AnswerInv'
  BY AnswerStep
<1> QED
  BY <1>1, <1>2, <1>3, <1>4, SlotInvariant, IdInvariant, PTL
  DEF Spec, ImplementsExchange, Exchange!Spec
===============================================================================
