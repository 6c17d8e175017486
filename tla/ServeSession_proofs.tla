-------------------------- MODULE ServeSession_proofs --------------------------
(***************************************************************************)
(* Proofs about ServeSession, for any sessions, posts and bodies, with and *)
(* without live status checks and debug artifacts.                         *)
(***************************************************************************)
EXTENDS ServeSession, TLAPS

-------------------------------------------------------------------------------
(* The inductive invariant *)

\* What the verifier takes for a good presentation.
Good(finding) == IF LiveStatus THEN finding = "valid" ELSE finding # "invalid"

\* Where the handler of a post stands once its body decrypted, once it has the
\* key, and once it knows that its body is encrypted.
Opened == {"save_decrypted", "decrypted", "note", "present", "status", "revoked",
           "over_ask", "store_verified"}
Keyed == Opened \cup {"decrypt"}
Sealed == Keyed \cup {"save_context", "read_key", "no_key"}

\* What is known of post p while its handler stands at a place.
Here(p, place) ==
  /\ place = "idle" => p \notin hasKey /\ p \notin late /\ answer[p] = "none" /\ next[p] = 1
  /\ place # "idle" =>
       /\ target[p] \in Sessions /\ created[target[p]] \notin {"none", "built"}
       /\ body[p] \in Bodies
       /\ \A i \in DOMAIN body[p].presentations :
            i < next[p] => Good(body[p].presentations[i])
  /\ place \in Sealed => body[p].kind = "encrypted"
  /\ place \in Keyed => p \in hasKey
  /\ place \in Opened => body[p].decrypts
  /\ place = "status" => LiveStatus /\ HasCurrent(p) /\ Current(p) # "invalid"
  /\ place = "over_ask" => HasCurrent(p) /\ Good(Current(p))
  /\ place = "store_verified" => Acceptable(body[p])
  /\ place = "answer" => target[p] \notin keys

\* Some post to s carried a good response and had the key.
Earned(s) == \E q \in hasKey : target[q] = s /\ Acceptable(body[q])

\* What results and answers say was earned, and the key is gone from the map as
\* soon as a post was answered by the handler, so that a later one misses it.
OutcomeInv ==
  /\ \A s \in Sessions : results[s] = "verified" => Earned(s)
  /\ \A p \in Posts : answer[p] = "verified" => Earned(target[p])
  /\ \A p \in Posts :
       answer[p] \in {"bad_request", "verified", "rejected"} => target[p] \notin keys
  /\ \A p \in late : p \notin hasKey /\ target[p] \notin keys

SessionInv ==
  /\ TypeOK
  /\ \A p \in Posts : Here(p, pc[p])
  /\ OutcomeInv

LEMMA InitInv == Init => SessionInv
<1> SUFFICES ASSUME Init PROVE SessionInv
  OBVIOUS
<1>1. TypeOK
  BY DEF Init, TypeOK, PCs, Answers
<1>2. \A p \in Posts : Here(p, pc[p])
  BY DEF Init, Here, Sealed, Keyed, Opened
<1>3. OutcomeInv
  BY DEF Init, OutcomeInv
<1> QED
  BY <1>1, <1>2, <1>3 DEF SessionInv

\* The first two halves of the invariant give the two properties.
LEMMA InvEarns == SessionInv => VerifiedIsEarned
BY DEF SessionInv, OutcomeInv, Earned, VerifiedIsEarned

LEMMA InvSpends == SessionInv => SpentStaysSpent
BY DEF SessionInv, OutcomeInv, SpentStaysSpent

-------------------------------------------------------------------------------
(* What the steps have in common *)

\* A body is what the assumption says it is.
LEMMA BodyType ==
  ASSUME NEW b \in Bodies
  PROVE  /\ b.kind \in {"malformed", "plaintext", "encrypted"}
         /\ b.decrypts \in BOOLEAN
         /\ b.presentations \in Seq(Findings)
         /\ Len(b.presentations) \in Nat
         /\ DOMAIN b.presentations = 1..Len(b.presentations)
         /\ \A i \in DOMAIN b.presentations : b.presentations[i] \in Findings
<1>1. b \in [kind : {"malformed", "plaintext", "encrypted"}, decrypts : BOOLEAN,
             presentations : Seq(Findings)]
  BY ServeSessionAssumption
<1> QED
  BY <1>1

\* A step that changes nothing keeps the invariant.
LEMMA SessionUnchanged ==
  ASSUME SessionInv, UNCHANGED vars
  PROVE  SessionInv'
BY DEF SessionInv, TypeOK, Here, OutcomeInv, Earned, HasCurrent, Current, vars

\* Writing an event keeps the trace what it is.
LEMMA RecordType ==
  ASSUME TypeOK, NEW s \in Sessions, NEW code, Record(s, code)
  PROVE  trace' \in [Sessions -> {"none"} \cup Outcomes]
BY DEF TypeOK, Record

\* A handler that goes from one place to another, with a trace event or not,
\* keeps the invariant when what it knows there is true.
LEMMA MoveKeepsInv ==
  ASSUME SessionInv, NEW p \in Posts, pc[p] # "idle",
         NEW to \in PCs \ {"idle"}, Here(p, to), pc' = [pc EXCEPT ![p] = to],
         trace' \in [Sessions -> {"none"} \cup Outcomes],
         UNCHANGED <<created, store, page, target, body, next, answer, hasKey, late>>
  PROVE  SessionInv'
<1>1. TypeOK'
  BY DEF SessionInv, TypeOK, store
<1>2. \A q \in Posts : pc'[q] = IF q = p THEN to ELSE pc[q]
  BY DEF SessionInv, TypeOK
<1>3. \A q \in Posts : Here(q, pc[q])' <=> Here(q, pc'[q])
  BY DEF Here, HasCurrent, Current, store
<1>4. \A q \in Posts : Here(q, pc[q])'
  BY <1>2, <1>3 DEF SessionInv
<1>5. OutcomeInv'
  BY DEF SessionInv, OutcomeInv, Earned, store
<1> QED
  BY <1>1, <1>4, <1>5 DEF SessionInv

\* A handler that answers keeps the invariant, with the key dropped or not, if
\* the answer is one the key's state and the evidence allow.
LEMMA FinishKeepsInv ==
  ASSUME SessionInv, NEW p \in Posts, pc[p] # "idle",
         NEW a \in Answers, Finish(p, a),
         keys' \in {keys, keys \ {target[p]}},
         a \in {"bad_request", "verified", "rejected"} => target[p] \notin keys',
         a = "verified" => Earned(target[p]),
         UNCHANGED <<created, results, trace, page, target, body, next, hasKey, late>>
  PROVE  SessionInv'
<1>1. \A q \in Posts : /\ pc'[q] = IF q = p THEN "over" ELSE pc[q]
                       /\ answer'[q] = IF q = p THEN a ELSE answer[q]
  BY DEF SessionInv, TypeOK, Finish
<1>2. TypeOK'
  BY DEF SessionInv, TypeOK, Finish, PCs
<1>3. ASSUME NEW q \in Posts PROVE Here(q, pc[q])'
  <2>1. CASE q = p
    <3>1. Here(p, "over")'
      BY DEF SessionInv, Here, Sealed, Keyed, Opened
    <3> QED
      BY <1>1, <2>1, <3>1
  <2>2. CASE q # p
    <3>1. Here(q, pc[q]) /\ pc'[q] = pc[q] /\ answer'[q] = answer[q]
      BY <1>1, <2>2 DEF SessionInv
    <3> QED
      BY <3>1 DEF Here, HasCurrent, Current
  <2> QED
    BY <2>1, <2>2
<1>4. OutcomeInv'
  BY <1>1 DEF SessionInv, OutcomeInv, Earned
<1> QED
  BY <1>2, <1>3, <1>4 DEF SessionInv

-------------------------------------------------------------------------------
(* create_request and the page *)

\* Keys are inserted before anybody can post to the session, and only removed
\* after.
LEMMA CreateKeepsInv ==
  ASSUME SessionInv, NEW s \in Sessions, Create(s)
  PROVE  SessionInv'
<1>1. /\ UNCHANGED <<results, page, post>>
      /\ trace' \in [Sessions -> {"none"} \cup Outcomes]
  BY RecordType
     DEF SessionInv, TypeOK, Create, BuildSession, InsertKey, ListSession, SaveKey, SaveKeyFails,
         FinishRequest, store
<1>2. /\ created' \in [Sessions -> {"none", "built", "keyed", "listed", "saved", "ready", "failed"}]
      /\ \A t \in Sessions : created[t] \notin {"none", "built"} => created'[t] \notin {"none", "built"}
  BY DEF SessionInv, TypeOK, Create, BuildSession, InsertKey, ListSession, SaveKey, SaveKeyFails,
         FinishRequest
<1>3. /\ keys' \subseteq Sessions
      /\ \A t \in keys' \ keys : created[t] = "built"
  BY DEF SessionInv, TypeOK, Create, BuildSession, InsertKey, ListSession, SaveKey, SaveKeyFails,
         FinishRequest, store
<1>4. \A p \in Posts : pc[p] # "idle" /\ target[p] \notin keys => target[p] \notin keys'
  BY <1>3 DEF SessionInv, Here
<1>5. TypeOK'
  BY <1>1, <1>2, <1>3 DEF SessionInv, TypeOK, post
<1>6. ASSUME NEW p \in Posts PROVE Here(p, pc[p])'
  <2>1. Here(p, pc[p])
    BY DEF SessionInv
  <2> QED
    BY <1>1, <1>2, <1>4, <2>1 DEF Here, HasCurrent, Current, post
<1>7. OutcomeInv'
  <2>1. \A p \in late : p \in Posts /\ pc[p] # "idle"
    BY DEF SessionInv, TypeOK, Here
  <2>2. \A p \in Posts : answer[p] # "none" => pc[p] # "idle"
    BY DEF SessionInv, Here
  <2> QED
    BY <1>1, <1>4, <2>1, <2>2 DEF SessionInv, OutcomeInv, Earned, post
<1> QED
  BY <1>5, <1>6, <1>7 DEF SessionInv

LEMMA LoadPageKeepsInv ==
  ASSUME SessionInv, NEW s \in Sessions, LoadPage(s)
  PROVE  SessionInv'
<1>1. Pill(trace[s]) \in {"none", "live", "verified", "rejected"}
  <2>1. trace[s] \in {"none", "VERIFIED", "REJECTED", "ERROR"}
    BY DEF SessionInv, TypeOK, Outcomes
  <2> QED
    BY <2>1 DEF Pill
<1>2. TypeOK'
  BY <1>1 DEF SessionInv, TypeOK, LoadPage, store, post
<1> QED
  BY <1>2 DEF SessionInv, OutcomeInv, Earned, Here, HasCurrent, Current, LoadPage, store, post

-------------------------------------------------------------------------------
(* receive_response *)

\* A post that arrives after an answered one finds the key already gone.
LEMMA PostKeepsInv ==
  ASSUME SessionInv, NEW p \in Posts, NEW s \in Sessions, NEW b \in Bodies, Post(p, s, b)
  PROVE  SessionInv'
<1>1. /\ pc[p] = "idle" /\ created[s] \notin {"none", "built"}
      /\ UNCHANGED <<created, store, trace, page, next, answer, hasKey>>
  BY DEF Post
<1> DEFINE to == IF DebugArtifacts THEN "save_body" ELSE "parse"
<1>2. \A q \in Posts : /\ pc'[q] = IF q = p THEN to ELSE pc[q]
                       /\ target'[q] = IF q = p THEN s ELSE target[q]
                       /\ body'[q] = IF q = p THEN b ELSE body[q]
  BY DEF SessionInv, TypeOK, Post
<1>3. p \notin hasKey /\ p \notin late /\ answer[p] = "none" /\ next[p] = 1
  BY <1>1 DEF SessionInv, Here
<1>4. late' \subseteq late \cup {p} /\ (p \in late' => s \notin keys)
  <2>1. Answered(s) # {} => s \notin keys
    BY DEF SessionInv, OutcomeInv, Answered
  <2> QED
    BY <1>3, <2>1 DEF Post
<1>5. TypeOK'
  <2>1. to \in PCs
    BY DEF PCs
  <2>2. late' \subseteq Posts
    BY <1>4 DEF SessionInv, TypeOK
  <2> QED
    BY <1>1, <2>1, <2>2 DEF SessionInv, TypeOK, Post, store
<1>6. ASSUME NEW q \in Posts PROVE Here(q, pc[q])'
  <2>1. CASE q = p
    <3>1. pc'[p] \in {"save_body", "parse"} /\ target'[p] = s /\ body'[p] = b /\ next'[p] = 1
      BY <1>1, <1>2, <1>3
    <3>2. \A i \in DOMAIN b.presentations : ~(i < 1)
      BY BodyType
    <3> QED
      BY <1>1, <2>1, <3>1, <3>2 DEF Here, Sealed, Keyed, Opened
  <2>2. CASE q # p
    <3>1. /\ Here(q, pc[q]) /\ pc'[q] = pc[q] /\ target'[q] = target[q] /\ body'[q] = body[q]
          /\ q \in late' => q \in late
      BY <1>2, <1>4, <2>2 DEF SessionInv
    <3> QED
      BY <1>1, <3>1 DEF Here, HasCurrent, Current, store
  <2> QED
    BY <2>1, <2>2
<1>7. \A t : Earned(t) => \E q \in hasKey' : target'[q] = t /\ Acceptable(body'[q])
  <2>1. hasKey \subseteq Posts \ {p}
    BY <1>3 DEF SessionInv, TypeOK
  <2> QED
    BY <1>1, <1>2, <2>1 DEF Earned
<1>8. OutcomeInv'
  <2>1. \A t \in Sessions : results'[t] = "verified" => Earned(t)'
    BY <1>1, <1>7 DEF SessionInv, OutcomeInv, Earned, store
  <2>2. \A q \in Posts : answer'[q] = "verified" => Earned(target[q])'
    <3> SUFFICES ASSUME NEW q \in Posts, answer'[q] = "verified"
                 PROVE  \E o \in hasKey' : target'[o] = target'[q] /\ Acceptable(body'[o])
      BY DEF Earned
    <3>1. q # p /\ answer[q] = "verified" /\ target'[q] = target[q]
      BY <1>1, <1>2, <1>3
    <3>2. Earned(target[q])
      BY <3>1 DEF SessionInv, OutcomeInv
    <3> QED
      BY <1>7, <3>1, <3>2
  <2>3. \A q \in Posts :
          answer'[q] \in {"bad_request", "verified", "rejected"} => target'[q] \notin keys'
    BY <1>1, <1>2, <1>3 DEF SessionInv, OutcomeInv, store
  <2>4. \A q \in late' : q \notin hasKey' /\ target'[q] \notin keys'
    BY <1>1, <1>2, <1>3, <1>4 DEF SessionInv, TypeOK, OutcomeInv, store
  <2> QED
    BY <2>1, <2>2, <2>3, <2>4 DEF OutcomeInv
<1> QED
  BY <1>5, <1>6, <1>8 DEF SessionInv

\* The handler that still finds the key takes a copy of it: it is not late.
LEMMA ReadKeyKeepsInv ==
  ASSUME SessionInv, NEW p \in Posts, ReadKey(p)
  PROVE  SessionInv'
<1>0. Here(p, "read_key") /\ pc[p] = "read_key"
  BY DEF SessionInv, ReadKey
<1>1. CASE target[p] \in keys
  <2>1. /\ pc' = [pc EXCEPT ![p] = "decrypt"] /\ hasKey' = hasKey \cup {p}
        /\ UNCHANGED <<created, store, trace, page, target, body, next, answer, late>>
    BY <1>1 DEF ReadKey
  <2>2. \A q \in Posts : pc'[q] = IF q = p THEN "decrypt" ELSE pc[q]
    BY <2>1 DEF SessionInv, TypeOK
  <2>3. TypeOK'
    BY <2>1 DEF SessionInv, TypeOK, PCs, store
  <2>4. ASSUME NEW q \in Posts PROVE Here(q, pc[q])'
    <3>1. CASE q = p
      <4>1. Here(p, "decrypt")'
        BY <1>0, <2>1 DEF Here, Sealed, Keyed, Opened
      <4> QED
        BY <2>2, <3>1, <4>1
    <3>2. CASE q # p
      <4>1. Here(q, pc[q]) /\ pc'[q] = pc[q] /\ (q \in hasKey' <=> q \in hasKey)
        BY <2>1, <2>2, <3>2 DEF SessionInv
      <4> QED
        BY <2>1, <4>1 DEF Here, HasCurrent, Current, store
    <3> QED
      BY <3>1, <3>2
  <2>5. p \notin late
    BY <1>1 DEF SessionInv, OutcomeInv
  <2>6. OutcomeInv'
    BY <2>1, <2>5 DEF SessionInv, OutcomeInv, Earned, store
  <2> QED
    BY <2>3, <2>4, <2>6 DEF SessionInv
<1>2. CASE target[p] \notin keys
  <2>1. /\ pc' = [pc EXCEPT ![p] = "no_key"]
        /\ UNCHANGED <<created, store, trace, page, target, body, next, answer, hasKey, late>>
    BY <1>2 DEF ReadKey
  <2>2. Here(p, "no_key")
    BY <1>0 DEF Here, Sealed, Keyed, Opened
  <2>3. trace' \in [Sessions -> {"none"} \cup Outcomes]
    BY <2>1 DEF SessionInv, TypeOK
  <2> QED
    BY <1>0, <2>1, <2>2, <2>3, MoveKeepsInv DEF PCs
<1> QED
  BY <1>1, <1>2

\* A presentation that passed all its checks is behind the handler.
LEMMA OverAskKeepsInv ==
  ASSUME SessionInv, NEW p \in Posts, TraceOverAsk(p)
  PROVE  SessionInv'
<1>1. /\ pc[p] = "over_ask" /\ Here(p, "over_ask")
      /\ next' = [next EXCEPT ![p] = @ + 1] /\ pc' = [pc EXCEPT ![p] = "present"]
      /\ UNCHANGED <<created, store, page, target, body, answer, hasKey, late>>
  BY DEF SessionInv, TraceOverAsk, Trace
<1>2. \A q \in Posts : /\ pc'[q] = IF q = p THEN "present" ELSE pc[q]
                       /\ next'[q] = IF q = p THEN next[p] + 1 ELSE next[q]
  BY <1>1 DEF SessionInv, TypeOK
<1>3. TypeOK'
  <2>1. trace' \in [Sessions -> {"none"} \cup Outcomes]
    <3>1. target[p] \in Sessions
      BY <1>1 DEF Here
    <3> QED
      BY <3>1, RecordType DEF SessionInv, TraceOverAsk, Trace
  <2>2. next' \in [Posts -> Nat \ {0}]
    BY <1>1 DEF SessionInv, TypeOK
  <2> QED
    BY <1>1, <2>1, <2>2 DEF SessionInv, TypeOK, PCs, store
<1>4. ASSUME NEW q \in Posts PROVE Here(q, pc[q])'
  <2>1. CASE q = p
    <3>1. next[p] \in Nat /\ body[p] \in Bodies
      BY <1>1 DEF SessionInv, TypeOK, Here
    <3>2. \A i \in DOMAIN body[p].presentations : i < next[p] + 1 => i < next[p] \/ i = next[p]
      BY <3>1, BodyType
    <3>3. \A i \in DOMAIN body[p].presentations :
            i < next[p] + 1 => Good(body[p].presentations[i])
      BY <1>1, <3>2 DEF Here, Current
    <3>4. pc'[p] = "present" /\ next'[p] = next[p] + 1
      BY <1>2
    <3> QED
      BY <1>1, <2>1, <3>3, <3>4 DEF Here, Sealed, Keyed, Opened
  <2>2. CASE q # p
    <3>1. Here(q, pc[q]) /\ pc'[q] = pc[q] /\ next'[q] = next[q]
      BY <1>2, <2>2 DEF SessionInv
    <3> QED
      BY <1>1, <3>1 DEF Here, HasCurrent, Current, store
  <2> QED
    BY <2>1, <2>2
<1>5. OutcomeInv'
  BY <1>1 DEF SessionInv, OutcomeInv, Earned, store
<1> QED
  BY <1>3, <1>4, <1>5 DEF SessionInv

\* An outcome is stored, a verified one by a handler that earned it.
LEMMA StoreKeepsInv ==
  ASSUME SessionInv, NEW p \in Posts, pc[p] # "idle",
         NEW to \in {"plain_drop", "drop_key"}, pc' = [pc EXCEPT ![p] = to],
         NEW outcome \in {"verified", "rejected"}, outcome = "verified" => Earned(target[p]),
         results' = [results EXCEPT ![target[p]] = outcome],
         UNCHANGED <<created, keys, trace, page, target, body, next, answer, hasKey, late>>
  PROVE  SessionInv'
<1>1. TypeOK'
  BY DEF SessionInv, TypeOK, PCs
<1>2. \A q \in Posts : pc'[q] = IF q = p THEN to ELSE pc[q]
  BY DEF SessionInv, TypeOK
<1>3. ASSUME NEW q \in Posts PROVE Here(q, pc[q])'
  <2>1. Here(p, to)
    BY DEF SessionInv, Here, Sealed, Keyed, Opened
  <2>2. Here(q, pc'[q])
    BY <1>2, <2>1 DEF SessionInv
  <2> QED
    BY <2>2 DEF Here, HasCurrent, Current
<1>4. OutcomeInv'
  BY DEF SessionInv, TypeOK, OutcomeInv, Earned
<1> QED
  BY <1>1, <1>3, <1>4 DEF SessionInv

LEMMA KeyDroppedKeepsInv ==
  ASSUME SessionInv, NEW p \in Posts, KeyDropped(p)
  PROVE  SessionInv'
<1>1. /\ pc[p] = "drop_key" /\ pc' = [pc EXCEPT ![p] = "answer"] /\ keys' = keys \ {target[p]}
      /\ UNCHANGED <<created, results, trace, page, target, body, next, answer, hasKey, late>>
  BY DEF KeyDropped, Goto, DropKey
<1>2. \A q \in Posts : pc'[q] = IF q = p THEN "answer" ELSE pc[q]
  BY <1>1 DEF SessionInv, TypeOK
<1>3. TypeOK'
  BY <1>1 DEF SessionInv, TypeOK, PCs
<1>4. ASSUME NEW q \in Posts PROVE Here(q, pc[q])'
  <2>1. CASE q = p
    <3>1. Here(p, "drop_key")
      BY <1>1 DEF SessionInv
    <3>2. Here(p, "answer")'
      BY <1>1, <3>1 DEF Here, Sealed, Keyed, Opened
    <3> QED
      BY <1>2, <2>1, <3>2
  <2>2. CASE q # p
    <3>1. Here(q, pc[q]) /\ pc'[q] = pc[q]
      BY <1>2, <2>2 DEF SessionInv
    <3> QED
      BY <1>1, <3>1 DEF Here, HasCurrent, Current
  <2> QED
    BY <2>1, <2>2
<1>5. OutcomeInv'
  BY <1>1 DEF SessionInv, OutcomeInv, Earned
<1> QED
  BY <1>3, <1>4, <1>5 DEF SessionInv

\* The answer is what the result map holds, which was earned if it says so, and
\* the key went before.
LEMMA AnswerKeepsInv ==
  ASSUME SessionInv, NEW p \in Posts, AnswerPost(p)
  PROVE  SessionInv'
<1> DEFINE a == IF results[target[p]] = "none" THEN "internal" ELSE results[target[p]]
<1>1. pc[p] = "answer" /\ Here(p, "answer") /\ Finish(p, a)
  BY DEF SessionInv, AnswerPost
<1>2. target[p] \in Sessions /\ target[p] \notin keys
  BY <1>1 DEF Here
<1>3. a \in Answers
  BY <1>2 DEF SessionInv, TypeOK, Answers
<1>4. a = "verified" => Earned(target[p])
  BY <1>2 DEF SessionInv, OutcomeInv
<1> HIDE DEF a
<1> QED
  BY <1>1, <1>2, <1>3, <1>4, FinishKeepsInv DEF AnswerPost, store

-------------------------------------------------------------------------------
(* The moves of a handler *)

LEMMA TraceKeepsInv ==
  ASSUME SessionInv, NEW p \in Posts, NEW from, from # "idle", NEW code,
         NEW to \in PCs \ {"idle"}, Trace(p, from, code, to), Here(p, to),
         UNCHANGED <<created, store, page, target, body, next, answer, hasKey, late>>
  PROVE  SessionInv'
<1>1. pc[p] # "idle" /\ pc' = [pc EXCEPT ![p] = to] /\ Record(target[p], code)
  BY DEF Trace
<1>2. target[p] \in Sessions
  BY <1>1 DEF SessionInv, Here
<1>3. trace' \in [Sessions -> {"none"} \cup Outcomes]
  BY <1>1, <1>2, RecordType DEF SessionInv
<1> QED
  BY <1>1, <1>3, MoveKeepsInv

LEMMA GotoKeepsInv ==
  ASSUME SessionInv, NEW p \in Posts, NEW from, from # "idle",
         NEW to \in PCs \ {"idle"}, Goto(p, from, to), Here(p, to),
         UNCHANGED <<created, store, trace, page, target, body, next, answer, hasKey, late>>
  PROVE  SessionInv'
<1>1. pc[p] # "idle" /\ pc' = [pc EXCEPT ![p] = to]
  BY DEF Goto
<1>2. trace' \in [Sessions -> {"none"} \cup Outcomes]
  BY DEF SessionInv, TypeOK
<1> QED
  BY <1>1, <1>2, MoveKeepsInv

\* A handler may always stop, be it to store a rejection: no place where it
\* does claims more than any.
LEMMA AnyPlace ==
  ASSUME SessionInv, NEW p \in Posts, pc[p] # "idle",
         NEW to \in {"parse", "plain_trace", "plain_store", "plain_drop", "store_rejected",
                     "drop_key", "over", "dropped"}
  PROVE  Here(p, to)
BY DEF SessionInv, Here, Sealed, Keyed, Opened

\* What the handler knows of an opened response moves on with it.
LEMMA StillOpened ==
  ASSUME SessionInv, NEW p \in Posts, pc[p] \in Opened,
         NEW to \in {"save_decrypted", "decrypted", "note", "present", "revoked"}
  PROVE  Here(p, to)
BY DEF SessionInv, Here, Sealed, Keyed, Opened

\* Up to the decryption of the response.
LEMMA BeforeDecryption ==
  ASSUME SessionInv, NEW p \in Posts,
         \/ SaveBody(p) \/ SaveBodyFails(p) \/ RejectMalformed(p) \/ TraceReceived(p)
         \/ PlainTraced(p) \/ PlainStored(p) \/ PlainAnswered(p)
         \/ SaveContext(p) \/ ReadKey(p) \/ TraceNoKey(p)
  PROVE  SessionInv'
<1>1. CASE SaveBody(p)
  <2>1. pc[p] # "idle"
    BY <1>1 DEF SaveBody, Trace
  <2> QED
    BY <1>1, <2>1, AnyPlace, TraceKeepsInv DEF SaveBody, PCs
<1>2. CASE SaveBodyFails(p)
  BY <1>2, FinishKeepsInv DEF SaveBodyFails, Answers, store
<1>3. CASE RejectMalformed(p)
  BY <1>3, FinishKeepsInv DEF RejectMalformed, DropKey, Answers
<1>4. CASE TraceReceived(p)
  <2> DEFINE to == IF body[p].kind = "plaintext" THEN "plain_trace"
                   ELSE IF DebugArtifacts THEN "save_context" ELSE "read_key"
  <2>1. pc[p] = "parse" /\ body[p].kind # "malformed" /\ Trace(p, "parse", "RESPONSE_RECEIVED", to)
    BY <1>4 DEF TraceReceived
  <2>2. body[p] \in Bodies
    BY <2>1 DEF SessionInv, Here
  <2>3. body[p].kind \in {"plaintext", "encrypted"}
    BY <2>1, <2>2, BodyType
  <2>4. CASE body[p].kind = "plaintext"
    <3>1. to = "plain_trace"
      BY <2>4
    <3> QED
      BY <1>4, <2>1, <3>1, AnyPlace, TraceKeepsInv DEF TraceReceived, PCs
  <2>5. CASE body[p].kind = "encrypted"
    <3>1. to \in {"save_context", "read_key"}
      BY <2>5
    <3> HIDE DEF to
    <3>2. Here(p, to)
      BY <2>1, <2>5, <3>1 DEF SessionInv, Here, Sealed, Keyed, Opened
    <3> QED
      BY <1>4, <2>1, <3>1, <3>2, TraceKeepsInv DEF TraceReceived, PCs
  <2> QED
    BY <2>3, <2>4, <2>5
<1>5. CASE PlainTraced(p)
  <2>1. pc[p] # "idle"
    BY <1>5 DEF PlainTraced, Trace
  <2> QED
    BY <1>5, <2>1, AnyPlace, TraceKeepsInv DEF PlainTraced, PCs
<1>6. CASE PlainStored(p)
  BY <1>6, StoreKeepsInv DEF PlainStored, Goto
<1>7. CASE PlainAnswered(p)
  BY <1>7, FinishKeepsInv DEF PlainAnswered, DropKey, Answers
<1>8. CASE SaveContext(p)
  <2>1. pc[p] = "save_context"
    BY <1>8 DEF SaveContext, Trace
  <2>2. Here(p, "read_key")
    BY <2>1 DEF SessionInv, Here, Sealed, Keyed, Opened
  <2> QED
    BY <1>8, <2>1, <2>2, AnyPlace, TraceKeepsInv DEF SaveContext, PCs
<1>9. CASE ReadKey(p)
  BY <1>9, ReadKeyKeepsInv
<1>10. CASE TraceNoKey(p)
  <2>1. pc[p] # "idle"
    BY <1>10 DEF TraceNoKey, Trace
  <2> QED
    BY <1>10, <2>1, AnyPlace, TraceKeepsInv DEF TraceNoKey, PCs
<1> QED
  BY <1>1, <1>2, <1>3, <1>4, <1>5, <1>6, <1>7, <1>8, <1>9, <1>10

\* The decryption.
LEMMA AtDecryption ==
  ASSUME SessionInv, NEW p \in Posts,
         DecryptFails(p) \/ Decrypt(p) \/ SaveDecrypted(p) \/ TraceDecrypted(p) \/ NoteSeveral(p)
  PROVE  SessionInv'
<1>1. CASE DecryptFails(p)
  BY <1>1, AnyPlace, TraceKeepsInv DEF DecryptFails, PCs
<1>2. CASE Decrypt(p)
  <2> DEFINE to == IF DebugArtifacts THEN "save_decrypted" ELSE "decrypted"
  <2>1. pc[p] = "decrypt" /\ body[p].decrypts /\ Goto(p, "decrypt", to)
    BY <1>2 DEF Decrypt
  <2>2. to \in {"save_decrypted", "decrypted"}
    OBVIOUS
  <2> HIDE DEF to
  <2>3. Here(p, to)
    BY <2>1, <2>2 DEF SessionInv, Here, Sealed, Keyed, Opened
  <2> QED
    BY <1>2, <2>1, <2>2, <2>3, GotoKeepsInv DEF Decrypt, PCs
<1>3. CASE SaveDecrypted(p)
  <2>1. pc[p] = "save_decrypted"
    BY <1>3 DEF SaveDecrypted, Trace
  <2>2. Here(p, "decrypted") /\ Here(p, "store_rejected")
    BY <2>1, AnyPlace, StillOpened DEF Opened
  <2> QED
    BY <1>3, <2>2, TraceKeepsInv DEF SaveDecrypted, PCs
<1>4. CASE TraceDecrypted(p)
  <2> DEFINE to == IF Len(body[p].presentations) > 1 THEN "note" ELSE "present"
  <2>1. pc[p] = "decrypted" /\ Trace(p, "decrypted", "RESPONSE_DECRYPTED", to)
    BY <1>4 DEF TraceDecrypted, Trace
  <2>2. to \in {"note", "present"}
    OBVIOUS
  <2> HIDE DEF to
  <2>3. Here(p, to)
    BY <2>1, <2>2, StillOpened DEF Opened
  <2> QED
    BY <1>4, <2>1, <2>2, <2>3, TraceKeepsInv DEF TraceDecrypted, PCs
<1>5. CASE NoteSeveral(p)
  <2>1. pc[p] = "note"
    BY <1>5 DEF NoteSeveral, Trace
  <2>2. Here(p, "present")
    BY <2>1, StillOpened DEF Opened
  <2> QED
    BY <1>5, <2>2, TraceKeepsInv DEF NoteSeveral, PCs
<1> QED
  BY <1>1, <1>2, <1>3, <1>4, <1>5

\* Only a presentation that is valid, and its status too where it is asked for,
\* goes on to the over-ask report.
LEMMA ChecksKeepInv ==
  ASSUME SessionInv, NEW p \in Posts,
         PresentationInvalid(p) \/ PresentationVerified(p) \/ CheckStatus(p) \/ TraceRevoked(p)
  PROVE  SessionInv'
<1>1. CASE PresentationInvalid(p)
  BY <1>1, AnyPlace, TraceKeepsInv DEF PresentationInvalid, PCs
<1>2. CASE PresentationVerified(p)
  <2> DEFINE to == IF LiveStatus THEN "status" ELSE "over_ask"
  <2>1. /\ pc[p] = "present" /\ HasCurrent(p) /\ Current(p) # "invalid"
        /\ Trace(p, "present", "VERIFIED", to)
    BY <1>2 DEF PresentationVerified
  <2>2. Here(p, "present")
    BY <2>1 DEF SessionInv
  <2>3. Here(p, to)
    <3>1. CASE LiveStatus
      BY <2>1, <2>2, <3>1 DEF Here, Sealed, Keyed, Opened
    <3>2. CASE ~LiveStatus
      BY <2>1, <2>2, <3>2 DEF Here, Sealed, Keyed, Opened, Good
    <3> QED
      BY <3>1, <3>2
  <2>4. to \in {"status", "over_ask"}
    OBVIOUS
  <2> HIDE DEF to
  <2> QED
    BY <1>2, <2>1, <2>3, <2>4, TraceKeepsInv DEF PresentationVerified, PCs
<1>3. CASE CheckStatus(p)
  <2>1. pc[p] = "status" /\ Here(p, "status")
    BY <1>3 DEF SessionInv, CheckStatus
  <2>2. Current(p) \in {"valid", "revoked", "no_ref", "infra"}
    <3>1. body[p] \in Bodies /\ next[p] \in Nat \ {0}
      BY <2>1 DEF SessionInv, TypeOK, Here
    <3> QED
      BY <2>1, <3>1, BodyType DEF Here, HasCurrent, Current, Findings
  <2>3. /\ Current(p) = "valid" => Here(p, "over_ask")
        /\ Here(p, "revoked") /\ Here(p, "store_rejected")
    BY <2>1 DEF Here, Sealed, Keyed, Opened, Good
  <2>4. \/ Current(p) = "valid" /\ Trace(p, "status", "STATUS_CHECKED", "over_ask")
        \/ Trace(p, "status", "STATUS_CHECKED", "revoked")
        \/ \E code \in {"REJECTED", "ERROR"} : Trace(p, "status", code, "store_rejected")
    BY <1>3, <2>2 DEF CheckStatus
  <2> QED
    BY <1>3, <2>3, <2>4, TraceKeepsInv DEF CheckStatus, PCs
<1>4. CASE TraceRevoked(p)
  <2>1. pc[p] # "idle"
    BY <1>4 DEF TraceRevoked, Trace
  <2> QED
    BY <1>4, <2>1, AnyPlace, TraceKeepsInv DEF TraceRevoked, PCs
<1> QED
  BY <1>1, <1>2, <1>3, <1>4

\* A response whose last presentation was checked is acceptable.
LEMMA LastKeepsInv ==
  ASSUME SessionInv, NEW p \in Posts, LastPresentation(p)
  PROVE  SessionInv'
<1> DEFINE to == IF body[p].presentations = <<>> THEN "store_rejected" ELSE "store_verified"
<1>1. pc[p] = "present" /\ ~HasCurrent(p) /\ Goto(p, "present", to) /\ Here(p, "present")
  BY DEF SessionInv, LastPresentation
<1>2. next[p] \in Nat /\ body[p] \in Bodies
  BY <1>1 DEF SessionInv, TypeOK, Here
<1>3. \A i \in DOMAIN body[p].presentations : i < next[p]
  BY <1>1, <1>2, BodyType DEF HasCurrent
<1>4. \A i \in DOMAIN body[p].presentations : Good(body[p].presentations[i])
  BY <1>1, <1>3 DEF Here
<1>5. body[p].presentations # <<>> => Acceptable(body[p])
  BY <1>1, <1>4 DEF Here, Acceptable, Good, Sealed, Keyed, Opened
<1>6. Here(p, to)
  BY <1>1, <1>5 DEF Here, Sealed, Keyed, Opened
<1>7. to \in {"store_rejected", "store_verified"}
  OBVIOUS
<1> HIDE DEF to
<1> QED
  BY <1>1, <1>6, <1>7, GotoKeepsInv DEF LastPresentation, PCs

\* A verified outcome is stored by a handler that holds the key and whose
\* response is acceptable.
LEMMA StoreResultKeepsInv ==
  ASSUME SessionInv, NEW p \in Posts, StoreResult(p)
  PROVE  SessionInv'
<1>1. /\ pc[p] # "idle" /\ pc' = [pc EXCEPT ![p] = "drop_key"]
      /\ UNCHANGED <<created, keys, trace, page, target, body, next, answer, hasKey, late>>
  BY DEF StoreResult, Goto
<1>2. CASE pc[p] = "store_verified"
  <2>1. p \in hasKey /\ Acceptable(body[p])
    BY <1>2 DEF SessionInv, Here, Keyed, Opened
  <2>2. Earned(target[p]) /\ results' = [results EXCEPT ![target[p]] = "verified"]
    BY <1>2, <2>1 DEF Earned, StoreResult, Goto
  <2> QED
    BY <1>1, <2>2, StoreKeepsInv
<1>3. CASE pc[p] = "store_rejected"
  <2>1. results' = [results EXCEPT ![target[p]] = "rejected"]
    BY <1>3 DEF StoreResult, Goto
  <2> QED
    BY <1>1, <2>1, StoreKeepsInv
<1> QED
  BY <1>2, <1>3 DEF StoreResult, Goto

LEMMA HangUpKeepsInv ==
  ASSUME SessionInv, NEW p \in Posts, HangUp(p)
  PROVE  SessionInv'
<1>1. pc[p] # "idle" /\ pc' = [pc EXCEPT ![p] = "dropped"]
  BY DEF HangUp
<1>2. trace' \in [Sessions -> {"none"} \cup Outcomes]
  BY DEF HangUp, SessionInv, TypeOK
<1> QED
  BY <1>1, <1>2, AnyPlace, MoveKeepsInv DEF HangUp, PCs

LEMMA StepInv == SessionInv /\ [Next]_vars => SessionInv'
<1> SUFFICES ASSUME SessionInv, [Next]_vars PROVE SessionInv'
  OBVIOUS
<1>1. ASSUME NEW s \in Sessions, Create(s) \/ LoadPage(s) PROVE SessionInv'
  BY <1>1, CreateKeepsInv, LoadPageKeepsInv
<1>2. ASSUME NEW p \in Posts, NEW s \in Sessions, NEW b \in Bodies, Post(p, s, b)
      PROVE  SessionInv'
  BY <1>2, PostKeepsInv
<1>3. ASSUME NEW p \in Posts, Handle(p) PROVE SessionInv'
  BY <1>3, BeforeDecryption, AtDecryption, ChecksKeepInv, OverAskKeepsInv, LastKeepsInv,
     StoreResultKeepsInv, KeyDroppedKeepsInv, AnswerKeepsInv DEF Handle
<1>4. ASSUME NEW p \in Posts, HangUp(p) PROVE SessionInv'
  BY <1>4, HangUpKeepsInv
<1>5. CASE UNCHANGED vars
  BY <1>5, SessionUnchanged
<1> QED
  BY <1>1, <1>2, <1>3, <1>4, <1>5 DEF Next, Quiet

-------------------------------------------------------------------------------
(* The response key *)

\* What else is known of post p while its handler stands at a place.
Stands(p, place) ==
  /\ place = "idle" => target[p] = NoSession /\ body[p] = NoBody
  /\ place # "over" => answer[p] = "none"
  /\ place \in {"idle", "save_body", "parse"} => p \notin hasKey
  /\ place = "plain_drop" => results[target[p]] # "none"

\* No key is there before create_request put it there.
KeyInv ==
  /\ \A p \in Posts : Stands(p, pc[p])
  /\ \A s \in keys : created[s] \notin {"none", "built"}

\* What a step owes to the promise made of the key.
Owed == KeyInv' /\ [Promise!Next]_(Promise!vars)

LEMMA InitPromised == Init => KeyInv /\ Promise!Init
<1> SUFFICES ASSUME Init PROVE KeyInv /\ Promise!Init
  OBVIOUS
<1>1. KeyInv
  BY DEF Init, KeyInv, Stands
<1>2. \A s \in Sessions : KeyOf(s) = "none"
  BY DEF Init, KeyOf
<1> QED
  BY <1>1, <1>2 DEF Init, Promise!Init

\* A step that leaves the key map, the result map and what every post carries
\* and was told as they are is none of the clients' business.
LEMMA Unseen ==
  ASSUME UNCHANGED <<created, keys, results, target, body, answer, hasKey>>
  PROVE  [Promise!Next]_(Promise!vars)
<1>1. \A s \in Sessions : KeyOf(s)' = KeyOf(s)
  BY DEF KeyOf
<1> QED
  BY <1>1 DEF Promise!vars

\* Where a handler may stand next without anybody noticing.
LEMMA QuietMove ==
  ASSUME SessionInv, KeyInv, NEW p \in Posts, pc[p] \notin {"idle", "over"},
         NEW to \in PCs \ {"idle", "save_body", "plain_drop", "over"},
         to = "parse" => pc[p] = "save_body",
         pc' = [pc EXCEPT ![p] = to],
         UNCHANGED <<created, store, target, body, answer, hasKey>>
  PROVE  Owed
<1>1. \A q \in Posts : pc'[q] = IF q = p THEN to ELSE pc[q]
  BY DEF SessionInv, TypeOK
<1>2. ASSUME NEW q \in Posts PROVE Stands(q, pc[q])'
  <2>1. Stands(q, pc[q]) /\ pc[q] \in PCs
    BY DEF KeyInv, SessionInv, TypeOK
  <2> QED
    BY <1>1, <2>1 DEF Stands, store
<1>3. KeyInv'
  BY <1>2 DEF KeyInv, store
<1> QED
  BY <1>3, Unseen DEF Owed, store

\* The post that a handler works for waits for its answer.
LEMMA AtWork ==
  ASSUME SessionInv, KeyInv, NEW p \in Posts, pc[p] \notin {"idle", "over"}
  PROVE  /\ Promise!Pending(p) /\ target[p] \in Sessions /\ body[p] \in Bodies
         /\ created[target[p]] \notin {"none", "built"}
BY ServeSessionAssumption DEF SessionInv, Here, KeyInv, Stands, Promise!Pending

LEMMA CreateOwes ==
  ASSUME SessionInv, KeyInv, NEW s \in Sessions, Create(s)
  PROVE  Owed
<1>1. UNCHANGED <<results, pc, target, body, answer, hasKey>>
  BY DEF Create, BuildSession, InsertKey, ListSession, SaveKey, SaveKeyFails, FinishRequest,
         store, post
<1>2. \A q \in Posts : Stands(q, pc[q])'
  BY <1>1 DEF KeyInv, Stands
<1>3. created \in [Sessions -> {"none", "built", "keyed", "listed", "saved", "ready", "failed"}]
  BY DEF SessionInv, TypeOK
<1> DEFINE key == [t \in Sessions |-> KeyOf(t)]
<1>4. CASE BuildSession(s)
  <2>1. /\ keys' = keys /\ s \notin keys
        /\ \A t \in Sessions : /\ t # s => created'[t] = created[t]
                               /\ t = s => created[t] = "none" /\ created'[t] = "built"
    BY <1>3, <1>4 DEF BuildSession, KeyInv, store
  <2>2. \A t \in Sessions : KeyOf(t)' = KeyOf(t)
    BY <2>1 DEF KeyOf
  <2>3. \A t \in keys' : created'[t] \notin {"none", "built"}
    BY <2>1 DEF KeyInv, SessionInv, TypeOK
  <2> QED
    BY <1>1, <1>2, <2>2, <2>3 DEF Owed, KeyInv, Promise!vars
<1>5. CASE InsertKey(s)
  <2>1. /\ keys' = keys \cup {s} /\ s \notin keys
        /\ \A t \in Sessions : /\ t # s => created'[t] = created[t]
                               /\ t = s => created[t] = "built" /\ created'[t] = "keyed"
    BY <1>3, <1>5 DEF InsertKey, KeyInv
  <2>2. \A t \in Sessions : KeyOf(t)' = IF t = s THEN "held" ELSE KeyOf(t)
    BY <2>1 DEF KeyOf
  <2>3. KeyOf(s) = "none"
    BY <2>1 DEF KeyOf
  <2>4. \A t \in keys' : created'[t] \notin {"none", "built"}
    BY <2>1 DEF KeyInv, SessionInv, TypeOK
  <2>5. key' = [key EXCEPT ![s] = "held"] /\ key[s] = "none"
    BY <2>2, <2>3
  <2>6. Promise!Mint(s)
    BY <1>1, <2>5 DEF Promise!Mint
  <2> QED
    BY <1>2, <2>4, <2>6 DEF Owed, KeyInv, Promise!Next
<1>6. CASE SaveKeyFails(s)
  <2>1. /\ keys' = keys \ {s}
        /\ \A t \in Sessions : /\ t # s => created'[t] = created[t]
                               /\ t = s => created[t] = "listed" /\ created'[t] = "failed"
    BY <1>3, <1>6 DEF SaveKeyFails
  <2>2. \A t \in Sessions : KeyOf(t)' = IF t = s THEN "spent" ELSE KeyOf(t)
    BY <2>1 DEF KeyOf
  <2>3. KeyOf(s) = IF s \in keys THEN "held" ELSE "spent"
    BY <2>1 DEF KeyOf
  <2>4. \A t \in keys' : created'[t] \notin {"none", "built"}
    BY <2>1 DEF KeyInv, SessionInv, TypeOK
  <2>5. CASE s \in keys
    <3>1. key' = [key EXCEPT ![s] = "spent"] /\ key[s] = "held"
      BY <2>2, <2>3, <2>5
    <3>2. Promise!Spend(s)
      BY <1>1, <3>1 DEF Promise!Spend
    <3> QED
      BY <1>2, <2>4, <3>2 DEF Owed, KeyInv, Promise!Next
  <2>6. CASE s \notin keys
    <3>1. \A t \in Sessions : KeyOf(t)' = KeyOf(t)
      BY <2>2, <2>3, <2>6
    <3> QED
      BY <1>1, <1>2, <2>4, <3>1 DEF Owed, KeyInv, Promise!vars
  <2> QED
    BY <2>5, <2>6
<1>7. CASE ListSession(s) \/ SaveKey(s) \/ FinishRequest(s)
  <2>1. /\ keys' = keys
        /\ \A t \in Sessions : /\ t # s => created'[t] = created[t]
                               /\ t = s => /\ created[t] \notin {"none", "built"}
                                           /\ created'[t] \notin {"none", "built"}
    BY <1>3, <1>7 DEF ListSession, SaveKey, FinishRequest, store
  <2>2. \A t \in Sessions : KeyOf(t)' = KeyOf(t)
    BY <2>1 DEF KeyOf
  <2>3. \A t \in keys' : created'[t] \notin {"none", "built"}
    BY <2>1 DEF KeyInv, SessionInv, TypeOK
  <2> QED
    BY <1>1, <1>2, <2>2, <2>3 DEF Owed, KeyInv, Promise!vars
<1> QED
  BY <1>4, <1>5, <1>6, <1>7 DEF Create

LEMMA PostOwes ==
  ASSUME SessionInv, KeyInv, NEW p \in Posts, NEW s \in Sessions, NEW b \in Bodies, Post(p, s, b)
  PROVE  Owed
<1>1. /\ pc[p] = "idle" /\ created[s] \notin {"none", "built"} /\ target[p] = NoSession
      /\ target' = [target EXCEPT ![p] = s] /\ body' = [body EXCEPT ![p] = b]
      /\ UNCHANGED <<created, keys, results, answer, hasKey>>
  BY DEF Post, store, KeyInv, Stands
<1>2. \A q \in Posts : /\ q # p => pc'[q] = pc[q] /\ target'[q] = target[q] /\ body'[q] = body[q]
                       /\ q = p => pc'[q] \in {"save_body", "parse"}
  BY DEF SessionInv, TypeOK, Post
<1>3. \A q \in Posts : Stands(q, pc[q])'
  BY <1>1, <1>2 DEF KeyInv, Stands
<1>4. \A t \in Sessions : KeyOf(t)' = KeyOf(t)
  BY <1>1 DEF KeyOf
<1>5. KeyOf(s) # "none"
  BY <1>1 DEF KeyOf
<1>6. Promise!Ask(p, s, b)
  BY <1>1, <1>4, <1>5 DEF Promise!Ask
<1> QED
  BY <1>1, <1>3, <1>6 DEF Owed, KeyInv, Promise!Next

\* The session of a handler that drops the key is left with a spent one.
LEMMA DropSpends ==
  ASSUME SessionInv, KeyInv, NEW p \in Posts, pc[p] \notin {"idle", "over"},
         keys' = keys \ {target[p]}, created' = created
  PROVE  /\ [t \in Sessions |-> KeyOf(t)]' = [[t \in Sessions |-> KeyOf(t)] EXCEPT ![target[p]] = "spent"]
         /\ KeyOf(target[p]) = IF target[p] \in keys THEN "held" ELSE "spent"
<1>1. target[p] \in Sessions /\ created[target[p]] \notin {"none", "built"}
  BY AtWork
<1>2. \A t \in Sessions : KeyOf(t)' = IF t = target[p] THEN "spent" ELSE KeyOf(t)
  BY <1>1 DEF KeyOf
<1> QED
  BY <1>1, <1>2 DEF KeyOf

\* A handler that answers anything but an internal error leaves the key spent.
LEMMA FinishOwes ==
  ASSUME SessionInv, KeyInv, NEW p \in Posts, pc[p] \notin {"idle", "over"},
         NEW a \in {"bad_request", "verified", "rejected"}, Finish(p, a),
         keys' = keys \ {target[p]},
         a \in {"verified", "rejected"} => results[target[p]] # "none",
         a = "verified" => results[target[p]] = "verified",
         a = "bad_request" => p \notin hasKey,
         UNCHANGED <<created, results, target, body, hasKey>>
  PROVE  Owed
<1>1. \A q \in Posts : /\ pc'[q] = IF q = p THEN "over" ELSE pc[q]
                       /\ answer'[q] = IF q = p THEN a ELSE answer[q]
  BY DEF SessionInv, TypeOK, Finish
<1>2. KeyInv'
  <2>1. \A q \in Posts : Stands(q, pc[q])'
    BY <1>1 DEF KeyInv, Stands
  <2> QED
    BY <2>1 DEF KeyInv
<1>3. Promise!Tell(p, a)
  BY AtWork, DropSpends DEF Finish, Promise!Tell
<1> QED
  BY <1>2, <1>3 DEF Owed, Promise!Next

LEMMA InternalOwes ==
  ASSUME SessionInv, KeyInv, NEW p \in Posts, pc[p] \notin {"idle", "over"}, Finish(p, "internal"),
         UNCHANGED <<created, keys, results, target, body, hasKey>>
  PROVE  Owed
<1>1. \A q \in Posts : /\ pc'[q] = IF q = p THEN "over" ELSE pc[q]
                       /\ answer'[q] = IF q = p THEN "internal" ELSE answer[q]
  BY DEF SessionInv, TypeOK, Finish, Answers
<1>2. KeyInv'
  <2>1. \A q \in Posts : Stands(q, pc[q])'
    BY <1>1 DEF KeyInv, Stands
  <2> QED
    BY <2>1 DEF KeyInv
<1>3. \A t \in Sessions : KeyOf(t)' = KeyOf(t)
  BY DEF KeyOf
<1>4. Promise!Fail(p)
  BY <1>3, AtWork DEF Finish, Promise!Fail
<1> QED
  BY <1>2, <1>4 DEF Owed, Promise!Next

LEMMA SettleOwes ==
  ASSUME SessionInv, KeyInv, NEW p \in Posts, pc[p] \notin {"idle", "over"},
         NEW to \in {"plain_drop", "drop_key"}, pc' = [pc EXCEPT ![p] = to],
         NEW how \in {"verified", "rejected"},
         how = "verified" => p \in hasKey /\ Acceptable(body[p]),
         results' = [results EXCEPT ![target[p]] = how],
         UNCHANGED <<created, keys, target, body, answer, hasKey>>
  PROVE  Owed
<1>1. \A q \in Posts : pc'[q] = IF q = p THEN to ELSE pc[q]
  BY DEF SessionInv, TypeOK
<1>2. \A s \in Sessions : results'[s] = IF s = target[p] THEN how ELSE results[s]
  BY DEF SessionInv, TypeOK
<1>3. ASSUME NEW q \in Posts PROVE Stands(q, pc[q])'
  <2>1. Stands(q, pc[q]) /\ target[p] \in Sessions
    BY AtWork DEF KeyInv
  <2>2. q # p /\ pc[q] = "plain_drop" => target[q] \in Sessions
    BY DEF SessionInv, Here
  <2> QED
    BY <1>1, <1>2, <2>1, <2>2 DEF Stands
<1>4. KeyInv'
  BY <1>3 DEF KeyInv
<1>5. \A t \in Sessions : KeyOf(t)' = KeyOf(t)
  BY DEF KeyOf
<1>6. Promise!Settle(p, how)
  BY <1>5, AtWork DEF Promise!Settle
<1> QED
  BY <1>4, <1>6 DEF Owed, Promise!Next

LEMMA ReadKeyOwes ==
  ASSUME SessionInv, KeyInv, NEW p \in Posts, ReadKey(p)
  PROVE  Owed
<1>0. /\ pc[p] = "read_key" /\ pc[p] \notin {"idle", "over"}
      /\ body[p].kind = "encrypted"
      /\ UNCHANGED <<created, keys, results, target, body, answer>>
  BY DEF ReadKey, SessionInv, Here, Sealed, store
<1>1. CASE target[p] \in keys
  <2>1. pc' = [pc EXCEPT ![p] = "decrypt"] /\ hasKey' = hasKey \cup {p}
    BY <1>1 DEF ReadKey
  <2>2. \A q \in Posts : /\ pc'[q] = IF q = p THEN "decrypt" ELSE pc[q]
                         /\ q \in hasKey' <=> q = p \/ q \in hasKey
    BY <2>1 DEF SessionInv, TypeOK
  <2>3. \A q \in Posts : Stands(q, pc[q])'
    BY <1>0, <2>2 DEF KeyInv, Stands
  <2>4. KeyInv'
    BY <1>0, <2>3 DEF KeyInv
  <2>5. \A t \in Sessions : KeyOf(t)' = KeyOf(t)
    BY <1>0 DEF KeyOf
  <2>6. KeyOf(target[p]) = "held"
    BY <1>1 DEF KeyOf
  <2>7. Promise!Open(p)
    BY <1>0, <2>1, <2>5, <2>6, AtWork DEF Promise!Open
  <2> QED
    BY <2>4, <2>7 DEF Owed, Promise!Next
<1>2. CASE target[p] \notin keys
  <2>1. pc' = [pc EXCEPT ![p] = "no_key"] /\ hasKey' = hasKey
    BY <1>2 DEF ReadKey
  <2> QED
    BY <1>0, <2>1, QuietMove DEF PCs, store
<1> QED
  BY <1>1, <1>2

LEMMA KeyDroppedOwes ==
  ASSUME SessionInv, KeyInv, NEW p \in Posts, KeyDropped(p)
  PROVE  Owed
<1>1. /\ pc[p] = "drop_key" /\ pc[p] \notin {"idle", "over"} /\ pc' = [pc EXCEPT ![p] = "answer"]
      /\ keys' = keys \ {target[p]}
      /\ UNCHANGED <<created, results, target, body, answer, hasKey>>
  BY DEF KeyDropped, Goto, DropKey
<1>2. \A q \in Posts : pc'[q] = IF q = p THEN "answer" ELSE pc[q]
  BY <1>1 DEF SessionInv, TypeOK
<1>3. \A q \in Posts : Stands(q, pc[q])'
  BY <1>1, <1>2 DEF KeyInv, Stands
<1>4. KeyInv'
  BY <1>1, <1>3 DEF KeyInv
<1>5. target[p] \in Sessions
  BY <1>1, AtWork
<1> DEFINE key == [t \in Sessions |-> KeyOf(t)]
<1>6. key' = [key EXCEPT ![target[p]] = "spent"]
  BY <1>1, DropSpends
<1>7. key[target[p]] = IF target[p] \in keys THEN "held" ELSE "spent"
  BY <1>1, <1>5, DropSpends
<1>8. key \in [Sessions -> {"none", "held", "spent"}]
  BY DEF KeyOf
<1>9. CASE target[p] \in keys
  <2>1. Promise!Spend(target[p])
    BY <1>1, <1>6, <1>7, <1>9 DEF Promise!Spend
  <2> QED
    BY <1>4, <1>5, <2>1 DEF Owed, Promise!Next
<1>10. CASE target[p] \notin keys
  <2>1. key' = key
    <3> HIDE DEF key
    <3> QED
      BY <1>6, <1>7, <1>8, <1>10
  <2> QED
    BY <1>1, <1>4, <2>1 DEF Owed, Promise!vars
<1> QED
  BY <1>9, <1>10

\* The last step of the handler follows the removal of the key.
LEMMA AnswerOwes ==
  ASSUME SessionInv, KeyInv, NEW p \in Posts, AnswerPost(p)
  PROVE  Owed
<1>1. /\ pc[p] = "answer" /\ pc[p] \notin {"idle", "over"} /\ target[p] \notin keys
      /\ UNCHANGED <<created, keys, results, target, body, hasKey>>
  BY DEF AnswerPost, SessionInv, Here, store
<1>2. keys' = keys \ {target[p]}
  BY <1>1
<1>3. results[target[p]] \in {"none", "verified", "rejected"}
  BY <1>1, AtWork DEF SessionInv, TypeOK
<1>4. CASE results[target[p]] = "none"
  BY <1>1, <1>4, InternalOwes DEF AnswerPost
<1>5. CASE results[target[p]] # "none"
  BY <1>1, <1>2, <1>3, <1>5, FinishOwes DEF AnswerPost
<1> QED
  BY <1>4, <1>5

LEMMA HandleOwes ==
  ASSUME SessionInv, KeyInv, NEW p \in Posts, Handle(p)
  PROVE  Owed
<1>1. CASE SaveBody(p) \/ TraceReceived(p) \/ PlainTraced(p) \/ SaveContext(p) \/ TraceNoKey(p)
  <2>1. \E to \in {"parse", "plain_trace", "save_context", "read_key", "plain_store",
                   "store_rejected"} :
          /\ to = "parse" => pc[p] = "save_body"
          /\ pc' = [pc EXCEPT ![p] = to]
    BY <1>1 DEF SaveBody, TraceReceived, PlainTraced, SaveContext, TraceNoKey, Trace
  <2>2. /\ pc[p] \notin {"idle", "over"}
        /\ UNCHANGED <<created, store, target, body, answer, hasKey>>
    BY <1>1 DEF SaveBody, TraceReceived, PlainTraced, SaveContext, TraceNoKey, Trace
  <2> QED
    BY <2>1, <2>2, QuietMove DEF PCs
<1>2. CASE \/ DecryptFails(p) \/ Decrypt(p) \/ SaveDecrypted(p) \/ TraceDecrypted(p)
           \/ NoteSeveral(p)
  <2>1. \E to \in {"store_rejected", "save_decrypted", "decrypted", "note", "present"} :
          pc' = [pc EXCEPT ![p] = to]
    BY <1>2 DEF DecryptFails, Decrypt, SaveDecrypted, TraceDecrypted, NoteSeveral, Trace, Goto
  <2>2. /\ pc[p] \notin {"idle", "over"}
        /\ UNCHANGED <<created, store, target, body, answer, hasKey>>
    BY <1>2 DEF DecryptFails, Decrypt, SaveDecrypted, TraceDecrypted, NoteSeveral, Trace, Goto
  <2> QED
    BY <2>1, <2>2, QuietMove DEF PCs
<1>3. CASE \/ PresentationInvalid(p) \/ PresentationVerified(p) \/ TraceRevoked(p)
           \/ TraceOverAsk(p) \/ LastPresentation(p)
  <2>1. \E to \in {"store_rejected", "status", "over_ask", "present", "store_verified"} :
          pc' = [pc EXCEPT ![p] = to]
    BY <1>3 DEF PresentationInvalid, PresentationVerified, TraceRevoked, TraceOverAsk,
                LastPresentation, Trace, Goto
  <2>2. /\ pc[p] \notin {"idle", "over"}
        /\ UNCHANGED <<created, store, target, body, answer, hasKey>>
    BY <1>3 DEF PresentationInvalid, PresentationVerified, TraceRevoked, TraceOverAsk,
                LastPresentation, Trace, Goto
  <2> QED
    BY <2>1, <2>2, QuietMove DEF PCs
<1>4. CASE CheckStatus(p)
  <2>1. pc[p] = "status" /\ UNCHANGED <<created, store, target, body, answer, hasKey>>
    BY <1>4 DEF CheckStatus
  <2>2. Current(p) \in {"valid", "revoked", "no_ref", "infra"}
    <3>1. body[p] \in Bodies /\ next[p] \in Nat \ {0} /\ Here(p, "status")
      BY <2>1 DEF SessionInv, TypeOK, Here
    <3> QED
      BY <3>1, BodyType DEF Here, HasCurrent, Current, Findings
  <2>3. \E to \in {"over_ask", "revoked", "store_rejected"} : pc' = [pc EXCEPT ![p] = to]
    BY <1>4, <2>2 DEF CheckStatus, Trace
  <2> QED
    BY <2>1, <2>3, QuietMove DEF PCs
<1>5. CASE SaveBodyFails(p)
  BY <1>5, InternalOwes DEF SaveBodyFails, store
<1>6. CASE RejectMalformed(p)
  <2>1. pc[p] = "parse" /\ p \notin hasKey
    BY <1>6 DEF RejectMalformed, KeyInv, Stands
  <2> QED
    BY <1>6, <2>1, FinishOwes DEF RejectMalformed, DropKey
<1>7. CASE PlainStored(p)
  BY <1>7, SettleOwes DEF PlainStored, Goto
<1>8. CASE PlainAnswered(p)
  <2>1. pc[p] = "plain_drop" /\ results[target[p]] # "none"
    BY <1>8 DEF PlainAnswered, KeyInv, Stands
  <2> QED
    BY <1>8, <2>1, FinishOwes DEF PlainAnswered, DropKey
<1>9. CASE StoreResult(p)
  <2>1. pc[p] = "store_verified" => p \in hasKey /\ Acceptable(body[p])
    BY DEF SessionInv, Here, Keyed, Opened
  <2> QED
    BY <1>9, <2>1, SettleOwes DEF StoreResult, Goto
<1> QED
  BY <1>1, <1>2, <1>3, <1>4, <1>5, <1>6, <1>7, <1>8, <1>9, ReadKeyOwes, KeyDroppedOwes,
     AnswerOwes DEF Handle

LEMMA HangUpOwes ==
  ASSUME SessionInv, KeyInv, NEW p \in Posts, HangUp(p)
  PROVE  Owed
BY QuietMove DEF HangUp, PCs

LEMMA StepOwes == SessionInv /\ KeyInv /\ [Next]_vars => Owed
<1> SUFFICES ASSUME SessionInv, KeyInv, [Next]_vars PROVE Owed
  OBVIOUS
<1>1. ASSUME UNCHANGED <<created, keys, results, pc, target, body, answer, hasKey>> PROVE Owed
  <2>1. KeyInv'
    BY <1>1 DEF KeyInv, Stands
  <2> QED
    BY <1>1, <2>1, Unseen DEF Owed
<1>2. ASSUME NEW s \in Sessions, LoadPage(s) PROVE Owed
  BY <1>1, <1>2 DEF LoadPage, store, post
<1>3. CASE UNCHANGED vars
  BY <1>1, <1>3 DEF vars
<1> QED
  BY <1>2, <1>3, CreateOwes, PostOwes, HandleOwes, HangUpOwes DEF Next, Quiet

-------------------------------------------------------------------------------
(* The theorems *)

THEOREM SessionInvariant == Spec => []SessionInv
BY InitInv, StepInv, PTL DEF Spec

\* The maps, the trace and the handlers keep their types: in particular every
\* outcome code the handlers write is one that the page's pill knows.
THEOREM SessionTyped == Spec => []TypeOK
BY SessionInvariant, PTL DEF SessionInv

\* A session is verified, in the result map or in an answer, only after a post
\* to it carried a response all of whose presentations hold and whose handler
\* read the key before it was dropped, however many posts run at once.
THEOREM VerifiedOnlyIfEarned == Spec => []VerifiedIsEarned
BY SessionInvariant, InvEarns, PTL

\* A post that comes after an answered one never reads the key: every answer of
\* receive_response but an internal error follows the removal of the key, and
\* create_request inserts it before anybody may post.
THEOREM SpentKeysStaySpent == Spec => []SpentStaysSpent
BY SessionInvariant, InvSpends, PTL

\* The handlers keep what SessionKey promises: whatever posts run at once, a
\* key is minted once, opens encrypted bodies while the map holds it, and is
\* gone for good by the time a post is told its outcome or that its body is no
\* response; a verified result was stored by a handler whose body was good and
\* that had the key, and nobody is told an outcome that was not stored.
THEOREM SessionKeepsPromise == Spec => ImplementsSessionKey
<1>1. SessionInv /\ KeyInv /\ [Next]_vars => KeyInv' /\ [Promise!Next]_(Promise!vars)
  BY StepOwes DEF Owed
<1> QED
  BY InitPromised, SessionInvariant, <1>1, PTL DEF Spec, ImplementsSessionKey, Promise!Spec
===============================================================================
