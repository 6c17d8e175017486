------------------------------ MODULE ServeSession ------------------------------
(***************************************************************************)
(* The presentation sessions of augenmass serve: a session is minted with  *)
(* its own response-encryption key, the wallet fetches the request object  *)
(* and posts its response, and the handler of that post decrypts, verifies *)
(* and stores an outcome while it writes the session's trace.              *)
(*                                                                         *)
(* Posts to one session run concurrently: a wallet retries, or a stray     *)
(* client posts rubbish to a session listed by /api/sessions.  The key     *)
(* map, the result map and the trace each have their own async mutex; an   *)
(* action is one section under one of them.  Nobody holds two.             *)
(*                                                                         *)
(* What cryptography decides about a body is data here: a body is a record *)
(* that says whether it parses, whether it is encrypted, whether it        *)
(* decrypts under the session's key, and what checking each presentation   *)
(* it carries would find.                                                  *)
(***************************************************************************)
EXTENDS Naturals, Sequences, FiniteSets

CONSTANTS
  Sessions,        \* presentation sessions
  Posts,           \* POST /response requests, each with its handler task
  Bodies,          \* the bodies a post may carry
  LiveStatus,      \* --live-status, with trust anchors configured
  DebugArtifacts,  \* --unsafe-debug-artifacts
  NoSession,       \* the target of a request not made yet
  NoBody           \* and its body

Findings == {"invalid", "valid", "revoked", "no_ref", "infra"}

ASSUME ServeSessionAssumption ==
  /\ Bodies \subseteq [kind : {"malformed", "plaintext", "encrypted"},
                       decrypts : BOOLEAN,
                       presentations : Seq(Findings)]
  /\ LiveStatus \in BOOLEAN
  /\ DebugArtifacts \in BOOLEAN
  /\ NoSession \notin Sessions
  /\ NoBody \notin Bodies

VARIABLES
  created,  \* how far create_request got with each session
  keys,     \* AppState::encryption_keys: the sessions that have a key
  results,  \* AppState::results
  trace,    \* TraceStore: the last outcome event of each session, if any
  page,     \* external: the pill the operator's browser shows for a session
  pc,       \* where the handler of each post stands
  target,   \* the session each post is for
  body,     \* its body
  next,     \* the presentation its handler checks next
  answer,   \* what the post was answered
  hasKey,   \* posts whose handler got a clone of the session's key
  late      \* history: posts that came after an answered post to the session

store == <<keys, results>>
post == <<pc, target, body, next, answer, hasKey, late>>
vars == <<created, keys, results, trace, page, pc, target, body, next, answer,
          hasKey, late>>

-------------------------------------------------------------------------------

\* The trace events that decide what the trace page shows.
Outcomes == {"VERIFIED", "REJECTED", "ERROR"}

PCs == {"idle", "save_body", "parse", "plain_trace", "plain_store", "plain_drop",
        "save_context", "read_key", "no_key", "decrypt", "save_decrypted",
        "decrypted", "note", "present", "status", "revoked", "over_ask",
        "store_verified", "store_rejected", "drop_key", "answer", "over",
        "dropped"}

Answers == {"none", "bad_request", "internal", "verified", "rejected"}

TypeOK ==
  /\ created \in [Sessions -> {"none", "built", "keyed", "listed", "saved", "ready", "failed"}]
  /\ keys \subseteq Sessions
  /\ results \in [Sessions -> {"none", "verified", "rejected"}]
  /\ trace \in [Sessions -> {"none"} \cup Outcomes]
  /\ page \in [Sessions -> {"none", "live", "verified", "rejected"}]
  /\ pc \in [Posts -> PCs]
  /\ target \in [Posts -> Sessions \cup {NoSession}]
  /\ body \in [Posts -> Bodies \cup {NoBody}]
  /\ next \in [Posts -> Nat \ {0}]
  /\ answer \in [Posts -> Answers]
  /\ hasKey \subseteq Posts
  /\ late \subseteq Posts

Init ==
  /\ created = [s \in Sessions |-> "none"]
  /\ keys = {}
  /\ results = [s \in Sessions |-> "none"]
  /\ trace = [s \in Sessions |-> "none"]
  /\ page = [s \in Sessions |-> "none"]
  /\ pc = [p \in Posts |-> "idle"]
  /\ target = [p \in Posts |-> NoSession]
  /\ body = [p \in Posts |-> NoBody]
  /\ next = [p \in Posts |-> 1]
  /\ answer = [p \in Posts |-> "none"]
  /\ hasKey = {}
  /\ late = {}

-------------------------------------------------------------------------------
(* Helpers *)

\* TraceStore::record.  Of the events only the last outcome is kept: the page
\* scans them from the end for it and nothing else reads them back.
Record(s, code) ==
  trace' = IF code \in Outcomes THEN [trace EXCEPT ![s] = code] ELSE trace

\* What the trace page shows of a session whose last outcome event is code.
Pill(code) ==
  CASE code = "none" -> "live"
    [] code = "VERIFIED" -> "verified"
    [] code \in {"REJECTED", "ERROR"} -> "rejected"

\* The handler of p writes an event of its session and goes on at to.
Trace(p, from, code, to) ==
  /\ pc[p] = from
  /\ Record(target[p], code)
  /\ pc' = [pc EXCEPT ![p] = to]

Goto(p, from, to) ==
  /\ pc[p] = from
  /\ pc' = [pc EXCEPT ![p] = to]

Finish(p, a) ==
  /\ pc' = [pc EXCEPT ![p] = "over"]
  /\ answer' = [answer EXCEPT ![p] = a]

DropKey(p) == keys' = keys \ {target[p]}

Answered(s) ==
  {p \in Posts : target[p] = s /\ answer[p] \in {"bad_request", "verified", "rejected"}}

-------------------------------------------------------------------------------
(* create_request *)

\* The OpenID4VP library signs the request object and stores the session.
BuildSession(s) ==
  /\ created[s] = "none"
  /\ created' = [created EXCEPT ![s] = "built"]
  /\ UNCHANGED <<store, trace, page, post>>

InsertKey(s) ==
  /\ created[s] = "built"
  /\ created' = [created EXCEPT ![s] = "keyed"]
  /\ keys' = keys \cup {s}
  /\ UNCHANGED <<results, trace, page, post>>

ListSession(s) ==
  /\ created[s] = "keyed"
  /\ created' = [created EXCEPT ![s] = IF DebugArtifacts THEN "listed" ELSE "saved"]
  /\ Record(s, "SESSION_CREATED")
  /\ UNCHANGED <<store, page, post>>

\* The key is read back from the map, where a post may have removed it.
SaveKey(s) ==
  /\ created[s] = "listed"
  /\ s \in keys
  /\ created' = [created EXCEPT ![s] = "saved"]
  /\ Record(s, "ARTIFACT_SAVED")
  /\ UNCHANGED <<store, page, post>>

SaveKeyFails(s) ==
  /\ created[s] = "listed"
  /\ created' = [created EXCEPT ![s] = "failed"]
  /\ keys' = keys \ {s}
  /\ UNCHANGED <<results, trace, page, post>>

FinishRequest(s) ==
  /\ created[s] = "saved"
  /\ created' = [created EXCEPT ![s] = "ready"]
  /\ Record(s, "REQUEST_BUILT")
  /\ UNCHANGED <<store, page, post>>

Create(s) ==
  \/ BuildSession(s) \/ InsertKey(s) \/ ListSession(s)
  \/ SaveKey(s) \/ SaveKeyFails(s) \/ FinishRequest(s)

-------------------------------------------------------------------------------
(* The trace page *)

\* Mutant: the page takes the code of the event for its pill.
LoadPage_RawCode(s) ==
  /\ created[s] = "ready"
  /\ page[s] \in {"none", "live"}
  /\ page' = [page EXCEPT ![s] = trace[s]]
  /\ UNCHANGED <<created, store, trace, post>>

\* The page reloads itself while its pill is live and then stays as it is.
LoadPage(s) ==
  /\ created[s] = "ready"
  /\ page[s] \in {"none", "live"}
  /\ page' = [page EXCEPT ![s] = Pill(trace[s])]
  /\ UNCHANGED <<created, store, trace, post>>

-------------------------------------------------------------------------------
(* receive_response *)

\* The session of a post is known to its client: it is in the store and listed.
Post(p, s, b) ==
  /\ created[s] \notin {"none", "built", "keyed"}
  /\ pc[p] = "idle"
  /\ pc' = [pc EXCEPT ![p] = IF DebugArtifacts THEN "save_body" ELSE "parse"]
  /\ target' = [target EXCEPT ![p] = s]
  /\ body' = [body EXCEPT ![p] = b]
  /\ late' = IF Answered(s) # {} THEN late \cup {p} ELSE late
  /\ UNCHANGED <<created, store, trace, page, next, answer, hasKey>>

SaveBody(p) ==
  /\ Trace(p, "save_body", "ARTIFACT_SAVED", "parse")
  /\ UNCHANGED <<created, store, page, target, body, next, answer, hasKey, late>>

SaveBodyFails(p) ==
  /\ pc[p] = "save_body"
  /\ Finish(p, "internal")
  /\ UNCHANGED <<created, store, trace, page, target, body, next, hasKey, late>>

\* Mutant: the early return forgets the session's key.
RejectMalformed_KeepsKey(p) ==
  /\ pc[p] = "parse"
  /\ body[p].kind = "malformed"
  /\ Finish(p, "bad_request")
  /\ UNCHANGED <<created, store, trace, page, target, body, next, hasKey, late>>

RejectMalformed(p) ==
  /\ pc[p] = "parse"
  /\ body[p].kind = "malformed"
  /\ DropKey(p)
  /\ Finish(p, "bad_request")
  /\ UNCHANGED <<created, results, trace, page, target, body, next, hasKey, late>>

TraceReceived(p) ==
  /\ pc[p] = "parse"
  /\ body[p].kind # "malformed"
  /\ Trace(p, "parse", "RESPONSE_RECEIVED",
           IF body[p].kind = "plaintext" THEN "plain_trace"
           ELSE IF DebugArtifacts THEN "save_context" ELSE "read_key")
  /\ UNCHANGED <<created, store, page, target, body, next, answer, hasKey, late>>

PlainTraced(p) ==
  /\ Trace(p, "plain_trace", "REJECTED", "plain_store")
  /\ UNCHANGED <<created, store, page, target, body, next, answer, hasKey, late>>

PlainStored(p) ==
  /\ Goto(p, "plain_store", "plain_drop")
  /\ results' = [results EXCEPT ![target[p]] = "rejected"]
  /\ UNCHANGED <<created, keys, trace, page, target, body, next, answer, hasKey, late>>

PlainAnswered(p) ==
  /\ pc[p] = "plain_drop"
  /\ DropKey(p)
  /\ Finish(p, "rejected")
  /\ UNCHANGED <<created, results, trace, page, target, body, next, hasKey, late>>

-------------------------------------------------------------------------------
(* verify_any *)

SaveContext(p) ==
  /\ \/ Trace(p, "save_context", "ARTIFACT_SAVED", "read_key")
     \/ Trace(p, "save_context", "ERROR", "store_rejected")
  /\ UNCHANGED <<created, store, page, target, body, next, answer, hasKey, late>>

\* The key is cloned and the mutex released: the map keeps the key.
ReadKey(p) ==
  /\ pc[p] = "read_key"
  /\ IF target[p] \in keys
     THEN /\ hasKey' = hasKey \cup {p}
          /\ pc' = [pc EXCEPT ![p] = "decrypt"]
     ELSE /\ UNCHANGED hasKey
          /\ pc' = [pc EXCEPT ![p] = "no_key"]
  /\ UNCHANGED <<created, store, trace, page, target, body, next, answer, late>>

TraceNoKey(p) ==
  /\ Trace(p, "no_key", "REJECTED", "store_rejected")
  /\ UNCHANGED <<created, store, page, target, body, next, answer, hasKey, late>>

DecryptFails(p) ==
  /\ pc[p] = "decrypt"
  /\ ~body[p].decrypts
  /\ Trace(p, "decrypt", "REJECTED", "store_rejected")
  /\ UNCHANGED <<created, store, page, target, body, next, answer, hasKey, late>>

Decrypt(p) ==
  /\ pc[p] = "decrypt"
  /\ body[p].decrypts
  /\ Goto(p, "decrypt", IF DebugArtifacts THEN "save_decrypted" ELSE "decrypted")
  /\ UNCHANGED <<created, store, trace, page, target, body, next, answer, hasKey, late>>

SaveDecrypted(p) ==
  /\ \/ Trace(p, "save_decrypted", "ARTIFACT_SAVED", "decrypted")
     \/ Trace(p, "save_decrypted", "ERROR", "store_rejected")
  /\ UNCHANGED <<created, store, page, target, body, next, answer, hasKey, late>>

TraceDecrypted(p) ==
  /\ Trace(p, "decrypted", "RESPONSE_DECRYPTED",
           IF Len(body[p].presentations) > 1 THEN "note" ELSE "present")
  /\ UNCHANGED <<created, store, page, target, body, next, answer, hasKey, late>>

-------------------------------------------------------------------------------
(* verify_vp_token *)

NoteSeveral(p) ==
  /\ Trace(p, "note", "NOTE", "present")
  /\ UNCHANGED <<created, store, page, target, body, next, answer, hasKey, late>>

Current(p) == body[p].presentations[next[p]]
HasCurrent(p) == next[p] <= Len(body[p].presentations)

PresentationInvalid(p) ==
  /\ pc[p] = "present"
  /\ HasCurrent(p) /\ Current(p) = "invalid"
  /\ Trace(p, "present", "REJECTED", "store_rejected")
  /\ UNCHANGED <<created, store, page, target, body, next, answer, hasKey, late>>

\* Verified offline: the status list has not been asked yet.
PresentationVerified(p) ==
  /\ pc[p] = "present"
  /\ HasCurrent(p) /\ Current(p) # "invalid"
  /\ Trace(p, "present", "VERIFIED", IF LiveStatus THEN "status" ELSE "over_ask")
  /\ UNCHANGED <<created, store, page, target, body, next, answer, hasKey, late>>

\* Mutant: the fetch has no timeout.
CheckStatus_NoTimeout(p) ==
  /\ pc[p] = "status"
  /\ CASE Current(p) = "valid" -> Trace(p, "status", "STATUS_CHECKED", "over_ask")
       [] Current(p) = "revoked" -> Trace(p, "status", "STATUS_CHECKED", "revoked")
       [] Current(p) = "no_ref" -> Trace(p, "status", "REJECTED", "store_rejected")
       [] Current(p) = "infra" -> FALSE
  /\ UNCHANGED <<created, store, page, target, body, next, answer, hasKey, late>>

\* The fetch of the status list ends, by its timeout if need be.
CheckStatus(p) ==
  /\ pc[p] = "status"
  /\ CASE Current(p) = "valid" -> Trace(p, "status", "STATUS_CHECKED", "over_ask")
       [] Current(p) = "revoked" -> Trace(p, "status", "STATUS_CHECKED", "revoked")
       [] Current(p) = "no_ref" -> Trace(p, "status", "REJECTED", "store_rejected")
       [] Current(p) = "infra" -> Trace(p, "status", "ERROR", "store_rejected")
  /\ UNCHANGED <<created, store, page, target, body, next, answer, hasKey, late>>

\* Mutant: the revocation is traced and the loop goes on.
TraceRevoked_GoesOn(p) ==
  /\ Trace(p, "revoked", "REJECTED", "over_ask")
  /\ UNCHANGED <<created, store, page, target, body, next, answer, hasKey, late>>

\* Revoked or suspended.
TraceRevoked(p) ==
  /\ Trace(p, "revoked", "REJECTED", "store_rejected")
  /\ UNCHANGED <<created, store, page, target, body, next, answer, hasKey, late>>

TraceOverAsk(p) ==
  /\ Trace(p, "over_ask", "OVER_ASK_ANALYZED", "present")
  /\ next' = [next EXCEPT ![p] = @ + 1]
  /\ UNCHANGED <<created, store, page, target, body, answer, hasKey, late>>

\* No event is written for a response that carries no presentation.
LastPresentation(p) ==
  /\ pc[p] = "present"
  /\ ~HasCurrent(p)
  /\ Goto(p, "present",
          IF body[p].presentations = <<>> THEN "store_rejected" ELSE "store_verified")
  /\ UNCHANGED <<created, store, trace, page, target, body, next, answer, hasKey, late>>

-------------------------------------------------------------------------------
(* The rest of receive_response *)

StoreResult(p) ==
  /\ \/ /\ Goto(p, "store_verified", "drop_key")
        /\ results' = [results EXCEPT ![target[p]] = "verified"]
     \/ /\ Goto(p, "store_rejected", "drop_key")
        /\ results' = [results EXCEPT ![target[p]] = "rejected"]
  /\ UNCHANGED <<created, keys, trace, page, target, body, next, answer, hasKey, late>>

KeyDropped(p) ==
  /\ Goto(p, "drop_key", "answer")
  /\ DropKey(p)
  /\ UNCHANGED <<created, results, trace, page, target, body, next, answer, hasKey, late>>

\* The answer is what the result map holds by now.
AnswerPost(p) ==
  /\ pc[p] = "answer"
  /\ Finish(p, IF results[target[p]] = "none" THEN "internal" ELSE results[target[p]])
  /\ UNCHANGED <<created, store, trace, page, target, body, next, hasKey, late>>

\* The client hangs up: the handler's future is dropped where it stands.
HangUp(p) ==
  /\ pc[p] \notin {"idle", "over", "dropped"}
  /\ pc' = [pc EXCEPT ![p] = "dropped"]
  /\ UNCHANGED <<created, store, trace, page, target, body, next, answer, hasKey, late>>

Handle(p) ==
  \/ SaveBody(p) \/ SaveBodyFails(p) \/ RejectMalformed(p) \/ TraceReceived(p)
  \/ PlainTraced(p) \/ PlainStored(p) \/ PlainAnswered(p)
  \/ SaveContext(p) \/ ReadKey(p) \/ TraceNoKey(p)
  \/ DecryptFails(p) \/ Decrypt(p) \/ SaveDecrypted(p) \/ TraceDecrypted(p)
  \/ NoteSeveral(p) \/ PresentationInvalid(p) \/ PresentationVerified(p)
  \/ CheckStatus(p) \/ TraceRevoked(p) \/ TraceOverAsk(p) \/ LastPresentation(p)
  \/ StoreResult(p) \/ KeyDropped(p) \/ AnswerPost(p)

PostsOver == \A p \in Posts : pc[p] \in {"over", "dropped"}

\* Every post was handled and every page has settled or stays live.
Quiet ==
  /\ PostsOver
  /\ UNCHANGED vars

Next ==
  \/ \E s \in Sessions : Create(s) \/ LoadPage(s)
  \/ \E p \in Posts, s \in Sessions, b \in Bodies : Post(p, s, b)
  \/ \E p \in Posts : Handle(p) \/ HangUp(p)
  \/ Quiet

Spec == Init /\ [][Next]_vars

\* The runtime schedules every handler that can run, and a live page reloads.
FairSpec ==
  /\ Spec
  /\ \A p \in Posts : WF_vars(Handle(p))
  /\ \A s \in Sessions : WF_vars(LoadPage(s))

-------------------------------------------------------------------------------
(* Properties *)

\* What the verifier means to accept, independently of how it gets there.
Acceptable(b) ==
  /\ b.kind = "encrypted" /\ b.decrypts
  /\ b.presentations # <<>>
  /\ \A i \in DOMAIN b.presentations :
       IF LiveStatus THEN b.presentations[i] = "valid" ELSE b.presentations[i] # "invalid"

\* A session is verified, in the result map or in an answer, only if a post to
\* it carried an acceptable response and its handler still got the key.
VerifiedIsEarned ==
  \A s \in Sessions :
    (results[s] = "verified" \/ \E p \in Posts : target[p] = s /\ answer[p] = "verified")
    => \E q \in hasKey : target[q] = s /\ Acceptable(body[q])

\* A post that comes after an answered one never gets the key: a captured or
\* repeated response cannot be verified again.
SpentStaysSpent == late \cap hasKey = {}

\* What clients see of a session: its key is spent for good before a post is
\* answered, and only a good body that the key opened verifies it.
KeyOf(s) ==
  IF s \in keys THEN "held"
  ELSE IF created[s] \in {"none", "built"} THEN "none" ELSE "spent"

Promise == INSTANCE SessionKey WITH
  key <- [s \in Sessions |-> KeyOf(s)],
  to <- target, carries <- body, opened <- hasKey, result <- results, told <- answer,
  SealedBodies <- {b \in Bodies : b.kind = "encrypted"},
  GoodBodies <- {b \in Bodies : Acceptable(b)}

ImplementsSessionKey == Promise!Spec

\* Every post is answered, or its client hung up.
PostEnds == \A p \in Posts : (pc[p] # "idle") ~> (pc[p] \in {"over", "dropped"})

\* The key of a session decrypts at most one response.
KeyUsedOnce ==
  \A p, q \in hasKey : target[p] = target[q] => p = q

\* A page that stopped reloading shows the outcome the exchange ended with.
SettledPageHonest ==
  PostsOver => \A s \in Sessions :
                 page[s] \in {"verified", "rejected"} => page[s] = Pill(trace[s])
===============================================================================
