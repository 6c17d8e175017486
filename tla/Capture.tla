-------------------------------- MODULE Capture -------------------------------
(***************************************************************************)
(* The debug artifacts of one `serve` session, from its handlers to an     *)
(* evidence bundle.  The handlers of a session run at once: wallets fetch  *)
(* the request object and post responses, and each handler saves what it   *)
(* sees under a name of its own and adds it to the session's manifest.     *)
(* Neither the name nor the manifest is locked: a name is looked for and   *)
(* then written, the manifest is read, truncated and written again.        *)
(* `evidence export` reads the directory at any time.                      *)
(***************************************************************************)
EXTENDS Evidence

CONSTANTS
  Fetches, Posts,  \* the requests to the two endpoints
  Replies,         \* the bodies a wallet may post, each with its form, key and vps
  Claims,          \* the claim paths the session's request asks for
  Anchors,         \* the trust anchors of serve
  LiveStatus,      \* serve was started with --live-status
  Published,       \* the tokens a status list may publish
  SessionKey,      \* the session's encryption key
  ExportKey,       \* the key bundles are signed with, or "none"
  MaxTime          \* how far the clock runs

ASSUME CaptureAssumptions ==
  /\ Fetches \cap Posts = {}
  /\ MaxTime \in Nat
  /\ LiveStatus \in BOOLEAN

\* What a body may be, once it is parsed, and how many presentations it has.
ASSUME RepliesAssumption ==
  \A r \in Replies : /\ r.form \in {"jwe", "plain", "malformed"}
                     /\ r.vps \in Seq(ToSet(r.vps))

VARIABLES
  now,       \* the clock, in seconds
  at,        \* where each handler stands
  step,      \* how far it is in writing the artifact it stands at
  name,      \* the file name it found for that artifact
  read,      \* the manifest it read for that artifact
  reply,     \* what each post carries
  clock,     \* when each post took its time
  dir,       \* the session's files: their names and contents
  manifest,  \* the manifest's entries, and whether the file is truncated
  keyHeld,   \* the session's key has not been dropped
  disturbed  \* two handlers were writing at once, or a write failed

captureVars == <<now, at, step, name, read, reply, clock, dir, manifest, keyHeld, disturbed>>

Handlers == Fetches \cup Posts

FetchArtifacts == {"request.jwt", "request.payload.json"}
PostArtifacts == {"direct-post.body", "verification-context.json", "auth-response.json"}
Artifacts == FetchArtifacts \cup PostArtifacts
Answers == {"fetched", "verified", "rejected", "withheld", "failed"}
Verdicts == {"accept", "reject", "withhold"}

NoReply == [form |-> "none", key |-> "none", vps |-> <<>>]
NoName == Original("none")

\* What is left of a file whose write failed: it is no form and no JSON.
Scrap == [Blank EXCEPT !.readable = FALSE, !.form = "malformed"]

SessionBinding == [nonce |-> "nonce", aud |-> "aud"]

-------------------------------------------------------------------------------
(* Writing one artifact *)

ContentOf(h) ==
  CASE at[h] = "request.jwt" -> Blank
    [] at[h] = "request.payload.json" -> [Blank EXCEPT !.claims = Claims]
    [] at[h] = "direct-post.body" -> [Blank EXCEPT !.form = reply[h].form,
                                                   !.key = reply[h].key, !.vps = reply[h].vps]
    [] at[h] = "verification-context.json" -> [Blank EXCEPT !.nonce = SessionBinding.nonce,
                                                 !.aud = SessionBinding.aud, !.at = clock[h]]
    [] at[h] = "auth-response.json" -> [Blank EXCEPT !.vps = reply[h].vps]

Entry(filename, content) == [name |-> filename, content |-> content, sha |-> content]

Writing(h) == step[h] # "none"

\* Mutant: a file of that name is written over.
UniqueName_Overwrites(kind) == Original(kind)

\* The plain name, or the first number whose name is free.
UniqueName(kind) ==
  <<kind, CHOOSE n \in 1..(Cardinality(DOMAIN dir) + 1) :
            <<kind, n>> \notin DOMAIN dir /\ \A m \in 1..(n - 1) : <<kind, m>> \in DOMAIN dir>>

PickName(h) ==
  /\ at[h] \in Artifacts /\ step[h] = "none"
  /\ step' = [step EXCEPT ![h] = "named"]
  /\ name' = [name EXCEPT ![h] = UniqueName(at[h])]
  /\ disturbed' = (disturbed \/ \E other \in Handlers \ {h} : Writing(other))
  /\ UNCHANGED <<now, at, read, reply, clock, dir, manifest, keyHeld>>

\* The directory with one file in it written.
With(file, content) ==
  [f \in DOMAIN dir \cup {file} |-> IF f = file THEN content ELSE dir[f]]

WriteFile(h) ==
  /\ step[h] = "named"
  /\ step' = [step EXCEPT ![h] = "saved"]
  /\ dir' = With(name[h], ContentOf(h))
  /\ UNCHANGED <<now, at, name, read, reply, clock, manifest, keyHeld, disturbed>>

\* A truncated manifest does not parse and is taken for an empty one.
ReadManifest(h) ==
  /\ step[h] = "saved"
  /\ step' = [step EXCEPT ![h] = "read"]
  /\ read' = [read EXCEPT ![h] = IF manifest.torn THEN {} ELSE manifest.entries]
  /\ UNCHANGED <<now, at, name, reply, clock, dir, manifest, keyHeld, disturbed>>

TruncateManifest(h) ==
  /\ step[h] = "read"
  /\ step' = [step EXCEPT ![h] = "torn"]
  /\ manifest' = [torn |-> TRUE, entries |-> {}]
  /\ UNCHANGED <<now, at, name, read, reply, clock, dir, keyHeld, disturbed>>

After == [k \in Artifacts |->
  CASE k = "request.jwt" -> "request.payload.json"
    [] k = "request.payload.json" -> "fetched"
    [] k = "direct-post.body" -> "parse"
    [] k = "verification-context.json" -> "decrypt"
    [] k = "auth-response.json" -> "verify"]

\* The entries the manifest has after an artifact: its name is listed once.
Listed(h) == {e \in read[h] : e.name # name[h]} \cup {Entry(name[h], ContentOf(h))}

WriteManifest(h) ==
  /\ step[h] = "torn"
  /\ step' = [step EXCEPT ![h] = "none"]
  /\ at' = [at EXCEPT ![h] = After[@]]
  /\ name' = [name EXCEPT ![h] = NoName]
  /\ read' = [read EXCEPT ![h] = {}]
  /\ manifest' = [torn |-> FALSE, entries |-> Listed(h)]
  /\ UNCHANGED <<now, reply, clock, dir, keyHeld, disturbed>>

-------------------------------------------------------------------------------
(* The handlers *)

Fetch(h) ==
  /\ h \in Fetches /\ at[h] = "idle"
  /\ at' = [at EXCEPT ![h] = "request.jwt"]
  /\ UNCHANGED <<now, step, name, read, reply, clock, dir, manifest, keyHeld, disturbed>>

\* A wallet that posts has fetched the request before.
Post(h) ==
  /\ h \in Posts /\ at[h] = "idle"
  /\ \E f \in Fetches : at[f] = "fetched"
  /\ at' = [at EXCEPT ![h] = "direct-post.body"]
  /\ \E r \in Replies : reply' = [reply EXCEPT ![h] = r]
  /\ UNCHANGED <<now, step, name, read, clock, dir, manifest, keyHeld, disturbed>>

\* A body that is no form, or a plaintext one, ends the session's key too.
RefuseBody(h) ==
  /\ at[h] = "parse" /\ reply[h].form # "jwe"
  /\ at' = [at EXCEPT ![h] = "rejected"]
  /\ keyHeld' = FALSE
  /\ UNCHANGED <<now, step, name, read, reply, clock, dir, manifest, disturbed>>

\* Mutant: the clock is read with the skew a wallet is allowed.
TakeTime_Skewed(h) ==
  /\ at[h] = "parse" /\ reply[h].form = "jwe"
  /\ at' = [at EXCEPT ![h] = "verification-context.json"]
  /\ now' \in now..MaxTime
  /\ clock' = [clock EXCEPT ![h] = now' + FutureSkew]
  /\ UNCHANGED <<step, name, read, reply, dir, manifest, keyHeld, disturbed>>

\* The clock is read once, for the verification and for its replay; it may
\* have moved on since it was last read.
TakeTime(h) ==
  /\ at[h] = "parse" /\ reply[h].form = "jwe"
  /\ at' = [at EXCEPT ![h] = "verification-context.json"]
  /\ now' \in now..MaxTime
  /\ clock' = [clock EXCEPT ![h] = now']
  /\ UNCHANGED <<step, name, read, reply, dir, manifest, keyHeld, disturbed>>

Decrypts(h) == keyHeld /\ reply[h].key = SessionKey

Decrypt(h) ==
  /\ at[h] = "decrypt"
  /\ at' = [at EXCEPT ![h] = IF Decrypts(h) THEN "auth-response.json" ELSE "reject"]
  /\ UNCHANGED <<now, step, name, read, reply, clock, dir, manifest, keyHeld, disturbed>>

\* What the fetch of a status list may come back with: nothing, or a token,
\* which is checked with the signer key serve was given.
StatusLists ==
  {NoToken} \cup {[given |-> TRUE, token |-> t, signer |-> "status"] : t \in Published}

StatusPasses(p, list) == list.given /\ StatusReject(p, list) = "ok"

\* The verification without the network first.  Then, if it is asked for and
\* there are anchors, the status: a list that is not there, a credential without
\* a reference and one that is revoked or suspended all withhold the acceptance.
VerdictOf(p, t, list) ==
  IF VerifyFull(p, SessionBinding, Pid, MaxAge, t, [anchors |-> Anchors, status |-> NoToken]) # "ok"
  THEN "reject"
  ELSE IF LiveStatus /\ Anchors # {} /\ ~StatusPasses(p, list) THEN "withhold" ELSE "accept"

\* The presentations are taken in turn and the first that fails decides.
ServeVerdict(h, lists) ==
  LET vps == reply[h].vps
      verdict(i) == VerdictOf(vps[i], clock[h], lists[i])
      failed == {i \in DOMAIN vps : verdict(i) # "accept"}
  IN IF vps = <<>> THEN "reject" ELSE IF failed = {} THEN "accept" ELSE verdict(Min(failed))

Verify(h) ==
  /\ at[h] = "verify"
  /\ \E lists \in [DOMAIN reply[h].vps -> StatusLists] :
       at' = [at EXCEPT ![h] = ServeVerdict(h, lists)]
  /\ UNCHANGED <<now, step, name, read, reply, clock, dir, manifest, keyHeld, disturbed>>

\* The key goes when the verification is over.
Answer(h) ==
  /\ at[h] \in Verdicts
  /\ at' = [at EXCEPT ![h] = CASE @ = "accept" -> "verified"
                               [] @ = "withhold" -> "withheld"
                               [] @ = "reject" -> "rejected"]
  /\ keyHeld' = FALSE
  /\ UNCHANGED <<now, step, name, read, reply, clock, dir, manifest, disturbed>>

\* A write that fails, for whatever reason and however often, may leave a part
\* of the file; the manifest it may leave truncated, or complete when only its
\* permissions could not be set.  The failure ends the handler, or the
\* verification of the post it belongs to.
WriteFails(h) ==
  /\ Writing(h)
  /\ step' = [step EXCEPT ![h] = "none"]
  /\ at' = [at EXCEPT ![h] =
              IF @ \in {"verification-context.json", "auth-response.json"} THEN "reject" ELSE "failed"]
  /\ name' = [name EXCEPT ![h] = NoName]
  /\ read' = [read EXCEPT ![h] = {}]
  /\ \/ dir' = dir
     \/ step[h] = "named" /\ dir' = With(name[h], Scrap)
  /\ \/ manifest' = manifest
     \/ step[h] = "torn" /\ manifest' = [torn |-> FALSE, entries |-> Listed(h)]
  /\ disturbed' = TRUE
  /\ UNCHANGED <<now, reply, clock, keyHeld>>

-------------------------------------------------------------------------------
(* Export *)

\* What export reads: each listed file, beside the hash the manifest has of it.
OnDisk(entries) == {[e EXCEPT !.content = dir[e.name]] : e \in entries}

ExportOk == ~manifest.torn /\ Exportable(OnDisk(manifest.entries))

\* The command only reads, so what it would write now is a state function.
Exported == Bundle(OnDisk(manifest.entries), ExportKey)

-------------------------------------------------------------------------------

KeyFile == Entry(Original("session-enc-key.jwk"), [Blank EXCEPT !.key = SessionKey])

CaptureTypeOK ==
  /\ now \in 0..MaxTime
  /\ at \in [Handlers -> Artifacts \cup Verdicts \cup Answers
                          \cup {"idle", "parse", "decrypt", "verify"}]
  /\ step \in [Handlers -> {"none", "named", "saved", "read", "torn"}]
  /\ \A h \in Handlers : Writing(h) => at[h] \in Artifacts /\ name[h][1] = at[h]
  /\ \A h \in Posts : reply[h] \in Replies \cup {NoReply} /\ clock[h] \in 0..now
  /\ {keyHeld, disturbed, manifest.torn} \subseteq BOOLEAN
  /\ {e.name : e \in manifest.entries} \subseteq DOMAIN dir

\* The session begins when its key has been made, and saved.
CaptureInit ==
  /\ now = 0
  /\ at = [h \in Handlers |-> "idle"]
  /\ step = [h \in Handlers |-> "none"]
  /\ name = [h \in Handlers |-> NoName]
  /\ read = [h \in Handlers |-> {}]
  /\ reply = [h \in Posts |-> NoReply]
  /\ clock = [h \in Posts |-> 0]
  /\ dir = [f \in {KeyFile.name} |-> KeyFile.content]
  /\ manifest = [torn |-> FALSE, entries |-> {KeyFile}]
  /\ keyHeld = TRUE
  /\ disturbed = FALSE

Serve(h) ==
  \/ Fetch(h) \/ Post(h) \/ RefuseBody(h) \/ TakeTime(h) \/ Decrypt(h) \/ Verify(h)
  \/ Answer(h) \/ WriteFails(h)
  \/ PickName(h) \/ WriteFile(h) \/ ReadManifest(h) \/ TruncateManifest(h) \/ WriteManifest(h)

CaptureNext == \E h \in Handlers : Serve(h)

-------------------------------------------------------------------------------
(* Properties *)

\* Handlers that never wrote at once, and whose writes did not fail, leave
\* every file they saved listed under its own hash, one for each: nothing
\* captured is written over or dropped from the manifest.
CapturesKept ==
  (~disturbed /\ \A h \in Handlers : ~Writing(h)) =>
    /\ ~manifest.torn
    /\ manifest.entries = {Entry(f, dir[f]) : f \in DOMAIN dir}
    /\ Cardinality({f \in DOMAIN dir : f[1] = "direct-post.body"})
         = Cardinality({h \in Posts : at[h] \notin {"idle", "direct-post.body"}})

\* A post that was given a time to be checked at.
Timed(g) ==
  reply[g].form = "jwe" /\ at[g] \notin {"idle", "direct-post.body", "parse", "failed"}

\* However the handlers interleaved and whatever writes failed: what
\* `assert-live` proves from an export was posted to this session, encrypted to
\* its key, and every presentation in it verifies under its binding at a time a
\* post of it was checked at.
LiveProofIsReal ==
  (ExportOk /\ Has(manifest.entries, "direct-post.body") /\ AssertLive(Exported, ExportKey)) =>
    \E h, g \in Posts :
      /\ reply[h].form = "jwe" /\ reply[h].key = SessionKey /\ reply[h].vps # <<>>
      /\ Timed(g)
      /\ \A i \in DOMAIN reply[h].vps :
           VerifyFull(reply[h].vps[i], SessionBinding, Pid, MaxAge, clock[g], NoTrust) = "ok"

\* An export of an undisturbed session with a single post agrees with serve:
\* what serve accepted is proven live once the request was captured too, and
\* what is proven live was accepted if its issuer is one serve trusts.  An
\* export says nothing of the status of a credential: with --live-status serve
\* may have withheld its acceptance of what is proven live.
ReplayAgreesWithServe ==
  \A h \in Posts :
    (/\ ~disturbed /\ ExportOk
     /\ \A g \in Posts \ {h} : at[g] = "idle"
     /\ \A k \in Artifacts : Has(manifest.entries, k))
    => /\ at[h] = "verified" => AssertLive(Exported, ExportKey)
       /\ (/\ AssertLive(Exported, ExportKey) /\ at[h] \in Answers
           /\ \A i \in DOMAIN reply[h].vps : IssuerTrustedAt(reply[h].vps[i], Anchors, clock[h]))
          => at[h] = "verified" \/ (LiveStatus /\ at[h] = "withheld")
===============================================================================
