------------------------------- MODULE Workbench ------------------------------
(***************************************************************************)
(* The offline side of the workbench: one subject lies on the desk and the *)
(* commands say what they make of it while the clock runs.  The subject is *)
(* a debug session of `serve` with its evidence (Capture), a status list   *)
(* on its way (StatusFetch), or one file: a presentation, a signed         *)
(* request, a query with its purpose and scope, a query to lint, words for *)
(* `generate dcql`, or any artifact for `inspect`.  The commands keep no   *)
(* state, so they are operators of the subject and the clock.              *)
(***************************************************************************)
EXTENDS Capture, RequestObject, Validate, Inspect, StatusFetch

CONSTANTS
  Presentations, Requests, Audits, Lints, Specs, Files,  \* the files
  AnchorSets,   \* the sets of anchors a user may supply
  StatusArgs,   \* the tokens and signer keys a user may supply
  LastDay       \* how far the clock of the desk runs

ASSUME WorkbenchAssumptions == LastDay \in Nat

\* The issue time of a Key Binding JWT is a number, whatever else is wrong with it.
ASSUME PresentationsAssumption == \A p \in Presentations : p.kb.iat \in Int

\* Certificates of one hash are one certificate.
ASSUME RequestsAssumption ==
  \A r, s \in Requests : r.leaf.id = s.leaf.id => r.leaf.key = s.leaf.key

\* A query to audit is a list of credentials, and so is one to lint, whatever
\* they are there; what is typed for `generate dcql` are names.
ASSUME QueriesAssumptions ==
  /\ \A a \in Audits : a.query \in Seq(Credentials)
  /\ \A l \in Lints : l.creds \in Seq(ToSet(l.creds))
  /\ Specs \subseteq Seq(Seq(STRING \ {Nonsense}))

\* What is given to `inspect` is what it is said to be.
ASSUME FilesAssumption == \A f \in Files : Artifact(f.is, f.text)

\* "other" stands for every key that is not the exporter's.
ASSUME ExportKeyAssumption == ExportKey # "other"

VARIABLES
  desk,    \* the subject: its kind and the file
  day      \* the clock of the desk

vars == <<captureVars, fetchVars, desk, day>>

On(kind) == desk.kind = kind

-------------------------------------------------------------------------------

TypeOK ==
  /\ CaptureTypeOK
  /\ day \in 0..LastDay

FilesOf(kind, items) == {[kind |-> kind, item |-> i] : i \in items}

NoUri == [scheme |-> "none", host |-> "none", address |-> NoAddress]

NoFetch == fetching = "idle" /\ uri = NoUri /\ vetted = {} /\ peer = NoAddress /\ bytes = 0

Init ==
  /\ \/ desk \in FilesOf("presentation", Presentations) /\ NoFetch
     \/ desk \in FilesOf("request", Requests) /\ NoFetch
     \/ desk \in FilesOf("audit", Audits) /\ NoFetch
     \/ desk \in FilesOf("lint", Lints) /\ NoFetch
     \/ desk \in FilesOf("specs", Specs) /\ NoFetch
     \/ desk \in FilesOf("file", Files) /\ NoFetch
     \/ desk = [kind |-> "session"] /\ NoFetch
     \/ desk = [kind |-> "status list"] /\ FetchInit
  /\ CaptureInit
  /\ day = 0

Debug ==
  /\ On("session")
  /\ CaptureNext
  /\ UNCHANGED <<fetchVars, desk, day>>

FetchList ==
  /\ On("status list")
  /\ FetchNext
  /\ UNCHANGED <<captureVars, desk, day>>

\* Time passes over a file.
Tick ==
  /\ ~On("session") /\ ~On("status list") /\ day < LastDay
  /\ day' = day + 1
  /\ UNCHANGED <<captureVars, fetchVars, desk>>

Next == Debug \/ FetchList \/ Tick

Spec == Init /\ [][Next]_vars

-------------------------------------------------------------------------------
(* Presentations *)

Args(anchors, token, key) ==
  [binding |-> SessionBinding, vct |-> Pid, maxAge |-> MaxAge,
   anchors |-> anchors, token |-> token, key |-> key]

Bare(p, t) == VerifyAt(p, SessionBinding, Pid, MaxAge, t)

\* `verify presentation` with anchors and a status token accepts exactly what
\* it accepts without them, `verify trust` accepts, and `verify status` finds
\* valid by a reference the credential really has: two ways through the code.
CommandsAgree ==
  On("presentation") =>
    \A anchors \in AnchorSets, status \in StatusArgs :
      LET p == desk.item IN
      (VerifyPresentationCmd(p, Args(anchors, status.token, status.key), day) = "ok") <=>
        /\ Bare(p, day) = "ok"
        /\ anchors # {} => VerifyTrustCmd(p, anchors, day) = "ok"
        /\ (status.token.given /\ status.key.given) =>
             /\ StatusRef(p.status) # NoRef
             /\ VerifyStatusCmd(p, status.key, status.token.value) = "ok"

\* A presentation answers one request: accepted under one nonce and audience,
\* it is refused under every other.
BoundToOneRequest ==
  On("presentation") =>
    Cardinality({b \in [nonce : {"nonce", "nonce2"}, aud : {"aud", "aud2"}] :
                   VerifyAt(desk.item, b, Pid, MaxAge, day) = "ok"}) <= 1

Early == {"CredentialNotYetValid", "KbTimeInvalid", "JarNotYetValid"}
Late == {"CredentialExpired", "StalePresentation", "JarExpired"}

Season(verdict) == IF verdict \in Early THEN 0 ELSE IF verdict \in Late THEN 2 ELSE 1

VerdictOn(t) ==
  IF On("presentation") THEN Bare(desk.item, t) ELSE VerifyJar(desk.item, {}, t)

\* A file that was found too late is never accepted, nor too early, again.
TimeIsOneWay ==
  [][On("presentation") \/ On("request") =>
       Season(VerdictOn(day)) <= Season(VerdictOn(day'))]_vars

-------------------------------------------------------------------------------
(* Requests *)

\* Two accepted requests with the same client id were signed with the same
\* certificate's key, and one whose trust line names anchors is signed by a
\* certificate one of them issued and that is still valid.
ClientIdNamesTheSigner ==
  On("request") =>
    \A anchors \in AnchorSets :
      VerifyRequestCmd(desk.item, anchors, day) = "ok" =>
        /\ \A other \in Requests :
             VerifyRequestCmd(other, {}, day) = "ok" /\ other.clientId = desk.item.clientId
               => other.signer = desk.item.signer
        /\ TrustSummary(desk.item, anchors) \in {"anchored", "pinned"} =>
             \E a \in anchors : a.key = desk.item.leaf.signer /\ CertValidAt(a, day)

-------------------------------------------------------------------------------
(* Queries *)

\* The verdict, its colour, its counts and the exit code tell one story, and
\* it is the truth about the keys: praise means each was compared with the
\* registration and the purpose and is in both.
VerdictIsTrue ==
  On("audit") =>
    LET a == desk.item
        report == AuditReport(a.query, a.purpose, a.scope)
        keys == ToSet(RequestedKeys(a.query))
    IN /\ VerdictClass(report) = "over" <=> ~AuditOk(a.query, a.purpose, a.scope)
       /\ report.requested = report.beyondRegistration + report.beyondPurpose
                             + report.minimal + report.notEvaluated
       /\ VerdictLine(report) \in {"minimal", "within registration"} =>
            a.scope.given /\ keys \subseteq AllClaimKeys(a.scope.credentials)
       /\ VerdictLine(report) \in {"minimal", "within purpose"} =>
            a.purpose \in KnownBaselines /\ keys \subseteq Baselines[a.purpose]
       /\ VerdictClass(report) = "ok" => VerdictLine(report) \in {"minimal", "nothing requested"}

\* In a query without a blocking finding the options of every set are lists,
\* and every string in them is the id of exactly one of its credentials (what is
\* no string is let through); what `generate dcql` prints has not even a warning.
ValidQueryResolves ==
  /\ On("lint") /\ ValidQuery(desk.item) =>
       \A i \in DOMAIN desk.item.sets : \A k \in DOMAIN desk.item.sets[i].options :
         LET option == desk.item.sets[i].options[k] IN
         /\ option.form = "list"
         /\ \A ref \in option.refs \ {Nonsense} :
              Cardinality({c \in DOMAIN desk.item.creds : desk.item.creds[c].id = ref}) = 1
  /\ On("specs") => LET query == GenerateDcql(desk.item)
                    IN query # <<>> => Findings(ToLint(query)) = {}

\* `inspect` knows the artifacts the workbench makes or verifies, and shows them
\* unless it panics over a text it shortens.  A signed bundle is the exception:
\* the PEM in it makes it a certificate.
InspectKnowsItsOwn ==
  On("file") =>
    LET f == desk.item.text IN
    \/ Sniff(f) = desk.item.is /\ (InspectOk(f) \/ f.cuts)
    \/ SignedBundle(desk.item.is, f)

-------------------------------------------------------------------------------
(* Bundles *)

Later(entries) ==
  {IF e.name = Original("verification-context.json")
   THEN Entry(e.name, [e.content EXCEPT !.at = @ + 1]) ELSE e : e \in entries}

\* Copies of a bundle in which somebody moved the time of the verification and
\* made the rest consistent again.  The old signature stays, goes, or is made
\* anew with another key.
Forgeries(b) ==
  {[copy EXCEPT !.signature = signature] :
     copy \in {Bundle(Later(b.entries), "none")},
     signature \in {b.signature, NoSignature, Sign("other", Later(b.entries))}}

\* With the exporter's key supplied an export passes the check, and no changed
\* copy of it does, whoever signed that.
SuppliedKeyDecides ==
  (On("session") /\ ExportOk /\ ExportKey # "none") =>
    \A b \in {Exported} :
      /\ CheckBundle(b, ExportKey) = "supplied"
      /\ Has(b.entries, "verification-context.json") =>
           \A copy \in Forgeries(b) : CheckBundle(copy, ExportKey) = "invalid"

Fetched(signer) == [anchors |-> Anchors, signer |-> signer, supplied |-> NoToken, fetch |-> TRUE]
SuppliedToken(t) ==
  [anchors |-> Anchors, signer |-> "status", fetch |-> FALSE,
   supplied |-> [given |-> TRUE, token |-> t, signer |-> "none"]]

\* Once `prove-trust-status` proves a bundle, `verify presentation` accepts
\* every presentation in it with the same anchors, token and clock.
ProofAgreesWithVerify ==
  (On("session") /\ ExportOk /\ Has(manifest.entries, "verification-context.json")) =>
    \A b \in {Exported}, t \in Published :
      LET vps == DecryptedResponse(b.entries).vps
          context == Content(b.entries, "verification-context.json")
          proves(args) ==
            ProveTrustStatus(b, "none", args, [given |-> TRUE, token |-> t, signer |-> "none"])
          accepts(i) ==
            VerifyPresentationCmd(vps[i],
              Args(Anchors, [given |-> TRUE, value |-> t], [given |-> TRUE, certs |-> <<>>, spki |-> "status"]),
              context.at) = "ok"
      IN \/ \A i \in DOMAIN vps : accepts(i)
         \/ ~proves(Fetched("status")) /\ ~proves(SuppliedToken(t))
===============================================================================
