--------------------------- MODULE Workbench_proofs ---------------------------
(***************************************************************************)
(* Proofs about Workbench, for any handlers and replies, any files, anchor *)
(* sets, tokens and keys, and any clock.  First what the verdicts on files *)
(* promise, which their definitions alone decide; then the types and the   *)
(* session's artifacts, by an inductive invariant; then what bundles taken *)
(* of them prove.                                                          *)
(***************************************************************************)
EXTENDS Workbench, OverAsk_proofs, FiniteSetTheorems, WellFoundedInduction, TLAPS

-------------------------------------------------------------------------------
(* Verdicts on files *)

\* No check of the verifier but the last lets a presentation pass, and the one
\* before it holds the Key Binding JWT to its nonce and audience.
LEMMA AcceptedIsBound ==
  ASSUME NEW p, NEW b, NEW vct, NEW maxAge, NEW t, VerifyAt(p, b, vct, maxAge, t) = "ok"
  PROVE  p.kb.nonce = b.nonce /\ p.kb.aud = b.aud
<1>1. KbReject(p, b, maxAge, t) = "ok"
  BY DEF VerifyAt
<1> QED
  BY <1>1 DEF KbReject

LEMMA NeverTwoBindings == BoundToOneRequest
<1> SUFFICES ASSUME On("presentation") PROVE BoundToOneRequest
  BY DEF BoundToOneRequest
<1> DEFINE All == [nonce : {"nonce", "nonce2"}, aud : {"aud", "aud2"}]
           B == {b \in All : VerifyAt(desk.item, b, Pid, MaxAge, day) = "ok"}
           one == [nonce |-> desk.item.kb.nonce, aud |-> desk.item.kb.aud]
<1>1. \A b \in B : b = one
  BY AcceptedIsBound
<1>2. B \in SUBSET {one}
  BY <1>1
<1>3. IsFiniteSet({one}) /\ Cardinality({one}) = 1
  BY FS_Singleton
<1> HIDE DEF B, one
<1>4. Cardinality(B) <= 1
  BY <1>2, <1>3, FS_Subset
<1> QED
  BY <1>4 DEF B, BoundToOneRequest

\* verify.rs 228-306: the nonce and the audience of a presentation are those of
\* one request, and it is refused under every other.
THEOREM AcceptedOnce == Spec => []BoundToOneRequest
BY NeverTwoBindings, PTL

\* A status list answers with a status or a failure.
LEMMA StatusVerdicts ==
  ASSUME NEW token, NEW signer, NEW idx
  PROVE  CheckStatusListToken(token, signer, idx)
           \in {"StatusListUntrusted", "StatusListUnavailable", "Valid", "Revoked", "Suspended"}
BY DEF CheckStatusListToken, BitVerdict

\* A failing status is never "ok", and only a valid one passes.
LEMMA OnlyValidPasses ==
  ASSUME NEW p, NEW status
  PROVE  StatusReject(p, status) = "ok" <=>
           /\ StatusRef(p.status) # NoRef
           /\ CheckStatusListToken(status.token, status.signer, StatusRef(p.status)) = "Valid"
BY StatusVerdicts DEF StatusReject

\* What an accepted presentation has behind it.
LEMMA AcceptedInFull ==
  ASSUME NEW p, NEW b, NEW vct, NEW maxAge, NEW t, NEW trust
  PROVE  VerifyFull(p, b, vct, maxAge, t, trust) = "ok" <=>
           /\ VerifyAt(p, b, vct, maxAge, t) = "ok"
           /\ trust.anchors # {} => IssuerTrustedAt(p, trust.anchors, t)
           /\ trust.status.given => StatusReject(p, trust.status) = "ok"
BY DEF VerifyFull

LEMMA ParsesIfAccepted ==
  ASSUME NEW p, NEW b, NEW vct, NEW maxAge, NEW t, VerifyAt(p, b, vct, maxAge, t) = "ok"
  PROVE  p.parses /\ p.json
BY DEF VerifyAt

LEMMA TwoWaysOneVerdict == CommandsAgree
<1> SUFFICES ASSUME On("presentation"), NEW anchors \in AnchorSets, NEW status \in StatusArgs
             PROVE  (VerifyPresentationCmd(desk.item, Args(anchors, status.token, status.key), day) = "ok") <=>
                      /\ Bare(desk.item, day) = "ok"
                      /\ anchors # {} => VerifyTrustCmd(desk.item, anchors, day) = "ok"
                      /\ (status.token.given /\ status.key.given) =>
                           /\ StatusRef(desk.item.status) # NoRef
                           /\ VerifyStatusCmd(desk.item, status.key, status.token.value) = "ok"
  BY DEF CommandsAgree
<1> DEFINE p == desk.item
           args == Args(anchors, status.token, status.key)
           both == status.token.given /\ status.key.given
           input == StatusInput(args)
           trust == [anchors |-> anchors, status |-> input]
           signer == SignerFromPem(status.key)
           word == CheckStatusListToken(status.token.value, signer, StatusRef(p.status))
<1>1. /\ args.anchors = anchors /\ args.token = status.token /\ args.key = status.key
      /\ args.binding = SessionBinding /\ args.vct = Pid /\ args.maxAge = MaxAge
  BY DEF Args
<1>2. /\ both => input = [given |-> TRUE, token |-> status.token.value, signer |-> signer]
      /\ ~both => input = NoToken
  BY <1>1 DEF StatusInput
<1>3. (VerifyPresentationCmd(p, args, day) = "ok") <=>
        /\ anchors # {} => AnchorsLoad(anchors)
        /\ ~(input.given /\ input.signer = "none")
        /\ VerifyFull(p, SessionBinding, Pid, MaxAge, day, trust) = "ok"
  BY <1>1 DEF VerifyPresentationCmd
<1>4. VerifyFull(p, SessionBinding, Pid, MaxAge, day, trust) = "ok" <=>
        /\ Bare(p, day) = "ok"
        /\ anchors # {} => IssuerTrustedAt(p, anchors, day)
        /\ input.given => StatusReject(p, input) = "ok"
  BY AcceptedInFull DEF Bare
<1>5. VerifyTrustCmd(p, anchors, day) = "ok" <=> AnchorsLoad(anchors) /\ IssuerTrustedAt(p, anchors, day)
  BY DEF VerifyTrustCmd
<1>6. ~input.given <=> ~both
  BY <1>2 DEF NoToken
<1>7. ASSUME both PROVE StatusReject(p, input) = "ok" <=> StatusRef(p.status) # NoRef /\ word = "Valid"
  BY <1>2, <1>7, OnlyValidPasses
<1>8. ASSUME Bare(p, day) = "ok", StatusRef(p.status) # NoRef
      PROVE  VerifyStatusCmd(p, status.key, status.token.value) = "ok" <=> signer # "none" /\ word = "Valid"
  <2>1. p.parses /\ p.json
    BY <1>8, ParsesIfAccepted DEF Bare
  <2>2. CheckPresentationStatus(p, signer, status.token.value) = word
    BY <1>8, <2>1 DEF CheckPresentationStatus
  <2>3. word # "ok"
    BY StatusVerdicts
  <2> QED
    BY <2>2, <2>3 DEF VerifyStatusCmd
<1>9. both => input.signer = signer
  BY <1>2
<1> HIDE DEF p, args, both, input, trust, signer, word
<1>10. (VerifyPresentationCmd(p, args, day) = "ok") <=>
         /\ Bare(p, day) = "ok"
         /\ anchors # {} => AnchorsLoad(anchors) /\ IssuerTrustedAt(p, anchors, day)
         /\ both => signer # "none" /\ StatusRef(p.status) # NoRef /\ word = "Valid"
  BY <1>3, <1>4, <1>6, <1>7, <1>9
<1> QED
  BY <1>5, <1>8, <1>10 DEF p, args, both

\* commands/verify.rs 319-372: one command with every check accepts what the
\* commands of one check each accept together.
THEOREM CommandsAlwaysAgree == Spec => []CommandsAgree
BY TwoWaysOneVerdict, PTL

-------------------------------------------------------------------------------
(* The desk: a subject never changes, and its clock never goes back *)

DeskInv ==
  /\ day \in 0..LastDay
  /\ On("presentation") => desk.item \in Presentations
  /\ On("request") => desk.item \in Requests
  /\ On("audit") => desk.item \in Audits
  /\ On("lint") => desk.item \in Lints
  /\ On("specs") => desk.item \in Specs
  /\ On("file") => desk.item \in Files

\* What a subject of a kind is; the session and the status list are no files.
LEMMA KindsDiffer ==
  /\ [kind |-> "session"].kind = "session" /\ [kind |-> "status list"].kind = "status list"
  /\ \A kind, items : \A d \in FilesOf(kind, items) : d.kind = kind /\ d.item \in items
BY DEF FilesOf

LEMMA DeskIsKept == Spec => []DeskInv
<1>1. ASSUME Init PROVE DeskInv
  <2>1. day = 0
    BY <1>1, Zenon DEF Init
  <2>2. \/ desk \in FilesOf("presentation", Presentations) \/ desk \in FilesOf("request", Requests)
        \/ desk \in FilesOf("audit", Audits) \/ desk \in FilesOf("lint", Lints)
        \/ desk \in FilesOf("specs", Specs) \/ desk \in FilesOf("file", Files)
        \/ desk = [kind |-> "session"] \/ desk = [kind |-> "status list"]
    BY <1>1, Zenon DEF Init
  <2>3. \/ desk.kind = "presentation" /\ desk.item \in Presentations
        \/ desk.kind = "request" /\ desk.item \in Requests
        \/ desk.kind = "audit" /\ desk.item \in Audits
        \/ desk.kind = "lint" /\ desk.item \in Lints
        \/ desk.kind = "specs" /\ desk.item \in Specs
        \/ desk.kind = "file" /\ desk.item \in Files
        \/ desk.kind \in {"session", "status list"}
    <3>1. \A kind, items : desk \in FilesOf(kind, items) => desk.kind = kind /\ desk.item \in items
      BY KindsDiffer, Zenon
    <3>2. desk = [kind |-> "session"] => desk.kind = "session"
      BY KindsDiffer, Zenon
    <3>3. desk = [kind |-> "status list"] => desk.kind = "status list"
      BY KindsDiffer, Zenon
    <3> QED
      BY <2>2, <3>1, <3>2, <3>3
  <2>4. day \in 0..LastDay
    BY <2>1, WorkbenchAssumptions
  <2> QED
    BY <2>3, <2>4 DEF DeskInv, On
<1>2. ASSUME DeskInv, [Next]_vars PROVE DeskInv'
  <2>1. CASE Debug
    BY <1>2, <2>1 DEF Debug, DeskInv, On
  <2>2. CASE FetchList
    BY <1>2, <2>2 DEF FetchList, DeskInv, On
  <2>3. CASE Tick
    <3>1. day' = day + 1 /\ day < LastDay /\ desk' = desk
      BY <2>3, Zenon DEF Tick
    <3>2. day' \in 0..LastDay
      BY <1>2, <3>1, WorkbenchAssumptions DEF DeskInv
    <3> QED
      BY <1>2, <3>1, <3>2 DEF DeskInv, On
  <2>4. CASE UNCHANGED vars
    <3>1. UNCHANGED <<desk, day>>
      BY <2>4 DEF vars
    <3> QED
      BY <1>2, <3>1 DEF DeskInv, On
  <2> QED
    BY <1>2, <2>1, <2>2, <2>3, <2>4 DEF Next
<1> QED
  BY <1>1, <1>2, PTL DEF Spec

\* Every check of the verifier was passed by a request it accepts.
LEMMA AcceptedRequest ==
  ASSUME NEW r, NEW anchors, NEW t, VerifyJar(r, anchors, t) = "ok"
  PROVE  /\ r.signer = r.leaf.key
         /\ r.clientId = LeafBinding(r.leaf)
         /\ anchors # {} => LeafTrustedAt(r.leaf, anchors, t)
<1>1. JarSigned(r) /\ ClientIdReject(r) = "ok"
  BY DEF VerifyJar
<1>2. anchors # {} => LeafTrustedAt(r.leaf, anchors, t)
  BY DEF VerifyJar
<1> QED
  BY <1>1, <1>2 DEF JarSigned, ClientIdReject

LEMMA SameIdSameSigner == DeskInv => ClientIdNamesTheSigner
<1> SUFFICES ASSUME DeskInv, On("request"), NEW anchors \in AnchorSets,
                    VerifyRequestCmd(desk.item, anchors, day) = "ok"
             PROVE  /\ \A other \in Requests :
                         VerifyRequestCmd(other, {}, day) = "ok" /\ other.clientId = desk.item.clientId
                           => other.signer = desk.item.signer
                    /\ TrustSummary(desk.item, anchors) \in {"anchored", "pinned"} =>
                         \E a \in anchors : a.key = desk.item.leaf.signer /\ CertValidAt(a, day)
  BY DEF ClientIdNamesTheSigner
<1>1. VerifyJar(desk.item, anchors, day) = "ok"
  BY DEF VerifyRequestCmd
<1>2. ASSUME NEW other \in Requests, VerifyRequestCmd(other, {}, day) = "ok",
             other.clientId = desk.item.clientId
      PROVE  other.signer = desk.item.signer
  <2>1. VerifyJar(other, {}, day) = "ok"
    BY <1>2 DEF VerifyRequestCmd
  <2>2. LeafBinding(other.leaf) = LeafBinding(desk.item.leaf)
    BY <1>1, <1>2, <2>1, AcceptedRequest
  <2>3. other.leaf.id = desk.item.leaf.id
    BY <2>2 DEF LeafBinding
  <2>4. other.leaf.key = desk.item.leaf.key
    BY <2>3, RequestsAssumption DEF DeskInv
  <2> QED
    BY <1>1, <2>1, <2>4, AcceptedRequest
<1>3. ASSUME TrustSummary(desk.item, anchors) \in {"anchored", "pinned"}
      PROVE  \E a \in anchors : a.key = desk.item.leaf.signer /\ CertValidAt(a, day)
  <2>1. anchors # {}
    BY <1>3 DEF TrustSummary
  <2>2. LeafTrustedAt(desk.item.leaf, anchors, day)
    BY <1>1, <2>1, AcceptedRequest
  <2> QED
    BY <2>2 DEF LeafTrustedAt, LeafSignedBy
<1> QED
  BY <1>2, <1>3

\* jar.rs 148-250: the client id of an accepted request names the certificate
\* it was signed with, and the trust line the anchor that issued that one.
THEOREM ClientIdIsTheSigners == Spec => []ClientIdNamesTheSigner
BY DeskIsKept, SameIdSameSigner, PTL

\* A window that has closed stays closed, one that is open stays open or closes.
LEMMA WindowsCloseOnce ==
  ASSUME NEW exp, NEW nbf, NEW t \in Nat
  PROVE  /\ ExpiredAt(exp, t) => ExpiredAt(exp, t + 1)
         /\ PrematureAt(nbf, t + 1) => PrematureAt(nbf, t)
BY DEF ExpiredAt, PrematureAt

LEMMA BindingAges ==
  ASSUME NEW p, p.kb.iat \in Int, NEW b, NEW t \in Nat
  PROVE  Season(KbReject(p, b, MaxAge, t)) <= Season(KbReject(p, b, MaxAge, t + 1))
<1>1. KbTimeValid(p.kb, t + FutureSkew) => KbTimeValid(p.kb, t + 1 + FutureSkew)
  BY FutureSkewAssumption DEF KbTimeValid
<1>2. KbStale(p.kb, t, MaxAge) => KbStale(p.kb, t + 1, MaxAge)
  BY MaxAgeAssumption DEF KbStale
<1> QED
  BY <1>1, <1>2 DEF KbReject, Season, Early, Late

LEMMA PresentationAges ==
  ASSUME NEW p, p.kb.iat \in Int, NEW t \in Nat
  PROVE  Season(Bare(p, t)) <= Season(Bare(p, t + 1))
<1> DEFINE k(u) == KbReject(p, SessionBinding, MaxAge, u)
<1>1. Season(k(t)) <= Season(k(t + 1))
  BY BindingAges
<1>2. (k(t) = "ok" => Season(k(t)) = 1) /\ (k(t + 1) = "ok" => Season(k(t + 1)) = 1)
  BY DEF Season, Early, Late
<1>3. k(t) \notin {"CredentialExpired", "CredentialNotYetValid", "JarExpired", "JarNotYetValid"}
  BY DEF KbReject
<1>4. /\ ExpiredAt(p.exp, t) => ExpiredAt(p.exp, t + 1)
      /\ PrematureAt(p.nbf, t + 1) => PrematureAt(p.nbf, t)
  BY WindowsCloseOnce
<1> HIDE DEF k
<1>5. \A v : Season(v) \in {0, 1, 2}
  BY DEF Season
<1> DEFINE rest(u) == IF p.vct # Pid THEN "VctMismatch"
                      ELSE IF p.holder = "none" \/ ~p.kb.present THEN "MissingHolderBinding"
                      ELSE IF k(u) # "ok" THEN k(u)
                      ELSE IF ~p.reveals THEN "MalformedSdJwt"
                      ELSE "ok"
<1>6. /\ Season("MalformedSdJwt") = 1 /\ Season("VctMismatch") = 1 /\ Season("ok") = 1
      /\ Season("MissingHolderBinding") = 1 /\ Season("MissingX5c") = 1 /\ Season("IssuerSignature") = 1
      /\ Season("CredentialExpired") = 2 /\ Season("CredentialNotYetValid") = 0
  BY DEF Season, Early, Late
<1>7. Season(rest(t)) <= Season(rest(t + 1))
  BY <1>1, <1>2, <1>6
<1> DEFINE verdict(u) == IF ~p.parses THEN "MalformedSdJwt"
                         ELSE IF IssuerKeyFromX5c(p.x5c) = "none" THEN "MissingX5c"
                         ELSE IF p.signer # IssuerKeyFromX5c(p.x5c) THEN "IssuerSignature"
                         ELSE IF ~p.json \/ ~Legible(p.exp) THEN "MalformedSdJwt"
                         ELSE IF ExpiredAt(p.exp, u) THEN "CredentialExpired"
                         ELSE IF ~Legible(p.nbf) THEN "MalformedSdJwt"
                         ELSE IF PrematureAt(p.nbf, u) THEN "CredentialNotYetValid"
                         ELSE rest(u)
<1>8. \A u : Bare(p, u) = verdict(u)
  BY DEF Bare, VerifyAt, k
<1> HIDE DEF rest
<1>9. Season(verdict(t)) <= Season(verdict(t + 1))
  BY <1>4, <1>5, <1>6, <1>7
<1> QED
  BY <1>8, <1>9

LEMMA RequestAges ==
  ASSUME NEW r, NEW t \in Nat
  PROVE  Season(VerifyJar(r, {}, t)) <= Season(VerifyJar(r, {}, t + 1))
<1>1. /\ ExpiredAt(r.exp, t) => ExpiredAt(r.exp, t + 1)
      /\ PrematureAt(r.nbf, t + 1) => PrematureAt(r.nbf, t)
  BY WindowsCloseOnce
<1>2. Season(JarWindowReject(r, t)) <= Season(JarWindowReject(r, t + 1))
  BY <1>1 DEF JarWindowReject, Season, Early, Late
<1>3. ClientIdReject(r) \in {"ok", "JarClientIdUnbound", "JarClientIdMismatch"}
  BY DEF ClientIdReject
<1> QED
  BY <1>2, <1>3 DEF VerifyJar, Season, Early, Late

\* verify.rs 187-306 and jar.rs 148-250: found too late, a file is never
\* accepted again, nor is it ever too early again.
THEOREM VerdictsAgeOneWay == Spec => TimeIsOneWay
<1>1. DeskInv /\ [Next]_vars =>
        [On("presentation") \/ On("request") =>
           Season(VerdictOn(day)) <= Season(VerdictOn(day'))]_vars
  <2> SUFFICES ASSUME DeskInv, Next, On("presentation") \/ On("request")
               PROVE  Season(VerdictOn(day)) <= Season(VerdictOn(day'))
    OBVIOUS
  <2>1. day' = day + 1 /\ day \in Nat
    <3>1. ~On("session") /\ ~On("status list")
      BY DEF On
    <3>2. Tick
      BY <3>1, Zenon DEF Next, Debug, FetchList
    <3>3. day' = day + 1
      BY <3>2, Zenon DEF Tick
    <3>4. day \in Nat
      BY WorkbenchAssumptions DEF DeskInv
    <3> QED
      BY <3>3, <3>4
  <2>2. CASE On("presentation")
    <3>1. desk.item.kb.iat \in Int
      BY <2>2, PresentationsAssumption DEF DeskInv
    <3>2. Season(Bare(desk.item, day)) <= Season(Bare(desk.item, day + 1))
      BY <2>1, <3>1, PresentationAges
    <3> QED
      BY <2>1, <2>2, <3>2 DEF VerdictOn
  <2>3. CASE ~On("presentation")
    <3>1. Season(VerifyJar(desk.item, {}, day)) <= Season(VerifyJar(desk.item, {}, day + 1))
      BY <2>1, RequestAges
    <3> QED
      BY <2>1, <2>3, <3>1 DEF VerdictOn
  <2> QED
    BY <2>2, <2>3
<1> QED
  BY <1>1, DeskIsKept, PTL DEF Spec, TimeIsOneWay

-------------------------------------------------------------------------------
(* Queries *)

\* inspector.rs 211-353: the line, the class, the counts and the exit code of an
\* audit tell one story, and it is the truth about the keys that were requested.
THEOREM VerdictsAreTrue == Spec => []VerdictIsTrue
<1>1. DeskInv => VerdictIsTrue
  <2> SUFFICES ASSUME DeskInv, On("audit") PROVE VerdictIsTrue
    BY DEF VerdictIsTrue
  <2>1. desk.item.query \in Seq(Credentials)
    BY QueriesAssumptions DEF DeskInv
  <2> QED
    BY <2>1, AuditTellsTheTruth DEF VerdictIsTrue
<1> QED
  BY <1>1, DeskIsKept, PTL

\* What the linter says of the credentials, one by one.
OfCredentials(query) ==
  UNION {IdFindings(query.creds, i) \cup FormatFindings(query.creds[i].format)
         \cup ClaimsFindings(query.creds[i]) : i \in DOMAIN query.creds}

\* What the linter would have said of an option that is no list, and of an id that
\* names no credential, or two.
LEMMA IdsResolve ==
  ASSUME NEW query, query.creds \in Seq(ToSet(query.creds)), ValidQuery(query),
         NEW i \in DOMAIN query.sets, NEW k \in DOMAIN query.sets[i].options
  PROVE  LET option == query.sets[i].options[k]
         IN  /\ option.form = "list"
             /\ \A id \in option.refs \ {Nonsense} :
                  Cardinality({c \in DOMAIN query.creds : query.creds[c].id = id}) = 1
<1> DEFINE creds == query.creds
           option == query.sets[i].options[k]
           each == OfCredentials(query)
<1>1. DOMAIN creds = 1..Len(creds) /\ Len(creds) \in Nat
  OBVIOUS
<1>2. \A code : code \in Findings(query) => code \in Warnings
  BY DEF ValidQuery
<1>3. /\ "DCQL-CREDENTIALS-MISSING" \notin Warnings /\ "DCQL-CREDENTIALS-EMPTY" \notin Warnings
      /\ "DCQL-SET-REF-DANGLING" \notin Warnings /\ "DCQL-CRED-ID-DUPLICATE" \notin Warnings
      /\ "DCQL-SET-OPTIONS-MISSING" \notin Warnings /\ "DCQL-SET-OPTION-NOT-ARRAY" \notin Warnings
  BY DEF Warnings
<1>4. Findings(query) = SetFindings(query) \cup each
  <2>1. query.present
    BY <1>2, <1>3 DEF Findings
  <2>2. creds # <<>>
    BY <1>2, <1>3, <2>1 DEF Findings
  <2> QED
    BY <2>1, <2>2, Zenon DEF Findings, OfCredentials
<1>5. \A code \in SetFindings(query) : code \in Warnings
  <2> HIDE DEF each
  <2> QED
    BY <1>2, <1>4
<1>6. \A c \in DOMAIN creds : "DCQL-CRED-ID-DUPLICATE" \notin IdFindings(creds, c)
  <2>1. "DCQL-CRED-ID-DUPLICATE" \notin each
    <3> HIDE DEF each
    <3> QED
      BY <1>2, <1>3, <1>4
  <2>2. ASSUME NEW c \in DOMAIN creds, NEW code \in IdFindings(creds, c) PROVE code \in each
    <3> DEFINE all == IdFindings(creds, c) \cup FormatFindings(creds[c].format)
                      \cup ClaimsFindings(creds[c])
    <3>1. all \subseteq each /\ code \in all
      BY DEF OfCredentials
    <3> QED
      BY <3>1
  <2> QED
    BY <2>1, <2>2, Zenon
<1>7. option.form = "list" /\ option.refs \ {Nonsense} \subseteq Ids(creds)
  <2>1. OptionsFindings(creds, query.sets[i]) \subseteq SetFindings(query)
    BY DEF SetFindings
  <2>2. query.sets[i].form = "list"
    BY <1>3, <1>5, <2>1 DEF OptionsFindings
  <2>3. OptionFindings(creds, option) \subseteq OptionsFindings(creds, query.sets[i])
    BY <2>2 DEF OptionsFindings
  <2> HIDE DEF option, creds
  <2> QED
    BY <1>3, <1>5, <2>1, <2>3 DEF OptionFindings, When
<1>8. ASSUME NEW d \in DOMAIN creds, NEW e \in 1..(d - 1), creds[e].id = creds[d].id
      PROVE  creds[d].id = "none"
  BY <1>6, <1>8 DEF IdFindings, When
<1>9. ASSUME NEW id \in option.refs \ {Nonsense}
      PROVE  Cardinality({c \in DOMAIN creds : creds[c].id = id}) = 1
  <2> DEFINE C == {c \in DOMAIN creds : creds[c].id = id}
  <2>1. PICK c \in DOMAIN creds : creds[c].id = id /\ id # "none"
    BY <1>7 DEF Ids
  <2>2. \A d \in C : d = c
    <3> SUFFICES ASSUME NEW d \in C, d # c PROVE FALSE
      OBVIOUS
    <3>1. d \in DOMAIN creds /\ creds[d].id = id
      OBVIOUS
    <3>2. c \in 1..(d - 1) \/ d \in 1..(c - 1)
      BY <1>1, <3>1
    <3> HIDE DEF creds, C
    <3> QED
      BY <2>1, <1>8, <3>1, <3>2
  <2>3. C = {c}
    BY <2>1, <2>2
  <2> QED
    BY <2>3, FS_Singleton
<1> QED
  BY <1>7, <1>9

\* One credential of a known format, whose paths are names, gives no finding.
LEMMA NothingToFind ==
  ASSUME NEW paths \in Seq(Seq(STRING \ {Nonsense})), \A i \in DOMAIN paths : paths[i] # <<>>
  PROVE  Findings(ToLint(PidQuery(paths))) = {}
<1> DEFINE query == ToLint(PidQuery(paths))
           cred == [id |-> "pid", format |-> "dc+sd-jwt", claimsForm |-> "list",
                    claims |-> [i \in DOMAIN paths |-> [form |-> "list", path |-> paths[i]]]]
<1>1. DOMAIN PidQuery(paths) = {1} /\ PidQuery(paths)[1] = Credential(paths)
  BY DEF PidQuery
<1>2. Credential(paths).format = "dc+sd-jwt" /\ Credential(paths).claims = paths
  BY DEF Credential
<1>3. /\ query.present = TRUE /\ query.setsForm = "none" /\ query.sets = <<>>
      /\ DOMAIN query.creds = {1} /\ query.creds[1] = cred
  BY <1>1, <1>2 DEF ToLint
<1> HIDE DEF query
<1>4. IdFindings(query.creds, 1) = {}
  <2>1. query.creds[1].id = "pid" /\ 1..(1 - 1) = {}
    BY <1>3
  <2> QED
    BY <2>1 DEF IdFindings, When
<1>5. FormatFindings(cred.format) = {}
  BY DEF FormatFindings, When, KnownFormats
<1>6. \A i \in DOMAIN paths : PathFindings("dc+sd-jwt", [form |-> "list", path |-> paths[i]]) = {}
  <2> SUFFICES ASSUME NEW i \in DOMAIN paths
               PROVE  PathFindings("dc+sd-jwt", [form |-> "list", path |-> paths[i]]) = {}
    OBVIOUS
  <2>1. Nonsense \notin ToSet(paths[i])
    <3>1. paths[i] \in Seq(STRING \ {Nonsense})
      OBVIOUS
    <3> QED
      BY <3>1 DEF ToSet
  <2> QED
    BY <2>1 DEF PathFindings, When
<1>7. ClaimsFindings(cred) = {}
  <2>1. cred.claimsForm = "list" /\ cred.format = "dc+sd-jwt" /\ DOMAIN cred.claims = DOMAIN paths
    OBVIOUS
  <2>2. \A i \in DOMAIN cred.claims : PathFindings(cred.format, cred.claims[i]) = {}
    BY <1>6
  <2> HIDE DEF cred
  <2> QED
    BY <2>1, <2>2 DEF ClaimsFindings, When
<1>8. SetFindings(query) = {}
  <2>1. DOMAIN query.sets = {}
    BY <1>3
  <2> QED
    BY <1>3, <2>1 DEF SetFindings, When
<1>9. query.creds # <<>>
  BY <1>3
<1> HIDE DEF cred
<1> QED
  BY <1>3, <1>4, <1>5, <1>7, <1>8, <1>9 DEF Findings, query

\* validate.rs 79-275 and dcql.rs 20-42: in the sets of a query without a blocking
\* finding the options are lists and every string in them is the id of one
\* credential, and `generate dcql` needs no linter.
THEOREM ValidQueriesResolve == Spec => []ValidQueryResolves
<1>1. DeskInv => ValidQueryResolves
  <2> SUFFICES ASSUME DeskInv PROVE ValidQueryResolves
    OBVIOUS
  <2>1. ASSUME On("lint"), ValidQuery(desk.item), NEW i \in DOMAIN desk.item.sets,
               NEW k \in DOMAIN desk.item.sets[i].options
        PROVE  LET option == desk.item.sets[i].options[k]
               IN  /\ option.form = "list"
                   /\ \A id \in option.refs \ {Nonsense} :
                        Cardinality({c \in DOMAIN desk.item.creds : desk.item.creds[c].id = id}) = 1
    <3>1. desk.item.creds \in Seq(ToSet(desk.item.creds))
      BY <2>1, QueriesAssumptions DEF DeskInv
    <3> QED
      BY <2>1, <3>1, IdsResolve
  <2>2. ASSUME On("specs"), GenerateDcql(desk.item) # <<>>
        PROVE  Findings(ToLint(GenerateDcql(desk.item))) = {}
    <3> DEFINE specs == desk.item
               paths == [i \in DOMAIN specs |-> ParseClaimPath(specs[i])]
               Names == STRING \ {Nonsense}
    <3>1. specs \in Seq(Seq(Names))
      BY <2>2, QueriesAssumptions DEF DeskInv
    <3> HIDE DEF specs, Names
    <3>2. \A i \in DOMAIN specs : ParseClaimPath(specs[i]) \in Seq(Names)
      <4> SUFFICES ASSUME NEW i \in DOMAIN specs PROVE ParseClaimPath(specs[i]) \in Seq(Names)
        OBVIOUS
      <4>1. specs[i] \in Seq(Names)
        BY <3>1
      <4>2. ASSUME NEW x PROVE Without(specs[i], x) \in Seq(Names)
        <5>1. Without(specs[i], x) \in Seq(Names \ {x})
          BY <4>1, WithoutProperties
        <5> QED
          BY <5>1
      <4> QED
        BY <4>2, Zenon DEF ParseClaimPath
    <3>3. paths \in Seq(Seq(Names))
      <4>1. DOMAIN specs = 1..Len(specs) /\ Len(specs) \in Nat
        BY <3>1
      <4> QED
        BY <3>2, <4>1
    <3>4. GenerateDcql(specs) = PidQuery(paths) /\ \A i \in DOMAIN paths : paths[i] # <<>>
      BY <2>2 DEF GenerateDcql, DcqlFromPaths, specs
    <3> HIDE DEF paths
    <3>5. Findings(ToLint(PidQuery(paths))) = {}
      BY <3>3, <3>4, NothingToFind DEF Names
    <3> QED
      BY <3>4, <3>5 DEF specs
  <2> QED
    BY <2>1, <2>2 DEF ValidQueryResolves
<1> QED
  BY <1>1, DeskIsKept, PTL

-------------------------------------------------------------------------------
(* What `inspect` makes of an artifact *)

\* What sniff says of each form.
LEMMA SniffByForm ==
  ASSUME NEW f
  PROVE  /\ f.form = "sd-jwt" => Sniff(f) = "SdJwtVc"
         /\ f.form = "jwt" /\ f.reads => Sniff(f) = ClassifyJwt(f)
         /\ f.form = "text" /\ f.pem => Sniff(f) = "Certificate"
         /\ f.form \in {"json", "array"} /\ ~f.pem => Sniff(f) = ClassifyJson(f)
         /\ f.form = "cbor" /\ ~f.pem /\ ClassifyMdoc(f.keys) # "unrecognized" => Sniff(f) = "Mdoc"
         /\ f.form = "uri" /\ f.scheme = OfferScheme => Sniff(f) = "CredentialOffer"
         /\ f.form = "uri" /\ f.scheme \in RequestSchemes => Sniff(f) = "Openid4vpUri"
BY DEF Sniff, LooksLikeJwt, LooksLikeMdoc, OfferScheme, RequestSchemes

LEMMA TypesOf ==
  /\ DOMAIN TypOf = {"RegistrationCert", "StatusListToken", "AuthorizationRequest", "KbJwt"}
  /\ TypOf["RegistrationCert"] = "rc-wrp+jwt"
  /\ TypOf["StatusListToken"] = "statuslist+jwt"
  /\ TypOf["AuthorizationRequest"] = "oauth-authz-req+jwt"
  /\ TypOf["KbJwt"] = "kb+jwt"
BY DEF TypOf

\* A JWT is what its type says, whatever it claims, and without a type of a kind
\* what its claims say.
LEMMA JwtsKnown ==
  ASSUME NEW kind, NEW f, f.form = "jwt", f.reads,
         \/ kind \in DOMAIN TypOf /\ f.typ = TypOf[kind]
         \/ kind = "AuthorizationRequest" /\ Untyped(f)
              /\ "response_type" \in f.keys /\ "status_list" \notin f.keys
         \/ kind = "Jwt" /\ Untyped(f)
              /\ f.keys \subseteq {"iss", "sub", "aud", "exp", "nbf", "iat", "jti"}
  PROVE  Sniff(f) = kind /\ DecoderReads(kind, f)
<1>1. Sniff(f) = ClassifyJwt(f)
  BY SniffByForm
<1>2. CompactJwt(f) /\ RegcertJwtReads(f)
  BY DEF CompactJwt, RegcertJwtReads
<1>3. ASSUME Untyped(f)
      PROVE  f.typ \notin {"rc-wrp+jwt", "statuslist+jwt", "oauth-authz-req+jwt", "kb+jwt"}
  BY <1>3, TypesOf DEF Untyped
<1>4. ASSUME kind \in DOMAIN TypOf, f.typ = TypOf[kind]
      PROVE  ClassifyJwt(f) = kind
  BY <1>4, TypesOf DEF ClassifyJwt
<1>5. ASSUME Untyped(f), "response_type" \in f.keys, "status_list" \notin f.keys
      PROVE  ClassifyJwt(f) = "AuthorizationRequest"
  BY <1>3, <1>5 DEF ClassifyJwt
<1>6. ASSUME Untyped(f), f.keys \subseteq {"iss", "sub", "aud", "exp", "nbf", "iat", "jti"}
      PROVE  ClassifyJwt(f) = "Jwt"
  <2>1. /\ "status_list" \notin f.keys /\ "credentials" \notin f.keys
        /\ f.keys \cap {"response_type", "dcql_query", "presentation_definition"} = {}
    BY <1>6
  <2> QED
    BY <1>3, <1>6, <2>1 DEF ClassifyJwt
<1>7. kind \in {"RegistrationCert", "StatusListToken", "AuthorizationRequest", "KbJwt", "Jwt"}
  BY TypesOf
<1> QED
  BY <1>1, <1>2, <1>4, <1>5, <1>6, <1>7 DEF DecoderReads

\* JSON is told by its members, of which those of an offer come first and those
\* of a registration before those of a query.
LEMMA JsonKnown ==
  ASSUME NEW kind, NEW f, f.reads, ~f.pem,
         \/ kind = "RegistrationCert" /\ f.form \in {"json", "array"}
              /\ f.keys \subseteq EntityKeys /\ RegcertEntity(f.keys)
         \/ kind = "RegistrationBody" /\ f.form = "json"
              /\ f.keys \subseteq BodyKeys /\ {"rpId", "credentials"} \subseteq f.keys
         \/ kind = "DcqlQuery" /\ f.form = "json"
              /\ \/ f.queries /\ "credentials" \in f.keys
                      /\ f.keys \subseteq {"credentials", "credential_sets"}
                 \/ "dcql_query" \in f.keys /\ f.keys \subseteq {"id", "description", "dcql_query"}
         \/ kind = "CredentialOffer" /\ f.form = "json"
              /\ \/ "credential_issuer" \in f.keys
                 \/ "uri" \in f.keys /\ f.offer
         \/ kind = "Json" /\ f.form = "json" /\ f.keys \subseteq BundleKeys
  PROVE  Sniff(f) = kind /\ (DecoderReads(kind, f) \/ f.cuts)
<1>1. Sniff(f) = ClassifyJson(f)
  BY SniffByForm
<1> DEFINE keys == IF f.form = "json" THEN f.keys ELSE {}
           Offered == keys \cap {"credential_issuer", "credential_offer", "credential_configuration_ids"} # {}
                        \/ ("uri" \in keys /\ f.offer)
<1>2. CASE kind = "RegistrationCert" /\ f.form \in {"json", "array"}
             /\ f.keys \subseteq EntityKeys /\ RegcertEntity(f.keys)
  <2>1. ~Offered /\ "rpId" \notin keys
    BY <1>2 DEF EntityKeys
  <2>2. ClassifyJson(f) = "RegistrationCert"
    BY <1>2, <2>1 DEF ClassifyJson
  <2>3. RegcertJwtReads(f)
    BY <1>2 DEF RegcertJwtReads, RegcertEntity
  <2> QED
    BY <1>1, <1>2, <2>2, <2>3 DEF DecoderReads
<1>3. CASE kind = "RegistrationBody" /\ f.form = "json"
             /\ f.keys \subseteq BodyKeys /\ {"rpId", "credentials"} \subseteq f.keys
  <2>1. ~Offered /\ "rpId" \in keys
    BY <1>3 DEF BodyKeys
  <2>2. ClassifyJson(f) = "RegistrationBody"
    BY <1>3, <2>1 DEF ClassifyJson
  <2> QED
    BY <1>1, <1>3, <2>2 DEF DecoderReads
<1>4. CASE kind = "DcqlQuery" /\ f.form = "json"
             /\ \/ f.queries /\ "credentials" \in f.keys
                     /\ f.keys \subseteq {"credentials", "credential_sets"}
                \/ "dcql_query" \in f.keys /\ f.keys \subseteq {"id", "description", "dcql_query"}
  <2>1. /\ ~Offered /\ "rpId" \notin keys /\ ~RegcertEntity(f.keys)
        /\ keys \cap {"response_type", "client_metadata"} = {} /\ "client_id" \notin keys
        /\ "dcql_query" \in keys \/ ("credentials" \in keys /\ f.queries /\ "purpose" \notin keys)
    BY <1>4 DEF RegcertEntity
  <2>2. ClassifyJson(f) = "DcqlQuery"
    BY <2>1 DEF ClassifyJson
  <2> QED
    BY <1>1, <1>4, <2>2 DEF DecoderReads
<1>5. CASE kind = "CredentialOffer" /\ f.form = "json"
             /\ \/ "credential_issuer" \in f.keys
                \/ "uri" \in f.keys /\ f.offer
  <2>1. ClassifyJson(f) = "CredentialOffer"
    BY <1>5 DEF ClassifyJson
  <2> QED
    BY <1>1, <1>5, <2>1 DEF DecoderReads
<1>6. CASE kind = "Json" /\ f.form = "json" /\ f.keys \subseteq BundleKeys
  <2>1. /\ ~Offered /\ "rpId" \notin keys /\ ~RegcertEntity(f.keys)
        /\ keys \cap {"response_type", "client_metadata"} = {}
        /\ "dcql_query" \notin keys /\ "credentials" \notin keys
    BY <1>6 DEF RegcertEntity, BundleKeys
  <2>2. ClassifyJson(f) = "Json"
    BY <2>1 DEF ClassifyJson
  <2> QED
    BY <1>1, <1>6, <2>2 DEF DecoderReads
<1> QED
  BY <1>2, <1>3, <1>4, <1>5, <1>6

\* What an artifact is and what `inspect` takes it for are one thing, unless it is
\* a signed bundle.
LEMMA ArtifactsKnown ==
  ASSUME NEW kind, NEW f, Artifact(kind, f), ~SignedBundle(kind, f)
  PROVE  Sniff(f) = kind /\ (InspectOk(f) \/ f.cuts)
<1> SUFFICES Sniff(f) = kind /\ (DecoderReads(kind, f) \/ f.cuts)
  BY DEF InspectOk
<1>1. f.reads /\ (f.pem => kind = "Certificate")
  BY DEF Artifact
<1>2. CASE f.form = "jwt"
  BY <1>1, <1>2, JwtsKnown DEF Artifact
<1>3. CASE f.form \in {"json", "array"}
  BY <1>1, <1>3, JsonKnown DEF Artifact, Untyped
<1>4. CASE f.form \in {"sd-jwt", "uri", "text"}
  BY <1>1, <1>4, SniffByForm DEF Artifact, Untyped, DecoderReads
<1>5. CASE f.form = "cbor"
  <2>1. kind = "Mdoc"
    BY <1>5 DEF Artifact, Untyped
  <2>2. ClassifyMdoc(f.keys) # "unrecognized"
    BY <1>5 DEF Artifact, Untyped, ClassifyMdoc
  <2> QED
    BY <1>1, <1>5, <2>1, <2>2, SniffByForm DEF DecoderReads
<1> QED
  BY <1>2, <1>3, <1>4, <1>5 DEF Artifact, Untyped

\* artifact.rs 64-189: what the workbench makes, and what registrars, issuers and
\* wallets hand it, is taken for what it is and is shown, but for a signed bundle
\* and a text cut inside a character.
THEOREM ArtifactsAreKnown == Spec => []InspectKnowsItsOwn
<1>1. DeskInv => InspectKnowsItsOwn
  BY ArtifactsKnown, FilesAssumption DEF DeskInv, InspectKnowsItsOwn
<1> QED
  BY <1>1, DeskIsKept, PTL

-------------------------------------------------------------------------------
(* The fetch of a status list *)

\* What the checks established by the time the fetch stands where it does.
FetchInv ==
  /\ bytes \in 0..MaxBytes
  /\ fetching \in {"resolve", "vet", "connect", "reading"} => uri.scheme = "https"
  /\ fetching = "connect" => VetOk
  /\ peer # NoAddress => ~IsNonPublic(peer) /\ uri.scheme = "https"

LEMMA FetchStarts == FetchInit \/ NoFetch => FetchInv
BY FetchAssumptions DEF FetchInit, NoFetch, FetchInv

LEMMA FetchSteps == FetchInv /\ [FetchNext]_fetchVars => FetchInv'
<1> SUFFICES ASSUME FetchInv, [FetchNext]_fetchVars PROVE FetchInv'
  OBVIOUS
<1> USE DEF FetchInv, IsNonPublic
<1>1. CASE ParseUri
  BY <1>1 DEF ParseUri
<1>2. CASE Resolve
  BY <1>2 DEF Resolve
<1>3. CASE Vet
  BY <1>3 DEF Vet, VetOk
<1>4. CASE Connect
  BY <1>4 DEF Connect, Pinned, VetOk
<1>5. CASE ReadChunk
  <2> PICK size \in Chunks :
        IF bytes + size > MaxBytes
        THEN fetching' = "failed" /\ bytes' = bytes
        ELSE fetching' = fetching /\ bytes' = bytes + size
    BY <1>5 DEF ReadChunk
  <2>1. bytes' \in 0..MaxBytes
    BY FetchAssumptions
  <2> QED
    BY <1>5, <2>1 DEF ReadChunk
<1>6. CASE ReadEnd
  BY <1>6 DEF ReadEnd
<1>7. CASE FetchFails
  BY <1>7 DEF FetchFails
<1>8. CASE UNCHANGED fetchVars
  BY <1>8 DEF fetchVars, VetOk
<1> QED
  BY <1>1, <1>2, <1>3, <1>4, <1>5, <1>6, <1>7, <1>8 DEF FetchNext

\* state.rs 114-216: the client of a status list talks to public addresses only,
\* over https, and keeps no more of a body than its limit.
THEOREM FetchIsPublic == Spec => []FetchStaysPublic
<1>1. Init => FetchInv
  <2>1. Init => FetchInit \/ NoFetch
    BY Zenon DEF Init
  <2> QED
    BY <2>1, FetchStarts
<1>2. FetchInv /\ [Next]_vars => FetchInv'
  <2>1. [Next]_vars => [FetchNext]_fetchVars
    BY Zenon DEF Next, Debug, FetchList, Tick, vars
  <2> QED
    BY <2>1, FetchSteps
<1>3. FetchInv => FetchStaysPublic
  BY FetchAssumptions DEF FetchInv, FetchStaysPublic
<1> QED
  BY <1>1, <1>2, <1>3, PTL DEF Spec

-------------------------------------------------------------------------------
(* The name an artifact gets *)

\* artifacts.rs 108-124: the loop that looks for a free name finds one.
LEMMA NameIsFree ==
  ASSUME NEW kind, IsFiniteSet(DOMAIN dir)
  PROVE  UniqueName(kind) \notin DOMAIN dir /\ UniqueName(kind)[1] = kind
<1> DEFINE k == Cardinality(DOMAIN dir) + 1
           Free == {n \in 1..k : <<kind, n>> \notin DOMAIN dir}
           least(n) == <<kind, n>> \notin DOMAIN dir /\ \A m \in 1..(n - 1) : <<kind, m>> \in DOMAIN dir
<1>1. Cardinality(DOMAIN dir) \in Nat
  BY FS_CardinalityType
<1>2. Free # {}
  <2> SUFFICES ASSUME \A n \in 1..k : <<kind, n>> \in DOMAIN dir PROVE FALSE
    OBVIOUS
  <2> DEFINE f == [n \in 1..k |-> <<kind, n>>]
  <2>1. f \in Injection(1..k, DOMAIN dir)
    BY DEF Injection, IsInjective
  <2> HIDE DEF f
  <2>2. Cardinality(1..k) <= Cardinality(DOMAIN dir)
    BY <2>1, FS_Injection
  <2>3. Cardinality(1..k) = k
    BY <1>1, FS_Interval
  <2> QED
    BY <1>1, <2>2, <2>3
<1>3. PICK n \in Free : \A m \in 1..(n - 1) : m \notin Free
  <2>1. k \in Nat /\ Free \in SUBSET (1..k)
    BY <1>1
  <2> HIDE DEF k, Free
  <2> QED
    BY <1>2, <2>1, LeastNumber
<1>4. n \in 1..k /\ least(n)
  BY <1>1, <1>3
<1>5. least(CHOOSE x \in 1..k : least(x))
  <2> HIDE DEF least, k
  <2> QED
    BY <1>4
<1> QED
  BY <1>5 DEF UniqueName

-------------------------------------------------------------------------------
(* The handlers of a session *)

Stands == Artifacts \cup Verdicts \cup Answers \cup {"idle", "parse", "decrypt", "verify"}

\* Where only a post can stand.
PostStands == (PostArtifacts \cup Verdicts \cup Answers \cup {"parse", "decrypt", "verify"})
                \ {"fetched", "failed"}

\* A handler writes what it stands at, the part of a post is only ever taken by a
\* post and that of a fetch never, a post has its body from its first step on, and
\* only one that is encrypted gets a time.
HandlersInv ==
  /\ now \in 0..MaxTime
  /\ at \in [Handlers -> Stands]
  /\ step \in [Handlers -> {"none", "named", "saved", "read", "torn"}]
  /\ DOMAIN name = Handlers /\ DOMAIN read = Handlers
  /\ DOMAIN reply = Posts /\ DOMAIN clock = Posts
  /\ {keyHeld, disturbed} \subseteq BOOLEAN
  /\ \A h \in Handlers : Writing(h) => at[h] \in Artifacts /\ name[h][1] = at[h]
  /\ \A h \in Handlers : at[h] \in PostStands => h \in Posts
  /\ \A h \in Posts : /\ reply[h] \in Replies \cup {NoReply} /\ clock[h] \in 0..now
                      /\ at[h] # "idle" => reply[h] \in Replies
                      /\ at[h] \notin FetchArtifacts \cup {"fetched"}
                      /\ at[h] = "verification-context.json" => reply[h].form = "jwe"

\* serve has one verdict of a post, whatever the status lists.
LEMMA VerdictsGiven ==
  ASSUME NEW h, Verify(h)
  PROVE  /\ at[h] = "verify"
         /\ \E v \in Verdicts : at' = [at EXCEPT ![h] = v]
         /\ UNCHANGED <<now, step, name, read, reply, clock, dir, manifest, keyHeld, disturbed>>
<1>1. PICK lists \in [DOMAIN reply[h].vps -> StatusLists] : at' = [at EXCEPT ![h] = ServeVerdict(h, lists)]
  BY DEF Verify
<1>2. \A p, t, list : VerdictOf(p, t, list) \in Verdicts
  BY DEF VerdictOf, Verdicts
<1>3. ServeVerdict(h, lists) \in Verdicts
  <2> DEFINE vps == reply[h].vps
             failed == {i \in DOMAIN vps : VerdictOf(vps[i], clock[h], lists[i]) # "accept"}
             least == Min(failed)
  <2>1. ServeVerdict(h, lists) = IF vps = <<>> THEN "reject"
                                 ELSE IF failed = {} THEN "accept"
                                 ELSE VerdictOf(vps[least], clock[h], lists[least])
    BY DEF ServeVerdict
  <2>2. "accept" \in Verdicts /\ "reject" \in Verdicts
    BY DEF Verdicts
  <2> HIDE DEF vps, failed, least
  <2> QED
    BY <1>2, <2>1, <2>2
<1> QED
  BY <1>1, <1>3 DEF Verify

LEMMA HandlersStart == CaptureInit => HandlersInv
<1> SUFFICES ASSUME CaptureInit PROVE HandlersInv
  OBVIOUS
<1>1. now \in 0..MaxTime
  BY CaptureAssumptions DEF CaptureInit
<1>2. at \in [Handlers -> Stands] /\ \A h \in Handlers : at[h] = "idle"
  BY DEF CaptureInit, Stands
<1>3. step \in [Handlers -> {"none", "named", "saved", "read", "torn"}] /\ \A h \in Handlers : ~Writing(h)
  BY DEF CaptureInit, Writing
<1>4. DOMAIN name = Handlers /\ DOMAIN read = Handlers /\ DOMAIN reply = Posts /\ DOMAIN clock = Posts
  BY DEF CaptureInit
<1>5. {keyHeld, disturbed} \subseteq BOOLEAN
  BY DEF CaptureInit
<1>6. \A h \in Posts : reply[h] = NoReply /\ clock[h] \in 0..now /\ h \in Handlers
  BY DEF CaptureInit, Handlers
<1> QED
  BY <1>1, <1>2, <1>3, <1>4, <1>5, <1>6
     DEF HandlersInv, PostStands, PostArtifacts, Verdicts, Answers, FetchArtifacts

LEMMA HandlersStep ==
  ASSUME HandlersInv, IsFiniteSet(DOMAIN dir), NEW h \in Handlers, Serve(h)
  PROVE  HandlersInv'
<1> USE DEF HandlersInv, Handlers, Writing, Stands, PostStands, Artifacts, FetchArtifacts,
            PostArtifacts, Verdicts, Answers
<1>1. CASE Fetch(h)
  BY <1>1, CaptureAssumptions DEF Fetch
<1>2. CASE Post(h)
  BY <1>2 DEF Post
<1>3. CASE RefuseBody(h)
  BY <1>3 DEF RefuseBody
<1>4. CASE TakeTime(h)
  BY <1>4, CaptureAssumptions DEF TakeTime
<1>5. CASE Decrypt(h)
  BY <1>5 DEF Decrypt
<1>6. CASE Verify(h)
  BY <1>6, VerdictsGiven
<1>7. CASE Answer(h)
  BY <1>7 DEF Answer
<1>8. CASE WriteFails(h)
  BY <1>8 DEF WriteFails
<1>9. CASE PickName(h)
  <2>1. UniqueName(at[h])[1] = at[h]
    BY NameIsFree
  <2> QED
    BY <1>9, <2>1 DEF PickName
<1>10. CASE WriteFile(h)
  BY <1>10 DEF WriteFile
<1>11. CASE ReadManifest(h)
  BY <1>11 DEF ReadManifest
<1>12. CASE TruncateManifest(h)
  BY <1>12 DEF TruncateManifest
<1>13. CASE WriteManifest(h)
  BY <1>13 DEF WriteManifest, After
<1> QED
  BY <1>1, <1>2, <1>3, <1>4, <1>5, <1>6, <1>7, <1>8, <1>9, <1>10, <1>11, <1>12, <1>13, Zenon DEF Serve

-------------------------------------------------------------------------------
(* What the files of a session are taken from *)

BodyOf(r) == [Blank EXCEPT !.form = r.form, !.key = r.key, !.vps = r.vps]
ContextOf(t) ==
  [Blank EXCEPT !.nonce = SessionBinding.nonce, !.aud = SessionBinding.aud, !.at = t]

\* Entries that name files there are.
Listing(entries) ==
  /\ IsFiniteSet(entries)
  /\ \A e \in entries : /\ e = [name |-> e.name, content |-> e.content, sha |-> e.sha]
                        /\ e.name \in DOMAIN dir

Posted(g) == at[g] # "idle"
Checked(g) == at[g] \notin {"idle", "direct-post.body", "parse", "failed"}

\* However the handlers get in each other's way and whatever writes fail, the key's
\* file stays what it was; and unless it is the rest of a failed write a body is one
\* that was posted, a context has a time some post took, and a response is what a
\* body carried.
FilesInv ==
  /\ IsFiniteSet(DOMAIN dir)
  /\ KeyFile.name \in DOMAIN dir /\ dir[KeyFile.name] = KeyFile.content
  /\ manifest.torn \in BOOLEAN /\ Listing(manifest.entries)
  /\ \A h \in Handlers : Listing(read[h])
  /\ \A h \in Handlers : step[h] \in {"saved", "read", "torn"} => name[h] \in DOMAIN dir
  /\ \A f \in DOMAIN dir : f[1] = "direct-post.body" =>
       dir[f] = Scrap \/ \E g \in Posts : Posted(g) /\ dir[f] = BodyOf(reply[g])
  /\ \A f \in DOMAIN dir : f[1] = "verification-context.json" =>
       dir[f] = Scrap \/ \E g \in Posts : Timed(g) /\ dir[f] = ContextOf(clock[g])
  /\ \A f \in DOMAIN dir : f[1] = "auth-response.json" =>
       dir[f] = Scrap \/ \E g \in Posts : Posted(g) /\ dir[f].vps = reply[g].vps

LEMMA FilesStart == CaptureInit => FilesInv
<1> SUFFICES ASSUME CaptureInit PROVE FilesInv
  OBVIOUS
<1>1. DOMAIN dir = {KeyFile.name} /\ dir[KeyFile.name] = KeyFile.content
  BY DEF CaptureInit
<1>2. KeyFile.name[1] = "session-enc-key.jwk"
  BY DEF KeyFile, Entry, Original
<1>3. manifest.torn \in BOOLEAN /\ manifest.entries = {KeyFile}
  BY DEF CaptureInit
<1>4. KeyFile = [name |-> KeyFile.name, content |-> KeyFile.content, sha |-> KeyFile.sha]
  BY DEF KeyFile, Entry
<1>5. \A h \in Handlers : read[h] = {} /\ step[h] = "none"
  BY DEF CaptureInit
<1>6. IsFiniteSet(DOMAIN dir) /\ IsFiniteSet(manifest.entries) /\ IsFiniteSet({})
  <2>1. IsFiniteSet({KeyFile.name}) /\ IsFiniteSet({KeyFile}) /\ IsFiniteSet({})
    BY FS_Singleton, FS_EmptySet, Zenon
  <2> QED
    BY <1>1, <1>3, <2>1
<1>7. Listing(manifest.entries) /\ Listing({})
  BY <1>1, <1>3, <1>4, <1>6 DEF Listing
<1> QED
  BY <1>1, <1>2, <1>3, <1>5, <1>6, <1>7 DEF FilesInv

\* A post keeps its body once it has one, and its time once it took it.
LEMMA PostsRemember ==
  ASSUME HandlersInv, NEW h \in Handlers, Serve(h), NEW g \in Posts
  PROVE  /\ Posted(g) => Posted(g)' /\ reply'[g] = reply[g]
         /\ Checked(g) => Checked(g)' /\ clock'[g] = clock[g]
         /\ Timed(g) => Timed(g)' /\ clock'[g] = clock[g]
<1> SUFFICES /\ Posted(g) => Posted(g)' /\ reply'[g] = reply[g]
             /\ Checked(g) => Checked(g)' /\ clock'[g] = clock[g]
  BY DEF Posted, Checked, Timed
<1> USE DEF HandlersInv, Handlers, Posted, Checked, Writing, FetchArtifacts, PostArtifacts, Artifacts, Verdicts
<1>1. CASE Fetch(h)
  BY <1>1, CaptureAssumptions DEF Fetch
<1>2. CASE Post(h)
  BY <1>2 DEF Post
<1>3. CASE RefuseBody(h)
  BY <1>3 DEF RefuseBody
<1>4. CASE TakeTime(h)
  BY <1>4 DEF TakeTime
<1>5. CASE Decrypt(h)
  BY <1>5 DEF Decrypt
<1>6. CASE Verify(h)
  BY <1>6, VerdictsGiven
<1>7. CASE Answer(h)
  BY <1>7 DEF Answer
<1>8. CASE WriteFails(h)
  BY <1>8 DEF WriteFails
<1>9. CASE PickName(h)
  BY <1>9 DEF PickName
<1>10. CASE WriteFile(h)
  BY <1>10 DEF WriteFile
<1>11. CASE ReadManifest(h)
  BY <1>11 DEF ReadManifest
<1>12. CASE TruncateManifest(h)
  BY <1>12 DEF TruncateManifest
<1>13. CASE WriteManifest(h)
  BY <1>13 DEF WriteManifest, After, Artifacts, FetchArtifacts, PostArtifacts
<1> QED
  BY <1>1, <1>2, <1>3, <1>4, <1>5, <1>6, <1>7, <1>8, <1>9, <1>10, <1>11, <1>12, <1>13, Zenon DEF Serve

\* What a handler writes into the files the proofs below are about.
LEMMA WhatIsWritten ==
  ASSUME NEW h
  PROVE  /\ at[h] = "direct-post.body" => ContentOf(h) = BodyOf(reply[h])
         /\ at[h] = "verification-context.json" => ContentOf(h) = ContextOf(clock[h])
         /\ at[h] = "auth-response.json" => ContentOf(h).vps = reply[h].vps
BY DEF ContentOf, BodyOf, ContextOf

Moves(h) ==
  Fetch(h) \/ Post(h) \/ RefuseBody(h) \/ TakeTime(h) \/ Decrypt(h) \/ Verify(h) \/ Answer(h)

LEMMA MovesWriteNothing ==
  ASSUME NEW h, Moves(h)
  PROVE  UNCHANGED <<dir, manifest, read, name, step, disturbed>>
BY DEF Moves, Fetch, Post, RefuseBody, TakeTime, Decrypt, Verify, Answer

\* A file that is being written is not there, or is the content or a part of it.
PartOf(h) == step[h] = "named" /\ WriteFails(h) /\ dir' = With(name[h], Scrap)

\* Files are only ever added, by their own write or a part of it.
LEMMA FilesStay ==
  ASSUME NEW h, Serve(h)
  PROVE  /\ DOMAIN dir \subseteq DOMAIN dir'
         /\ ~WriteFile(h) /\ ~PartOf(h) => dir' = dir
<1>1. CASE Moves(h)
  BY <1>1, MovesWriteNothing
<1>2. CASE WriteFile(h)
  BY <1>2 DEF WriteFile, With
<1>3. CASE PickName(h) \/ ReadManifest(h) \/ TruncateManifest(h) \/ WriteManifest(h)
  BY <1>3 DEF PickName, ReadManifest, TruncateManifest, WriteManifest
<1>4. CASE WriteFails(h)
  <2>1. dir' = dir \/ PartOf(h)
    BY <1>4, Zenon DEF WriteFails, PartOf
  <2> QED
    BY <2>1 DEF PartOf, With
<1> QED
  BY <1>1, <1>2, <1>3, <1>4, Zenon DEF Serve, Moves

LEMMA ListingsStay ==
  ASSUME NEW entries, Listing(entries), DOMAIN dir \subseteq DOMAIN dir'
  PROVE  /\ IsFiniteSet(entries)
         /\ \A e \in entries : /\ e = [name |-> e.name, content |-> e.content, sha |-> e.sha]
                               /\ e.name \in DOMAIN dir'
BY DEF Listing

\* The manifest and what was read of it list files there are.
LEMMA ListingsStep ==
  ASSUME HandlersInv, FilesInv, NEW h \in Handlers, Serve(h)
  PROVE  /\ manifest'.torn \in BOOLEAN /\ Listing(manifest.entries)'
         /\ \A g \in Handlers : Listing(read[g])'
<1> DEFINE Kept(entries) ==
      /\ IsFiniteSet(entries)
      /\ \A e \in entries : /\ e = [name |-> e.name, content |-> e.content, sha |-> e.sha]
                            /\ e.name \in DOMAIN dir'
<1>1. Kept(manifest.entries) /\ Kept({}) /\ \A g \in Handlers : Kept(read[g])
  <2>1. DOMAIN dir \subseteq DOMAIN dir'
    BY FilesStay
  <2>2. Kept({})
    BY FS_EmptySet
  <2> QED
    BY <2>1, <2>2, ListingsStay DEF FilesInv
<1> SUFFICES /\ manifest'.torn \in BOOLEAN /\ Kept(manifest'.entries)
             /\ \A g \in Handlers : Kept(read'[g])
  BY DEF Listing
<1>2. DOMAIN read = Handlers
  BY DEF HandlersInv
<1>3. manifest.torn \in BOOLEAN
  BY DEF FilesInv
<1>4. CASE step[h] = "torn" /\ manifest' = [torn |-> FALSE, entries |-> Listed(h)]
            /\ read' = [read EXCEPT ![h] = {}]
  <2>1. name[h] \in DOMAIN dir'
    BY <1>4, FilesStay DEF FilesInv
  <2> DEFINE new == Entry(name[h], ContentOf(h))
             rest == {e \in read[h] : e.name # name[h]}
  <2>2. new = [name |-> new.name, content |-> new.content, sha |-> new.sha] /\ new.name = name[h]
    BY DEF Entry
  <2>3. IsFiniteSet(rest)
    <3>1. IsFiniteSet(read[h]) /\ rest \in SUBSET read[h]
      BY <1>1
    <3> HIDE DEF rest
    <3> QED
      BY <3>1, FS_Subset
  <2>4. IsFiniteSet(rest \cup {new})
    <3> HIDE DEF rest, new
    <3> QED
      BY <2>3, FS_AddElement
  <2>5. Kept(rest \cup {new})
    <3> HIDE DEF new
    <3> QED
      BY <1>1, <2>1, <2>2, <2>4
  <2>6. manifest'.torn = FALSE /\ manifest'.entries = rest \cup {new}
    BY <1>4 DEF Listed
  <2>7. \A g \in Handlers : read'[g] = IF g = h THEN {} ELSE read[g]
    BY <1>2, <1>4
  <2> HIDE DEF Kept, new, rest
  <2> QED
    BY <1>1, <2>5, <2>6, <2>7
<1> HIDE DEF Kept
<1>5. CASE Moves(h) \/ PickName(h) \/ WriteFile(h)
  <2>1. manifest' = manifest /\ read' = read
    BY <1>5, MovesWriteNothing DEF PickName, WriteFile
  <2> QED
    BY <1>1, <1>3, <2>1
<1>6. CASE ReadManifest(h)
  BY <1>1, <1>2, <1>3, <1>6 DEF ReadManifest
<1>7. CASE TruncateManifest(h)
  BY <1>1, <1>7 DEF TruncateManifest
<1>8. CASE WriteManifest(h)
  BY <1>4, <1>8 DEF WriteManifest
<1>9. CASE WriteFails(h)
  <2>1. read' = [read EXCEPT ![h] = {}]
    BY <1>9 DEF WriteFails
  <2>2. CASE manifest' = manifest
    BY <1>1, <1>2, <1>3, <2>1, <2>2
  <2> QED
    BY <1>4, <1>9, <2>1, <2>2, Zenon DEF WriteFails
<1> QED
  BY <1>5, <1>6, <1>7, <1>8, <1>9, Zenon DEF Serve, Moves

LEMMA FilesStep ==
  ASSUME HandlersInv, FilesInv, NEW h \in Handlers, Serve(h)
  PROVE  FilesInv'
<1>1. CASE WriteFile(h) \/ PartOf(h)
  <2> DEFINE file == name[h]
  <2>1. PICK content \in {ContentOf(h), Scrap} : dir' = With(file, content)
    BY <1>1 DEF WriteFile, PartOf
  <2>2. /\ DOMAIN dir' = DOMAIN dir \cup {file}
        /\ \A f \in DOMAIN dir' : dir'[f] = IF f = file THEN content ELSE dir[f]
    BY <2>1 DEF With
  <2>3. at[h] \in Artifacts /\ file[1] = at[h]
    BY <1>1 DEF HandlersInv, WriteFile, PartOf, Writing
  <2>4. file # KeyFile.name
    BY <2>3 DEF KeyFile, Entry, Original, Artifacts, FetchArtifacts, PostArtifacts
  <2>5. IsFiniteSet(DOMAIN dir')
    BY <2>2, FS_AddElement DEF FilesInv
  <2>6. KeyFile.name \in DOMAIN dir' /\ dir'[KeyFile.name] = KeyFile.content
    BY <2>2, <2>4 DEF FilesInv
  <2>7. \A g \in Handlers : step'[g] \in {"saved", "read", "torn"} => name'[g] \in DOMAIN dir'
    BY <1>1, <2>2 DEF WriteFile, PartOf, WriteFails, HandlersInv, FilesInv
  <2>8. ASSUME NEW f \in DOMAIN dir', f[1] = "direct-post.body"
        PROVE  dir'[f] = Scrap \/ \E g \in Posts : Posted(g)' /\ dir'[f] = BodyOf(reply'[g])
    <3>1. CASE f = file
      <4>1. h \in Posts /\ Posted(h)
        BY <2>3, <2>8, <3>1 DEF HandlersInv, PostStands, PostArtifacts, Posted
      <4>2. content = ContentOf(h) => dir'[f] = BodyOf(reply[h])
        BY <2>2, <2>3, <2>8, <3>1, WhatIsWritten
      <4>3. dir'[f] = content
        BY <2>2, <3>1
      <4> QED
        BY <2>1, <4>1, <4>2, <4>3, PostsRemember
    <3>2. CASE f # file
      <4>1. f \in DOMAIN dir /\ dir'[f] = dir[f]
        BY <2>2, <3>2
      <4>2. dir[f] = Scrap \/ \E g \in Posts : Posted(g) /\ dir[f] = BodyOf(reply[g])
        BY <2>8, <4>1 DEF FilesInv
      <4> QED
        BY <4>1, <4>2, PostsRemember
    <3> QED
      BY <3>1, <3>2
  <2>9. ASSUME NEW f \in DOMAIN dir', f[1] = "verification-context.json"
        PROVE  dir'[f] = Scrap \/ \E g \in Posts : Timed(g)' /\ dir'[f] = ContextOf(clock'[g])
    <3>1. CASE f = file
      <4>1. h \in Posts /\ Timed(h)
        BY <2>3, <2>9, <3>1 DEF HandlersInv, PostStands, PostArtifacts, Timed
      <4>2. content = ContentOf(h) => dir'[f] = ContextOf(clock[h])
        BY <2>2, <2>3, <2>9, <3>1, WhatIsWritten
      <4>3. dir'[f] = content
        BY <2>2, <3>1
      <4> QED
        BY <2>1, <4>1, <4>2, <4>3, PostsRemember
    <3>2. CASE f # file
      <4>1. f \in DOMAIN dir /\ dir'[f] = dir[f]
        BY <2>2, <3>2
      <4>2. dir[f] = Scrap \/ \E g \in Posts : Timed(g) /\ dir[f] = ContextOf(clock[g])
        BY <2>9, <4>1 DEF FilesInv
      <4> QED
        BY <4>1, <4>2, PostsRemember
    <3> QED
      BY <3>1, <3>2
  <2>10. ASSUME NEW f \in DOMAIN dir', f[1] = "auth-response.json"
         PROVE  dir'[f] = Scrap \/ \E g \in Posts : Posted(g)' /\ dir'[f].vps = reply'[g].vps
    <3>1. CASE f = file
      <4>1. h \in Posts /\ Posted(h)
        BY <2>3, <2>10, <3>1 DEF HandlersInv, PostStands, PostArtifacts, Posted
      <4>2. content = ContentOf(h) => dir'[f].vps = reply[h].vps
        BY <2>2, <2>3, <2>10, <3>1, WhatIsWritten
      <4>3. dir'[f] = content
        BY <2>2, <3>1
      <4> QED
        BY <2>1, <4>1, <4>2, <4>3, PostsRemember
    <3>2. CASE f # file
      <4>1. f \in DOMAIN dir /\ dir'[f] = dir[f]
        BY <2>2, <3>2
      <4>2. dir[f] = Scrap \/ \E g \in Posts : Posted(g) /\ dir[f].vps = reply[g].vps
        BY <2>10, <4>1 DEF FilesInv
      <4> QED
        BY <4>1, <4>2, PostsRemember
    <3> QED
      BY <3>1, <3>2
  <2> QED
    BY <2>5, <2>6, <2>7, <2>8, <2>9, <2>10, ListingsStep DEF FilesInv
<1>2. CASE ~WriteFile(h) /\ ~PartOf(h)
  <2>1. dir' = dir
    BY <1>2, FilesStay
  <2>2. \A g \in Handlers : step'[g] \in {"saved", "read", "torn"} => name'[g] \in DOMAIN dir
    <3> USE DEF HandlersInv, FilesInv
    <3>1. CASE Moves(h)
      BY <3>1, MovesWriteNothing
    <3>2. CASE PickName(h)
      BY <3>2 DEF PickName
    <3>3. CASE ReadManifest(h) \/ TruncateManifest(h)
      BY <3>3 DEF ReadManifest, TruncateManifest
    <3>4. CASE WriteManifest(h)
      BY <3>4 DEF WriteManifest
    <3>5. CASE WriteFails(h)
      BY <3>5 DEF WriteFails
    <3> QED
      BY <1>2, <3>1, <3>2, <3>3, <3>4, <3>5, Zenon DEF Serve, Moves
  <2>3. ASSUME NEW f \in DOMAIN dir', f[1] = "direct-post.body"
        PROVE  dir'[f] = Scrap \/ \E g \in Posts : Posted(g)' /\ dir'[f] = BodyOf(reply'[g])
    <3>1. dir[f] = Scrap \/ \E g \in Posts : Posted(g) /\ dir[f] = BodyOf(reply[g])
      BY <2>1, <2>3 DEF FilesInv
    <3> QED
      BY <2>1, <3>1, PostsRemember
  <2>4. ASSUME NEW f \in DOMAIN dir', f[1] = "verification-context.json"
        PROVE  dir'[f] = Scrap \/ \E g \in Posts : Timed(g)' /\ dir'[f] = ContextOf(clock'[g])
    <3>1. dir[f] = Scrap \/ \E g \in Posts : Timed(g) /\ dir[f] = ContextOf(clock[g])
      BY <2>1, <2>4 DEF FilesInv
    <3> QED
      BY <2>1, <3>1, PostsRemember
  <2>5. ASSUME NEW f \in DOMAIN dir', f[1] = "auth-response.json"
        PROVE  dir'[f] = Scrap \/ \E g \in Posts : Posted(g)' /\ dir'[f].vps = reply'[g].vps
    <3>1. dir[f] = Scrap \/ \E g \in Posts : Posted(g) /\ dir[f].vps = reply[g].vps
      BY <2>1, <2>5 DEF FilesInv
    <3> QED
      BY <2>1, <3>1, PostsRemember
  <2> QED
    BY <2>1, <2>2, <2>3, <2>4, <2>5, ListingsStep DEF FilesInv
<1> QED
  BY <1>1, <1>2

-------------------------------------------------------------------------------
(* Handlers that never wrote at once *)

\* The manifest lists these files, each under its own hash.
Lists(files) == ~manifest.torn /\ manifest.entries = {Entry(f, dir[f]) : f \in files}

\* How far the one handler that writes has come.
Progress(h) ==
  /\ step[h] = "named" => name[h] \notin DOMAIN dir /\ Lists(DOMAIN dir)
  /\ step[h] \in {"saved", "read", "torn"} => dir[name[h]] = ContentOf(h)
  /\ step[h] \in {"saved", "read"} => Lists(DOMAIN dir \ {name[h]})
  /\ step[h] = "torn" => manifest.torn
  /\ step[h] \in {"read", "torn"} =>
       read[h] = {Entry(f, dir[f]) : f \in DOMAIN dir \ {name[h]}}

KeptInv ==
  ~disturbed =>
    /\ \A g, h \in Handlers : Writing(g) /\ Writing(h) => g = h
    /\ (\A h \in Handlers : ~Writing(h)) => Lists(DOMAIN dir)
    /\ \A h \in Handlers : Progress(h)

\* What a handler writes does not change while it writes it.
LEMMA ContentStays ==
  ASSUME HandlersInv, NEW h \in Handlers, Serve(h), NEW g \in Handlers, Writing(g), at'[g] = at[g]
  PROVE  ContentOf(g)' = ContentOf(g)
<1>1. at[g] \in Artifacts
  BY DEF HandlersInv
<1>2. at[g] \in PostArtifacts => g \in Posts /\ Posted(g)
  BY DEF HandlersInv, PostStands, PostArtifacts, Posted
<1>3. at[g] \in PostArtifacts => reply'[g] = reply[g]
  BY <1>2, PostsRemember
<1>4. at[g] = "verification-context.json" => clock'[g] = clock[g]
  BY <1>2, PostsRemember DEF Checked, PostArtifacts
<1> QED
  BY <1>1, <1>3, <1>4 DEF ContentOf, Artifacts, FetchArtifacts, PostArtifacts

\* A handler that moves is not writing.
LEMMA MovesAreBetweenWrites ==
  ASSUME HandlersInv, NEW h \in Handlers, Moves(h)
  PROVE  ~Writing(h) /\ \A g \in Handlers \ {h} : at'[g] = at[g]
BY VerdictsGiven DEF Moves, Fetch, Post, RefuseBody, TakeTime, Decrypt, Answer, HandlersInv,
                     Artifacts, FetchArtifacts, PostArtifacts, Verdicts, Handlers, Writing

\* No step undoes a disturbance.
LEMMA DisturbedForGood ==
  ASSUME NEW h, Serve(h), ~disturbed'
  PROVE  ~disturbed /\ ~WriteFails(h)
<1>1. ~WriteFails(h)
  BY DEF WriteFails
<1>2. CASE Moves(h)
  BY <1>1, <1>2, MovesWriteNothing
<1>3. CASE PickName(h)
  BY <1>1, <1>3, Zenon DEF PickName
<1>4. CASE WriteFile(h) \/ ReadManifest(h) \/ TruncateManifest(h) \/ WriteManifest(h)
  BY <1>1, <1>4 DEF WriteFile, ReadManifest, TruncateManifest, WriteManifest
<1> QED
  BY <1>1, <1>2, <1>3, <1>4, Zenon DEF Serve, Moves

LEMMA KeptStart == CaptureInit => KeptInv
<1> SUFFICES ASSUME CaptureInit PROVE KeptInv
  OBVIOUS
<1>1. \A h \in Handlers : ~Writing(h) /\ Progress(h)
  BY DEF CaptureInit, Writing, Progress
<1>2. Lists(DOMAIN dir)
  <2>1. DOMAIN dir = {KeyFile.name} /\ dir[KeyFile.name] = KeyFile.content
    BY DEF CaptureInit
  <2>2. Entry(KeyFile.name, KeyFile.content) = KeyFile
    BY DEF KeyFile, Entry
  <2>3. ~manifest.torn /\ manifest.entries = {KeyFile}
    BY DEF CaptureInit
  <2> QED
    BY <2>1, <2>2, <2>3 DEF Lists
<1> QED
  BY <1>1, <1>2 DEF KeptInv

LEMMA KeptStep ==
  ASSUME HandlersInv, FilesInv, KeptInv, NEW h \in Handlers, Serve(h)
  PROVE  KeptInv'
<1> SUFFICES ASSUME ~disturbed' PROVE
      /\ \A f, g \in Handlers : Writing(f)' /\ Writing(g)' => f = g
      /\ (\A g \in Handlers : ~Writing(g)') => Lists(DOMAIN dir)'
      /\ \A g \in Handlers : Progress(g)'
  BY DEF KeptInv, Handlers
<1>1. ~disturbed /\ ~WriteFails(h)
  BY DisturbedForGood
<1>2. /\ \A f, g \in Handlers : Writing(f) /\ Writing(g) => f = g
      /\ (\A g \in Handlers : ~Writing(g)) => Lists(DOMAIN dir)
      /\ \A g \in Handlers : Progress(g)
  BY <1>1 DEF KeptInv
<1>3. /\ step \in [Handlers -> {"none", "named", "saved", "read", "torn"}]
      /\ DOMAIN name = Handlers /\ DOMAIN read = Handlers
  BY DEF HandlersInv
<1>4. CASE Moves(h)
  <2>1. UNCHANGED <<dir, manifest, read, name, step>>
    BY <1>4, MovesWriteNothing
  <2>2. \A g \in Handlers : (Writing(g)' <=> Writing(g))
    BY <2>1 DEF Writing
  <2>3. ASSUME NEW g \in Handlers PROVE Progress(g)'
    <3>1. CASE ~Writing(g)
      BY <2>1, <3>1 DEF Writing, Progress
    <3>2. CASE Writing(g)
      <4>1. ContentOf(g)' = ContentOf(g)
        BY <1>4, <3>2, MovesAreBetweenWrites, ContentStays
      <4> QED
        BY <1>2, <2>1, <4>1 DEF Progress, Lists
    <3> QED
      BY <3>1, <3>2
  <2> QED
    BY <1>2, <2>1, <2>2, <2>3 DEF Lists
<1>5. ASSUME ~Moves(h) PROVE \A g \in Handlers \ {h} : ~Writing(g) /\ ~Writing(g)'
  <2>1. CASE PickName(h)
    BY <1>1, <1>3, <2>1 DEF PickName, Writing
  <2>2. CASE WriteFile(h) \/ ReadManifest(h) \/ TruncateManifest(h) \/ WriteManifest(h)
    <3>1. Writing(h)
      BY <2>2 DEF WriteFile, ReadManifest, TruncateManifest, WriteManifest, Writing
    <3>2. \A g \in Handlers \ {h} : step'[g] = step[g]
      BY <1>3, <2>2 DEF WriteFile, ReadManifest, TruncateManifest, WriteManifest
    <3> QED
      BY <1>2, <3>1, <3>2 DEF Writing
  <2> QED
    BY <1>1, <1>5, <2>1, <2>2, Zenon DEF Serve, Moves
<1>6. ASSUME ~Moves(h), Progress(h)', ~Writing(h)' => Lists(DOMAIN dir)'
      PROVE  /\ \A f, g \in Handlers : Writing(f)' /\ Writing(g)' => f = g
             /\ (\A g \in Handlers : ~Writing(g)') => Lists(DOMAIN dir)'
             /\ \A g \in Handlers : Progress(g)'
  <2>1. \A g \in Handlers \ {h} : ~Writing(g)'
    BY <1>5, <1>6
  <2>2. \A g \in Handlers \ {h} : Progress(g)'
    BY <2>1 DEF Progress, Writing
  <2> QED
    BY <1>6, <2>1, <2>2
<1>7. CASE PickName(h)
  <2>1. ~Moves(h)
    BY <1>7, MovesWriteNothing, <1>3 DEF PickName
  <2>2. ~Writing(h)
    BY <1>7 DEF PickName, Writing
  <2>3. Lists(DOMAIN dir)
    BY <1>2, <1>5, <2>1, <2>2
  <2>4. step'[h] = "named" /\ name'[h] = UniqueName(at[h]) /\ UNCHANGED <<dir, manifest>>
    BY <1>3, <1>7 DEF PickName
  <2>5. name'[h] \notin DOMAIN dir
    BY <2>4, NameIsFree DEF FilesInv
  <2>6. Progress(h)' /\ Writing(h)'
    BY <2>3, <2>4, <2>5 DEF Progress, Lists, Writing
  <2> QED
    BY <1>6, <2>1, <2>6
<1>8. CASE WriteFile(h)
  <2>1. ~Moves(h)
    BY <1>3, <1>8, MovesWriteNothing DEF WriteFile
  <2>2. name[h] \notin DOMAIN dir /\ Lists(DOMAIN dir)
    BY <1>2, <1>8 DEF WriteFile, Progress
  <2>3. /\ step'[h] = "saved" /\ name' = name /\ manifest' = manifest
        /\ DOMAIN dir' = DOMAIN dir \cup {name[h]}
        /\ \A f \in DOMAIN dir' : dir'[f] = IF f = name[h] THEN ContentOf(h) ELSE dir[f]
    BY <1>3, <1>8 DEF WriteFile, With
  <2>4. ContentOf(h)' = ContentOf(h)
    BY <1>8, ContentStays DEF WriteFile, Writing
  <2>5. DOMAIN dir' \ {name[h]} = DOMAIN dir
    BY <2>2, <2>3
  <2>6. {Entry(f, dir'[f]) : f \in DOMAIN dir} = {Entry(f, dir[f]) : f \in DOMAIN dir}
    BY <2>2, <2>3
  <2>7. Progress(h)' /\ Writing(h)'
    BY <2>2, <2>3, <2>4, <2>5, <2>6 DEF Progress, Lists, Writing
  <2> QED
    BY <1>6, <2>1, <2>7
<1>9. CASE ReadManifest(h)
  <2>1. ~Moves(h)
    BY <1>3, <1>9, MovesWriteNothing DEF ReadManifest
  <2>2. dir[name[h]] = ContentOf(h) /\ Lists(DOMAIN dir \ {name[h]})
    BY <1>2, <1>9 DEF ReadManifest, Progress
  <2>3. /\ step'[h] = "read" /\ name' = name /\ dir' = dir /\ manifest' = manifest
        /\ read'[h] = manifest.entries
    BY <1>3, <1>9, <2>2 DEF ReadManifest, Lists
  <2>4. ContentOf(h)' = ContentOf(h)
    BY <1>9, ContentStays DEF ReadManifest, Writing
  <2>5. Progress(h)' /\ Writing(h)'
    BY <2>2, <2>3, <2>4 DEF Progress, Lists, Writing
  <2> QED
    BY <1>6, <2>1, <2>5
<1>10. CASE TruncateManifest(h)
  <2>1. ~Moves(h)
    BY <1>3, <1>10, MovesWriteNothing DEF TruncateManifest
  <2>2. /\ dir[name[h]] = ContentOf(h)
        /\ read[h] = {Entry(f, dir[f]) : f \in DOMAIN dir \ {name[h]}}
    BY <1>2, <1>10 DEF TruncateManifest, Progress
  <2>3. step'[h] = "torn" /\ name' = name /\ dir' = dir /\ read' = read /\ manifest'.torn
    BY <1>3, <1>10 DEF TruncateManifest
  <2>4. ContentOf(h)' = ContentOf(h)
    BY <1>10, ContentStays DEF TruncateManifest, Writing
  <2>5. Progress(h)' /\ Writing(h)'
    BY <2>2, <2>3, <2>4 DEF Progress, Writing
  <2> QED
    BY <1>6, <2>1, <2>5
<1>11. CASE WriteManifest(h)
  <2>1. ~Moves(h)
    BY <1>3, <1>11, MovesWriteNothing DEF WriteManifest
  <2>2. /\ dir[name[h]] = ContentOf(h) /\ name[h] \in DOMAIN dir
        /\ read[h] = {Entry(f, dir[f]) : f \in DOMAIN dir \ {name[h]}}
    BY <1>2, <1>11 DEF WriteManifest, Progress, FilesInv
  <2>3. step'[h] = "none" /\ dir' = dir /\ ~manifest'.torn /\ manifest'.entries = Listed(h)
    BY <1>3, <1>11 DEF WriteManifest
  <2>4. {e \in read[h] : e.name # name[h]} = read[h]
    BY <2>2 DEF Entry
  <2>5. Listed(h) = {Entry(f, dir[f]) : f \in DOMAIN dir}
    BY <2>2, <2>4 DEF Listed
  <2>6. Lists(DOMAIN dir)' /\ Progress(h)'
    BY <2>3, <2>5 DEF Lists, Progress
  <2> QED
    BY <1>6, <2>1, <2>6
<1> QED
  BY <1>1, <1>4, <1>7, <1>8, <1>9, <1>10, <1>11, Zenon DEF Serve, Moves

\* The bodies there are, and the posts that have written theirs.
Bodies == {f \in DOMAIN dir : f[1] = "direct-post.body"}
Wrote ==
  {g \in Posts : \/ at[g] \notin {"idle", "direct-post.body"}
                 \/ at[g] = "direct-post.body" /\ step[g] \in {"saved", "read", "torn"}}

CountInv ==
  ~disturbed => /\ IsFiniteSet(Bodies) /\ IsFiniteSet(Wrote)
                /\ Cardinality(Bodies) = Cardinality(Wrote)

LEMMA CountStart == CaptureInit => CountInv
<1> SUFFICES ASSUME CaptureInit PROVE CountInv
  OBVIOUS
<1>1. Bodies = {}
  BY DEF CaptureInit, Bodies, KeyFile, Entry, Original
<1>2. Wrote = {}
  BY DEF CaptureInit, Wrote, Handlers
<1> QED
  BY <1>1, <1>2, FS_EmptySet DEF CountInv

LEMMA CountStep ==
  ASSUME HandlersInv, FilesInv, KeptInv, CountInv, NEW h \in Handlers, Serve(h)
  PROVE  CountInv'
<1> SUFFICES ASSUME ~disturbed'
             PROVE  IsFiniteSet(Bodies') /\ IsFiniteSet(Wrote') /\ Cardinality(Bodies') = Cardinality(Wrote')
  BY DEF CountInv
<1>1. ~disturbed /\ ~WriteFails(h)
  BY DisturbedForGood
<1>2. IsFiniteSet(Bodies) /\ IsFiniteSet(Wrote) /\ Cardinality(Bodies) = Cardinality(Wrote)
  BY <1>1 DEF CountInv
<1>3. CASE WriteFile(h) /\ at[h] = "direct-post.body"
  <2>1. h \in Posts /\ h \notin Wrote
    BY <1>3 DEF HandlersInv, PostStands, PostArtifacts, Wrote, WriteFile
  <2>2. name[h] \notin DOMAIN dir /\ name[h][1] = "direct-post.body"
    BY <1>1, <1>3 DEF KeptInv, Progress, HandlersInv, WriteFile, Writing
  <2>3. Bodies' = Bodies \cup {name[h]} /\ name[h] \notin Bodies
    BY <1>3, <2>2 DEF Bodies, WriteFile, With
  <2>4. \A g \in Handlers : at'[g] = at[g] /\ step'[g] = IF g = h THEN "saved" ELSE step[g]
    BY <1>3 DEF WriteFile, HandlersInv
  <2>5. Wrote' = Wrote \cup {h}
    BY <1>3, <2>1, <2>4 DEF Wrote, Handlers
  <2>6. /\ IsFiniteSet(Bodies \cup {name[h]}) /\ IsFiniteSet(Wrote \cup {h})
        /\ Cardinality(Bodies \cup {name[h]}) = Cardinality(Bodies) + 1
        /\ Cardinality(Wrote \cup {h}) = Cardinality(Wrote) + 1
    BY <1>2, <2>1, <2>3, FS_AddElement
  <2> QED
    BY <1>2, <2>3, <2>5, <2>6
<1>4. CASE ~(WriteFile(h) /\ at[h] = "direct-post.body")
  <2>1. Bodies' = Bodies
    <3>1. CASE WriteFile(h)
      <4>1. name[h][1] # "direct-post.body"
        BY <1>4, <3>1 DEF WriteFile, HandlersInv, Writing
      <4> QED
        BY <3>1, <4>1 DEF Bodies, WriteFile, With
    <3>2. CASE ~WriteFile(h)
      BY <1>1, <3>2, FilesStay DEF Bodies, PartOf
    <3> QED
      BY <3>1, <3>2
  <2>2. Wrote' = Wrote
    <3> USE DEF HandlersInv, Handlers, Writing
    <3> SUFFICES ASSUME NEW g \in Posts
                 PROVE  (\/ at'[g] \notin {"idle", "direct-post.body"}
                         \/ at'[g] = "direct-post.body" /\ step'[g] \in {"saved", "read", "torn"})
                        <=> (\/ at[g] \notin {"idle", "direct-post.body"}
                             \/ at[g] = "direct-post.body" /\ step[g] \in {"saved", "read", "torn"})
      BY DEF Wrote
    <3>1. CASE Fetch(h)
      BY <3>1, CaptureAssumptions DEF Fetch
    <3>2. CASE Post(h)
      BY <3>2 DEF Post, Artifacts, FetchArtifacts, PostArtifacts
    <3>3. CASE RefuseBody(h) \/ TakeTime(h) \/ Decrypt(h) \/ Verify(h) \/ Answer(h)
      BY <3>3, VerdictsGiven DEF RefuseBody, TakeTime, Decrypt, Answer, Verdicts
    <3>4. CASE PickName(h)
      BY <3>4 DEF PickName
    <3>5. CASE WriteFile(h)
      BY <1>4, <3>5 DEF WriteFile
    <3>6. CASE ReadManifest(h) \/ TruncateManifest(h)
      BY <3>6 DEF ReadManifest, TruncateManifest
    <3>7. CASE WriteManifest(h)
      BY <3>7 DEF WriteManifest, After, Artifacts, FetchArtifacts, PostArtifacts
    <3> QED
      BY <1>1, <3>1, <3>2, <3>3, <3>4, <3>5, <3>6, <3>7, Zenon DEF Serve
  <2> QED
    BY <1>2, <2>1, <2>2
<1> QED
  BY <1>3, <1>4

-------------------------------------------------------------------------------
(* The inductive invariant of the session *)

CaptureInv == HandlersInv /\ FilesInv /\ KeptInv /\ CountInv

LEMMA CaptureIsKept == Spec => []CaptureInv
<1>1. Init => CaptureInv
  BY HandlersStart, FilesStart, KeptStart, CountStart, Zenon DEF Init, CaptureInv
<1>2. ASSUME CaptureInv, [Next]_vars PROVE CaptureInv'
  <2>1. CASE CaptureNext
    <3>1. PICK h \in Handlers : Serve(h)
      BY <2>1 DEF CaptureNext
    <3>2. IsFiniteSet(DOMAIN dir)
      BY <1>2 DEF CaptureInv, FilesInv
    <3> QED
      BY <1>2, <3>1, <3>2, HandlersStep, FilesStep, KeptStep, CountStep, Zenon DEF CaptureInv
  <2>2. CASE UNCHANGED captureVars
    <3>1. HandlersInv'
      BY <1>2, <2>2 DEF CaptureInv, captureVars, HandlersInv, Writing
    <3>2. FilesInv'
      BY <1>2, <2>2 DEF CaptureInv, captureVars, FilesInv, Listing, Posted, Timed
    <3>3. \A h \in Handlers : (Progress(h)' <=> Progress(h)) /\ (Writing(h)' <=> Writing(h))
      BY <2>2 DEF captureVars, Progress, Lists, Writing, ContentOf
    <3>4. Lists(DOMAIN dir)' <=> Lists(DOMAIN dir)
      BY <2>2 DEF captureVars, Lists
    <3>5. KeptInv'
      BY <1>2, <2>2, <3>3, <3>4 DEF CaptureInv, captureVars, KeptInv
    <3>6. CountInv'
      BY <1>2, <2>2 DEF CaptureInv, captureVars, CountInv, Bodies, Wrote
    <3> QED
      BY <3>1, <3>2, <3>5, <3>6 DEF CaptureInv
  <2> QED
    BY <1>2, <2>1, <2>2, Zenon DEF Next, Debug, FetchList, Tick, vars
<1> QED
  BY <1>1, <1>2, PTL DEF Spec

\* Everything the desk holds has its type.
THEOREM WorkbenchTyped == Spec => []TypeOK
<1>1. HandlersInv /\ FilesInv /\ DeskInv => TypeOK
  BY DEF HandlersInv, FilesInv, DeskInv, TypeOK, CaptureTypeOK, Stands, Listing
<1> QED
  BY <1>1, CaptureIsKept, DeskIsKept, PTL DEF CaptureInv

\* artifacts.rs 44-160: handlers that take turns and whose writes do not fail
\* lose nothing: every file is listed under its hash, and every post has its body.
THEOREM CapturesAreKept == Spec => []CapturesKept
<1>1. ASSUME CaptureInv PROVE CapturesKept
  <2> SUFFICES ASSUME ~disturbed, \A h \in Handlers : ~Writing(h)
               PROVE  /\ ~manifest.torn
                      /\ manifest.entries = {Entry(f, dir[f]) : f \in DOMAIN dir}
                      /\ Cardinality({f \in DOMAIN dir : f[1] = "direct-post.body"})
                           = Cardinality({h \in Posts : at[h] \notin {"idle", "direct-post.body"}})
    BY DEF CapturesKept
  <2>1. Lists(DOMAIN dir)
    BY <1>1 DEF CaptureInv, KeptInv
  <2>2. Wrote = {h \in Posts : at[h] \notin {"idle", "direct-post.body"}}
    BY DEF Wrote, Writing, Handlers
  <2>3. Cardinality(Bodies) = Cardinality(Wrote)
    BY <1>1 DEF CaptureInv, CountInv
  <2> QED
    BY <2>1, <2>2, <2>3 DEF Lists, Bodies
<1> QED
  BY <1>1, CaptureIsKept, PTL

-------------------------------------------------------------------------------
(* The trace of a replay *)

LEMMA JoinedEvents ==
  ASSUME NEW S, NEW s \in Seq(S), NEW t \in Seq(S)
  PROVE  s \o t \in Seq(S) /\ ToSet(s \o t) = ToSet(s) \cup ToSet(t)
<1>1. s \o t \in Seq(S) /\ DOMAIN (s \o t) = 1..(Len(s) + Len(t))
  OBVIOUS
<1>2. \A i \in 1..Len(s) : (s \o t)[i] = s[i]
  OBVIOUS
<1>3. \A i \in 1..Len(t) : (s \o t)[Len(s) + i] = t[i] /\ Len(s) + i \in 1..(Len(s) + Len(t))
  OBVIOUS
<1>4. \A i \in 1..(Len(s) + Len(t)) : i \in 1..Len(s) \/ i - Len(s) \in 1..Len(t)
  OBVIOUS
<1>5. DOMAIN s = 1..Len(s) /\ DOMAIN t = 1..Len(t) /\ Len(s) \in Nat /\ Len(t) \in Nat
  OBVIOUS
<1>6. ASSUME NEW x \in ToSet(s \o t) PROVE x \in ToSet(s) \cup ToSet(t)
  <2>1. PICK i \in 1..(Len(s) + Len(t)) : x = (s \o t)[i]
    BY <1>1, <1>6 DEF ToSet
  <2>2. CASE i \in 1..Len(s)
    BY <1>2, <1>5, <2>1, <2>2 DEF ToSet
  <2>3. CASE i - Len(s) \in 1..Len(t)
    <3>1. (s \o t)[Len(s) + (i - Len(s))] = t[i - Len(s)]
      BY <1>3, <2>3
    <3>2. Len(s) + (i - Len(s)) = i
      BY <1>5
    <3> QED
      BY <1>5, <2>1, <2>3, <3>1, <3>2 DEF ToSet
  <2> QED
    BY <1>4, <2>2, <2>3
<1>7. ASSUME NEW x \in ToSet(s) PROVE x \in ToSet(s \o t)
  <2>1. PICK i \in 1..Len(s) : x = s[i]
    BY <1>5, <1>7 DEF ToSet
  <2>2. i \in 1..(Len(s) + Len(t))
    BY <1>5
  <2> QED
    BY <1>1, <1>2, <2>1, <2>2 DEF ToSet
<1>8. ASSUME NEW x \in ToSet(t) PROVE x \in ToSet(s \o t)
  <2>1. PICK i \in 1..Len(t) : x = t[i]
    BY <1>5, <1>8 DEF ToSet
  <2> QED
    BY <1>1, <1>3, <2>1 DEF ToSet
<1> QED
  BY <1>1, <1>6, <1>7, <1>8

LEMMA OneEvent ==
  ASSUME NEW S, NEW e \in S
  PROVE  <<e>> \in Seq(S) /\ ToSet(<<e>>) = {e}
BY DEF ToSet

LEMMA EventsIf ==
  ASSUME NEW S, NEW c, NEW s \in Seq(S)
  PROVE  Only(c, s) \in Seq(S) /\ ToSet(Only(c, s)) = IF c THEN ToSet(s) ELSE {}
<1>1. <<>> \in Seq(S) /\ ToSet(<<>>) = {}
  BY DEF ToSet
<1> QED
  BY <1>1 DEF Only

LEMMA SameEvents ==
  ASSUME NEW S, NEW e \in S, NEW n \in Nat
  PROVE  [i \in 1..n |-> e] \in Seq(S) /\ ToSet([i \in 1..n |-> e]) \subseteq {e}
BY DEF ToSet

\* A replay counts as a live wallet's exactly if the request was captured as
\* built and as fetched, an encrypted response was received and decrypted, and
\* it verified: the analysis is in the trace whenever the check asks for it.
LEMMA LiveTrace ==
  ASSUME NEW entries, IsFiniteSet(entries)
  PROVE  LiveWalletTrace(Replay(entries)) <=>
           /\ Has(entries, "request.payload.json") /\ Has(entries, "request.jwt")
           /\ Has(entries, "direct-post.body")
           /\ Content(entries, "direct-post.body").form = "jwe"
           /\ DecryptedResponse(entries).is = "some"
           /\ OfflineVerify(entries, DecryptedResponse(entries).vps).verified
<1> DEFINE requested == Requested(entries)
           built == Has(entries, "request.payload.json")
           fetched == Has(entries, "request.jwt")
           posted == Has(entries, "direct-post.body")
           encrypted == Content(entries, "direct-post.body").form = "jwe"
           some == DecryptedResponse(entries).is = "some"
           result == OfflineVerify(entries, DecryptedResponse(entries).vps)
           over == OverDisclosed(SetToSeq(requested), result.disclosed)
           mood == IF over = {} THEN "good" ELSE "warn"
           S == [code : RequiredEvents \cup {"ARTIFACT_SAVED", "REJECTED", "OVER_ASK_ANALYZED"},
                 level : {"info", "good", "warn", "bad"},
                 keys : {{}, requested, result.disclosed, over}]
           created == <<Event("SESSION_CREATED", "info", {})>>
           build == <<Event("REQUEST_BUILT", "info", requested)>>
           fetch == <<Event("REQUEST_OBJECT_FETCHED", "info", {})>>
           saved == [i \in 1..Cardinality(entries) |-> Event("ARTIFACT_SAVED", "info", {})]
           rejected == <<Event("REJECTED", "bad", {})>>
           received == <<Event("RESPONSE_RECEIVED", "info", {})>>
           decrypted == <<Event("RESPONSE_DECRYPTED", "info", {})>>
           verified == <<Event("VERIFIED", "good", result.disclosed)>>
           analyzed == <<Event("OVER_ASK_ANALYZED", mood, over)>>
           analysis == DisclosureAnalysis(entries, result.disclosed)
           outcome == Outcome(entries, result)
<1>1. /\ created \in Seq(S) /\ ToSet(created) = {Event("SESSION_CREATED", "info", {})}
      /\ build \in Seq(S) /\ ToSet(build) = {Event("REQUEST_BUILT", "info", requested)}
      /\ fetch \in Seq(S) /\ ToSet(fetch) = {Event("REQUEST_OBJECT_FETCHED", "info", {})}
      /\ rejected \in Seq(S) /\ ToSet(rejected) = {Event("REJECTED", "bad", {})}
      /\ received \in Seq(S) /\ ToSet(received) = {Event("RESPONSE_RECEIVED", "info", {})}
      /\ decrypted \in Seq(S) /\ ToSet(decrypted) = {Event("RESPONSE_DECRYPTED", "info", {})}
      /\ verified \in Seq(S) /\ ToSet(verified) = {Event("VERIFIED", "good", result.disclosed)}
      /\ analyzed \in Seq(S) /\ ToSet(analyzed) = {Event("OVER_ASK_ANALYZED", mood, over)}
  <2> HIDE DEF requested, result, over
  <2>1. /\ Event("SESSION_CREATED", "info", {}) \in S
        /\ Event("REQUEST_BUILT", "info", requested) \in S
        /\ Event("REQUEST_OBJECT_FETCHED", "info", {}) \in S
        /\ Event("REJECTED", "bad", {}) \in S
        /\ Event("RESPONSE_RECEIVED", "info", {}) \in S
        /\ Event("RESPONSE_DECRYPTED", "info", {}) \in S
        /\ Event("VERIFIED", "good", result.disclosed) \in S
        /\ Event("OVER_ASK_ANALYZED", mood, over) \in S
    BY DEF Event, RequiredEvents
  <2> HIDE DEF S, mood
  <2> QED
    BY <2>1, OneEvent, Zenon
<1>2. saved \in Seq(S) /\ ToSet(saved) \subseteq {Event("ARTIFACT_SAVED", "info", {})}
  <2>1. Event("ARTIFACT_SAVED", "info", {}) \in S
    BY DEF Event, RequiredEvents
  <2>2. Cardinality(entries) \in Nat
    BY FS_CardinalityType
  <2> HIDE DEF S
  <2> QED
    BY <2>1, <2>2, SameEvents
<1> DEFINE E1 == {Event("OVER_ASK_ANALYZED", mood, over)}
           E2 == IF requested # {} THEN E1 ELSE {}
           E3 == IF result.verified THEN {Event("VERIFIED", "good", result.disclosed)} \cup E2
                 ELSE {Event("REJECTED", "bad", {})}
           E4 == IF some THEN {Event("RESPONSE_DECRYPTED", "info", {})} \cup E3 ELSE {}
           E5 == IF ~encrypted THEN {Event("REJECTED", "bad", {})} ELSE {}
           E6 == IF posted THEN {Event("RESPONSE_RECEIVED", "info", {})} \cup E5 ELSE {}
           E7 == IF fetched THEN {Event("REQUEST_OBJECT_FETCHED", "info", {})} ELSE {}
           E8 == IF built THEN {Event("REQUEST_BUILT", "info", requested)} ELSE {}
<1>3. analysis = Only(requested # {}, analyzed)
  BY Zenon DEF DisclosureAnalysis
<1>4. outcome = IF result.verified THEN verified \o analysis ELSE rejected
  BY Zenon DEF Outcome
<1>5. Replay(entries) = created \o Only(built, build) \o Only(fetched, fetch) \o saved
                        \o Only(posted, received \o Only(~encrypted, rejected))
                        \o Only(some, decrypted \o outcome)
  BY Zenon DEF Replay
<1> HIDE DEF S, created, build, fetch, saved, rejected, received, decrypted, verified, analyzed,
             analysis, outcome
<1>6. analysis \in Seq(S) /\ ToSet(analysis) = E2
  BY <1>1, <1>3, EventsIf, Zenon
<1> HIDE DEF E2
<1>7. outcome \in Seq(S) /\ ToSet(outcome) = E3
  <2>1. /\ verified \o analysis \in Seq(S)
        /\ ToSet(verified \o analysis) = {Event("VERIFIED", "good", result.disclosed)} \cup E2
    BY <1>1, <1>6, JoinedEvents
  <2> QED
    BY <1>1, <1>4, <2>1
<1> HIDE DEF E3
<1> DEFINE answer == Only(some, decrypted \o outcome)
           refusal == Only(~encrypted, rejected)
           response == Only(posted, received \o refusal)
<1>8. answer \in Seq(S) /\ ToSet(answer) = E4
  <2>1. /\ decrypted \o outcome \in Seq(S)
        /\ ToSet(decrypted \o outcome) = {Event("RESPONSE_DECRYPTED", "info", {})} \cup E3
    BY <1>1, <1>7, JoinedEvents
  <2> QED
    BY <2>1, EventsIf
<1>9. refusal \in Seq(S) /\ ToSet(refusal) = E5
  BY <1>1, EventsIf
<1> HIDE DEF refusal, E5
<1>10. response \in Seq(S) /\ ToSet(response) = E6
  <2>1. /\ received \o refusal \in Seq(S)
        /\ ToSet(received \o refusal) = {Event("RESPONSE_RECEIVED", "info", {})} \cup E5
    <3>1. received \in Seq(S) /\ ToSet(received) = {Event("RESPONSE_RECEIVED", "info", {})}
      BY <1>1, Zenon
    <3> QED
      BY <1>9, <3>1, JoinedEvents
  <2> QED
    BY <2>1, EventsIf
<1>11. /\ Only(fetched, fetch) \in Seq(S) /\ ToSet(Only(fetched, fetch)) = E7
       /\ Only(built, build) \in Seq(S) /\ ToSet(Only(built, build)) = E8
  BY <1>1, EventsIf
<1>12. Replay(entries) = created \o Only(built, build) \o Only(fetched, fetch) \o saved
                         \o response \o answer
  BY <1>5 DEF refusal
<1> HIDE DEF E4, E6, E7, E8, response, answer
<1>13. /\ created \o Only(built, build) \in Seq(S)
       /\ ToSet(created \o Only(built, build)) = {Event("SESSION_CREATED", "info", {})} \cup E8
  BY <1>1, <1>11, JoinedEvents
<1> DEFINE s1 == created \o Only(built, build)
           s2 == s1 \o Only(fetched, fetch)
           s3 == s2 \o saved
           s4 == s3 \o response
<1>14. s2 \in Seq(S) /\ ToSet(s2) = {Event("SESSION_CREATED", "info", {})} \cup E8 \cup E7
  <2> HIDE DEF s1
  <2>1. s1 \in Seq(S) /\ ToSet(s1) = {Event("SESSION_CREATED", "info", {})} \cup E8
    BY <1>13 DEF s1
  <2> QED
    BY <1>11, <2>1, JoinedEvents
<1>15. s3 \in Seq(S) /\ ToSet(s3) = ToSet(s2) \cup ToSet(saved)
  <2> HIDE DEF s2
  <2> QED
    BY <1>2, <1>14, JoinedEvents
<1>16. s4 \in Seq(S) /\ ToSet(s4) = ToSet(s3) \cup E6
  <2> HIDE DEF s3
  <2> QED
    BY <1>10, <1>15, JoinedEvents
<1>17. ToSet(Replay(entries)) = ToSet(s4) \cup E4
  <2>1. Replay(entries) = s4 \o answer
    BY <1>12
  <2> HIDE DEF s4
  <2> QED
    BY <1>8, <1>16, <2>1, JoinedEvents
<1> DEFINE all == ToSet(Replay(entries))
           codes == {e.code : e \in all}
<1>18. all = {Event("SESSION_CREATED", "info", {})} \cup E8 \cup E7 \cup ToSet(saved) \cup E6 \cup E4
  <2> HIDE DEF s2, s3, s4
  <2> QED
    BY <1>14, <1>15, <1>16, <1>17
<1> HIDE DEF s1, s2, s3, s4, all
<1> USE DEF E1, E2, E3, E4, E5, E6, E7, E8
<1>19. \A c, l, k : Event(c, l, k).code = c /\ Event(c, l, k).keys = k
  BY DEF Event
<1> DEFINE live == built /\ fetched /\ posted /\ encrypted /\ some /\ result.verified
<1>20. ASSUME live PROVE LiveWalletTrace(Replay(entries))
  <2> HIDE DEF built, fetched, posted, encrypted, some, result, requested, over, mood
  <2>1. /\ Event("SESSION_CREATED", "info", {}) \in all /\ Event("REQUEST_BUILT", "info", requested) \in all
        /\ Event("REQUEST_OBJECT_FETCHED", "info", {}) \in all /\ Event("RESPONSE_RECEIVED", "info", {}) \in all
        /\ Event("RESPONSE_DECRYPTED", "info", {}) \in all /\ Event("VERIFIED", "good", result.disclosed) \in all
        /\ requested # {} => Event("OVER_ASK_ANALYZED", mood, over) \in all
    BY <1>18, <1>20
  <2>2. RequiredEvents \subseteq codes /\ (requested # {} => "OVER_ASK_ANALYZED" \in codes)
    BY <1>19, <2>1 DEF RequiredEvents
  <2>3. \A e \in all : e.code \notin {"REJECTED", "ERROR"}
    BY <1>2, <1>18, <1>19, <1>20
  <2>4. \A e \in all : e.code = "REQUEST_BUILT" => e.keys = requested
    BY <1>2, <1>18, <1>19, <1>20
  <2> QED
    BY <2>2, <2>3, <2>4 DEF LiveWalletTrace, all
<1>21. ASSUME LiveWalletTrace(Replay(entries)) PROVE live
  <2>1. /\ \A e \in all : e.code # "REJECTED"
        /\ \A c \in RequiredEvents : \E e \in all : e.code = c
    BY <1>21 DEF LiveWalletTrace, all
  <2> HIDE DEF built, fetched, posted, encrypted, some, result, requested, over, mood
  <2>2. /\ \E e \in all : e.code = "REQUEST_BUILT"
        /\ \E e \in all : e.code = "REQUEST_OBJECT_FETCHED"
        /\ \E e \in all : e.code = "RESPONSE_RECEIVED"
        /\ \E e \in all : e.code = "RESPONSE_DECRYPTED"
        /\ \E e \in all : e.code = "VERIFIED"
    BY <2>1 DEF RequiredEvents
  <2>3. posted => encrypted
    BY <1>18, <1>19, <2>1
  <2> QED
    BY <1>2, <1>18, <1>19, <2>1, <2>2, <2>3
<1> QED
  BY <1>20, <1>21

-------------------------------------------------------------------------------
(* Why a post stands where it stands *)

HasJwe(g) == reply[g].form = "jwe"
ForKey(g) == reply[g].key = SessionKey
Crowded(g) == \E f \in Posts \ {g} : at[f] # "idle"

\* The verification without the network, which a replay repeats.
OfflineOk(g) ==
  /\ reply[g].vps # <<>>
  /\ \A i \in DOMAIN reply[g].vps :
       VerifyFull(reply[g].vps[i], SessionBinding, Pid, MaxAge, clock[g],
                  [anchors |-> Anchors, status |-> NoToken]) = "ok"

\* handlers.rs 433-659: what serve accepts verifies without the network and what it
\* rejects does not; it withholds an acceptance only under --live-status.
LEMMA VerdictMeans ==
  ASSUME NEW h, NEW lists, reply[h].vps \in Seq(ToSet(reply[h].vps))
  PROVE  /\ ServeVerdict(h, lists) = "accept" => OfflineOk(h)
         /\ ServeVerdict(h, lists) = "withhold" => LiveStatus
         /\ ServeVerdict(h, lists) = "reject" => ~OfflineOk(h)
<1> DEFINE vps == reply[h].vps
           verdict(i) == VerdictOf(vps[i], clock[h], lists[i])
           failed == {i \in DOMAIN vps : verdict(i) # "accept"}
           least == Min(failed)
           ok(i) == VerifyFull(vps[i], SessionBinding, Pid, MaxAge, clock[h],
                               [anchors |-> Anchors, status |-> NoToken]) = "ok"
<1>1. ServeVerdict(h, lists) = IF vps = <<>> THEN "reject"
                               ELSE IF failed = {} THEN "accept" ELSE verdict(least)
  BY Zenon DEF ServeVerdict
<1>2. \A i : /\ verdict(i) = "accept" => ok(i)
             /\ verdict(i) = "withhold" => LiveStatus
             /\ verdict(i) = "reject" => ~ok(i)
  BY DEF VerdictOf
<1>3. failed # {} => least \in failed
  <2> SUFFICES ASSUME failed # {} PROVE least \in failed
    OBVIOUS
  <2>1. DOMAIN vps = 1..Len(vps) /\ Len(vps) \in Nat
    <3> DEFINE S == ToSet(vps)
    <3>1. vps \in Seq(S)
      OBVIOUS
    <3> HIDE DEF vps, S
    <3> QED
      BY <3>1
  <2> HIDE DEF vps, verdict
  <2>2. failed \in SUBSET (1..Len(vps))
    BY <2>1
  <2>3. PICK n \in failed : \A m \in 1..(n - 1) : m \notin failed
    <3> HIDE DEF failed
    <3> QED
      BY <2>1, <2>2, LeastNumber
  <2>4. \A m \in failed : n <= m
    <3> HIDE DEF failed
    <3> QED
      BY <2>1, <2>2, <2>3
  <2> QED
    BY <2>3, <2>4 DEF Min
<1>4. OfflineOk(h) <=> vps # <<>> /\ \A i \in DOMAIN vps : ok(i)
  BY DEF OfflineOk
<1>5. \A i \in DOMAIN vps : i \notin failed => verdict(i) = "accept"
  OBVIOUS
<1>6. \A i \in failed : i \in DOMAIN vps /\ verdict(i) # "accept"
  OBVIOUS
<1> HIDE DEF vps, verdict, failed, least, ok
<1> QED
  BY <1>1, <1>2, <1>3, <1>4, <1>5, <1>6

\* A post that goes on passed what is behind it, and one that was refused in an
\* undisturbed session failed it, or another post may have ended the key.
VerdictInv ==
  /\ \A g \in Posts :
       /\ at[g] \in {"verification-context.json", "decrypt", "auth-response.json", "verify",
                     "accept", "verified"} => HasJwe(g)
       /\ at[g] \in {"auth-response.json", "verify", "accept", "verified"} => ForKey(g)
       /\ at[g] \in {"accept", "verified"} => OfflineOk(g)
       /\ at[g] \in {"withhold", "withheld"} => LiveStatus
       /\ ~disturbed => /\ at[g] # "failed"
                        /\ at[g] \in {"reject", "rejected"} =>
                             ~HasJwe(g) \/ ~ForKey(g) \/ ~OfflineOk(g) \/ Crowded(g)
  /\ ~keyHeld => \E g \in Posts : at[g] \in {"rejected", "verified", "withheld"}

LEMMA VerdictStart == CaptureInit => VerdictInv
BY DEF CaptureInit, VerdictInv, Handlers

\* What a post is judged by is its body, its time and the anchors.
LEMMA VerdictStays ==
  ASSUME HandlersInv, NEW h \in Handlers, Serve(h), NEW g \in Posts, Checked(g)
  PROVE  (OfflineOk(g)' <=> OfflineOk(g)) /\ (HasJwe(g)' <=> HasJwe(g)) /\ (ForKey(g)' <=> ForKey(g))
<1>1. reply'[g] = reply[g] /\ clock'[g] = clock[g]
  BY PostsRemember DEF Checked, Posted
<1> QED
  BY <1>1 DEF OfflineOk, HasJwe, ForKey

LEMMA VerdictStep ==
  ASSUME HandlersInv, VerdictInv, NEW h \in Handlers, Serve(h)
  PROVE  VerdictInv'
<1> DEFINE Earned(g) ==
      /\ at'[g] \in {"verification-context.json", "decrypt", "auth-response.json", "verify",
                     "accept", "verified"} => HasJwe(g)'
      /\ at'[g] \in {"auth-response.json", "verify", "accept", "verified"} => ForKey(g)'
      /\ at'[g] \in {"accept", "verified"} => OfflineOk(g)'
      /\ at'[g] \in {"withhold", "withheld"} => LiveStatus
      /\ ~disturbed' => /\ at'[g] # "failed"
                        /\ at'[g] \in {"reject", "rejected"} =>
                             ~HasJwe(g)' \/ ~ForKey(g)' \/ ~OfflineOk(g)' \/ Crowded(g)'
<1>1. \A g \in Posts : Crowded(g) => Crowded(g)'
  BY PostsRemember DEF Crowded, Posted
<1>2. \A g \in Posts : Posted(g) => reply'[g] = reply[g]
  BY PostsRemember
<1>3. \A g \in Posts : Checked(g) =>
        (OfflineOk(g)' <=> OfflineOk(g)) /\ (HasJwe(g)' <=> HasJwe(g)) /\ (ForKey(g)' <=> ForKey(g))
  BY VerdictStays
<1>4. \A g \in Posts : Posted(g) => (HasJwe(g)' <=> HasJwe(g))
  BY <1>2 DEF HasJwe
<1>5. at \in [Handlers -> Stands] /\ Posts \subseteq Handlers
  BY DEF HandlersInv, Handlers
<1>6. ~disturbed' => ~disturbed
  BY DisturbedForGood
<1>7. ASSUME NEW g \in Posts, at'[g] = at[g] PROVE Earned(g)
  <2>1. CASE Checked(g)
    BY <1>1, <1>3, <1>6, <1>7, <2>1 DEF VerdictInv
  <2>2. CASE ~Checked(g)
    BY <1>6, <1>7, <2>2 DEF VerdictInv, Checked
  <2> QED
    BY <2>1, <2>2
<1>8. \A g \in Handlers \ {h} : at'[g] = at[g]
  <2>1. CASE Moves(h)
    BY <2>1, MovesAreBetweenWrites
  <2>2. CASE ~Moves(h)
    BY <1>5, <2>2 DEF Serve, Moves, WriteFails, PickName, WriteFile, ReadManifest, TruncateManifest,
                      WriteManifest
  <2> QED
    BY <2>1, <2>2
<1>9. ASSUME h \in Posts PROVE Earned(h)
  <2> USE <1>9 DEF VerdictInv
  <2>1. CASE Fetch(h)
    BY <2>1, CaptureAssumptions DEF Fetch
  <2>2. CASE Post(h)
    BY <1>5, <2>2 DEF Post
  <2>3. CASE RefuseBody(h)
    BY <1>4, <1>5, <2>3 DEF RefuseBody, HasJwe, Posted
  <2>4. CASE TakeTime(h)
    BY <1>4, <1>5, <2>4 DEF TakeTime, HasJwe, Posted
  <2>5. CASE Decrypt(h)
    <3>1. Checked(h)
      BY <2>5 DEF Decrypt, Checked
    <3>2. at'[h] = IF Decrypts(h) THEN "auth-response.json" ELSE "reject"
      BY <1>5, <2>5 DEF Decrypt
    <3>3. ASSUME ~keyHeld PROVE Crowded(h)
      BY <2>5, <3>3 DEF Decrypt, Crowded
    <3> QED
      BY <1>1, <1>3, <2>5, <3>1, <3>2, <3>3 DEF Decrypt, Decrypts, ForKey
  <2>6. CASE Verify(h)
    <3>1. Checked(h) /\ at[h] = "verify"
      BY <2>6 DEF Verify, Checked
    <3>2. reply[h].vps \in Seq(ToSet(reply[h].vps))
      BY <3>1, RepliesAssumption DEF HandlersInv
    <3>3. PICK lists \in [DOMAIN reply[h].vps -> StatusLists] : at' = [at EXCEPT ![h] = ServeVerdict(h, lists)]
      BY <2>6 DEF Verify
    <3>4. ServeVerdict(h, lists) \in Verdicts /\ at'[h] = ServeVerdict(h, lists)
      BY <1>5, <2>6, <3>3, VerdictsGiven
    <3>5. /\ at'[h] = "accept" => OfflineOk(h)
          /\ at'[h] = "withhold" => LiveStatus
          /\ at'[h] = "reject" => ~OfflineOk(h)
      BY <3>2, <3>4, VerdictMeans
    <3>6. at'[h] \in {"accept", "reject", "withhold"}
      BY <3>4 DEF Verdicts
    <3> QED
      BY <1>3, <3>1, <3>5, <3>6
  <2>7. CASE Answer(h)
    <3>1. Checked(h)
      BY <2>7 DEF Answer, Checked, Verdicts
    <3> QED
      BY <1>1, <1>3, <1>5, <1>6, <2>7, <3>1 DEF Answer, Verdicts
  <2>8. CASE WriteFails(h)
    BY <1>5, <2>8 DEF WriteFails
  <2>9. CASE PickName(h) \/ WriteFile(h) \/ ReadManifest(h) \/ TruncateManifest(h)
    BY <1>7, <2>9 DEF PickName, WriteFile, ReadManifest, TruncateManifest
  <2>10. CASE WriteManifest(h)
    <3>1. at'[h] = After[at[h]] /\ at[h] \in Artifacts
      BY <1>5, <2>10 DEF WriteManifest, HandlersInv, Writing
    <3>2. Checked(h) \/ at[h] = "direct-post.body"
      BY <3>1 DEF Checked, Artifacts, FetchArtifacts, PostArtifacts
    <3> QED
      BY <1>3, <3>1, <3>2 DEF After, Artifacts, FetchArtifacts, PostArtifacts
  <2> QED
    BY <2>1, <2>2, <2>3, <2>4, <2>5, <2>6, <2>7, <2>8, <2>9, <2>10, Zenon DEF Serve
<1>10. ASSUME ~keyHeld' PROVE \E g \in Posts : at'[g] \in {"rejected", "verified", "withheld"}
  <2>1. CASE RefuseBody(h) \/ Answer(h)
    <3>1. h \in Posts
      BY <2>1 DEF RefuseBody, Answer, Verdicts, HandlersInv, PostStands
    <3> QED
      BY <1>5, <2>1, <3>1 DEF RefuseBody, Answer, Verdicts
  <2>2. CASE ~RefuseBody(h) /\ ~Answer(h)
    <3>1. keyHeld' = keyHeld
      BY <2>2 DEF Serve, Fetch, Post, TakeTime, Decrypt, Verify, WriteFails, PickName, WriteFile,
                  ReadManifest, TruncateManifest, WriteManifest
    <3>2. PICK g \in Posts : at[g] \in {"rejected", "verified", "withheld"}
      BY <1>10, <3>1 DEF VerdictInv
    <3>3. at'[g] = at[g]
      <4>1. at[h] \in {"rejected", "verified", "withheld"} => FALSE
        BY DEF Serve, Fetch, Post, RefuseBody, TakeTime, Decrypt, Verify, Answer, WriteFails, PickName,
               WriteFile, ReadManifest, TruncateManifest, WriteManifest, HandlersInv, Writing,
               Artifacts, FetchArtifacts, PostArtifacts, Verdicts
      <4> QED
        BY <1>5, <1>8, <3>2, <4>1
    <3> QED
      BY <3>2, <3>3
  <2> QED
    BY <2>1, <2>2
<1>11. \A g \in Posts : Earned(g)
  BY <1>5, <1>7, <1>8, <1>9
<1> QED
  BY <1>10, <1>11 DEF VerdictInv

LEMMA VerdictsAreKept == Spec => []VerdictInv
<1>1. Init => VerdictInv
  BY VerdictStart, Zenon DEF Init
<1>2. ASSUME CaptureInv, VerdictInv, [Next]_vars PROVE VerdictInv'
  <2>1. CASE CaptureNext
    BY <1>2, <2>1, VerdictStep DEF CaptureInv, CaptureNext
  <2>2. CASE UNCHANGED captureVars
    BY <1>2, <2>2 DEF captureVars, VerdictInv, HasJwe, ForKey, Crowded, OfflineOk
  <2> QED
    BY <1>2, <2>1, <2>2, Zenon DEF Next, Debug, FetchList, Tick, vars
<1> QED
  BY <1>1, <1>2, CaptureIsKept, PTL DEF Spec

-------------------------------------------------------------------------------
(* What an export holds *)

OnDiskNow == OnDisk(manifest.entries)

LEMMA ExportedEntries ==
  ASSUME FilesInv
  PROVE  /\ IsFiniteSet(OnDiskNow)
         /\ \A e \in OnDiskNow : /\ e.name \in DOMAIN dir
                                 /\ e = [name |-> e.name, content |-> dir[e.name], sha |-> e.sha]
<1> DEFINE listed == manifest.entries
           copy == [e \in listed |-> [e EXCEPT !.content = dir[e.name]]]
<1>1. IsFiniteSet(listed) /\ \A e \in listed : /\ e = [name |-> e.name, content |-> e.content, sha |-> e.sha]
                                              /\ e.name \in DOMAIN dir
  BY DEF FilesInv, Listing
<1>2. OnDiskNow = {[e EXCEPT !.content = dir[e.name]] : e \in listed}
  BY DEF OnDiskNow, OnDisk
<1>3. copy \in Surjection(listed, OnDiskNow)
  BY <1>2 DEF Surjection
<1>4. IsFiniteSet(OnDiskNow)
  <2> HIDE DEF listed, copy
  <2> QED
    BY <1>1, <1>3, FS_Surjection
<1>5. ASSUME NEW e \in listed
      PROVE  LET d == [e EXCEPT !.content = dir[e.name]]
             IN  d.name \in DOMAIN dir /\ d = [name |-> d.name, content |-> dir[d.name], sha |-> d.sha]
  BY <1>1
<1> QED
  BY <1>2, <1>4, <1>5

LEMMA ContentOnDisk ==
  ASSUME FilesInv, NEW kind, Has(OnDiskNow, kind)
  PROVE  /\ Original(kind) \in DOMAIN dir
         /\ Content(OnDiskNow, kind) = dir[Original(kind)]
         /\ \E e \in OnDiskNow : e.name = Original(kind) /\ e.content = dir[Original(kind)]
<1>1. PICK e \in OnDiskNow : e.name = Original(kind)
  BY DEF Has
<1> DEFINE d == CHOOSE x \in OnDiskNow : x.name = Original(kind)
<1>2. d \in OnDiskNow /\ d.name = Original(kind)
  BY <1>1
<1> HIDE DEF d
<1>3. \A x \in OnDiskNow : x.name \in DOMAIN dir /\ x.content = dir[x.name]
  BY ExportedEntries
<1> QED
  BY <1>1, <1>2, <1>3 DEF Content, d

LEMMA ScrapIsUseless == Scrap.form = "malformed" /\ ~Scrap.readable
BY DEF Scrap, Blank

\* The saved artifacts that read are those of some posts of the session.
LEMMA BodyOnDisk ==
  ASSUME HandlersInv, FilesInv, Has(OnDiskNow, "direct-post.body"),
         Content(OnDiskNow, "direct-post.body").form # "malformed"
  PROVE  \E g \in Posts : /\ Posted(g) /\ reply[g] \in Replies
                          /\ Content(OnDiskNow, "direct-post.body") = BodyOf(reply[g])
<1>1. PICK g \in Posts : Posted(g) /\ dir[Original("direct-post.body")] = BodyOf(reply[g])
  BY ContentOnDisk, ScrapIsUseless DEF FilesInv, Original
<1> QED
  BY <1>1, ContentOnDisk DEF HandlersInv, Posted

LEMMA ContextOnDisk ==
  ASSUME HandlersInv, FilesInv, Has(OnDiskNow, "verification-context.json"),
         ~Broken(OnDiskNow, "verification-context.json")
  PROVE  \E g \in Posts : /\ Timed(g) /\ clock[g] \in 0..now
                          /\ Content(OnDiskNow, "verification-context.json") = ContextOf(clock[g])
<1>1. PICK g \in Posts : Timed(g) /\ dir[Original("verification-context.json")] = ContextOf(clock[g])
  BY ContentOnDisk, ScrapIsUseless DEF FilesInv, Original, Broken
<1> QED
  BY <1>1, ContentOnDisk DEF HandlersInv

LEMMA AuthOnDisk ==
  ASSUME HandlersInv, FilesInv, Has(OnDiskNow, "auth-response.json"),
         ~Broken(OnDiskNow, "auth-response.json")
  PROVE  \E g \in Posts : Posted(g) /\ Content(OnDiskNow, "auth-response.json").vps = reply[g].vps
<1>1. PICK g \in Posts : Posted(g) /\ dir[Original("auth-response.json")].vps = reply[g].vps
  BY ContentOnDisk, ScrapIsUseless DEF FilesInv, Original, Broken
<1> QED
  BY <1>1, ContentOnDisk

LEMMA KeyOnDisk ==
  ASSUME FilesInv, Has(OnDiskNow, "session-enc-key.jwk")
  PROVE  Content(OnDiskNow, "session-enc-key.jwk") = [Blank EXCEPT !.key = SessionKey]
BY ContentOnDisk DEF FilesInv, KeyFile, Entry

LEMMA Fields ==
  ASSUME NEW r, NEW t
  PROVE  /\ BodyOf(r).form = r.form /\ BodyOf(r).key = r.key /\ BodyOf(r).vps = r.vps
         /\ ContextOf(t).at = t /\ Binding(ContextOf(t)) = SessionBinding
         /\ [Blank EXCEPT !.key = SessionKey].key = SessionKey
         /\ [Blank EXCEPT !.key = SessionKey].readable
BY DEF BodyOf, ContextOf, Binding, SessionBinding, Blank

\* A response is verified if there is a presentation and none of them fails.
LEMMA VerifiedInAll ==
  ASSUME NEW vps, NEW context, NEW trust
  PROVE  VerifyAll(vps, context, trust).verified <=>
           /\ vps # <<>>
           /\ \A i \in DOMAIN vps :
                VerifyFull(vps[i], Binding(context), Pid, MaxAge, context.at, trust) = "ok"
BY DEF VerifyAll

\* A response from the posted body is the body's, and was encrypted to the key.
LEMMA StrictResponse ==
  ASSUME NEW entries, StrictlyDecrypted(entries)
  PROVE  LET body == Content(entries, "direct-post.body")
             key == Content(entries, "session-enc-key.jwk")
         IN  /\ Has(entries, "direct-post.body") /\ Has(entries, "session-enc-key.jwk")
             /\ body.form \notin {"malformed", "plain"} /\ body.key = key.key
             /\ DecryptedResponse(entries) = Response(body.vps)
<1> DEFINE raw == DecryptFromDirectPost(entries)
           body == Content(entries, "direct-post.body")
           key == Content(entries, "session-enc-key.jwk")
<1>1. /\ Has(entries, "direct-post.body") /\ Has(entries, "session-enc-key.jwk") /\ raw.is = "some"
      /\ ~Broken(entries, "auth-response.json")
      /\ Has(entries, "auth-response.json") => Content(entries, "auth-response.json").vps = raw.vps
  BY DEF StrictlyDecrypted
<1>2. body.form \notin {"malformed", "plain"} /\ body.key = key.key /\ raw = Response(body.vps)
  BY <1>1 DEF DecryptFromDirectPost, NoResponse, Unusable, Response
<1>3. raw.is = "some" /\ raw.vps = body.vps
  BY <1>2 DEF Response
<1> HIDE DEF raw, body, key
<1>4. DecryptedResponse(entries) = Response(body.vps)
  BY <1>1, <1>2, <1>3 DEF DecryptedResponse, raw
<1> QED
  BY <1>1, <1>2, <1>4 DEF body, key

LEMMA ResponseFields == \A vps : Response(vps).is = "some" /\ Response(vps).vps = vps
BY DEF Response

\* Everything a bundle of an export says follows from its entries.
LEMMA ExportFields ==
  ASSUME NEW entries, NEW key
  PROVE  /\ Bundle(entries, key).entries = entries /\ Bundle(entries, key).trace = Replay(entries)
         /\ Bundle(entries, key).sha = entries
         /\ Bundle(entries, key).signature = IF key = "none" THEN NoSignature ELSE Sign(key, entries)
BY DEF Bundle

LEMMA LiveExport ==
  ASSUME HandlersInv, FilesInv, AssertLive(Exported, ExportKey)
  PROVE  \E h, g \in Posts :
           /\ Posted(h) /\ reply[h].form = "jwe" /\ reply[h].key = SessionKey
           /\ Timed(g) /\ clock[g] \in 0..now
           /\ VerifyAll(reply[h].vps, ContextOf(clock[g]), NoTrust).verified
<1> DEFINE E == OnDiskNow
<1>1. LiveWalletTrace(Replay(E)) /\ StrictlyDecrypted(E)
  BY ExportFields DEF AssertLive, Exported, OnDiskNow
<1>2. /\ Has(E, "direct-post.body") /\ Has(E, "session-enc-key.jwk")
      /\ Content(E, "direct-post.body").form \notin {"malformed", "plain"}
      /\ Content(E, "direct-post.body").key = Content(E, "session-enc-key.jwk").key
      /\ DecryptedResponse(E) = Response(Content(E, "direct-post.body").vps)
  BY <1>1, StrictResponse
<1>3. ~Broken(E, "verification-context.json")
  <2>1. Replayable(E)
    BY ExportFields DEF AssertLive, CheckBundle, Exported, OnDiskNow
  <2> HIDE DEF E
  <2> QED
    BY <1>2, <2>1, ResponseFields DEF Replayable
<1>4. OfflineVerify(E, DecryptedResponse(E).vps).verified
  <2>1. IsFiniteSet(E)
    BY ExportedEntries
  <2> HIDE DEF E
  <2> QED
    BY <1>1, <2>1, LiveTrace
<1>5. PICK h \in Posts : Posted(h) /\ reply[h] \in Replies /\ Content(E, "direct-post.body") = BodyOf(reply[h])
  BY <1>2, BodyOnDisk
<1>6. reply[h].form = "jwe" /\ reply[h].key = SessionKey
  BY <1>2, <1>5, Fields, KeyOnDisk, RepliesAssumption
<1>7. DecryptedResponse(E).vps = reply[h].vps
  BY <1>2, <1>5, Fields, ResponseFields
<1>8. /\ Has(E, "verification-context.json")
      /\ VerifyAll(reply[h].vps, Content(E, "verification-context.json"), NoTrust).verified
  BY <1>4, <1>7 DEF OfflineVerify
<1>9. PICK g \in Posts : /\ Timed(g) /\ clock[g] \in 0..now
                         /\ Content(E, "verification-context.json") = ContextOf(clock[g])
  BY <1>8, <1>3, ContextOnDisk
<1> QED
  BY <1>5, <1>6, <1>8, <1>9

\* evidence.rs 380-520: whatever the handlers did to each other's files, and however
\* many of their writes failed or stopped halfway, a live proof is of a response that
\* was posted, decrypts, and verifies at a time one of the posts was checked at.
THEOREM LiveProofsAreReal == Spec => []LiveProofIsReal
<1>1. ASSUME HandlersInv, FilesInv PROVE LiveProofIsReal
  <2> SUFFICES ASSUME AssertLive(Exported, ExportKey)
               PROVE  \E h, g \in Posts :
                        /\ reply[h].form = "jwe" /\ reply[h].key = SessionKey /\ reply[h].vps # <<>>
                        /\ Timed(g)
                        /\ \A i \in DOMAIN reply[h].vps :
                             VerifyFull(reply[h].vps[i], SessionBinding, Pid, MaxAge, clock[g], NoTrust) = "ok"
    BY DEF LiveProofIsReal
  <2>1. PICK h, g \in Posts :
           /\ reply[h].form = "jwe" /\ reply[h].key = SessionKey /\ Timed(g)
           /\ VerifyAll(reply[h].vps, ContextOf(clock[g]), NoTrust).verified
    BY <1>1, LiveExport
  <2>2. /\ reply[h].vps # <<>>
        /\ \A i \in DOMAIN reply[h].vps :
             VerifyFull(reply[h].vps[i], SessionBinding, Pid, MaxAge, clock[g], NoTrust) = "ok"
    BY <2>1, VerifiedInAll, Fields
  <2> QED
    BY <2>1, <2>2
<1> QED
  BY <1>1, CaptureIsKept, PTL DEF CaptureInv

-------------------------------------------------------------------------------
(* The key a verifier supplies *)

\* An entry that is listed is exported.
LEMMA ListedIsExported ==
  ASSUME FilesInv, NEW kind
  PROVE  Has(manifest.entries, kind) <=> Has(OnDiskNow, kind)
<1>1. \A e \in manifest.entries : [e EXCEPT !.content = dir[e.name]].name = e.name
  BY DEF FilesInv, Listing
<1> QED
  BY <1>1 DEF Has, OnDiskNow, OnDisk

\* Moving the time of the verification changes the entries.
LEMMA LaterDiffers ==
  ASSUME HandlersInv, FilesInv, Has(OnDiskNow, "verification-context.json")
  PROVE  Later(OnDiskNow) # OnDiskNow
<1> DEFINE ctx == Original("verification-context.json")
           moved(e) == Entry(e.name, [e.content EXCEPT !.at = @ + 1])
           there == dir[ctx]
<1>1. ctx \in DOMAIN dir /\ ctx[1] = "verification-context.json"
  BY ContentOnDisk DEF Original
<1>2. \E t \in Nat : there \in {ContextOf(t), Scrap}
  <2>1. there = Scrap \/ \E g \in Posts : clock[g] \in 0..now /\ there = ContextOf(clock[g])
    BY <1>1 DEF HandlersInv, FilesInv
  <2>2. \A t \in 0..now : t \in Nat
    BY CaptureAssumptions DEF HandlersInv
  <2> HIDE DEF there
  <2> QED
    BY <2>1, <2>2
<1>3. there.at \in Nat /\ [there EXCEPT !.at = @ + 1].at = there.at + 1
  <2>1. PICK t \in Nat : there = ContextOf(t) \/ there = Scrap
    BY <1>2
  <2>2. /\ ContextOf(t).at = t /\ [ContextOf(t) EXCEPT !.at = @ + 1].at = t + 1
        /\ Scrap.at = 0 /\ [Scrap EXCEPT !.at = @ + 1].at = 1
    BY DEF ContextOf, Scrap, Blank
  <2> HIDE DEF there
  <2>3. CASE there = ContextOf(t)
    BY <2>2, <2>3
  <2>4. CASE there = Scrap
    BY <2>2, <2>4
  <2> QED
    BY <2>1, <2>3, <2>4
<1>4. \A e \in OnDiskNow : e.name = ctx => e.content = there
  BY ExportedEntries
<1> HIDE DEF there
<1>5. PICK e \in OnDiskNow : e.name = ctx
  BY DEF Has
<1>6. moved(e) \in Later(OnDiskNow)
  BY <1>5 DEF Later
<1>7. moved(e).name = ctx /\ moved(e).content = [there EXCEPT !.at = @ + 1]
  BY <1>4, <1>5 DEF Entry
<1>8. moved(e).content # there
  <2>1. there.at + 1 # there.at
    BY <1>3
  <2> HIDE DEF moved
  <2> QED
    BY <1>3, <1>7, <2>1, Zenon
<1> QED
  BY <1>4, <1>6, <1>7, <1>8

LEMMA ForgeryFields ==
  ASSUME NEW b, NEW copy \in Forgeries(b)
  PROVE  /\ copy.entries = Later(b.entries)
         /\ copy.signature \in {b.signature, NoSignature, Sign("other", Later(b.entries))}
BY DEF Forgeries, Bundle

\* A signature by another key, or over other entries, does not pass.
LEMMA OnlyItsOwnSignature ==
  ASSUME NEW b, NEW key, key # "none", CheckBundle(b, key) # "invalid"
  PROVE  b.signature.present /\ b.signature.by = key /\ b.signature.over = b.entries
<1>1. VerifySignature(b, key) # "invalid"
  BY DEF CheckBundle
<1> QED
  BY <1>1 DEF VerifySignature

\* An export passes its own check.
LEMMA ExportChecks ==
  ASSUME ExportOk
  PROVE  CheckBundle(Exported, ExportKey) = IF ExportKey = "none" THEN "absent" ELSE "supplied"
<1> DEFINE E == OnDiskNow
<1>1. /\ \A e \in E : e.sha = e.content
      /\ Replayable(E)
  BY DEF ExportOk, Exportable, OnDiskNow
<1>2. /\ Exported.entries = E /\ Exported.trace = Replay(E) /\ Exported.sha = E
      /\ Exported.signature = IF ExportKey = "none" THEN NoSignature ELSE Sign(ExportKey, E)
  BY ExportFields DEF Exported, OnDiskNow
<1> HIDE DEF E
<1>3. CheckBundle(Exported, ExportKey) = VerifySignature(Exported, ExportKey)
  BY <1>1, <1>2 DEF CheckBundle
<1> QED
  BY <1>2, <1>3 DEF VerifySignature, NoSignature, Sign

\* evidence.rs 705-790: with the exporter's key supplied its export passes, and
\* no copy with another time does, whatever signature it carries.
THEOREM SuppliedKeyAlwaysDecides == Spec => []SuppliedKeyDecides
<1>1. ASSUME HandlersInv, FilesInv PROVE SuppliedKeyDecides
  <2> SUFFICES ASSUME ExportOk, ExportKey # "none"
               PROVE  /\ CheckBundle(Exported, ExportKey) = "supplied"
                      /\ Has(Exported.entries, "verification-context.json") =>
                           \A copy \in Forgeries(Exported) : CheckBundle(copy, ExportKey) = "invalid"
    BY DEF SuppliedKeyDecides
  <2>1. /\ Exported.entries = OnDiskNow
        /\ Exported.signature = Sign(ExportKey, OnDiskNow)
    BY ExportFields DEF Exported, OnDiskNow
  <2>2. ASSUME Has(OnDiskNow, "verification-context.json"), NEW copy \in Forgeries(Exported)
        PROVE  CheckBundle(copy, ExportKey) = "invalid"
    <3>1. /\ copy.entries = Later(OnDiskNow)
          /\ copy.signature \in {Sign(ExportKey, OnDiskNow), NoSignature, Sign("other", Later(OnDiskNow))}
      BY <2>1, ForgeryFields
    <3>2. Later(OnDiskNow) # OnDiskNow
      BY <1>1, <2>2, LaterDiffers
    <3>3. /\ Sign(ExportKey, OnDiskNow).over = OnDiskNow /\ ~NoSignature.present
          /\ Sign("other", Later(OnDiskNow)).by = "other"
      BY DEF Sign, NoSignature
    <3> QED
      BY <3>1, <3>2, <3>3, OnlyItsOwnSignature, ExportKeyAssumption
  <2>3. CheckBundle(Exported, ExportKey) = "supplied"
    BY ExportChecks
  <2> QED
    BY <2>1, <2>2, <2>3
<1> QED
  BY <1>1, CaptureIsKept, PTL DEF CaptureInv

-------------------------------------------------------------------------------
(* The proof of trust and status *)

\* A presentation that is proven with a token is accepted with that token.
LEMMA ProvenIsAccepted ==
  ASSUME NEW p, NEW t, NEW context, Binding(context) = SessionBinding, AnchorsLoad(Anchors),
         NEW args \in {Fetched("status"), SuppliedToken(t)},
         ProvenAt(p, context, args, [given |-> TRUE, token |-> t, signer |-> "none"])
  PROVE  VerifyPresentationCmd(p,
           Args(Anchors, [given |-> TRUE, value |-> t], [given |-> TRUE, certs |-> <<>>, spki |-> "status"]),
           context.at) = "ok"
<1> DEFINE published == [given |-> TRUE, token |-> t, signer |-> "none"]
           token == StatusTokenFor(p, context, args, published)
           status == [given |-> TRUE, token |-> t, signer |-> "status"]
           input == Args(Anchors, [given |-> TRUE, value |-> t],
                         [given |-> TRUE, certs |-> <<>>, spki |-> "status"])
<1>1. args.anchors = Anchors /\ args.signer = "status" /\ args.supplied \in {NoToken, published}
  BY DEF Fetched, SuppliedToken
<1>2. /\ token.given
      /\ VerifyFull(p, Binding(context), Pid, MaxAge, context.at,
                    [anchors |-> args.anchors, status |-> [token EXCEPT !.signer = args.signer]]) = "ok"
  BY DEF ProvenAt
<1>3. token \in {NoToken, published}
  BY <1>1 DEF StatusTokenFor, NoToken
<1>4. token = published
  BY <1>2, <1>3 DEF NoToken
<1> DEFINE used == [published EXCEPT !.signer = "status"]
<1>5. used.given /\ used.token = t /\ used.signer = "status"
  OBVIOUS
<1>6. VerifyFull(p, SessionBinding, Pid, MaxAge, context.at,
                 [anchors |-> Anchors, status |-> status]) = "ok"
  <2>1. VerifyFull(p, SessionBinding, Pid, MaxAge, context.at,
                   [anchors |-> Anchors, status |-> used]) = "ok"
    BY <1>1, <1>2, <1>4
  <2>2. status.given /\ status.token = t /\ status.signer = "status"
    OBVIOUS
  <2> HIDE DEF used, status
  <2>3. StatusReject(p, used) = StatusReject(p, status)
    BY <1>5, <2>2 DEF StatusReject
  <2> QED
    BY <1>5, <2>1, <2>2, <2>3, AcceptedInFull
<1>7. /\ input.anchors = Anchors /\ input.binding = SessionBinding /\ input.vct = Pid
      /\ input.maxAge = MaxAge
      /\ StatusInput(input) = status
  <2> DEFINE key == [given |-> TRUE, certs |-> <<>>, spki |-> "status"]
  <2>1. /\ input.anchors = Anchors /\ input.binding = SessionBinding /\ input.vct = Pid
        /\ input.maxAge = MaxAge /\ input.key = key
        /\ input.token = [given |-> TRUE, value |-> t]
    BY DEF Args
  <2>2. SignerFromPem(key) = "status" /\ key.given
    BY DEF SignerFromPem
  <2> HIDE DEF key, input
  <2> QED
    BY <2>1, <2>2 DEF StatusInput
<1>8. status.signer # "none"
  OBVIOUS
<1> HIDE DEF input, status
<1>9. VerifyPresentationCmd(p, input, context.at) = "ok"
  BY <1>6, <1>7, <1>8 DEF VerifyPresentationCmd
<1> QED
  BY <1>9 DEF input

\* evidence.rs 905-1040 and commands/verify.rs 228-372: what `prove-trust-status`
\* proves of a bundle, `verify presentation` accepts of every presentation in it.
THEOREM ProofsAgreeWithVerify == Spec => []ProofAgreesWithVerify
<1>1. ASSUME HandlersInv, FilesInv PROVE ProofAgreesWithVerify
  <2> DEFINE E == OnDiskNow
             vps == DecryptedResponse(E).vps
             context == Content(E, "verification-context.json")
             published(t) == [given |-> TRUE, token |-> t, signer |-> "none"]
             accepts(i, t) ==
               VerifyPresentationCmd(vps[i],
                 Args(Anchors, [given |-> TRUE, value |-> t],
                      [given |-> TRUE, certs |-> <<>>, spki |-> "status"]), context.at) = "ok"
  <2>1. Exported.entries = E
    BY ExportFields DEF Exported, OnDiskNow
  <2>2. ASSUME NEW t \in Published, NEW args \in {Fetched("status"), SuppliedToken(t)},
               Has(manifest.entries, "verification-context.json"),
               ProveTrustStatus(Exported, "none", args, published(t))
        PROVE  \A i \in DOMAIN vps : accepts(i, t)
    <3>1. /\ AnchorsLoad(args.anchors)
          /\ \A i \in DOMAIN vps : ProvenAt(vps[i], context, args, published(t))
      BY <2>1, <2>2 DEF ProveTrustStatus
    <3>2. AnchorsLoad(Anchors)
      BY <3>1 DEF Fetched, SuppliedToken
    <3>3. Binding(context) = SessionBinding
      <4>1. ~Broken(E, "verification-context.json")
        BY <2>1, <2>2 DEF ProveTrustStatus, Broken
      <4> QED
        BY <1>1, <2>2, <4>1, ListedIsExported, ContextOnDisk, Fields
    <3> HIDE DEF vps, context, E
    <3> QED
      BY <3>1, <3>2, <3>3, ProvenIsAccepted
  <2>3. ASSUME Has(manifest.entries, "verification-context.json"), NEW t \in Published
        PROVE  \/ \A i \in DOMAIN vps : accepts(i, t)
               \/ /\ ~ProveTrustStatus(Exported, "none", Fetched("status"), published(t))
                  /\ ~ProveTrustStatus(Exported, "none", SuppliedToken(t), published(t))
    BY <2>2, <2>3
  <2> QED
    BY <2>1, <2>3 DEF ProofAgreesWithVerify
<1> QED
  BY <1>1, CaptureIsKept, PTL DEF CaptureInv

-------------------------------------------------------------------------------
(* The replay and serve *)

\* A manifest that is not truncated lists the key's file, if nothing disturbed it.
LEMMA KeyIsListed ==
  ASSUME HandlersInv, FilesInv, KeptInv, ~disturbed, ~manifest.torn
  PROVE  Has(manifest.entries, "session-enc-key.jwk")
<1>1. KeyFile.name \in DOMAIN dir /\ KeyFile.name = Original("session-enc-key.jwk")
  BY DEF FilesInv, KeyFile, Entry
<1>2. Entry(KeyFile.name, dir[KeyFile.name]).name = KeyFile.name
  BY DEF Entry
<1>3. ASSUME NEW S, KeyFile.name \in S, Lists(S) PROVE Has(manifest.entries, "session-enc-key.jwk")
  BY <1>1, <1>2, <1>3 DEF Lists, Has
<1>4. CASE \A h \in Handlers : ~Writing(h)
  BY <1>1, <1>3, <1>4 DEF KeptInv
<1>5. ASSUME NEW h \in Handlers, Writing(h) PROVE Has(manifest.entries, "session-enc-key.jwk")
  <2>1. name[h][1] \in Artifacts
    BY <1>5 DEF HandlersInv
  <2>2. name[h] # KeyFile.name
    BY <1>1, <2>1 DEF Original, Artifacts, FetchArtifacts, PostArtifacts
  <2>3. Progress(h) /\ step[h] \in {"named", "saved", "read", "torn"}
    BY <1>5 DEF KeptInv, HandlersInv, Writing
  <2>4. Lists(DOMAIN dir) \/ Lists(DOMAIN dir \ {name[h]})
    BY <2>3 DEF Progress
  <2> QED
    BY <1>1, <1>3, <2>2, <2>4
<1> QED
  BY <1>4, <1>5

ServeTrust == [anchors |-> Anchors, status |-> NoToken]

\* The verdict of serve and the one of a replay differ in the anchors only.
LEMMA TwoVerdicts ==
  ASSUME NEW h
  PROVE  /\ OfflineOk(h) <=>
              /\ reply[h].vps # <<>>
              /\ \A i \in DOMAIN reply[h].vps :
                   /\ VerifyAt(reply[h].vps[i], SessionBinding, Pid, MaxAge, clock[h]) = "ok"
                   /\ Anchors # {} => IssuerTrustedAt(reply[h].vps[i], Anchors, clock[h])
         /\ VerifyAll(reply[h].vps, ContextOf(clock[h]), NoTrust).verified <=>
              /\ reply[h].vps # <<>>
              /\ \A i \in DOMAIN reply[h].vps :
                   VerifyAt(reply[h].vps[i], SessionBinding, Pid, MaxAge, clock[h]) = "ok"
<1>1. /\ ServeTrust.anchors = Anchors /\ ~ServeTrust.status.given
      /\ NoTrust.anchors = {} /\ ~NoTrust.status.given
  BY DEF ServeTrust, NoTrust, NoToken
<1>2. \A p : VerifyFull(p, SessionBinding, Pid, MaxAge, clock[h], ServeTrust) = "ok" <=>
               /\ VerifyAt(p, SessionBinding, Pid, MaxAge, clock[h]) = "ok"
               /\ Anchors # {} => IssuerTrustedAt(p, Anchors, clock[h])
  BY <1>1, AcceptedInFull
<1>3. \A p : VerifyFull(p, SessionBinding, Pid, MaxAge, clock[h], NoTrust) = "ok" <=>
               VerifyAt(p, SessionBinding, Pid, MaxAge, clock[h]) = "ok"
  BY <1>1, AcceptedInFull
<1>4. OfflineOk(h) <=>
        /\ reply[h].vps # <<>>
        /\ \A i \in DOMAIN reply[h].vps :
             VerifyFull(reply[h].vps[i], SessionBinding, Pid, MaxAge, clock[h], ServeTrust) = "ok"
  BY DEF OfflineOk, ServeTrust
<1>5. VerifyAll(reply[h].vps, ContextOf(clock[h]), NoTrust).verified <=>
        /\ reply[h].vps # <<>>
        /\ \A i \in DOMAIN reply[h].vps :
             VerifyFull(reply[h].vps[i], SessionBinding, Pid, MaxAge, clock[h], NoTrust) = "ok"
  BY Fields, VerifiedInAll
<1> QED
  BY <1>2, <1>3, <1>4, <1>5

\* What serve accepted is proven live.
LEMMA AcceptedIsLive ==
  ASSUME HandlersInv, FilesInv, KeptInv, VerdictInv, ~disturbed, ExportOk, NEW h \in Posts,
         \A g \in Posts \ {h} : at[g] = "idle",
         \A k \in Artifacts : Has(manifest.entries, k),
         at[h] = "verified"
  PROVE  AssertLive(Exported, ExportKey)
<1> DEFINE E == OnDiskNow
           body == Content(E, "direct-post.body")
           key == Content(E, "session-enc-key.jwk")
<1>1. HasJwe(h) /\ ForKey(h) /\ OfflineOk(h)
  BY DEF VerdictInv
<1>2. /\ Has(E, "request.payload.json") /\ Has(E, "request.jwt") /\ Has(E, "direct-post.body")
      /\ Has(E, "verification-context.json") /\ Has(E, "auth-response.json")
  BY ListedIsExported DEF Artifacts, FetchArtifacts, PostArtifacts
<1>3. Has(E, "session-enc-key.jwk")
  BY KeyIsListed, ListedIsExported DEF ExportOk
<1>4. /\ DecryptedResponse(E).is # "error"
      /\ DecryptedResponse(E).is = "some" => ~Broken(E, "verification-context.json")
  BY DEF ExportOk, Exportable, OnDiskNow, Replayable
<1>5. body.form # "malformed" /\ ~Broken(E, "auth-response.json")
  <2> HIDE DEF E
  <2> QED
    BY <1>2, <1>3, <1>4 DEF DecryptedResponse, DecryptFromDirectPost, Unusable
<1>6. body = BodyOf(reply[h])
  BY <1>2, <1>5, BodyOnDisk DEF Posted
<1>7. Content(E, "auth-response.json").vps = reply[h].vps
  BY <1>2, <1>5, AuthOnDisk DEF Posted
<1>8. key.readable /\ key.key = SessionKey
  BY <1>3, KeyOnDisk, Fields
<1>9. body.form = "jwe" /\ body.key = SessionKey /\ body.vps = reply[h].vps
  BY <1>1, <1>6, Fields DEF HasJwe, ForKey
<1>10. DecryptFromDirectPost(E) = Response(reply[h].vps)
  <2> HIDE DEF E, body, key
  <2> QED
    BY <1>2, <1>3, <1>8, <1>9 DEF DecryptFromDirectPost, body, key
<1>11. StrictlyDecrypted(E)
  <2> HIDE DEF E
  <2> QED
    BY <1>2, <1>3, <1>5, <1>7, <1>10, ResponseFields DEF StrictlyDecrypted
<1>12. DecryptedResponse(E).is = "some" /\ DecryptedResponse(E).vps = reply[h].vps
  <2> HIDE DEF E
  <2> QED
    BY <1>9, <1>11, StrictResponse, ResponseFields DEF body
<1>13. Content(E, "verification-context.json") = ContextOf(clock[h])
  BY <1>2, <1>4, <1>12, ContextOnDisk DEF Timed
<1> HIDE DEF E, body, key
<1>14. OfflineVerify(E, reply[h].vps).verified
  <2>1. VerifyAll(reply[h].vps, ContextOf(clock[h]), NoTrust).verified
    BY <1>1, TwoVerdicts
  <2> QED
    BY <1>2, <1>13, <2>1 DEF OfflineVerify
<1>15. LiveWalletTrace(Replay(E))
  BY <1>2, <1>9, <1>12, <1>14, LiveTrace, ExportedEntries DEF E, body
<1>16. Exported.trace = Replay(E) /\ Exported.entries = E
  BY ExportFields DEF Exported, OnDiskNow, E
<1>17. CheckBundle(Exported, ExportKey) # "invalid"
  BY ExportChecks
<1> QED
  BY <1>11, <1>15, <1>16, <1>17 DEF AssertLive

\* What is proven live was accepted, if its issuers are serve's, or its status was
\* looked at and kept serve from accepting it.
LEMMA LiveIsAccepted ==
  ASSUME HandlersInv, FilesInv, VerdictInv, ~disturbed, NEW h \in Posts,
         \A g \in Posts \ {h} : at[g] = "idle",
         AssertLive(Exported, ExportKey), at[h] \in Answers,
         \A i \in DOMAIN reply[h].vps : IssuerTrustedAt(reply[h].vps[i], Anchors, clock[h])
  PROVE  at[h] = "verified" \/ (LiveStatus /\ at[h] = "withheld")
<1>1. /\ reply[h].form = "jwe" /\ reply[h].key = SessionKey
      /\ VerifyAll(reply[h].vps, ContextOf(clock[h]), NoTrust).verified
  <2>1. PICK f, g \in Posts :
           /\ Posted(f) /\ reply[f].form = "jwe" /\ reply[f].key = SessionKey
           /\ Timed(g) /\ clock[g] \in 0..now
           /\ VerifyAll(reply[f].vps, ContextOf(clock[g]), NoTrust).verified
    BY LiveExport
  <2>2. f = h /\ g = h
    BY <2>1 DEF Posted, Timed
  <2> QED
    BY <2>1, <2>2
<1>2. OfflineOk(h)
  BY <1>1, TwoVerdicts
<1>3. HasJwe(h) /\ ForKey(h) /\ ~Crowded(h)
  BY <1>1 DEF HasJwe, ForKey, Crowded
<1> QED
  BY <1>2, <1>3 DEF VerdictInv, HandlersInv, Answers

\* handlers.rs 240-659 and evidence.rs 380-520: for one post in an undisturbed
\* session, the replay of an export comes to the verdict serve gave, up to the status
\* of a credential, which a replay does not look at.
THEOREM ReplaysAgreeWithServe == Spec => []ReplayAgreesWithServe
<1>1. ASSUME HandlersInv, FilesInv, KeptInv, VerdictInv PROVE ReplayAgreesWithServe
  BY <1>1, AcceptedIsLive, LiveIsAccepted DEF ReplayAgreesWithServe
<1> QED
  BY <1>1, CaptureIsKept, VerdictsAreKept, PTL DEF CaptureInv
===============================================================================
