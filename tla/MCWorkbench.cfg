SPECIFICATION Spec
CONSTANTS
  Fetches = {f1}
  Posts = {p1, p2}
  Replies <- RepliesDef
  Claims <- ClaimsDef
  Anchors <- AnchorsDef
  LiveStatus = TRUE
  SessionKey = "session"
  ExportKey = "auditor"
  MaxTime = 1
  FutureSkew = 2
  MaxAge = 1
  Pid = "pid"
  Presentations <- PresentationsDef
  Requests <- RequestsDef
  Audits <- AuditsDef
  Lints <- LintsDef
  Specs <- SpecsDef
  Files <- FilesDef
  AnchorSets <- AnchorSetsDef
  StatusArgs <- StatusArgsDef
  Published <- PublishedDef
  LastDay = 5
  Uris <- UrisDef
  Addresses <- AddressesDef
  MaxBytes = 3
  Chunks = {0, 1, 2}
INVARIANTS
  TypeOK CapturesKept LiveProofIsReal ReplayAgreesWithServe ProofAgreesWithVerify
  SuppliedKeyDecides CommandsAgree ClientIdNamesTheSigner VerdictIsTrue
  ValidQueryResolves InspectKnowsItsOwn FetchStaysPublic
PROPERTIES TimeIsOneWay
SYMMETRY Symmetry
CHECK_DEADLOCK FALSE
