SPECIFICATION Spec
CONSTANTS
  Sessions = {s1}
  Posts = {p1, p2}
  Bodies <- RaceBodies
  LiveStatus = TRUE
  DebugArtifacts = FALSE
  NoSession = NoSession
  NoBody = NoBody
SYMMETRY Symmetry
INVARIANT KeyUsedOnce
