SPECIFICATION Spec
CONSTANTS
  Sessions = {s1}
  Posts = {p1}
  Bodies <- WalletBodies
  LiveStatus = TRUE
  DebugArtifacts = FALSE
  NoSession = NoSession
  NoBody = NoBody
SYMMETRY Symmetry
INVARIANT SettledPageHonest
