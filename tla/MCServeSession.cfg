SPECIFICATION FairSpec
CONSTANTS
  Sessions = {s1}
  Posts = {p1, p2}
  Bodies <- AllBodies
  LiveStatus = TRUE
  DebugArtifacts = TRUE
  NoSession = NoSession
  NoBody = NoBody
INVARIANTS TypeOK VerifiedIsEarned SpentStaysSpent
PROPERTY PostEnds
