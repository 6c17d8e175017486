SPECIFICATION Spec
CONSTANTS
  Commands = {c1}
  Bodies <- GreedyBodies
  Targets = {"clone"}
  MaxTries = 1
  NoRp = NoRp
  NoBody = NoBody
  Rp = Rp
INVARIANT UnforcedNeverOverAsks
