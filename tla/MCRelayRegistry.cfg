SPECIFICATION FairSpec
CONSTANTS
  Runs = {r1, r2, r3}
  Wallets = {w1}
  UnknownRun = UnknownRun
  Free = Free
  MaxRuns = 2
  MaxTombs = 1
INVARIANTS TypeOK RunAccounted
PROPERTY ExpiredLeaves
