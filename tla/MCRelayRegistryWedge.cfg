SPECIFICATION PatientSpec
CONSTANTS
  Runs = {r1}
  Wallets = {w1}
  UnknownRun = UnknownRun
  Free = Free
  MaxRuns = 1
  MaxTombs = 1
PROPERTY ExpiredLookupReturns
