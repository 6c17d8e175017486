SPECIFICATION FairSpec
CONSTANTS
  c1 = c1
  c2 = c2
  serve = serve
  Unset = Unset
  Askers <- MCAskers
  Calls = {c1, c2}
  Serve = serve
  From <- MCFrom
  Environments <- MCEnvironments
  Arguments <- MCArguments
  Requests <- MCRequests
  LocalBodies <- MCLocalBodies
  Wrapping = 16382
  MaxInflight = 1
  MaxTunnelCreates = 1
  MaxForwards = 1
  MaxPings = 1
  NoRequest = NoRequest
  Window = 1
  MaxEntries = 1
  LastTick = 1
INVARIANTS TypeOK StartedAsConfigured EachEndTakesTheOthers DeniedOnlyOverQuota CallsServedOnce
PROPERTIES RequestsHandled
CHECK_DEADLOCK FALSE
