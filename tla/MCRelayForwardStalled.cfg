SPECIFICATION StalledPeerSpec
CONSTANTS
  Forwards = {f1, f2}
  MaxInflight = 2
  ChanCap = 1
  MaxPings = 0
PROPERTY ForwardTimesOut
