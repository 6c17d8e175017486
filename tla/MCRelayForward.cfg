SPECIFICATION FairSpec
CONSTANTS
  Forwards = {f1, f2}
  MaxInflight = 1
  ChanCap = 2
  MaxPings = 1
INVARIANTS TypeOK SlotsAccounted OwnReply
PROPERTIES ImplementsExchange SlotReturned NoOrphanWriter
