SPECIFICATION FairSpec
CONSTANTS
  p1 = p1  p2 = p2
  Publishers = {p1}
  Kinds = {"switch"}
  MaxSockets = 4
  SendBuffer = 2
  RingSize = 2
  Ticking = TRUE
  EarlierEvents = 0
  MaxTicks = 1
  MaxFaults = 1
  MaxMoves = 1
  None = None
INVARIANTS
  OneSocket
PROPERTIES
  AlwaysReconnects
  ViewCatchesUp
