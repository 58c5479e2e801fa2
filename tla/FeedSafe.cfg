SPECIFICATION Spec
CONSTANTS
  p1 = p1  p2 = p2
  Publishers = {p1, p2}
  Kinds = {"rank"}
  MaxSockets = 1
  SendBuffer = 3
  RingSize = 2
  Ticking = FALSE
  EarlierEvents = 1
  MaxTicks = 2
  MaxFaults = 0
  MaxMoves = 2
  None = None
SYMMETRY Alike
INVARIANTS
  TypeOK
  SteadyPageMissesNothing
