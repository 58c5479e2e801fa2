SPECIFICATION Spec
CONSTANTS
  front = front  back = back  short = short  long = long  k1 = k1  k2 = k2
  Pictures = {front, back}
  Rules = {short, long}
  Filters <- MCFilters
  Slots = {k1, k2}
  MaxSessions = 2
  MaxBids = 2
  MaxPresses = 3
  MaxFaults = 1
  None = None
INVARIANTS
  TypeOK
  ShelfTellsSessions
PROPERTIES
  RulesStandOnceBid
  UploadsAreKept
CHECK_DEADLOCK FALSE
