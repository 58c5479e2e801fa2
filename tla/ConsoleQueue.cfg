SPECIFICATION FairSpec
CONSTANTS
  mug = mug  vase = vase  cup = cup  lamp = lamp
  Shelf <- MCShelf
  Fresh = {lamp}
  MaxItems = 3
  MaxBids = 2
  MaxPresses = 2
  MaxFaults = 1
  None = None
INVARIANTS
  TypeOK
  SwitchEndsWhatIsShown
  QueueIsSound
PROPERTIES
  ConsoleCatchesUp
CHECK_DEADLOCK FALSE
