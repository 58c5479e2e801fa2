SPECIFICATION Spec
CONSTANTS
  Count = 2
  Cap = 2
  MaxMoves = 2
  MaxWire = 1
  MaxFaults = 1
  None = None
INVARIANTS
  TypeOK
  PageIsBehindTheRoom
  TitleFollowsSwitches
  AnswerIsComing
