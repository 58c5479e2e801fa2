SPECIFICATION FairSpec
CONSTANTS
  Sessions = {1, 2}
  Earlier = 2
  MaxWork = 3
  MaxFaults = 1
  MaxLoads = 2
  MaxReads = 2
  MaxPolls = 3
  None = None
INVARIANTS
  MessagesTellWhatHappened
  CardsTellTheInbox
PROPERTIES
  UnreadBadgeCatchesUp
CHECK_DEADLOCK FALSE
