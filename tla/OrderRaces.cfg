SPECIFICATION FairSpec
CONSTANTS
  pay1 = pay1
  pay2 = pay2
  drop = drop
  address1 = address1
  address2 = address2
  confirm = confirm
  void = void
  ship1 = ship1
  ship2 = ship2
  refund1 = refund1
  refund2 = refund2
  home = home
  office = office
  Calls = {pay1, pay2, drop, void, address1, address2, confirm, ship1, refund1}
  Op <- MCOp
  Addresses = {home, office}
  PayTimeout = 30
  TickMin = 30
  MaxTime = 60
  NULL = NULL
  MaxRequests = 4
INVARIANTS
  RepliesHold
  OneSuccess
  RowTellsItsPast
PROPERTIES
  UnpaidGetsClosed
  OnlyDocumentedMoves
  ParcelKeepsItsAddress
