SPECIFICATION Spec
CONSTANTS
  c1 = c1  c2 = c2  c3 = c3
  w1 = w1  x1 = x1  s1 = s1
  ann = ann  bob = bob  req1 = req1  req2 = req2  req3 = req3
  Calls = {c1, c2, c3}
  Workers = {w1}
  Switches = {s1}
  Cancels = {}
  Users = {ann, bob}
  Requests = {req1, req2, req3}
  UserOf <- MCUserOf
  RequestOf <- MCRetry
  RuleChoices <- MCRules
  Amounts = {0, 1, 2}
  LockKind = "noop"
  SlowHolders = FALSE
  MaxFaults = 0
  TickSec = 5
  MaxTime = 15
  None = None
INVARIANTS
  LedgerObeysRules
  RowMatchesLedger
  OneBidPerRequest
  OrderIsSale
PROPERTIES
  ClosedIsFinal
