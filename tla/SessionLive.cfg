SPECIFICATION FairSpec
CONSTANTS
  c1 = c1  c2 = c2  c3 = c3
  w1 = w1  x1 = x1  s1 = s1
  ann = ann  bob = bob  req1 = req1  req2 = req2  req3 = req3
  Calls = {c1, c2}
  Workers = {w1}
  Switches = {}
  Cancels = {x1}
  Users = {ann, bob}
  Requests = {req1, req2, req3}
  UserOf <- MCUserOf
  RequestOf <- MCRequestOf
  RuleChoices <- MCRules
  Amounts = {0, 1, 2}
  LockKind = "redis"
  SlowHolders = TRUE
  MaxFaults = 1
  TickSec = 5
  MaxTime = 20
  None = None
PROPERTIES
  ExpiredGetsSettled
  SettledGetsOrderOrFails
