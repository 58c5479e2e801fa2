SPECIFICATION FairSpec
CONSTANTS
  home = home  office = office
  Addresses = {home, office}
  MaxVisits <- MCVisits
  MaxPolls = 1
  MaxPresses = 3
  MaxFaults = 1
  None = None
INVARIANTS
  PagesAreBehind
PROPERTIES
  BuyerNeverGoesBack
  BadgeCatchesUp
