SPECIFICATION FairSpec
CONSTANTS
  c1 = c1
  c2 = c2
  c3 = c3
  Clients = {c1, c2, c3}
  Period <- MCPeriod
  Once <- MCOnce
  Users = {u1}
  Stops = TRUE
  MaxTime = 3
INVARIANT TableSound
PROPERTY CallsEnd
PROPERTY ClientsServed
CHECK_DEADLOCK FALSE
