SPECIFICATION FairSpec
CONSTANTS
  c1 = c1
  c2 = c2
  d = d
  n = n
  Clients <- OneClient
  Disp <- d
  Net <- n
  kMaxQueued = 1
  MaxEvents = 2
  MaxSinks = 1
  Ops <- Teardown
INVARIANTS
  FreedLast
  TeardownOnce
PROPERTIES
  AcceptedIsRaised
  CloseCompletes
CHECK_DEADLOCK FALSE
