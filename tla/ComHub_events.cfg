SPECIFICATION Spec
CONSTANTS
  c1 = c1
  c2 = c2
  d = d
  n = n
  Clients <- OneClient
  Disp <- d
  Net <- n
  kMaxQueued = 1
  MaxEvents = 2
  MaxSinks = 2
  Ops <- Sinks
INVARIANTS
  HeardWithoutGaps
  CurEventIsRaised
PROPERTIES
  IsEventStream
  UnadvisedHearsNoMore
CHECK_DEADLOCK FALSE
