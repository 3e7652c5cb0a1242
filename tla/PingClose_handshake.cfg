SPECIFICATION FairSpec
CONSTANTS
  t1 = t1
  t2 = t2
  t3 = t3
  NoThread = NoThread
  Threads <- Three
  Owner = t1
  MaxPings = 3
PROPERTIES
  PingsAndCloseEnd
INVARIANTS
  TypeOK
  NoWaiterInFreedHub
  SuccessIsOwnEcho
CHECK_DEADLOCK FALSE
