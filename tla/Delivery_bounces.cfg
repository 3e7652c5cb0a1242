SPECIFICATION FairSpec
CONSTANTS
  a = a
  b = b
  c = c
  Nowhere = Nowhere
  None = None
  Hubs <- ThreeHubs
  Ext <- Declining
  CallerPumped <- OnlyB
  Kids <- LineKids
  Links <- Line
  Menu <- Mixed
  MaxSends = 2
  Flaky <- FirstHop
  MaxDrops = 1
  MaxDepth = 2
  Stops <- OnlyA
INVARIANTS
  CurMsgIsOwn
  ReportsAreOwed
  BroadcastCovers
PROPERTIES
  BouncesAreReported
CHECK_DEADLOCK FALSE
