SPECIFICATION Spec
CONSTANTS
  p1 = p1
  p2 = p2
  t1 = t1
  t2 = t2
  NoPeer = NoPeer
  Peers <- TwoPeers
  Threads <- TwoThreads
  Owns <- OwnEach
  Ops <- ArmAndDisconnect
INVARIANTS
  TypeOK
  RecordMatchesCon
  RetiringIsRemembered
  DrainMissesOnlyClosedPeers
SYMMETRY SwapPairs
CHECK_DEADLOCK FALSE
