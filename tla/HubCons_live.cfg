SPECIFICATION FairSpec
CONSTANTS
  p1 = p1
  p2 = p2
  t1 = t1
  t2 = t2
  NoPeer = NoPeer
  Peers <- OnePeer
  Threads <- OneThread
  Owns <- OwnAll
  Ops <- AllVerbs
PROPERTIES
  CallsReturn
CHECK_DEADLOCK FALSE
