SPECIFICATION Spec
CONSTANTS
  a = a
  b = b
  r = r
  k1 = k1
  k2 = k2
  t1 = t1
  t2 = t2
  NoKey = NoKey
  NoFile = NoFile
  Nobody = Nobody
  Remotes <- OneRemote
  Hubs <- TwoHubs
  Keys <- TwoKeys
  Published <- PublishedTwo
  Own <- OwnTwo
  Threads <- TwoThreads
  Serial = TRUE
  FilesFail = TRUE
INVARIANTS
  TrustIsListed
  ArmedIsEnforced
  RefusalIsWhole
SYMMETRY Symmetry
CHECK_DEADLOCK FALSE
