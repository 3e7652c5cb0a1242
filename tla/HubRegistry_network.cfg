SPECIFICATION ProvSpec
CONSTANTS
  t1 = t1
  t2 = t2
  a1 = a1
  h1 = h1
  h2 = h2
  d1 = d1
  d2 = d2
  NoHub = NoHub
  NoThread = NoThread
  NoDir = NoDir
  Threads <- TwoThreads
  Addresses <- OneAddress
  Hubs <- TwoHubs
  Dirs <- TwoDirs
  Beside = d1
  Plain <- PlainNames
  Mangled <- OneAddress
  Hash <- Hashes
  RefToClose = TRUE
INVARIANTS
  HubDeletedOnce
  KernelOutlivesPumps
  PeersFindKeys
PROPERTIES
  IsDirectory
SYMMETRY Symmetry
CHECK_DEADLOCK FALSE
