SPECIFICATION Spec
CONSTANTS
  Addrs <- TwoAddrs
  Service <- Names
  Files <- SomeFiles
  Texts <- SomeTexts
  Blocks <- SomeBlocks
  MaxCalls = 4
INVARIANTS
  EndsMeet
  BadLineIsUsers
  CreateAllOrNone
CHECK_DEADLOCK FALSE
