SPECIFICATION ReadSpec
CONSTANTS
  ep1 = ep1
  ep2 = ep2
  Order <- ThreeInOrder
  Spellings <- TwoTexts
  kTries = 2
  Reads <- AllReads
  MaxChanges = 4
INVARIANTS
  WalkAnswersTruly
  OnlyChurnEscapes
SYMMETRY Exchange
CHECK_DEADLOCK FALSE
