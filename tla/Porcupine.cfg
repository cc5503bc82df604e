\* Three operations, on one key or on two, through both entry points; words of
\* two bits, so that the bitset of three operations has two of them.
SPECIFICATION FairSpec
CONSTANTS
  InitState <- KvInit
  Step <- KvStep
  Parts <- MCParts
  MaxParts = 2
  Nil = Nil
  WordSize = 2
  NOps = 3
  Keys = {1, 2}
INVARIANTS TypeOK BitsetIsSet ListIsRemaining OkSound IllegalSound LongestIsLongest WholeVerdict
PROPERTIES Answers SearchesEnd
CHECK_DEADLOCK FALSE
