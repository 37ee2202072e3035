SPECIFICATION FairSpec
CONSTANTS
  Capacity = 2
  Calls <- MCAllCalls
CHECK_DEADLOCK FALSE
INVARIANTS
  IInv
  ResultIsComplete
  SuccessIsWhole
PROPERTIES
  Returns
