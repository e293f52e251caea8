SPECIFICATION FairSpec
CONSTANTS
  Images <- LoopImages
  STACK_LIMIT = 8
  NumBound = 1000
INVARIANTS
  StackInRange
PROPERTIES
  Ends
