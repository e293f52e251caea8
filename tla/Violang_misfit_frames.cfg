SPECIFICATION Exec
CONSTANTS
  Programs <- MisfitFrames
  Expressions <- ProgramParts
  STACK_LIMIT = 16
  NumBound = 1000
INVARIANTS
  ReturnsOneValue
