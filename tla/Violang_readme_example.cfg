SPECIFICATION Exec
CONSTANTS
  Programs <- ReadmeExample
  Expressions <- ProgramParts
  STACK_LIMIT = 32
  NumBound = 1000
INVARIANTS
  NothingUndefined
