SPECIFICATION Exec
CONSTANTS
  Programs <- ReadmeCondition
  Expressions <- ProgramParts
  STACK_LIMIT = 16
  NumBound = 1000
INVARIANTS
  LastValueIsResult
