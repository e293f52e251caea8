SPECIFICATION Exec
CONSTANTS
  Programs <- PendingOperand
  Expressions <- ProgramParts
  STACK_LIMIT = 16
  NumBound = 1000
INVARIANTS
  ResultIsMeaning
