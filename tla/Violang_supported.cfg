SPECIFICATION FairExec
CONSTANTS
  Programs <- SupportedPrograms
  Expressions <- ProgramParts
  STACK_LIMIT = 64
  NumBound = 1000
INVARIANTS
  ResultIsMeaning
  CompiledCodeVerifies
  OperandsFit
  NothingLeftBehind
PROPERTIES
  Halts
  RunsSafely
