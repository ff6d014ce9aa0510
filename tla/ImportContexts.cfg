CONSTANTS
  Trees <- Sources
  MaxCalls = 2
SPECIFICATION Spec
CHECK_DEADLOCK FALSE
INVARIANTS
  TypingOnlyNeverRuns
  ContextsMatchExecution
  FactsSayWhereImportsStand
