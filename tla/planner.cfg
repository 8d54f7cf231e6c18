SPECIFICATION Spec
CONSTANTS
  Null = Null
  Compact = Compact
  None = None
  MinInt <- MinIntC
  MaxInt = 99
  Graphs <- GraphsC
  CurrentGraph = "g"
  Procedures <- ProceduresC
  Variables <- VariablesC
  Queries <- QueriesC
  Batch = 2
INVARIANTS
  AnswersExact
  RewriteAgrees
CHECK_DEADLOCK FALSE
