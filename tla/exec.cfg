SPECIFICATION Spec
CONSTANTS
  Null = Null
  Compact = Compact
  Unflat = Unflat
  NoExpr = NoExpr
  NoFact = NoFact
  MinInt <- MinIntC
  MaxInt = 3
  Stores <- StoresC
  Adj <- AdjC
  ScanBatch = 2
  ExpandBatch = 1
  SortChunk = 2
  MaxDepth = 2
  MaxRows = 4
INVARIANTS
  FactorizedAgrees
PROPERTIES
  FilterProjectExact
  LimitOffsetCut
  SortExact
  ExpandExact
  JoinExact
  AggregateExact
CHECK_DEADLOCK FALSE
