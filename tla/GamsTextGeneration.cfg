SPECIFICATION FairSpec
CONSTANTS
  NumCells = 2
  NumShards = 3
  MaxIndex = 2
  MaxYield = 1
  Target = 2
  Divisor = 1
  RefillCap = 2
  BatchSize = 2
  Fallback = 1
  MaxRounds = 2
  MaxPerShard = 3
  MaxPerCell = 6
  MaxTotal = 9
  MaxRequested = 20
  RowsPerAttempt = 2
  MaxOoms = 1
  MaxErrors = 1
  MaxCrashes = 1
  MaxReruns = 1
  MaxUnbalanced = 1
INVARIANTS TypeOK EvidenceAgrees WithinBudgets FreshTasks
PROPERTIES StageEnds ImplementsLedger
