SPECIFICATION Spec
CONSTANTS
  NumCells = 1
  NumShards = 2
  Needed = 2
  Surplus = 0
  YieldFloor = 1
  Extra = 1
  BatchSize = 2
  Fallback = 1
  MaxRefill = 8
  MaxYield = 1
  MaxPlans = 3
  MaxFaults = 1
INVARIANTS TypeOK MergedBacked UniqueIdsWhenOrderly
