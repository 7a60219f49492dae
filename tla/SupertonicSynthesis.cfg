SPECIFICATION FairSpec
CONSTANTS
    N = 4
    BatchSize = 3
    ChunkSize = 2
    Workers = 2
    MaxPending = 2
    WritesProbe = TRUE
    MaxCrashes = 2
    MaxReruns = 1
INVARIANTS
    TypeOK
    RowsBacked
    ManifestCompleteFromEmptyShards
PROPERTIES
    RestartCompletes
\* The stage is not started again for ever after it has passed.
CHECK_DEADLOCK FALSE
