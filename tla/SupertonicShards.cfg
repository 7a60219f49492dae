SPECIFICATION Spec
CONSTANTS
    N = 4
    BatchSize = 3
    ChunkSize = 2
    Workers = 2
    MaxPending = 2
    WritesProbe = FALSE
    MaxCrashes = 2
    MaxReruns = 0
INVARIANT
    ManifestComplete
CHECK_DEADLOCK FALSE
