SPECIFICATION FairSpec
CONSTANTS
    NumWorkers = 3
    Total = 5
    Prefetch = 3
    MaxKills = 1
INVARIANTS
    TypeOK
    ExactlyOnce
    PutNeverBlocks
    NothingLost
    CleanReturn
PROPERTIES
    ConsumeEnds
\* The system stops after the call has ended.
CHECK_DEADLOCK FALSE
