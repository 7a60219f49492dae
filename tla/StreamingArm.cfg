SPECIFICATION FairSpec
CONSTANTS
    MaxCalls = 3
    MaxFaults = 3
INVARIANTS
    TypeOK
    OwnPredictions
PROPERTY CallEnds
\* Nobody has to start another call.
CHECK_DEADLOCK FALSE
