SPECIFICATION FairSpec
CONSTANTS
    MaxRounds = 3
    Sizes = {1, 2}
    BaseScore <- MCBaseScore
    Scores <- MCScores
    MaxFaults = 2
    MaxHands = 1
    MaxLaunches = 5
INVARIANTS
    TypeOK
    RowsOnOwnCheckpoint
    CurvesComplete
    NeverRefused
    ScriptCertifiesSelected
    StopsHeeded
PROPERTIES
    SweepEnds
    ImplementsLoop
CHECK_DEADLOCK FALSE
