SPECIFICATION Spec
CONSTANTS
    MaxRounds = 3
    Sizes = {1}
    BaseScore <- MCBaseScore
    Scores <- MCScores
    MaxFaults = 1
    MaxHands = 0
    MaxLaunches = 2
INVARIANT StopIsFinal
CHECK_DEADLOCK FALSE
