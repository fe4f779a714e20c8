SPECIFICATION FitSpec
CONSTANTS
    Gaps <- MCGaps
    MinConnections = 4
    MaxCandidates = 3
    MaxGaps = 6
INVARIANTS
    MissesFolded
    StragglersForgiven
CHECK_DEADLOCK FALSE
