SPECIFICATION Spec
CONSTANTS
    Flows <- MCFlows
    Kind <- MCKind
    LocalNets = {"A", "X"}
    MinFanout = 2
    MinConnections = 2
    Grades = {50, 60, 75, 82, 88, 95}
    Thresholds = {50, 70}
    MaxFlows = 4
    ProbePayload = 0
    SessionPayload = 1
    MaxTargets = 2
    MaxStarts = 2
INVARIANTS
    TotalsAddUp
    FindingsHaveCause
    SilentSweepFound
    OnlyScopeOutranks
CHECK_DEADLOCK FALSE
