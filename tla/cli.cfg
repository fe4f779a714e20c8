SPECIFICATION CliSpec
CONSTANTS
    Hosts = {"A", "B"}
    Packets <- Few
    Times = {0, 2}
    TcpTimeout = 3
    UdpTimeout = 2
    MaxFlows = 1
    Skew = 0
    MaxFrames = 3
    MaxSkipped = 1
    MaxRuns = 2
INVARIANTS
    CleanExit
    CompleteSummary
PROPERTIES
    ComesBack
CHECK_DEADLOCK FALSE
