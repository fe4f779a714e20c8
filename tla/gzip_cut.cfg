SPECIFICATION ASpec
CONSTANTS
    Hosts = {"A", "B"}
    Packets <- Mixed
    Times = {0, 2}
    TcpTimeout = 3
    UdpTimeout = 2
    MaxFlows = 1
    Skew = 0
    MaxFrames = 1
    MaxSkipped = 1
INVARIANTS
    TruncationIsClean
CHECK_DEADLOCK FALSE
