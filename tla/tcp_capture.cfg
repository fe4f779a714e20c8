SPECIFICATION TSpec
CONSTANTS
    Hosts = {"C", "S"}
    Packets <- SegmentPackets
    Times = {0}
    TcpTimeout = 1
    UdpTimeout = 1
    MaxFlows = 4
    Skew = 0
    MaxFrames = 8
    ProbePayload = 0
    SessionPayload = 1
    MaxTargets = 1
    MaxStarts = 1
    MaxConnections = 2
    MaxExtras = 1
INVARIANTS
    OneFlowPerConnection
    NeverMixed
    ServedMeansAccepted
    SessionServed
    ClientAttempts
    StealthUnanswered
CHECK_DEADLOCK FALSE
