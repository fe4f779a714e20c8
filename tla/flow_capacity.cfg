SPECIFICATION Spec
CONSTANTS
    Hosts = {"A", "B"}
    Packets <- Mixed
    Times = {0, 1, 2}
    TcpTimeout = 2
    UdpTimeout = 1
    MaxFlows = 2
    Skew = 1
    MaxFrames = 4
INVARIANTS
    ExactlyOnce
    CapHolds
    NoGapInside
    DeferralBound
PROPERTIES
    FinishedForAReason
