SPECIFICATION Spec
CONSTANTS
    Hosts = {"A", "B"}
    Packets <- Segments
    Times = {0, 2}
    TcpTimeout = 2
    UdpTimeout = 1
    MaxFlows = 3
    Skew = 0
    MaxFrames = 5
INVARIANTS
    TypeOK
    Tally
    InitiatorFirst
    ConnectionsApart
PROPERTIES
    KeepsLedger
