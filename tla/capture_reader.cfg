SPECIFICATION Spec
CONSTANTS
    Blocks <- MCBlocks
    Records <- MCRecords
    MaxBlocks = 4
    MaxPacketBytes = 50
    MaxBlockBytes = 50
INVARIANTS
    CutKeepsPrefix
    StrictAgrees
    OwnInterface
CHECK_DEADLOCK FALSE
