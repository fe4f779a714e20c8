SPECIFICATION Spec
CONSTANTS
    Packets <- MCPackets
    MaxVlanTags = 4
    MaxExtHeaders = 8
INVARIANTS
    CutDescribesSame
    HonestDecoded
    FragmentsTogether
CHECK_DEADLOCK FALSE
