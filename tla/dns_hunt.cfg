SPECIFICATION Spec
CONSTANTS
    Hosts = {"A", "B", "R"}
    Names <- MCNames
    LocalScope = {"local"}
    LocalSuffixes = {"local", "lan"}
    ServiceLabels = {"_tcp"}
    MultiSuffixes <- MCMultiSuffixes
    Generated <- MCGenerated
    MaxDomains = 2
    MaxRecords = 1
    MaxNames = 2
    MaxEvents = 3
INVARIANTS
    GroupsAddUp
    HitsOnce
    RightHost
CHECK_DEADLOCK FALSE
