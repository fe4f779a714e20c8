SPECIFICATION Spec
CONSTANTS
    Subs <- MCSubs
    Labels = {"p", "q", "r", "s"}
    MinQueries = 2
    MinUnique = 2
    ConstantShare = 75
    MaxConstantDepth = 2
    MaxQueries = 6
INVARIANTS
    PayloadKept
    OneRouting
    RoutingAddsNothing
CHECK_DEADLOCK FALSE
