SPECIFICATION Spec
CONSTANTS
    t1 = t1
    t2 = t2
    Tables <- OneTable
    Kinds <- JoinOnly
    ServerSends <- AllCalls
    Serial = TRUE
    MaxChains = 1
    MaxEvents = 1
    MaxDrops = 0
    MaxClose = 1
INVARIANTS WindowFound
CHECK_DEADLOCK FALSE
