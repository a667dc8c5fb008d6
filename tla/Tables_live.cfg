SPECIFICATION FairSpec
CONSTANTS
    t1 = t1
    t2 = t2
    Tables <- TwoTables
    Kinds <- AllKinds
    ServerSends <- Benign
    Serial = TRUE
    MaxChains = 2
    MaxEvents = 1
    MaxDrops = 0
    MaxClose = 1
PROPERTIES ChainsEnd SeatResolved
CHECK_DEADLOCK FALSE
