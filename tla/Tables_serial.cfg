SPECIFICATION Spec
CONSTANTS
    t1 = t1
    t2 = t2
    Tables <- OneTable
    Kinds <- AllKinds
    ServerSends <- AllCalls
    Serial = TRUE
    MaxChains = 3
    MaxEvents = 2
    MaxDrops = 1
    MaxClose = 2
INVARIANTS TablesTypeOK OneUpdater DialogsMatchQueues SeatHasWindow OwnReply
CHECK_DEADLOCK FALSE
