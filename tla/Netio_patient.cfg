SPECIFICATION FairSpec
CONSTANTS
    MaxConn = 2
    MaxSend = 3
    MaxPending = 2
    Size = 2
    ReadSize = 2
    Faults <- AllFaults
    Patient = TRUE
INVARIANTS NeverDeaf OneReader
PROPERTIES StopAnswered
CHECK_DEADLOCK FALSE
