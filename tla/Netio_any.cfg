SPECIFICATION Spec
CONSTANTS
    MaxConn = 2
    MaxSend = 2
    MaxPending = 2
    Size = 2
    ReadSize = 1
    Faults = {"io", "pack"}
    Patient = FALSE
INVARIANTS TypeOK OneWriter NothingStranded TornOnlyAtTheEnd
PROPERTIES ImplementsOutbox
CHECK_DEADLOCK FALSE
