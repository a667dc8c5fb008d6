SPECIFICATION Spec
CONSTANTS
    a = a
    b = b
    c = c
    d = d
    Ids <- FourIds
    NoId = NoId
    Memory <- AnyMemory
    Versions = {0, 1}
    MaxRows = 4
    Lists <- FourLists
SYMMETRY AnyId
INVARIANTS UpdateTypeOK ViewFollows MovesUp FailsOnlyOnGrowth
PROPERTIES ReturnShowsReply
CHECK_DEADLOCK FALSE
