SPECIFICATION Spec
CONSTANTS
    a = a
    b = b
    c = c
    d = d
    Ids <- FourIds
    NoId = NoId
    Memory <- CleanMemory
    Versions = {0, 1}
    MaxRows = 3
    Lists <- FourLists
SYMMETRY AnyId
INVARIANTS SizesAgree
CHECK_DEADLOCK FALSE
