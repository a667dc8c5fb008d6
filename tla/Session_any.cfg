SPECIFICATION Spec
CONSTANTS
    Users = {u1}
    Nobody = Nobody
    Dialogs = {d1, d2}
    MaxFlight = 3
    MaxCalls = 2
    MaxAsked = 1
CONSTRAINT Bounds
SYMMETRY AnyDialog
INVARIANTS SessionTypeOK AgreeOnUser FatalOnlyWhenOutlived FreedOnlyIfLeft ChangedUnlessRepeated
CHECK_DEADLOCK FALSE
