SPECIFICATION Spec
CONSTANTS
    Users = {u1}
    Nobody = Nobody
    Dialogs = {d1, d2}
    MaxFlight = 2
    MaxCalls = 2
    MaxAsked = 1
SYMMETRY AnyDialog
INVARIANTS NobodyLoggedIn
CHECK_DEADLOCK FALSE
