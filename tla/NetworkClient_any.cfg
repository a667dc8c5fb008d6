SPECIFICATION ClientFairSpec
CONSTANTS
    MaxConn = 3
    MaxSend = 2
    MaxPending = 0
    Size = 2
    ReadSize = 1
    Faults <- AllFaults
    Patient = FALSE
    ProbeMayFail = TRUE
INVARIANTS ClientTypeOK LossIsShown PointsAtDialog RetryNeverKillsSession
           StartedMeansSecure ConnectedMeansListening
PROPERTIES FreshSessionsSeparate ReconnectsAfterCleanLoss
CHECK_DEADLOCK FALSE
