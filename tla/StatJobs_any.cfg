SPECIFICATION FairSpec
CONSTANTS
    Jobs = {j1, j2}
    Gui = Gui
    NoJob = NoJob
    Ticks = 1
    MaxPackets = 2
    MaxRaces = 2
INVARIANTS JobsTypeOK FreedOnlyWhenQuick OneWritePerRace WorkerErrorsAtLossOnly ConnectedMeansStarted
PROPERTIES DestructorReturns JobsEndAfterLoss
CHECK_DEADLOCK FALSE
