\* Turns, approvals, conflicts and reverts, with a crash and a restart.
SPECIFICATION Spec
CONSTANTS
    NoThread = NoThread
    NoTurn = NoTurn
    NoSession = NoSession
    NoLatestTurn = NoLatestTurn
    NoRow = NoRow
    NoCount = NoCount
    MaxMessages = 10
    MaxCheckpoints = 10
    MaxPlans = 10
    MaxActivities = 10
    Thread = t1
    Histories <- AllHistories
    ReadLimit = 30
    MaxCrashes = 1
INVARIANTS
    TablesExact
    SnapshotExact
    RevertRestoresHistory
    SettledStaysSettled
CHECK_DEADLOCK FALSE
