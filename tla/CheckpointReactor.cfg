\* Turns and reverts: careful, hasty, with diffs, with a failure, and without git.
SPECIFICATION ReactorLiveSpec
CONSTANTS
    NoThread = NoThread
    NoTurn = NoTurn
    NoSession = NoSession
    NoLatestTurn = NoLatestTurn
    MaxMessages = 10
    MaxCheckpoints = 10
    MaxPlans = 10
    MaxActivities = 10
    Settings <- AllSettings
    Provisional = Provisional
    NoJob = NoJob
INVARIANTS
    CheckpointsSound
    ConversationMatches
PROPERTIES
    RevertUndoesEdits
    RevertsAnswered
CHECK_DEADLOCK FALSE
