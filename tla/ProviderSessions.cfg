\* Sessions across changes of mode, failures, restarts and compactions.
SPECIFICATION FairSpec
CONSTANTS
    NoThread = NoThread
    NoTurn = NoTurn
    NoSession = NoSession
    NoLatestTurn = NoLatestTurn
    None = None
    MaxFailures = 1
    Settings <- AllSettings
INVARIANTS
    SessionsShown
    ConversationKept
PROPERTIES
    TurnsSettle
CHECK_DEADLOCK FALSE
