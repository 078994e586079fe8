\* A restart of the server between two turns of Claude.
SPECIFICATION Spec
CONSTANTS
    NoThread = NoThread
    NoTurn = NoTurn
    NoSession = NoSession
    NoLatestTurn = NoLatestTurn
    None = None
    MaxFailures = 1
    Settings <- RestartedClaude
INVARIANTS
    NothingForgotten
CHECK_DEADLOCK FALSE
