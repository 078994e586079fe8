\* Text and questions of either provider.
SPECIFICATION FairSpec
CONSTANTS
    NoThread = NoThread
    NoTurn = NoTurn
    NoSession = NoSession
    NoLatestTurn = NoLatestTurn
    MaxMessages = 10
    MaxCheckpoints = 10
    MaxPlans = 10
    MaxActivities = 10
    MaxBuffered = 2
    Settings <- AllSettings
INVARIANTS
    TextExact
    RequestsShown
PROPERTIES
    AnswersSettle
CHECK_DEADLOCK FALSE
