\* One crash and one storage failure of any kind but a failing
\* reconciliation.
SPECIFICATION FairSpec
CONSTANTS
    NoThread = NoThread
    NoTurn = NoTurn
    NoSession = NoSession
    NoLatestTurn = NoLatestTurn
    NoCaller = NoCaller
    NoCommand = NoCommand
    MaxMessages = 3
    MaxCheckpoints = 3
    MaxPlans = 3
    MaxActivities = 3
    Caller = {c1, c2}
    Subscriber = {s1}
    Commands <- MCCommands
    Faults = {"lookup", "rollback", "committed", "receipt"}
    MaxFaults = 1
    MaxCrashes = 1
INVARIANTS
    TypeOK
    DecidesOnCommittedState
    DeliveredWithoutGaps
    ReadModelCoversDelivered
    AnswersAreVisible
PROPERTIES
    ImplementsLedger
