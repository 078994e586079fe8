\* Every kind of storage failure, a failing reconciliation included, and a
\* crash: what survives, and that every dispatch is answered.
SPECIFICATION FairSpec
CONSTANTS
    NoThread = NoThread
    NoTurn = NoTurn
    NoSession = NoSession
    NoLatestTurn = NoLatestTurn
    NoCaller = NoCaller
    NoCommand = NoCommand
    MaxMessages = 3
    MaxCheckpoints = 3
    MaxPlans = 3
    MaxActivities = 3
    Caller = {c1, c2}
    Subscriber = {s1}
    Commands <- MCThreadCommands
    Faults = {"lookup", "rollback", "committed", "receipt", "reconcile"}
    MaxFaults = 2
    MaxCrashes = 1
INVARIANTS
    CommandsCommitOnce
PROPERTIES
    DecisionsAreFinal
    EveryDispatchSettles
