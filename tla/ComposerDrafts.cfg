\* Drafts of one project.
SPECIFICATION Spec
CONSTANTS
    t1 = t1
    t2 = t2
    None = None
    Threads <- TwoThreads
    Settings <- AllSettings
INVARIANTS
    DraftsSound
    TextKept
    SentOnceInOrder
PROPERTIES
    DraftsSurviveReload
CHECK_DEADLOCK FALSE
