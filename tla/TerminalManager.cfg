\* Two terminals.
SPECIFICATION FairSpec
CONSTANTS
    a = a
    b = b
    None = None
    Terminals <- TwoTerminals
    Settings <- AllSettings
INVARIANTS
    ProcessesAccounted
    TranscriptKept
PROPERTIES
    Settles
CHECK_DEADLOCK FALSE
