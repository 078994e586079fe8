\* A client with lost connections, restarts, failures and slow requests.
SPECIFICATION FairSpec
CONSTANTS
    None = None
    Settings <- AllSettings
INVARIANTS
    TypeOK
PROPERTIES
    ImplementsView
    CatchesUp
CHECK_DEADLOCK FALSE
