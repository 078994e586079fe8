\* Crashes, updates and installations.
SPECIFICATION DesktopFairSpec
CONSTANTS
    Bounds <- AllBounds
INVARIANTS
    DesktopTypeOK
    ServersStopped
    DownloadKept
PROPERTIES
    ServerComesBack
CHECK_DEADLOCK FALSE
