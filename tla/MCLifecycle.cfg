SPECIFICATION FairSpec
CONSTANTS
    Procs = {p, q}
    Gone = Gone
    NoProc = NoProc
    Managers = {"launchd", "systemd"}
    WatchdogFailureThreshold = 2
    MaxFaults = 1
    MaxCommands = 2
CHECK_DEADLOCK FALSE
INVARIANTS
    TypeOK
    FilesFollow
    
    StopSticks
PROPERTIES
    Comeback
