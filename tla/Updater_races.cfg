SPECIFICATION Spec
CONSTANTS
    Setters = {s1}
    Checkers = {}
    Appliers = {a1}
    Channels = {"stable", "prerelease"}
    MaxTag = 2
    Offers <- OddAreStable
    Modes = {"off", "update"}
    MaxSets = 1
    Faults = {"settings", "network", "install", "restart"}
INVARIANTS
    TypeOK
    CacheMatchesChannel
    AutoRespectsSkips
    PendingIsOnDisk
    MarkerWasInstalled
    WakeUpIsDue
PROPERTIES
    StagedStays
CHECK_DEADLOCK FALSE
