SPECIFICATION Spec
CONSTANTS
    Setters = {s1, s2}
    Checkers = {c1}
    Appliers = {}
    Channels = {"stable", "prerelease"}
    MaxTag = 2
    Offers <- OddAreStable
    Modes = {"update"}
    MaxSets = 2
    Faults = {}
INVARIANTS
    CacheMatchesChannel
CHECK_DEADLOCK FALSE
