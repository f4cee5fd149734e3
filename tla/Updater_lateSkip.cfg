SPECIFICATION Spec
CONSTANTS
    Setters = {}
    Checkers = {}
    Appliers = {}
    Channels = {"stable", "prerelease"}
    MaxTag = 2
    Offers <- OddAreStable
    Modes = {"update"}
    MaxSets = 1
    Faults = {}
PROPERTIES
    SkipIsHonoured
CHECK_DEADLOCK FALSE
