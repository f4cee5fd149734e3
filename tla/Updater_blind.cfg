SPECIFICATION Spec
CONSTANTS
    Setters = {s1}
    Checkers = {}
    Appliers = {}
    Channels = {"stable", "prerelease"}
    MaxTag = 1
    Offers <- OddAreStable
    Modes = {"off", "update"}
    MaxSets = 1
    Faults = {"settings"}
PROPERTIES
    WakeUpTakesEffect
CHECK_DEADLOCK FALSE
