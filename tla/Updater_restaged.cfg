SPECIFICATION Spec
CONSTANTS
    Setters = {}
    Checkers = {}
    Appliers = {a1, a2}
    Channels = {"stable", "prerelease"}
    MaxTag = 2
    Offers <- OddAreStable
    Modes = {"update"}
    MaxSets = 1
    Faults = {}
PROPERTIES
    StagedStaysAlways
CHECK_DEADLOCK FALSE
