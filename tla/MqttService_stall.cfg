SPECIFICATION FairSpec
CONSTANTS
    Leases = {"dns"}
    CounterMax = 2
    Depth = 1
    ArenaCapacity = 1
    AttemptsMax = 2
    Kinds = {"Transport", "Capacity"}
    MaxProduced = 2
    MaxFaults = 1
PROPERTY
    StalledStreamEnds
CHECK_DEADLOCK FALSE
