SPECIFICATION Spec
CONSTANTS
    Leases = {"dns"}
    CounterMax = 2
    Depth = 1
    ArenaCapacity = 1
    AttemptsMax = 2
    Kinds = {"Transport"}
    MaxProduced = 1
    MaxFaults = 3
INVARIANT
    SubscriptionRestored
CHECK_DEADLOCK FALSE
