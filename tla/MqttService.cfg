SPECIFICATION FairSpec
CONSTANTS
    Leases = {"dns", "nodns", "invalid"}
    CounterMax = 3
    Depth = 2
    ArenaCapacity = 1
    AttemptsMax = 2
    Kinds = {"Transport", "Capacity"}
    MaxProduced = 3
    MaxFaults = 3
INVARIANTS
    TypeOK
    MessageAccounting
    OneLossPerSession
    FailureAccounting
    SubscriptionKept
    StateTracksTask
PROPERTIES
    KeepsOutboxPromise
    CountersNeverDecrease
    Recovers
    Drains
    StopsWithoutLease
CHECK_DEADLOCK FALSE
