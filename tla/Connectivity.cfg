SPECIFICATION FairConnectivitySpec
CONSTANTS
    InitialDelay = 10
    MaximumDelay = 320
    MaximumJitter = 2
    AttemptsMax = 6
    MaxFaults = 3
    Leases = {"dns", "nodns", "invalid"}
    ProbeConfigured = TRUE
    MaxLeases = 3
INVARIANTS
    ConnectivityTypeOK
    LossRestartsBackoff
    StateTracksSupervisor
    Doubles
    NeverSpins
PROPERTIES
    KeepsSchedule
    ProbesNewLeasesOnly
    FollowsAssociation
    Reassociates
CHECK_DEADLOCK FALSE
