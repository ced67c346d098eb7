SPECIFICATION MonitorSpec
CONSTANTS
    Leases = {"dns"}
    ProbeConfigured = TRUE
    MaxLeases = 4
INVARIANT
    LaterLeaseIsProbed
