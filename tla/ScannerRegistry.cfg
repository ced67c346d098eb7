CONSTANTS
    Addresses = {a1, a2, a3}
    Rssi <- MCRssi
    Capacity = 2
    Remembered = 1
    WindowTicks = 1
    RetryTicks = 1
    StaleTicks = 1
    MaxNow = 3
    MaxReports = 3
SYMMETRY MCSymmetry
SPECIFICATION Spec
INVARIANTS
    TypeOK
    UniqueAddresses
    WindowAccounting
    FiguresOfThisWindow
    ForgetsOldestFirst
PROPERTIES
    AnnouncedOnce
    LostUnlessForgotten
CHECK_DEADLOCK FALSE
