CONSTANTS
    k1 = k1
    k2 = k2
    k3 = k3
    empty = empty
    small = small
    large = large
    Absent = Absent
    Keys = {k1, k2, k3}
    Values <- MCValues
    SizeOf <- MCSizeOf
    Scratch = 8
    LogCapacity = 2
    Reserve = 1
SPECIFICATION Spec
PROPERTY
    FullMeansLiveRecords
