SPECIFICATION FairSpec
CONSTANTS
    MaxMishaps = 3
    ByteMax = 2
    DeviceName = 16
    Builds <- MCBuilds
    ForeignFrames <- MCForeignFrames
    MaxQueued = 2
INVARIANTS
    TypeOK
    AcceptedSettingsFit
    LabelsAccumulate
    NeverToldOlder
PROPERTIES
    AdvertisesAgain
    BeaconIdentified
