SPECIFICATION FairSpec
CONSTANTS
    d1 = d1
    d2 = d2
    Devices = {d1, d2}
    MaxKeys = 2
    MaxFaults = 2
    MaxKeyFaults = 1
    Fallback = TRUE
    TornWrites = TRUE
INVARIANTS
    TypeOK
    NoDeviceShutOut
    AckedDevicesInFile
    KeysAgree
PROPERTIES
    EventuallyConnected
    KeptOutByOtherKey
    RestartHeals
    ImplementsKeyRegistry
