SPECIFICATION Spec
CONSTANTS
    d1 = d1
    d2 = d2
    Devices = {d1, d2}
    MaxKeys = 1
    MaxFaults = 1
    MaxKeyFaults = 0
    Fallback = FALSE
    TornWrites = TRUE
INVARIANT FileSurvivesCrash
