SPECIFICATION FairSpec
CONSTANTS
    MaxInstalls = 3
    MaxFaults = 5
INVARIANTS
    TypeOK
    InstalledVersionRuns
    ConfigFitsProgram
PROPERTIES
    InstalledServiceServes
    StopHonoured
