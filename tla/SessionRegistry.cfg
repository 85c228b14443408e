SPECIFICATION FairSpec
CONSTANTS
    d1 = d1
    d2 = d2
    n1 = n1
    n2 = n2
    n3 = n3
    None = None
    Devices = {d1, d2}
    Conns = {n1, n2, n3}
    MaxBreaks = 3
INVARIANTS
    NoFinishedSession
    OneLiveLink
    ListedUnlessOverlapped
PROPERTIES
    DeadSessionsLeave
    AgentsServed
