SPECIFICATION FairSpec
CONSTANTS
    a1 = a1
    a2 = a2
    None = None
    Agents = {a1, a2}
    MaxFetches = 5
INVARIANTS
    TypeOK
    FewFetches
    OutputIsLatest
    SendsToListed
PROPERTY PageUsableAgain
