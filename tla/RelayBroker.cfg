SPECIFICATION Spec
CONSTANTS
    c1 = c1
    c2 = c2
    d1 = d1
    d2 = d2
    n1 = n1
    n2 = n2
    n3 = n3
    None = None
    Devices = {d1, d2}
    Conns = {n1, n2, n3}
    Requests = {c1, c2}
    WireCap = 1
    MaxBreaks = 2
    Kind <- MCKind
    Target <- MCTarget
SYMMETRY MCSymmetry
INVARIANT AnsweredByTarget
PROPERTIES
    IsRequestRouting
    ImplementsDeviceCalls
