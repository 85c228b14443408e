SPECIFICATION Spec
CONSTANTS
    c1 = c1
    c2 = c2
    c3 = c3
    s1 = s1
    s2 = s2
    None = None
    Requests = {c1, c2, c3}
    Sessions = {s1}
    WireCap = 1
    Kind <- MCKind
INVARIANT SerialAnswerIsOwn
