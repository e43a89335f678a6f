SPECIFICATION Spec
CONSTANTS
    c1 = c1
    c2 = c2
    s1 = s1
    s2 = s2
    Clients = {c1, c2}
    SessionIds = {s1, s2}
    NoSession = NoSession
    Before = 2
    MaxPrompts = 4
INVARIANTS
    OneHome
    InStep
PROPERTIES
    NothingLost
SYMMETRY Symmetric
