SPECIFICATION Spec
CONSTANTS
    c1 = c1
    c2 = c2
    Clients = {c1}
    Embedders = {c1}
    Names <- AllNames
    Keys <- MCKeys
    Clean <- MCClean
    Scopes <- MCScopes
    Limits = {1, 2}
    TTLs <- MCTTLs
    Never = Never
    None = None
    MaxTime = 2
    MaxWrites = 3
INVARIANTS
    NoOrphans
PROPERTIES
    EvictsOnlyExpired
    AnswersFromMap
