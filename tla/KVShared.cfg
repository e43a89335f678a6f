SPECIFICATION Spec
CONSTANTS
    c1 = c1
    c2 = c2
    Clients = {c1, c2}
    Embedders = {c1}
    Names <- FewNames
    Keys <- MCKeys
    Clean <- MCClean
    Scopes <- MCScopes
    Limits = {1, 2}
    TTLs <- MCTTLs
    Never = Never
    None = None
    MaxTime = 2
    MaxWrites = 2
PROPERTIES
    ClearKeepsLive
    EmbedderOrphansNothing
