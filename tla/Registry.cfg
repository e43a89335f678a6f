SPECIFICATION Spec
CONSTANTS
    t1 = t1
    t2 = t2
    main = main
    Threads = {t1, t2}
    Main = main
    Urls = {1, 2}
    HostModels <- MCHostModels
    Changing = {2}
    Catalogue <- MCCatalogue
    Configured <- MCConfigured
    PromoteRoles <- MCPromoteRoles
    BasePriority = 200
    MaxNodes = 2
    Contexts <- MCContexts
    TTL = 1
    MaxResolve = 1
    MaxTime = 3
INVARIANTS
    FreshResults
    GoneHostsLeave
PROPERTIES
    TakesTurns
    PromotesBest
CHECK_DEADLOCK FALSE
SYMMETRY MCSymmetry
