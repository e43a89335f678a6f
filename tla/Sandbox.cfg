SPECIFICATION Spec
CONSTANTS
    Hosts <- MCHosts
    Addresses <- MCAddresses
    Sites <- MCSites
    NoHost = NoHost
    SearchHost <- search
    Policies <- MCPolicies
    Backends = {"local", "docker"}
    MaxBytes <- MCMaxBytes
    NoLimit = NoLimit
    MaxHops = 1
    MaxCalls = 1
CHECK_DEADLOCK FALSE
INVARIANTS
    NothingLeft
    ShownAllowed
PROPERTIES
    WorkerConfined
    CallEnds
