SPECIFICATION Spec
CONSTANTS
    Paths <- MCPaths
    Givens <- MCGivens
    Outside = Outside
    Fold <- MCFold
    SkipDirs = {".git"}
    DefaultPatterns <- MCDefaultPatterns
    Trees <- MCTrees
    Policies <- MCPolicies
    NoList = NoList
    Asked <- MCAsked
    AuditLimit = 1
    MaxCalls = 2
    MaxChanges = 1
CHECK_DEADLOCK FALSE
INVARIANTS
    BaseKept
PROPERTIES
    ProtectedKept
    RefusedShownByPath
    
