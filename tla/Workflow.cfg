SPECIFICATION Spec
CONSTANTS
    p1 = p1
    p2 = p2
    p3 = p3
    NoPath = NoPath
    Paths = {p1, p2, p3}
    Norm <- MCNorm
    Tools <- MCTools
    Visible <- MCTools
    MaxSteps = 3
    MaxCalls = 2
    AutoTrim = TRUE
    AutoWriting = TRUE
    Threshold = 8
    Weight <- MCWeight
    MinTurns = 2
    Histories <- MCAll
INVARIANTS
    NoEffectAfterLimit
    AnsweredBeforeRequest
PROPERTIES
    LatestTurnsKept
    SummaryKept
    RunEnds
