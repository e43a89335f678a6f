SPECIFICATION Spec
CONSTANTS
    Tools <- MCTools
    Category <- MCCategory
    Subagents <- MCSubagents
    SubAccess <- MCSubAccess
    SubTools <- MCSubTools
    NoList = NoList
    RoleTools <- MCRoleTools
    Paths = {"a", "b"}
    MaxSteps = 3
    PlanSteps = 1
    ReviewSteps = 2
    Retries = 2
    AutoWriting = TRUE
    MaxCalls = 2
INVARIANTS
    ReadOnlyOutsideWork
    SandboxFirst
    SubagentConfined
    VerdictStands
    WritesAreNamed
PROPERTIES
    PromptEnds
    DeliversReviewed
