SPECIFICATION TraceSpec
CONSTANTS
    MaxRuns = 1
    Captures = {"off", "metadata", "full"}
    Thinkings = {"off", "summary", "raw"}
    Modes = {"single", "direct", "routed team", "team"}
    Files = {f}
    MaxSteps = 1
    MaxCalls = 2
    Failing = {1}
    Thoughts = {{"words", "named", "quoted"}}
    MaxAttempts = 2
CHECK_DEADLOCK FALSE
INVARIANTS
    NothingRefused
    CompletedIsWhole
    ToolsTold
    ExamplesAreAnswers
    
