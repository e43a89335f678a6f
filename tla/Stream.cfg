SPECIFICATION Spec
CONSTANTS
    Chunks = 3
    AllowFallback = TRUE
    MaxBeats = 2
INVARIANTS
    OneReply
    WholeAnswer
PROPERTIES
    StreamEnds
