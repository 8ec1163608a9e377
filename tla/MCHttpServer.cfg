CONSTANTS
    Scripts <- MCScripts
    Routes <- MCRoutes
    ChunkSize = 2
    MaxScript = 3
    Pipelining = FALSE
SPECIFICATION Spec
INVARIANTS HandledAsSent ResponsesAreWhole
PROPERTY RequestsAnswered
CHECK_DEADLOCK FALSE
