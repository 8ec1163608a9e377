CONSTANTS
    Scripts <- KeepAliveScripts
    Routes <- MCRoutes
    ChunkSize = 2
    MaxScript = 3
    Pipelining = FALSE
SPECIFICATION Spec
INVARIANT HandledAsSent
CHECK_DEADLOCK FALSE
