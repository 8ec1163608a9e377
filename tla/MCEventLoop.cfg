CONSTANTS
    LoopThread = loop
    Remote = {r1, r2}
    MaxQueued = 3
SPECIFICATION Spec
INVARIANTS TypeOK NoLostWakeup QuitNotLost BatchIsFixed
PROPERTIES ImplementsExecutor FunctorsRun QuitStops
CHECK_DEADLOCK FALSE
