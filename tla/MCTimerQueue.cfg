CONSTANTS
    LoopThread = loop
    Adders = {loop, r1}
    Serialised = TRUE
    MaxTimers = 3
    Starts = {0, 1}
    Delays = {0, 1}
    MaxTime = 2
    IntModulus = 16
SPECIFICATION Spec
INVARIANT OwnedOnce
PROPERTIES CallsAreDue TimersFire CancelledAreFreed
CHECK_DEADLOCK FALSE
