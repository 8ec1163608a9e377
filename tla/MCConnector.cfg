CONSTANTS
    MaxAttempts = 6
SPECIFICATION Spec
INVARIANTS AssertsHold NoLeak StopReleases ConnectsOnce
PROPERTIES KeepsTrying
CHECK_DEADLOCK FALSE
