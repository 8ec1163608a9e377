CONSTANTS
    Channel = {3, 4, 5}
    Event = {"read"}
    InitialSize = 3
SPECIFICATION Spec
INVARIANT Consistent
PROPERTIES NoStarvation ImplementsPoller
CHECK_DEADLOCK FALSE
