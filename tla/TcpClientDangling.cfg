CONSTANTS
    Owners = {"client"}
    SockCap = 2
    MaxSend = 3
    MaxAccepted = 5
    Watermark = 3
SPECIFICATION Spec
INVARIANT NoDanglingChannel
CHECK_DEADLOCK FALSE
