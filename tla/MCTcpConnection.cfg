CONSTANTS
    Owners = {"server", "client"}
    SockCap = 2
    MaxSend = 3
    MaxAccepted = 5
    Watermark = 3
SPECIFICATION Spec
INVARIANTS OutputIffWriting FinAfterData ClosedOnce ServerReleases
PROPERTIES ImplementsStream WriteCompletes ShutdownCompletes PeerGoneIsClosed
CHECK_DEADLOCK FALSE
