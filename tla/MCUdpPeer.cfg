CONSTANTS
    Sizes = {0, 1, 2, 3, 7}
    MaxDatagram = 7
    FixedSize = 2
    FirstSize = 3
    MaxArrivals = 4
SPECIFICATION UdpSpec
INVARIANT WholeInOrder
PROPERTY DatagramsAreTaken
CHECK_DEADLOCK FALSE
