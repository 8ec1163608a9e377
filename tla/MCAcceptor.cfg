CONSTANTS
    MaxFd = 5
    MaxClients = 4
    MaxOthers = 2
SPECIFICATION Spec
INVARIANTS IdleIsReserved MapFollowsDescriptors
PROPERTY ClientsAreAnswered
CHECK_DEADLOCK FALSE
