SPECIFICATION FairSpec
CONSTANTS
    Fds = {1}
    NoFd = 0
    Inputs <- AllInputs
    MaxMsgs = 1
    MaxClosed = 1
    MaxUnsent = 1
    MaxArrived = 2
PROPERTIES MessageReturned
