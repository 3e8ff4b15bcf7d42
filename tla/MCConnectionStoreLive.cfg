SPECIFICATION FairSpec
CONSTANTS
    Fds = {1, 2}
    NoFd = 0
    Inputs <- AllInputs
    MaxMsgs = 1
    MaxClosed = 1
    MaxUnsent = 1
    MaxArrived = 1
PROPERTIES LingeringGoes
