SPECIFICATION Spec
CONSTANTS
    Fds = {1, 2}
    NoFd = 0
    Inputs <- AllInputs
    MaxMsgs = 1
    MaxClosed = 2
    MaxUnsent = 1
    MaxArrived = 2
INVARIANTS StoreTypeOK InStep RightSender FlagsMatch
PROPERTIES NothingCut Implements
