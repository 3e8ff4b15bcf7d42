SPECIFICATION Spec
CONSTANTS
    NSeats = 2
    LastTrick = 1
    SeventhTrick = 1
    Colors = {clubs, hearts}
    Hearts = hearts
    Values <- OneValue
    Schedules <- OneDeal
    Fds = {1, 2, 3}
    NoFd = 0
    ClientMessages <- AllMessages
    MaxBatch = 2
    MaxStored = 2
    Faults = {}
PROPERTIES NotReturnedAsClosed
