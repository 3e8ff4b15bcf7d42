SPECIFICATION FairSpec
CONSTANTS
    NSeats = 2
    LastTrick = 2
    SeventhTrick = 1
    Colors = {clubs, hearts}
    Hearts = hearts
    Values <- MCValues
    Schedules <- TwoDeals
    Fds = {1, 2}
    NoFd = 0
    ClientMessages <- WellFormed
    MaxBatch = 1
    MaxStored = 1
    Faults = {"Disconnect"}
INVARIANTS RejoinHand
PROPERTIES TableSpec CandidatesResolved
