SPECIFICATION FairProtocolSpec
CONSTANTS
    NSeats = 2
    LastTrick = 2
    SeventhTrick = 1
    Colors = {clubs, hearts}
    Hearts = hearts
    Values <- MCValues
    Schedules <- OneDeal
    Fds = {1, 2, 3}
    NoFd = 0
    ClientMessages <- MCMessages
    MaxBatch = 3
    MaxStored = 9
    Faults = {}
    auto = auto
    user = user
    spare = spare
    Clients = {auto, user, spare}
    Automatic = {auto, spare}
    NoSeat = NoSeat
    Place <- MCPlace
    MaxUpsets = 1
INVARIANTS HandsAgree AnswersFit EndsWell
PROPERTIES EveryoneFinishes PlayerOnTurnAsked
