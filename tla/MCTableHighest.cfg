SPECIFICATION TableSpec
CONSTANTS
    NSeats = 4
    LastTrick = 3
    SeventhTrick = 2
    Colors = {clubs, diamonds, hearts}
    Hearts = hearts
    Values <- MCValues
    Schedules <- Games
INVARIANTS HighestOfLedColorTakes
