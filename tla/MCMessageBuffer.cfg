SPECIFICATION Spec
CONSTANTS
    NSeats = 4
    LastTrick = 13
    SeventhTrick = 7
    Colors <- MCColors
    Hearts = "S"
    Values <- MCValues
    Talks <- MCTalks
    BufferSize = 6
INVARIANTS ReceivedAsPushed StreamComplete
PROPERTIES AllReceived
