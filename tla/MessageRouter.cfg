SPECIFICATION RouterSpec
CONSTANTS
    Frames <- MCFrames
    Request = {q1}
    Droppable = {"audio", "message"}
    MaxFrames = 4
INVARIANTS
    ChannelsComplete RequestsJustified
CHECK_DEADLOCK FALSE
