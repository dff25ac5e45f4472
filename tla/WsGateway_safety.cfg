SPECIFICATION FairSpec
CONSTANTS
    c1 = c1
    Conn = {c1}
    Capacity = 2
    MaxRequests = 3
    MaxChunks = 1
INVARIANTS RepliesInOrder RunThenReply StopNeverPanics
PROPERTIES ImplementsFrameQueue PumpsEnd EveryRequestAnswered
CHECK_DEADLOCK FALSE
