SPECIFICATION Spec
CONSTANTS
    r1 = r1
    r2 = r2
    Run = {r1}
    SessionOf <- OneSession
    MaxStreams <- ToolsThenPlain
    MaxSessions = 1
    DbMayFail = FALSE
    LoadOutcomes = {}
INVARIANT FinalMessageSaved
CHECK_DEADLOCK FALSE
