SPECIFICATION FairSpec
CONSTANTS
    r1 = r1
    r2 = r2
    Run = {r1}
    SessionOf <- OneSession
    MaxStreams <- ToolsThenPlain
    MaxSessions = 1
    DbMayFail = TRUE
    LoadOutcomes = {TRUE}
INVARIANTS TypeOK
PROPERTIES CallRecordedFirst RunEnds AnswersRecorded
CHECK_DEADLOCK FALSE
