SPECIFICATION Spec
CONSTANTS
    r1 = r1
    r2 = r2
    Run = {r1, r2}
    SessionOf <- OneSession
    MaxStreams <- PlainRuns
    MaxSessions = 1
    DbMayFail = TRUE
    LoadOutcomes = {TRUE}
INVARIANTS AnswersFollowRequest RequestOnceInPrompt
CHECK_DEADLOCK FALSE
