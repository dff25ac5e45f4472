SPECIFICATION Spec
CONSTANTS
    Session = {s1, s2}
    Old = {s1}
    New = New
    Empty = Empty
    MaxCached = 1
    MaxSends = 2
    MaxSelects = 1
    MaxDrops = 1
INVARIANTS TypeOK NothingTwice OwnMessages AnswerShown
PROPERTIES SentStays
CHECK_DEADLOCK FALSE
