SPECIFICATION Spec
CONSTANTS
    Thread = {t1, t2}
    Message = {m1, m2}
    Blank = Blank
    LongLabel = {m2}
    DbMayFail = TRUE
    LoadOutcomes = {TRUE, FALSE}
    MaxSessions = 1
    MaxLen = 3
SYMMETRY Symmetry
PROPERTIES LossNeedsOverlap DeletedStaysDeleted ImplementsLog
