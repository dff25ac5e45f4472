SPECIFICATION Spec
CONSTANTS
    t1 = t1
    t2 = t2
    s1 = s1
    s2 = s2
    s3 = s3
    Span = {s1, s2, s3}
    Trace = {t1}
    TraceOf <- OneTrace
    ErrorSpan = {s3}
    BadSpan = {}
    MaxBatch = 2
    Entry = {e1, e2, e3}
    NoEntry = NoEntry
    CanIdle = TRUE
    DbMayFail = TRUE
    MaxLost = 1
SYMMETRY EntrySymmetry
INVARIANTS OneTraceRow NoSpanTwice TotalsCoverUnlessEvicted CleanMeansWritten
PROPERTY LossNeedsFlush
CHECK_DEADLOCK FALSE
