SPECIFICATION FairSpec
CONSTANTS
    t1 = t1
    t2 = t2
    s1 = s1
    s2 = s2
    s3 = s3
    Span = {s1, s2}
    Trace = {t1, t2}
    TraceOf <- TwoTraces
    ErrorSpan = {s1}
    BadSpan = {s2}
    MaxBatch = 3
    Entry = {e1, e2, e3, e4}
    NoEntry = NoEntry
    CanIdle = TRUE
    DbMayFail = FALSE
    MaxLost = 0
PROPERTY CacheDrains
CHECK_DEADLOCK FALSE
