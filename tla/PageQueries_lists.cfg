SPECIFICATION Spec
CONSTANTS
    Entry = {e1, e2}
    Single = e1
    Change = {m1, m2}
INVARIANTS SuccessShown
PROPERTIES SuccessStays PageLoads
CHECK_DEADLOCK FALSE
