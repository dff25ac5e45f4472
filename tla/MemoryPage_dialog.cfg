SPECIFICATION Spec
CONSTANTS
    Doc = {d1, d2}
    IndexRun = {r1, r2}
    Parts = 2
    MaxTexts = 1
    MaxActs = 2
    MaxFails = 1
    NoDoc = NoDoc
INVARIANTS IndexedExactly NoMixing
PROPERTIES EditsKept
CHECK_DEADLOCK FALSE
