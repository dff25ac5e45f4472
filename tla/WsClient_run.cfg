SPECIFICATION FairSpec
CONSTANTS
    User = {u1, u2}
    NoUser = NoUser
    Call = {c1}
    MaxLogins = 2
    MaxDrops = 2
INVARIANTS OnlyCurrentDelivers PendingOnCurrent SpeaksForUser CacheOfUser
PROPERTY Recovers
CHECK_DEADLOCK FALSE
