CONSTANTS
    r1 = r1
    r2 = r2
    all = all
    one = one
    Results = {r1, r2}
    Waiters = {all, one}
    Interest <- AllOrOne
    MaxRetries = 2
    MaxFaults = 2
SPECIFICATION FairSpec
INVARIANTS
    NoMissedWakeup
    UpdatesHappenOnce
PROPERTIES
    RecoveryNotifiesAll
    WaitersAreServed
CHECK_DEADLOCK FALSE
