CONSTANTS
    lead = lead
    scout = scout
    root = root
    Agents = {lead, scout}
    Root = root
    ParentOf <- Siblings
    MaxConcurrent = 1
    MaxQueued = 2
    MaxTotal = 2
    MaxChildren = 2
    MaxDepth = 2
    Interrupters = {}
    Followers = {f1}
    Observers = {o1}
    OnlySettled = TRUE
    NoAgent = NoAgent
    NoTurn = NoTurn
    MaxGeneration = 1
    MaxDrains = 0
    MaxFaults = 0
SPECIFICATION FairSpec
INVARIANTS
    NoLostIdleWakeup
PROPERTIES
    TurnsAreAnswered
CHECK_DEADLOCK FALSE
