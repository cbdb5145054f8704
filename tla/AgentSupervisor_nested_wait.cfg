CONSTANTS
    lead = lead
    scout = scout
    root = root
    Agents = {lead, scout}
    Root = root
    ParentOf <- Tree
    MaxConcurrent = 1
    MaxQueued = 2
    MaxTotal = 2
    MaxChildren = 1
    MaxDepth = 2
    Interrupters = {}
    Followers = {}
    Observers = {}
    OnlySettled = TRUE
    NoAgent = NoAgent
    NoTurn = NoTurn
    MaxGeneration = 0
    MaxDrains = 2
    MaxFaults = 0
SPECIFICATION Spec
INVARIANTS
    NestedWaitsAreAccepted
CHECK_DEADLOCK FALSE
