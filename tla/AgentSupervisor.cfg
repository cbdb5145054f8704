CONSTANTS
    lead = lead
    scout = scout
    root = root
    Agents = {lead, scout}
    Root = root
    ParentOf <- Tree
    MaxConcurrent = 1
    MaxQueued = 2
    MaxTotal = 2
    MaxChildren = 1
    MaxDepth = 2
    Interrupters = {i1}
    Followers = {f1, f2}
    Observers = {}
    OnlySettled = FALSE
    NoAgent = NoAgent
    NoTurn = NoTurn
    MaxGeneration = 1
    MaxDrains = 1
    MaxFaults = 1
SPECIFICATION Spec
INVARIANTS
    StartedIsLive
    SlotsBoundLoops
PROPERTIES
    InterruptStopsAll
CONSTRAINT DelegatesOrReopens
ACTION_CONSTRAINT FollowUpsAreFresh
CHECK_DEADLOCK FALSE
