CONSTANTS
    a1 = a1
    a2 = a2
    w1 = w1
    r1 = r1
    Agents = {a1}
    Root = root
    TaskNames = {"scan", "review"}
    Operations = {o1, o2}
    Workspaces = {w1}
    Strategies = {"read_only"}
    Capabilities = {"read", "navigate"}
    WriteCapabilities = {}
    Routes = {r1}
    Requests <- ReaderRequests
    NoRoute = NoRoute
    NoAgent = NoAgent
    InvalidHistory = InvalidHistory
    LastEventId = 3
    MaxGeneration = 2
    MaxFaults = 3
SPECIFICATION Spec
INVARIANTS
    TypeOK
    HistoryReplays
    ReplayAgrees
    SettledWithEvidence
PROPERTIES
    DurableHandoffDecides
    ReopenedOnlyByFollowup
    ImplementsTurns
CHECK_DEADLOCK FALSE
