CONSTANTS
    a1 = a1
    a2 = a2
    w1 = w1
    r1 = r1
    Agents = {a1, a2}
    Root = root
    TaskNames = {"fix", "port"}
    Operations = {}
    Workspaces = {w1}
    Strategies = {"shared"}
    Capabilities = {"read", "write"}
    WriteCapabilities = {"write"}
    Routes = {r1}
    Requests <- WriterRequests
    NoRoute = NoRoute
    NoAgent = NoAgent
    InvalidHistory = InvalidHistory
    LastEventId = 1
    MaxGeneration = 1
    MaxFaults = 2
SPECIFICATION Spec
INVARIANTS
    WriterHoldsLease
PROPERTIES
    RecoveryLeavesNothingInFlight
SYMMETRY Symmetry
CHECK_DEADLOCK FALSE
