CONSTANTS
    Children = {scout}
    MaxProviderEvents = 4
    MaxToolCalls = 2
    RootEvents = 4
    RootToolCalls = 2
    ApprovalTransitions = TRUE
    MaxFaults = 1
SPECIFICATION FairSpec
INVARIANTS
    TypeOK
    ApprovalIsDecidedOnce
    PendingIsAwaited
    NothingOpenAtHandoff
PROPERTIES
    LoopsEnd
