CONSTANTS
    first = first
    second = second
    third = third
    Procs = {first, second, third}
    Resumers = {second, third}
    Workers = {first, second}
    ToolUsers = {second}
    Delegates = {first}
    MaxAtOnce = 2
    NumRuns = 4
    MaxTurns = 1
SPECIFICATION Spec
INVARIANTS
    TypeOK
    HistoryStaysReadable
    SealsOnlyTheDead
    EffectsAreNotDenied
    BranchHasOneWriter
    CrashIsRecoverable
CHECK_DEADLOCK FALSE
