CONSTANTS
    first = first
    second = second
    third = third
    Procs = {first, second}
    Resumers = {second}
    Workers = {first, second}
    ToolUsers = {}
    Delegates = {first}
    MaxAtOnce = 2
    NumRuns = 4
    MaxTurns = 1
SPECIFICATION Spec
INVARIANT
    StaysRestorable
CHECK_DEADLOCK FALSE
