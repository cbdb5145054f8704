CONSTANTS
    NumMessages = 2
    MaxRetries = 2
    MaxTurns = 1
    MaxFaults = 2
SPECIFICATION FairSpec
INVARIANTS
    LogStaysReadable
    CrossesOnceInOrder
    LogIsTruthful
    TerminalLeavesNothing
PROPERTIES
    RecoverySettles
    QueuedIsSettled
CHECK_DEADLOCK FALSE
