SPECIFICATION TickingSpec
CONSTANTS
    MaxLines = 1
    f1 = f1
    f2 = f2
    null = null
    Frame = {f1, f2}
    HeapLock = TRUE
    Commands <- Backtraces
CHECK_DEADLOCK FALSE
PROPERTY EveryLineAnswered
