SPECIFICATION Spec
CONSTANTS
    MaxLines = 2
    f1 = f1
    f2 = f2
    null = null
    Frame = {f1, f2}
    HeapLock = FALSE
    Commands <- Calls
INVARIANT TimedOutNeverRan
