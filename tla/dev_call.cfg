SPECIFICATION FairSpec
CONSTANTS
    MaxLines = 3
    f1 = f1
    f2 = f2
    null = null
    Frame = {f1, f2}
    HeapLock = FALSE
    Commands <- CallsAndBacktraces
INVARIANTS
    TypeOK
    RunAtMostOnce
    NoCallRefused
    AnswersAreTheirOwn
PROPERTY EveryLineAnswered
