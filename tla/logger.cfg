SPECIFICATION FairSpec
CONSTANTS
    tick = tick
    io = io
    dev = dev
    Thread = {tick, io, dev}
    Closer = tick
    MaxLines = 4
CHECK_DEADLOCK FALSE
INVARIANTS
    NothingLostOnTheWay
    ShutdownFlushes
PROPERTIES
    ImplementsLogFile
    ShutdownReturns
