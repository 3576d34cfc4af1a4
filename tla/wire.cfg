SPECIFICATION Spec

CONSTANTS
    e1 = e1
    e2 = e2
    Endpoint = {e1, e2}
    MaxSessions = 2
    MaxInbound = 1
    MaxOutbound = 0
    Stream <- MCStream
    Length <- MCLength
    Declares <- MCDeclares
    FrameAt <- MCFrameAt
    RecvChunk = 4
    MaxBuffered = 10
    MaxFrames = 2
    Updates <- MCUpdates
    Missing = {0, 1, 2, 3, 4, 5, 6, 9}
    MaxActionChanges = 3

INVARIANTS
    TypeOK
    NothingWaitsUnlessCapped
    BacklogHasACause
    OneReaction
    CommandsAreTheSenders
    ServedByItsSession
    InputIsAllOrNothing

PROPERTIES
    ImplementsDelivery
    AllIsHandled
    UdpStepsOfAcceptor

CHECK_DEADLOCK FALSE
