SPECIFICATION Spec
CONSTANTS
    MaxSessions = 2
    MaxInbound = 1
    MaxOutbound = 3
    e1 = e1
    e2 = e2
    Endpoint = {e1}
    FdSlots = 2
    SendMayFail = FALSE
    Requests <- SpawnsAndSwitches
    PadTeams <- TeamPads
INVARIANTS
    TypeOK
    DisconnectIsLast
    NoGhostSessions
    LoggedInIsAnnounced
    WorldOnlyToPlayers
    RosterConverges
    RosterBeforeNews
PROPERTY ImplementsLifecycle
