SPECIFICATION FairSpec
CONSTANTS
    MaxSessions = 2
    MaxInbound = 1
    MaxOutbound = 0
    e1 = e1
    e2 = e2
    Endpoint = {e1, e2}
    FdSlots = 2
    SendMayFail = FALSE
    Requests <- Spawns
    PadTeams <- AllPads
PROPERTIES
    HungUpLeaves
    ClosedLeaves
    InGameIsServed
