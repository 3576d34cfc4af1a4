SPECIFICATION Spec
CONSTANTS
    MaxSessions = 2
    MaxInbound = 1
    MaxOutbound = 0
    e1 = e1
    e2 = e2
    Endpoint = {e1}
    FdSlots = 2
    SendMayFail = FALSE
    Requests <- Switches
    PadTeams <- TeamPads
INVARIANT RequesterKnowsItsTeam
