---------------------------- MODULE OnlineBridge ----------------------------
(***************************************************************************)
(* MvpOnlineBridge (net/world_packets.cpp), which the engine thread runs   *)
(* once per tick: it drains the commands, applies them one by one to the   *)
(* table of sessions, posts the packets they call for, and posts a         *)
(* snapshot of the world to every session that asked for updates.          *)
(*                                                                         *)
(* A session's entry is in `joined`; its fields are read only there.       *)
(***************************************************************************)
EXTENDS Queues

CONSTANT PadTeams  \* the teams that own a repair pad on the map

(* EnsureFallbackRepairPads gives both teams a pad; a map may have neutral *)
(* pads too.                                                               *)
ASSUME PadAssumption == Team \subseteq PadTeams /\ PadTeams \subseteq Team \cup {NoTeam}

VARIABLES
    ticking,  \* whether a tick is under way
    batch,    \* the drained commands of this tick that are still to apply
    joined,   \* the keys of sessions_
    team,     \* SessionState::team
    wants,    \* SessionState::wants_updates
    spawned   \* SessionState::spawned

bridgeVars == <<ticking, batch, joined, team, wants, spawned>>

BridgeTypeOK ==
    /\ ticking \in BOOLEAN
    /\ batch \in Seq(Command)
    /\ joined \subseteq Sid
    /\ team \in [Sid -> Team \cup {NoTeam}]
    /\ wants \subseteq Sid
    /\ spawned \subseteq Sid

BridgeInit ==
    /\ ticking = FALSE
    /\ batch = <<>>
    /\ joined = {}
    /\ team = [s \in Sid |-> NoTeam]
    /\ wants = {}
    /\ spawned = {}

(* The ids of S in the order in which a std::map visits them. *)
Visits(S) ==
    {q \in [1 .. Cardinality(S) -> S] : \A i, j \in DOMAIN q : i < j => q[i] < q[j]}

----------------------------------------------------------------------------
(* Tick, up to the drained batch. *)
BeginTick ==
    /\ ~ticking
    /\ \A s \in Sid : Len(outbound[s]) <= MaxOutbound
    /\ ticking' = TRUE
    /\ batch' = inbound
    /\ inbound' = <<>>
    /\ UNCHANGED <<outbound, joined, team, wants, spawned>>

(* HandleCommand takes the next command of the batch, of one of the kinds. *)
Take(kinds) ==
    /\ ticking
    /\ batch # <<>>
    /\ Head(batch).kind \in kinds
    /\ batch' = Tail(batch)
    /\ UNCHANGED <<ticking, inbound>>

(* Mutant: the newcomer is announced before its player id is set. *)
AddSessionUnnumbered ==
    /\ Take({"ClientConnected"})
    /\ LET s == Head(batch).sid IN
         /\ joined' = joined \cup {s}
         /\ team' = [team EXCEPT ![s] = NoTeam]
         /\ Post([r \in Sid |-> IF r \in joined THEN <<Msg("AddToRoster", 0, NoTeam)>>
                                               ELSE <<>>])
    /\ UNCHANGED <<wants, spawned>>

(* Mutant: the newcomer is broadcast on every connection. *)
AddSessionBroadcast ==
    /\ Take({"ClientConnected"})
    /\ LET s == Head(batch).sid IN
         /\ joined' = joined \cup {s}
         /\ team' = [team EXCEPT ![s] = NoTeam]
         /\ Post([r \in Sid |-> <<Msg("AddToRoster", s, NoTeam)>>])
    /\ UNCHANGED <<wants, spawned>>

(* Mutant: only the peers that asked for updates hear of the newcomer. *)
AddSessionToWatchers ==
    /\ Take({"ClientConnected"})
    /\ LET s == Head(batch).sid IN
         /\ joined' = joined \cup {s}
         /\ team' = [team EXCEPT ![s] = NoTeam]
         /\ Post([r \in Sid |-> IF r \in wants THEN <<Msg("AddToRoster", s, NoTeam)>>
                                              ELSE <<>>])
    /\ UNCHANGED <<wants, spawned>>

(* AddSession and EmitRosterCatchup: the newcomer hears of everybody, and  *)
(* everybody of the newcomer.                                              *)
AddSession ==
    /\ Take({"ClientConnected"})
    /\ LET s == Head(batch).sid IN
         IF s \in joined
         THEN UNCHANGED <<joined, team, wants, spawned, outbound>>
         ELSE /\ joined' = joined \cup {s}
              /\ team' = [team EXCEPT ![s] = NoTeam]
              /\ \E others \in Visits(joined) :
                   Post([r \in Sid |->
                     CASE r = s -> [i \in DOMAIN others |->
                                      Msg("AddToRoster", others[i], team[others[i]])]
                       [] r \in joined -> <<Msg("AddToRoster", s, NoTeam)>>
                       [] OTHER -> <<>>])
              /\ UNCHANGED <<wants, spawned>>

MarkWantUpdates ==
    /\ Take({"WantUpdates"})
    /\ wants' = wants \cup ({Head(batch).sid} \cap joined)
    /\ UNCHANGED <<joined, team, spawned, outbound>>

(* RemoveSession tells nobody. *)
RemoveSession ==
    /\ Take({"Disconnected"})
    /\ LET s == Head(batch).sid IN
         /\ joined' = joined \ {s}
         /\ team' = [team EXCEPT ![s] = NoTeam]
         /\ wants' = wants \ {s}
         /\ spawned' = spawned \ {s}
    /\ UNCHANGED outbound

(* Mutant: only the peers that asked for updates hear of the new team. *)
TeamSwitchToWatchers ==
    /\ Take({"Reincarnate"})
    /\ Head(batch).team # NoTeam
    /\ LET s == Head(batch).sid
           t == Head(batch).team
       IN  IF s \notin joined
           THEN UNCHANGED <<team, outbound>>
           ELSE /\ team' = [team EXCEPT ![s] = t]
                /\ Post([r \in Sid |->
                     CASE r = s -> <<Msg("ReincarnateResult", s, t)>>
                       [] r \in wants \ {s} -> <<Msg("UpdateStats", s, t)>>
                       [] OTHER -> <<>>])
    /\ UNCHANGED <<joined, wants, spawned>>

(* HandleTeamSwitch: the requester gets the result on TCP, all others the  *)
(* new team.                                                               *)
HandleTeamSwitch ==
    /\ Take({"Reincarnate"})
    /\ Head(batch).team # NoTeam
    /\ LET s == Head(batch).sid
           t == Head(batch).team
       IN  IF s \notin joined
           THEN UNCHANGED <<team, outbound>>
           ELSE /\ team' = [team EXCEPT ![s] = t]
                /\ Post([r \in Sid |->
                     CASE r = s -> <<Msg("ReincarnateResult", s, t)>>
                       [] r \in joined \ {s} -> <<Msg("UpdateStats", s, t)>>
                       [] OTHER -> <<>>])
    /\ UNCHANGED <<joined, wants, spawned>>

(* HandleReincarnate for a spawn.  ResolveSpawnPad finds a pad exactly if  *)
(* the session's team owns one; SpawnOnPad then spawns the tank.           *)
HandleSpawn ==
    /\ Take({"Reincarnate"})
    /\ Head(batch).team = NoTeam
    /\ LET s == Head(batch).sid
           t == team[s]
       IN  CASE s \notin joined -> UNCHANGED <<spawned, outbound>>
             [] s \in joined /\ t \notin PadTeams ->
                  /\ Post([r \in Sid |-> IF r = s THEN <<Msg("ReincarnateResult", s, t)>>
                                                  ELSE <<>>])
                  /\ UNCHANGED spawned
             [] OTHER ->
                  /\ spawned' = spawned \cup {s}
                  /\ Post([r \in Sid |->
                       CASE r = s -> <<Msg("TankSpawn", s, t), Msg("ReincarnateResult", s, t),
                                       Msg("BirthNotice", s, t)>>
                         [] r \in joined \ {s} -> <<Msg("BirthNotice", s, t)>>
                         [] OTHER -> <<>>])
    /\ UNCHANGED <<joined, team, wants>>

(* The login strings are not used here, and production installs no input   *)
(* handler for HandleActionInput to call.                                  *)
IgnoreCommand ==
    /\ Take({"LoginUser", "LoginPassword", "ActionInput"})
    /\ UNCHANGED <<joined, team, wants, spawned, outbound>>

(* Mutant: sessions that have not spawned are skipped. *)
EmitSnapshotsToSpawned ==
    /\ ticking
    /\ batch = <<>>
    /\ ticking' = FALSE
    /\ Post([r \in Sid |-> IF r \in wants \cap spawned
                           THEN <<Msg("SelfUpdate", r, NoTeam)>> ELSE <<>>])
    /\ UNCHANGED <<batch, inbound, joined, team, wants, spawned>>

(* EmitSnapshots ends the tick: the map with its pads to a session that    *)
(* has not spawned, the others' tanks and its own to one that has.  The    *)
(* world is that of the fallback, the tanks of the sessions.               *)
EmitSnapshots ==
    /\ ticking
    /\ batch = <<>>
    /\ ticking' = FALSE
    /\ Post([r \in Sid |->
         CASE r \notin joined \cap wants -> <<>>
           [] r \in (joined \cap wants) \ spawned -> <<Msg("EntryMap", r, NoTeam)>>
           [] r \in joined \cap wants \cap spawned /\ spawned \subseteq {r} ->
                <<Msg("SelfUpdate", r, NoTeam)>>
           [] OTHER -> <<Msg("OthersUpdate", r, NoTeam), Msg("SelfUpdate", r, NoTeam)>>])
    /\ UNCHANGED <<batch, inbound, joined, team, wants, spawned>>

TickStep ==
    \/ BeginTick
    \/ AddSession \/ MarkWantUpdates \/ RemoveSession
    \/ HandleTeamSwitch \/ HandleSpawn \/ IgnoreCommand
    \/ EmitSnapshots
=============================================================================
