------------------------------ MODULE WulfServer ------------------------------
(***************************************************************************)
(* The running server: the acceptor's I/O thread, the engine thread that   *)
(* ticks the bridge, the two queues between them and the peers at the      *)
(* other end of the sockets.                                               *)
(***************************************************************************)
EXTENDS Acceptor, OnlineBridge

vars == <<queueVars, acceptorVars, bridgeVars>>

TypeOK == QueuesTypeOK /\ AcceptorTypeOK /\ BridgeTypeOK

Init == QueuesInit /\ AcceptorInit /\ BridgeInit

Next ==
    \/ IoStep /\ UNCHANGED bridgeVars
    \/ TickStep /\ UNCHANGED acceptorVars

Spec == Init /\ [][Next]_vars

(* Both threads keep running.  A drain ends because its bytes do: HandleFrame *)
(* may go on in the model, not in the code.                                   *)
Fairness ==
    /\ WF_vars(IoStep /\ UNCHANGED bridgeVars)
    /\ WF_vars((\E s \in Sid : EndDrain(s)) /\ UNCHANGED bridgeVars)
    /\ WF_vars(TickStep /\ UNCHANGED acceptorVars)

FairSpec == Spec /\ Fairness

----------------------------------------------------------------------------
(* The commands the engine thread has yet to apply, oldest first. *)
Pending == batch \o inbound

(* A session's Disconnected is its last command and comes when the session *)
(* is no longer served: ReapClients pushes it after every push of the      *)
(* connection (net/acceptor.cpp), so nothing can bring the session back.   *)
DisconnectIsLast ==
    \A i, j \in DOMAIN Pending :
        /\ Pending[i].kind = "Disconnected"
        /\ Pending[j].sid = Pending[i].sid
        => j <= i /\ state[Pending[i].sid] = Absent

(* The bridge never keeps a session the acceptor has forgotten: while a    *)
(* reaped session is still in sessions_, its Disconnected is on the way.   *)
NoGhostSessions ==
    \A s \in joined : state[s] = Absent => Has(Pending, "Disconnected", s)

(* A client that logged in is, or is about to be, in the bridge's table,   *)
(* once, and one that asked for updates will be served them: no interleaving *)
(* of login, tick and reap loses or repeats the announcement.              *)
LoggedInIsAnnounced ==
    \A s \in Sid :
        /\ state[s] \in {"Verified", "InGame"} =>
             s \in joined \/ Has(Pending, "ClientConnected", s)
        /\ state[s] = "InGame" => s \in wants \/ Has(Pending, "WantUpdates", s)
        /\ Has(Pending, "ClientConnected", s) => s \notin joined

(* Nothing about the world is posted to a client before its login is       *)
(* complete and answered, and every packet meant for UDP finds an endpoint *)
(* to go to (FlushOneOutbound drops it otherwise).                         *)
WorldOnlyToPlayers ==
    \A s \in Sid : outbound[s] # <<>> =>
        /\ state[s] \in {"Verified", "InGame", "Closed", Absent}
        /\ state[s] # Absent => roster[s][s] # Unlisted
        /\ (\E i \in DOMAIN outbound[s] : ~Reliable(outbound[s][i])) /\ state[s] # Absent
             => endpoint[s] # NoEndpoint

(* When what is posted has been sent, each player knows the team of every  *)
(* other player: EmitRosterCatchup and HandleTeamSwitch between them leave *)
(* no order of joins and switches that a peer misses.                      *)
RosterConverges ==
    \A s, p \in joined :
        s # p /\ state[s] # Absent => LastNews(outbound[s], p, roster[s][p]) = team[p]

(* A client hears of a player's team or spawn only after the packet that   *)
(* adds the player to its roster.                                          *)
RosterBeforeNews ==
    \A s \in Clients : \A i \in DOMAIN outbound[s] :
        LET m == outbound[s][i] IN
          m.kind \in {"UpdateStats", "BirthNotice"} =>
            \/ roster[s][m.about] # Unlisted
            \/ \E j \in 1 .. i - 1 : /\ outbound[s][j].kind = "AddToRoster"
                                     /\ outbound[s][j].about = m.about

(* The comment in HandleTeamSwitch: "the requester already received        *)
(* UPDATE_STATS on UDP from its Connection".                               *)
RequesterKnowsItsTeam ==
    \A s \in joined :
        team[s] # NoTeam /\ state[s] = "InGame" /\ ~Has(Pending, "Reincarnate", s)
          => roster[s][s] = team[s]

----------------------------------------------------------------------------
(* The inductive invariant behind the three properties of Pending: what    *)
(* the queue q of pending commands holds of session s, given its state st, *)
(* the sessions J and watchers W of the bridge and the next free id n.     *)

IsCmd(c, kind, s) == c.kind = kind /\ c.sid = s

PreLogin == {"AwaitingKeyEcho", "AwaitingUsername", "AwaitingPassword"}

(* An id not given out has left no trace, a client that has not logged in *)
(* is not in the world and not about to enter it.                         *)
NotYet(s, q, st, J, n) ==
    /\ s >= n => st = Absent /\ s \notin J /\ \A i \in DOMAIN q : q[i].sid # s
    /\ st \in PreLogin =>
         /\ s \notin J
         /\ \A i \in DOMAIN q : /\ ~IsCmd(q[i], "ClientConnected", s)
                               /\ ~IsCmd(q[i], "WantUpdates", s)

(* A login is announced once, before anything else the session asks for. *)
AnnouncedOnce(s, q, J) ==
    \A i \in DOMAIN q : IsCmd(q[i], "ClientConnected", s) =>
        /\ s \notin J
        /\ \A j \in DOMAIN q : /\ IsCmd(q[j], "ClientConnected", s) => j = i
                               /\ IsCmd(q[j], "WantUpdates", s) => i < j

(* What a live client has done, the bridge knows or will hear. *)
Announced(s, q, st, J, W) ==
    /\ st \in {"Verified", "InGame"} => s \in J \/ Has(q, "ClientConnected", s)
    /\ st = "InGame" => s \in W \/ Has(q, "WantUpdates", s)

(* The end of a session is announced last, and to everybody it concerns. *)
EndAnnounced(s, q, st, J) ==
    /\ \A i, j \in DOMAIN q :
         IsCmd(q[i], "Disconnected", s) /\ q[j].sid = s => j <= i /\ st = Absent
    /\ st = Absent /\ (s \in J \/ Has(q, "ClientConnected", s)) => Has(q, "Disconnected", s)

Consistent(s, q, st, J, W, n) ==
    /\ NotYet(s, q, st, J, n)
    /\ AnnouncedOnce(s, q, J)
    /\ Announced(s, q, st, J, W)
    /\ EndAnnounced(s, q, st, J)

(* Only clients are read or reaped, and a tick applies its whole batch. *)
PassInv ==
    /\ ready \subseteq Clients
    /\ dead \subseteq Clients
    /\ pc = "reap" => ready = {}
    /\ ~ticking => batch = <<>>

SessionInv ==
    /\ PassInv
    /\ \A s \in Sid : Consistent(s, Pending, state[s], joined, wants, nextSid)

----------------------------------------------------------------------------
(* The server implements PlayerLifecycle. *)
StageOf(s) ==
    CASE s \in joined /\ s \notin wants -> "joined"
      [] s \in joined /\ s \in wants -> "watching"
      [] /\ s \notin joined
         /\ s < nextSid /\ state[s] = Absent /\ ~Has(Pending, "Disconnected", s) -> "gone"
      [] OTHER -> "away"

Lifecycle == INSTANCE PlayerLifecycle
               WITH Visitor <- Sid, stage <- [s \in Sid |-> StageOf(s)]

(* A session id is one visit: it joins the world at most once, watches     *)
(* only after it joined, and once it has left nothing revives it.          *)
ImplementsLifecycle == Lifecycle!LifecycleSpec

----------------------------------------------------------------------------
(* A peer that hung up is reaped and removed from the world, whatever it   *)
(* had sent before.                                                        *)
HungUpLeaves == \A s \in Sid : s \in hungup ~> StageOf(s) = "gone"

(* A connection the protocol closed is reaped and removed from the world.  *)
ClosedLeaves == \A s \in Sid : state[s] = "Closed" ~> StageOf(s) = "gone"

(* A client that entered the game is sent world snapshots, unless it goes. *)
InGameIsServed ==
    \A s \in Sid :
        state[s] = "InGame" ~> \/ state[s] # "InGame"
                               \/ \E i \in DOMAIN outbound[s] :
                                    outbound[s][i].kind \in {"EntryMap", "SelfUpdate"}
=============================================================================
