--------------------------- MODULE WulfServerProofs ---------------------------
(***************************************************************************)
(* Type correctness of the server, for any number of sessions, endpoints   *)
(* and queued commands.                                                    *)
(***************************************************************************)
EXTENDS WulfServer, SequenceTheorems, FiniteSetTheorems, WellFoundedInduction, TLAPS

(* A non-empty set of positions in a sequence has a last one, its Max: the *)
(* intervals above its members are finite sets, and one of them includes   *)
(* no other.                                                               *)
LEMMA MaxIsMember ==
    ASSUME NEW n \in Nat, NEW S \in SUBSET (1 .. n), S # {}
    PROVE  Max(S) \in S /\ \A y \in S : Max(S) >= y
<1>. DEFINE Above(x) == x .. n
            T == {Above(x) : x \in S}
<1>1. T \subseteq FiniteSubsetsOf(Nat)
  <2>. SUFFICES ASSUME NEW x \in S PROVE Above(x) \in FiniteSubsetsOf(Nat)
    OBVIOUS
  <2>1. IsFiniteSet(Above(x))
    BY FS_Interval
  <2>. QED  BY <2>1 DEF FiniteSubsetsOf
<1>2. T # {}
  OBVIOUS
<1>3. PICK I \in T : \A J \in T : ~(<<J, I>> \in StrictSubsetOrdering(Nat))
  <2>. HIDE DEF T
  <2>. QED  BY <1>1, <1>2, WFMin, FS_StrictSubsetOrderingWellFounded
<1>4. PICK m \in S : I = Above(m)
  OBVIOUS
<1>5. \A y \in S : m >= y
  <2>. SUFFICES ASSUME NEW y \in S, y > m PROVE FALSE
    OBVIOUS
  <2>1. Above(y) \in T /\ Above(y) \in SUBSET Nat /\ I \in SUBSET Nat
    BY <1>4
  <2>2. Above(y) \subseteq I /\ m \in I /\ m \notin Above(y)
    BY <1>4
  <2>3. <<Above(y), I>> \in StrictSubsetOrdering(Nat)
    BY <2>1, <2>2 DEF StrictSubsetOrdering
  <2>. QED  BY <1>3, <2>1, <2>3
<1>. QED  BY <1>5 DEF Max

(* The ids that the program visits in order are a sequence of ids. *)
LEMMA VisitsAreSequences ==
    ASSUME NEW S \in SUBSET Sid, NEW q \in Visits(S)
    PROVE  q \in Seq(Sid)
<1>1. IsFiniteSet(S)
  <2>1. IsFiniteSet(Sid)
    BY QueuesAssumption, FS_Interval DEF Sid
  <2>. QED  BY <2>1, FS_Subset
<1>2. Cardinality(S) \in Nat
  BY <1>1, FS_CardinalityType
<1>3. q \in [1 .. Cardinality(S) -> Sid]
  BY DEF Visits
<1>. QED  BY <1>2, <1>3

LEMMA CmdType ==
    ASSUME NEW k \in CommandKind, NEW s \in Sid
    PROVE  Cmd(k, s) \in Command
BY DEF Cmd, Command

LEMMA MsgType ==
    ASSUME NEW k \in MessageKind, NEW p \in Sid, NEW t \in Team \cup {NoTeam}
    PROVE  Msg(k, p, t) \in Message
BY DEF Msg, Message

LEMMA PostType ==
    ASSUME outbound \in [Sid -> Seq(Message)], NEW mail \in [Sid -> Seq(Message)],
           Post(mail)
    PROVE  outbound' \in [Sid -> Seq(Message)]
BY DEF Post

(* What a client is told of a team is a team it was told of. *)
LEMMA LastNewsType ==
    ASSUME NEW mail \in Seq(Message), NEW p \in Sid,
           NEW t \in Team \cup {NoTeam, Unlisted}
    PROVE  LastNews(mail, p, t) \in Team \cup {NoTeam, Unlisted}
<1>. DEFINE news == {i \in DOMAIN mail : /\ mail[i].about = p
                                         /\ mail[i].kind \in {"AddToRoster", "UpdateStats"}}
<1>1. CASE news = {}
  BY <1>1 DEF LastNews
<1>2. CASE news # {}
  <2>1. Len(mail) \in Nat /\ news \in SUBSET (1 .. Len(mail))
    OBVIOUS
  <2>2. Max(news) \in news
    <3>. HIDE DEF news
    <3>. QED  BY <1>2, <2>1, MaxIsMember
  <2>3. mail[Max(news)] \in Message
    BY <2>1, <2>2, ElementOfSeq
  <2>4. mail[Max(news)].team \in Team \cup {NoTeam}
    BY <2>3 DEF Message
  <2>. QED  BY <1>2, <2>4 DEF LastNews
<1>. QED  BY <1>1, <1>2

----------------------------------------------------------------------------
(* The steps of a connection keep the types of what they change. *)
LEMMA PushType ==
    ASSUME inbound \in Seq(Command), NEW cmds \in Seq(Command), Push(cmds)
    PROVE  inbound' \in Seq(Command)
BY DEF Push

LEMMA ConnectionStepType ==
    ASSUME QueuesTypeOK, ConnectionTypeOK, NEW s \in Sid,
           \/ HandleLoginUsername(s)
           \/ CompleteLoginWithPassword(s)
           \/ EnterGame(s)
           \/ \E t \in Requests : QueueReincarnate(s, t)
           \/ HandleUdpActionInput(s)
           \/ IgnoreFrame(s)
           \/ CloseConnection(s)
           \/ \E e \in Endpoint : LinkUdpAndIdentify(s, e)
    PROVE  QueuesTypeOK' /\ ConnectionTypeOK'
<1>. USE DEF QueuesTypeOK, ConnectionTypeOK, queueVars, connVars, ConnState
<1>0. \A k \in CommandKind : Cmd(k, s) \in Command
  BY CmdType
<1>1. CASE HandleLoginUsername(s)
  <2>1. <<Cmd("LoginUser", s)>> \in Seq(Command)
    BY <1>0 DEF CommandKind
  <2>. QED  BY <1>1, <2>1, PushType DEF HandleLoginUsername
<1>2. CASE CompleteLoginWithPassword(s)
  <2>1. /\ <<Cmd("LoginPassword", s), Cmd("ClientConnected", s)>> \in Seq(Command)
        /\ <<Cmd("LoginUser", s), Cmd("LoginPassword", s), Cmd("ClientConnected", s)>>
             \in Seq(Command)
    BY <1>0 DEF CommandKind
  <2>2. inbound' \in Seq(Command)
    BY <1>2, <2>1, PushType DEF CompleteLoginWithPassword
  <2>. QED  BY <1>2, <2>2 DEF CompleteLoginWithPassword
<1>3. CASE EnterGame(s)
  <2>1. <<Cmd("WantUpdates", s)>> \in Seq(Command)
    BY <1>0 DEF CommandKind
  <2>. QED  BY <1>3, <2>1, PushType DEF EnterGame
<1>4. ASSUME NEW t \in Requests, QueueReincarnate(s, t)
      PROVE  QueuesTypeOK' /\ ConnectionTypeOK'
  <2>1. [Cmd("Reincarnate", s) EXCEPT !.team = t] \in Command
    BY AcceptorAssumption DEF Cmd, Command, CommandKind
  <2>2. <<[Cmd("Reincarnate", s) EXCEPT !.team = t]>> \in Seq(Command)
    BY <2>1
  <2>. QED  BY <1>4, <2>2, PushType DEF QueueReincarnate
<1>5. CASE HandleUdpActionInput(s)
  <2>1. <<Cmd("ActionInput", s)>> \in Seq(Command)
    BY <1>0 DEF CommandKind
  <2>. QED  BY <1>5, <2>1, PushType DEF HandleUdpActionInput
<1>6. CASE IgnoreFrame(s)
  BY <1>6 DEF IgnoreFrame
<1>7. CASE CloseConnection(s)
  BY <1>7 DEF CloseConnection
<1>8. ASSUME NEW e \in Endpoint, LinkUdpAndIdentify(s, e)
      PROVE  QueuesTypeOK' /\ ConnectionTypeOK'
  BY <1>8 DEF LinkUdpAndIdentify
<1>. QED  BY <1>1, <1>2, <1>3, <1>4, <1>5, <1>6, <1>7, <1>8

(* So do the steps of the I/O thread, ... *)
LEMMA IoStepType ==
    ASSUME QueuesTypeOK, AcceptorTypeOK, IoStep
    PROVE  QueuesTypeOK' /\ AcceptorTypeOK'
<1>. USE DEF AcceptorTypeOK, PassPlace
<1>1. CASE Select
  BY <1>1 DEF Select, Polled, Clients, QueuesTypeOK, ConnectionTypeOK, queueVars, connVars
<1>2. CASE AcceptNewConnection
  <2>1. nextSid \in Sid /\ nextSid + 1 \in 1 .. MaxSessions + 1
    BY <1>2, QueuesAssumption DEF AcceptNewConnection, Sid
  <2>. QED  BY <1>2, <2>1 DEF AcceptNewConnection, QueuesTypeOK, ConnectionTypeOK,
                              queueVars, ConnState
<1>3. CASE NoDatagram
  BY <1>3 DEF NoDatagram, PumpUdp, QueuesTypeOK, ConnectionTypeOK, queueVars, connVars
<1>4. CASE FlushOutboundMessages
  <2>1. outbound' \in [Sid -> Seq(Message)]
    BY <1>4 DEF FlushOutboundMessages, NoMessages
  <2>2. \A s, p \in Sid :
          LastNews(outbound[s], p, roster[s][p]) \in Team \cup {NoTeam, Unlisted}
    BY LastNewsType DEF QueuesTypeOK
  <2>3. roster' \in [Sid -> [Sid -> Team \cup {NoTeam, Unlisted}]]
    BY <1>4, <2>2 DEF FlushOutboundMessages
  <2>. QED  BY <1>4, <2>1, <2>3 DEF FlushOutboundMessages, QueuesTypeOK, ConnectionTypeOK,
                                    connVars
<1>5. ASSUME NEW s \in Sid, NEW e \in Endpoint, LinkUdp(s, e)
      PROVE  QueuesTypeOK' /\ AcceptorTypeOK'
  BY <1>5, ConnectionStepType DEF LinkUdp, PumpUdp
<1>6. ASSUME NEW s \in Sid, NEW e \in Endpoint, UdpActionInput(s, e)
      PROVE  QueuesTypeOK' /\ AcceptorTypeOK'
  BY <1>6, ConnectionStepType DEF UdpActionInput, PumpUdp
<1>7. ASSUME NEW s \in Sid, NEW e \in Endpoint, NEW t \in Requests, UdpReincarnate(s, e, t)
      PROVE  QueuesTypeOK' /\ AcceptorTypeOK'
  <2>1. t \in Team \cup {NoTeam}
    BY AcceptorAssumption
  <2>2. roster' \in [Sid -> [Sid -> Team \cup {NoTeam, Unlisted}]]
    BY <1>7, <2>1 DEF UdpReincarnate
  <2>. QED  BY <1>7, <2>2, ConnectionStepType DEF UdpReincarnate, PumpUdp
<1>8. ASSUME NEW s \in Sid, RecvClosed(s)
      PROVE  QueuesTypeOK' /\ AcceptorTypeOK'
  BY <1>8 DEF RecvClosed, QueuesTypeOK, ConnectionTypeOK, queueVars, connVars
<1>9. ASSUME NEW s \in Sid, RecvData(s)
      PROVE  QueuesTypeOK' /\ AcceptorTypeOK'
  BY <1>9 DEF RecvData, QueuesTypeOK, ConnectionTypeOK, queueVars, connVars
<1>10. ASSUME NEW s \in Sid, HandleFrame(s)
       PROVE  QueuesTypeOK' /\ AcceptorTypeOK'
  <2>1. QueuesTypeOK' /\ ConnectionTypeOK'
    BY <1>10, ConnectionStepType DEF HandleFrame
  <2>2. roster' \in [Sid -> [Sid -> Team \cup {NoTeam, Unlisted}]]
    BY <1>10 DEF HandleFrame
  <2>. QED  BY <1>10, <2>1, <2>2 DEF HandleFrame
<1>11. ASSUME NEW s \in Sid, EndDrain(s)
       PROVE  QueuesTypeOK' /\ AcceptorTypeOK'
  BY <1>11 DEF EndDrain, QueuesTypeOK, ConnectionTypeOK, queueVars, connVars
<1>12. ASSUME NEW s \in Sid, DropClient(s)
       PROVE  QueuesTypeOK' /\ AcceptorTypeOK'
  BY <1>12, ConnectionStepType DEF DropClient
<1>13. ASSUME NEW s \in Sid, ReapClient(s)
       PROVE  QueuesTypeOK' /\ AcceptorTypeOK'
  <2>1. <<Cmd("Disconnected", s)>> \in Seq(Command)
    BY CmdType DEF CommandKind
  <2>2. inbound' \in Seq(Command)
    BY <1>13, <2>1, PushType DEF ReapClient, QueuesTypeOK
  <2>3. roster' \in [Sid -> [Sid -> Team \cup {NoTeam, Unlisted}]]
    BY <1>13 DEF ReapClient
  <2>. QED  BY <1>13, <2>2, <2>3 DEF ReapClient, QueuesTypeOK, ConnectionTypeOK
<1>. QED  BY <1>1, <1>2, <1>3, <1>4, <1>5, <1>6, <1>7, <1>8, <1>9, <1>10, <1>11, <1>12, <1>13
          DEF IoStep

(* ... and those of the engine thread. *)
LEMMA TickStepType ==
    ASSUME QueuesTypeOK, BridgeTypeOK, TickStep
    PROVE  QueuesTypeOK' /\ BridgeTypeOK'
<1>. USE DEF QueuesTypeOK, BridgeTypeOK
<1>. DEFINE next == Head(batch)
<1>0. batch # <<>> => /\ next \in Command
                      /\ next.sid \in Sid
                      /\ next.team \in Team \cup {NoTeam}
                      /\ Tail(batch) \in Seq(Command)
  <2>. SUFFICES ASSUME batch # <<>>
                PROVE  /\ next \in Command
                       /\ next.sid \in Sid
                       /\ next.team \in Team \cup {NoTeam}
                       /\ Tail(batch) \in Seq(Command)
    OBVIOUS
  <2>1. batch \in Seq(Command)
    OBVIOUS
  <2>2. next \in Command /\ Tail(batch) \in Seq(Command)
    BY <2>1, HeadTailProperties
  <2>. QED  BY <2>2 DEF Command
<1>m. \A k \in MessageKind, p \in Sid, t \in Team \cup {NoTeam} : Msg(k, p, t) \in Message
  BY MsgType
<1>1. CASE BeginTick
  BY <1>1 DEF BeginTick
<1>2. CASE AddSession
  <2>. DEFINE s == next.sid
  <2>0. batch # <<>> /\ batch' = Tail(batch) /\ ticking' = ticking /\ inbound' = inbound
    BY <1>2 DEF AddSession, Take
  <2>1. CASE s \in joined
    BY <1>0, <1>2, <2>0, <2>1 DEF AddSession
  <2>2. CASE s \notin joined
    <3>1. PICK others \in Visits(joined) :
            Post([r \in Sid |->
              CASE r = s -> [i \in DOMAIN others |->
                               Msg("AddToRoster", others[i], team[others[i]])]
                [] r \in joined -> <<Msg("AddToRoster", s, NoTeam)>>
                [] OTHER -> <<>>])
      BY <1>2, <2>2 DEF AddSession
    <3>2. others \in Seq(Sid)
      BY VisitsAreSequences
    <3>3. \A i \in DOMAIN others :
            Msg("AddToRoster", others[i], team[others[i]]) \in Message
      <4>. SUFFICES ASSUME NEW i \in DOMAIN others
                    PROVE  Msg("AddToRoster", others[i], team[others[i]]) \in Message
        OBVIOUS
      <4>1. others[i] \in Sid
        BY <3>2
      <4>2. team[others[i]] \in Team \cup {NoTeam}
        BY <4>1
      <4>. QED  BY <4>1, <4>2, <1>m DEF MessageKind
    <3>4. [i \in DOMAIN others |-> Msg("AddToRoster", others[i], team[others[i]])]
            \in Seq(Message)
      <4>1. DOMAIN others = 1 .. Len(others) /\ Len(others) \in Nat
        BY <3>2
      <4>. QED  BY <3>3, <4>1
    <3>5. Msg("AddToRoster", s, NoTeam) \in Message
      BY <1>0, <2>0, <1>m DEF MessageKind
    <3>6. outbound' \in [Sid -> Seq(Message)]
      <4>. HIDE DEF s
      <4>. DEFINE mail == [r \in Sid |->
              CASE r = s -> [i \in DOMAIN others |->
                               Msg("AddToRoster", others[i], team[others[i]])]
                [] r \in joined -> <<Msg("AddToRoster", s, NoTeam)>>
                [] OTHER -> <<>>]
      <4>1. mail \in [Sid -> Seq(Message)]
        BY <3>4, <3>5
      <4>2. Post(mail)
        BY <3>1
      <4>. HIDE DEF mail
      <4>. QED  BY <4>1, <4>2, PostType
    <3>7. /\ joined' = joined \cup {s} /\ team' = [team EXCEPT ![s] = NoTeam]
          /\ wants' = wants /\ spawned' = spawned
      BY <1>2, <2>2 DEF AddSession
    <3>. QED  BY <1>0, <2>0, <3>6, <3>7
  <2>. QED  BY <2>1, <2>2
<1>3. CASE MarkWantUpdates
  BY <1>0, <1>3 DEF MarkWantUpdates, Take
<1>4. CASE RemoveSession
  BY <1>0, <1>4 DEF RemoveSession, Take
<1>5. CASE HandleTeamSwitch
  <2>. DEFINE s == next.sid
              t == next.team
              mail == [r \in Sid |->
                         CASE r = s -> <<Msg("ReincarnateResult", s, t)>>
                           [] r \in joined \ {s} -> <<Msg("UpdateStats", s, t)>>
                           [] OTHER -> <<>>]
  <2>0. /\ batch # <<>> /\ batch' = Tail(batch) /\ ticking' = ticking /\ inbound' = inbound
        /\ joined' = joined /\ wants' = wants /\ spawned' = spawned
    BY <1>5 DEF HandleTeamSwitch, Take
  <2>1. CASE s \notin joined
    BY <1>0, <1>5, <2>0, <2>1 DEF HandleTeamSwitch
  <2>2. CASE s \in joined
    <3>1. Msg("ReincarnateResult", s, t) \in Message /\ Msg("UpdateStats", s, t) \in Message
      BY <1>0, <2>0, <1>m DEF MessageKind
    <3>2. team' = [team EXCEPT ![s] = t] /\ Post(mail)
      BY <1>5, <2>2 DEF HandleTeamSwitch
    <3>3. mail \in [Sid -> Seq(Message)]
      <4>. HIDE DEF s, t
      <4>. QED  BY <3>1
    <3>4. outbound' \in [Sid -> Seq(Message)]
      <4>. HIDE DEF mail
      <4>. QED  BY <3>2, <3>3, PostType
    <3>. QED  BY <1>0, <2>0, <3>2, <3>4
  <2>. QED  BY <2>1, <2>2
<1>6. CASE HandleSpawn
  <2>. DEFINE s == next.sid
              t == team[s]
              rejection == [r \in Sid |-> IF r = s THEN <<Msg("ReincarnateResult", s, t)>>
                                                   ELSE <<>>]
              birth == [r \in Sid |->
                          CASE r = s -> <<Msg("TankSpawn", s, t), Msg("ReincarnateResult", s, t),
                                          Msg("BirthNotice", s, t)>>
                            [] r \in joined \ {s} -> <<Msg("BirthNotice", s, t)>>
                            [] OTHER -> <<>>]
  <2>0. /\ batch # <<>> /\ batch' = Tail(batch) /\ ticking' = ticking /\ inbound' = inbound
        /\ joined' = joined /\ wants' = wants /\ team' = team
    BY <1>6 DEF HandleSpawn, Take
  <2>1. s \in Sid /\ t \in Team \cup {NoTeam}
    BY <1>0, <2>0
  <2>2. /\ Msg("ReincarnateResult", s, t) \in Message
        /\ Msg("TankSpawn", s, t) \in Message
        /\ Msg("BirthNotice", s, t) \in Message
    BY <2>1, <1>m DEF MessageKind
  <2>3. rejection \in [Sid -> Seq(Message)] /\ birth \in [Sid -> Seq(Message)]
    <3>. HIDE DEF s, t
    <3>. QED  BY <2>2
  <2>4. \/ spawned' = spawned /\ outbound' = outbound
        \/ spawned' = spawned /\ Post(rejection)
        \/ spawned' = spawned \cup {s} /\ Post(birth)
    BY <1>6 DEF HandleSpawn
  <2>5. outbound' \in [Sid -> Seq(Message)]
    <3>. HIDE DEF rejection, birth
    <3>. QED  BY <2>3, <2>4, PostType
  <2>. QED  BY <1>0, <2>0, <2>1, <2>4, <2>5
<1>7. CASE IgnoreCommand
  BY <1>0, <1>7 DEF IgnoreCommand, Take
<1>8. CASE EmitSnapshots
  <2>. DEFINE mail == [r \in Sid |->
         CASE r \notin joined \cap wants -> <<>>
           [] r \in (joined \cap wants) \ spawned -> <<Msg("EntryMap", r, NoTeam)>>
           [] r \in joined \cap wants \cap spawned /\ spawned \subseteq {r} ->
                <<Msg("SelfUpdate", r, NoTeam)>>
           [] OTHER -> <<Msg("OthersUpdate", r, NoTeam), Msg("SelfUpdate", r, NoTeam)>>]
  <2>1. \A r \in Sid : /\ Msg("EntryMap", r, NoTeam) \in Message
                        /\ Msg("SelfUpdate", r, NoTeam) \in Message
                        /\ Msg("OthersUpdate", r, NoTeam) \in Message
    BY <1>m DEF MessageKind
  <2>2. mail \in [Sid -> Seq(Message)]
    BY <2>1
  <2>3. Post(mail)
    BY <1>8 DEF EmitSnapshots
  <2>4. outbound' \in [Sid -> Seq(Message)]
    <3>. HIDE DEF mail
    <3>. QED  BY <2>2, <2>3, PostType
  <2>. QED  BY <1>8, <2>4 DEF EmitSnapshots
<1>. QED  BY <1>1, <1>2, <1>3, <1>4, <1>5, <1>6, <1>7, <1>8 DEF TickStep

(* Every reachable state of the server is well typed. *)
THEOREM TypeCorrect == Spec => []TypeOK
<1>1. Init => TypeOK
  <2>. SUFFICES ASSUME Init PROVE TypeOK
    OBVIOUS
  <2>. USE DEF Init
  <2>1. QueuesTypeOK
    BY DEF QueuesInit, QueuesTypeOK, NoMessages
  <2>2. AcceptorTypeOK
    BY QueuesAssumption
       DEF AcceptorInit, ConnectionInit, AcceptorTypeOK, ConnectionTypeOK, PassPlace
  <2>3. BridgeTypeOK
    <3>1. ticking \in BOOLEAN /\ batch = <<>>
      BY DEF BridgeInit
    <3>2. batch \in Seq(Command)
      BY <3>1
    <3>3. team \in [Sid -> Team \cup {NoTeam}]
      BY DEF BridgeInit
    <3>. QED  BY <3>1, <3>2, <3>3 DEF BridgeInit, BridgeTypeOK
  <2>. QED  BY <2>1, <2>2, <2>3 DEF TypeOK
<1>2. TypeOK /\ [Next]_vars => TypeOK'
  <2>. SUFFICES ASSUME TypeOK, [Next]_vars PROVE TypeOK'
    OBVIOUS
  <2>. USE DEF TypeOK
  <2>1. CASE IoStep /\ UNCHANGED bridgeVars
    BY <2>1, IoStepType DEF bridgeVars, BridgeTypeOK
  <2>2. CASE TickStep /\ UNCHANGED acceptorVars
    BY <2>2, TickStepType DEF acceptorVars, connVars, AcceptorTypeOK, ConnectionTypeOK
  <2>3. CASE UNCHANGED vars
    BY <2>3 DEF vars, queueVars, acceptorVars, connVars, bridgeVars, QueuesTypeOK,
                AcceptorTypeOK, ConnectionTypeOK, BridgeTypeOK
  <2>. QED  BY <2>1, <2>2, <2>3 DEF Next
<1>. QED  BY <1>1, <1>2, PTL DEF Spec
=============================================================================
