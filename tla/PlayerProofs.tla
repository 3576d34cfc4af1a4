---------------------------- MODULE PlayerProofs ----------------------------
(***************************************************************************)
(* What the players see, for any number of sessions and any interleaving   *)
(* of the two threads: the server implements PlayerLifecycle, posts        *)
(* nothing about the world to a client that has not logged in, and, when   *)
(* no send is lost, tells every player of every other, in order, and up to *)
(* the last team.                                                          *)
(***************************************************************************)
EXTENDS SessionProofs

----------------------------------------------------------------------------
(* What a sequence of messages reports of player p. *)
NewsOf(mail, p) ==
    {i \in DOMAIN mail : /\ mail[i].about = p
                         /\ mail[i].kind \in {"AddToRoster", "UpdateStats"}}

LEMMA NoNewsIsOldNews ==
    ASSUME NEW mail, NEW p, NEW t, NewsOf(mail, p) = {}
    PROVE  LastNews(mail, p, t) = t
BY DEF LastNews, NewsOf

LEMMA LastNewsIsLast ==
    ASSUME NEW mail \in Seq(Message), NEW p, NEW t, NEW i \in NewsOf(mail, p),
           \A j \in NewsOf(mail, p) : j <= i
    PROVE  LastNews(mail, p, t) = mail[i].team
<1>. DEFINE N == NewsOf(mail, p)
<1>1. /\ N \in SUBSET (1 .. Len(mail)) /\ Len(mail) \in Nat
      /\ i \in N /\ \A j \in N : j <= i
  BY DEF NewsOf
<1>2. LastNews(mail, p, t) = mail[Max(N)].team
  BY <1>1 DEF LastNews, NewsOf
<1>. HIDE DEF N
<1>3. Max(N) \in N /\ Max(N) >= i
  BY <1>1, MaxIsMember
<1>4. Max(N) = i
  <2>1. Max(N) <= i
    BY <1>1, <1>3
  <2>2. Max(N) \in 1 .. Len(mail) /\ i \in 1 .. Len(mail)
    BY <1>1, <1>3
  <2>. HIDE DEF NewsOf
  <2>. QED  BY <1>3, <2>1, <2>2
<1>. QED  BY <1>2, <1>4

LEMMA SomeNewsIsLast ==
    ASSUME NEW mail \in Seq(Message), NEW p, NewsOf(mail, p) # {}
    PROVE  \E i \in NewsOf(mail, p) : \A j \in NewsOf(mail, p) : j <= i
<1>. DEFINE N == NewsOf(mail, p)
<1>1. N \in SUBSET (1 .. Len(mail)) /\ Len(mail) \in Nat /\ N # {}
  BY DEF NewsOf
<1>. HIDE DEF N
<1>2. Max(N) \in N /\ \A j \in N : Max(N) >= j
  BY <1>1, MaxIsMember
<1>3. \A j \in N : j <= Max(N)
  BY <1>1, <1>2
<1>. QED  BY <1>2, <1>3 DEF N

(* When all news of p agree, that is the last news. *)
LEMMA AgreeingNews ==
    ASSUME NEW mail \in Seq(Message), NEW p, NEW t, NEW v,
           \A i \in NewsOf(mail, p) : mail[i].team = v,
           NewsOf(mail, p) # {} \/ t = v
    PROVE  LastNews(mail, p, t) = v
<1>1. CASE NewsOf(mail, p) = {}
  BY <1>1, NoNewsIsOldNews
<1>2. CASE NewsOf(mail, p) # {}
  BY <1>2, SomeNewsIsLast, LastNewsIsLast
<1>. QED  BY <1>1, <1>2

(* Who was told of a player, or is told by the mail, knows of it. *)
LEMMA NewsAreListed ==
    ASSUME NEW mail \in Seq(Message), NEW p, NEW t, t # Unlisted \/ NewsOf(mail, p) # {}
    PROVE  LastNews(mail, p, t) # Unlisted
<1>1. CASE NewsOf(mail, p) = {}
  BY <1>1, NoNewsIsOldNews
<1>2. ASSUME NEW i \in NewsOf(mail, p) PROVE mail[i].team # Unlisted
  <2>1. mail[i] \in Message
    BY DEF NewsOf
  <2>. QED  BY <2>1 DEF Message, Team, NoTeam, Unlisted
<1>3. CASE NewsOf(mail, p) # {}
  BY <1>2, <1>3, SomeNewsIsLast, LastNewsIsLast
<1>. QED  BY <1>1, <1>3

(* News appended to what is posted already is heard after it. *)
LEMMA NewsOfConcat ==
    ASSUME NEW a \in Seq(Message), NEW b \in Seq(Message), NEW p, NEW t
    PROVE  LastNews(a \o b, p, t) = LastNews(b, p, LastNews(a, p, t))
<1>. DEFINE c == a \o b
<1>1. /\ c \in Seq(Message) /\ Len(a) \in Nat
      /\ \A i \in DOMAIN a : i \in DOMAIN c /\ c[i] = a[i] /\ i \in Nat /\ i <= Len(a)
      /\ \A i \in DOMAIN b : i \in Nat /\ i >= 1 /\ Len(a) + i \in DOMAIN c /\ c[Len(a) + i] = b[i]
      /\ \A i \in DOMAIN c : i \in Nat
      /\ \A i \in DOMAIN c : i \notin DOMAIN a => i - Len(a) \in DOMAIN b /\ c[i] = b[i - Len(a)]
  OBVIOUS
<1>. HIDE DEF c
<1>2. CASE NewsOf(b, p) # {}
  <2>1. PICK i \in NewsOf(b, p) : \A j \in NewsOf(b, p) : j <= i
    BY <1>2, SomeNewsIsLast
  <2>2. LastNews(b, p, LastNews(a, p, t)) = b[i].team
    BY <2>1, LastNewsIsLast
  <2>3. Len(a) + i \in NewsOf(c, p) /\ c[Len(a) + i] = b[i] /\ i \in Nat /\ i >= 1
    BY <1>1 DEF NewsOf
  <2>4. ASSUME NEW j \in NewsOf(c, p) PROVE j <= Len(a) + i
    <3>1. CASE j \in DOMAIN a
      BY <1>1, <2>3, <3>1
    <3>2. CASE j \notin DOMAIN a
      <4>1. j - Len(a) \in NewsOf(b, p) /\ j \in Nat
        BY <1>1, <3>2 DEF NewsOf
      <4>2. j - Len(a) <= i
        BY <2>1, <4>1
      <4>. QED  BY <1>1, <2>3, <4>1, <4>2
    <3>. QED  BY <3>1, <3>2
  <2>5. LastNews(c, p, t) = b[i].team
    BY <1>1, <2>3, <2>4, LastNewsIsLast
  <2>. QED  BY <2>2, <2>5 DEF c
<1>3. CASE NewsOf(b, p) = {}
  <2>1. LastNews(b, p, LastNews(a, p, t)) = LastNews(a, p, t)
    BY <1>3, NoNewsIsOldNews
  <2>2. NewsOf(c, p) = NewsOf(a, p)
    BY <1>1, <1>3 DEF NewsOf
  <2>3. CASE NewsOf(a, p) = {}
    <3>1. LastNews(a, p, t) = t /\ LastNews(c, p, t) = t
      BY <2>2, <2>3, NoNewsIsOldNews
    <3>. QED  BY <2>1, <3>1 DEF c
  <2>4. CASE NewsOf(a, p) # {}
    <3>1. PICK i \in NewsOf(a, p) : \A j \in NewsOf(a, p) : j <= i
      BY <2>4, SomeNewsIsLast
    <3>2. LastNews(a, p, t) = a[i].team
      BY <3>1, LastNewsIsLast
    <3>3. i \in NewsOf(c, p) /\ c[i] = a[i]
      BY <1>1, <2>2 DEF NewsOf
    <3>4. LastNews(c, p, t) = a[i].team
      BY <1>1, <2>2, <3>1, <3>3, LastNewsIsLast
    <3>. QED  BY <2>1, <3>2, <3>4 DEF c
  <2>. QED  BY <2>3, <2>4
<1>. QED  BY <1>2, <1>3

(* A visit of a set misses none of its members. *)
LEMMA VisitsAreComplete ==
    ASSUME NEW S \in SUBSET Sid, NEW q \in Visits(S), NEW x \in S
    PROVE  \E i \in DOMAIN q : q[i] = x
<1>. DEFINE n == Cardinality(S)
<1>1. IsFiniteSet(S)
  <2>1. IsFiniteSet(Sid)
    BY QueuesAssumption, FS_Interval DEF Sid
  <2>. QED  BY <2>1, FS_Subset
<1>2. n \in Nat
  BY <1>1, FS_CardinalityType
<1>3. IsFiniteSet(1 .. n) /\ Cardinality(1 .. n) = n
  BY <1>2, FS_Interval
<1>4. /\ q \in [1 .. n -> S] /\ DOMAIN q = 1 .. n
      /\ \A i, j \in DOMAIN q : i < j => q[i] < q[j]
  BY DEF Visits
<1>. HIDE DEF n
<1>5. q \in Injection(1 .. n, S)
  <2>. SUFFICES ASSUME NEW i \in 1 .. n, NEW j \in 1 .. n, q[i] = q[j] PROVE i = j
    BY <1>4 DEF Injection, IsInjective
  <2>0. q[i] \in Sid /\ q[j] \in Sid
    BY <1>4
  <2>1. q[i] \in Nat /\ q[j] \in Nat
    BY <2>0 DEF Sid
  <2>2. ~(i < j) /\ ~(j < i)
    BY <1>4, <2>1
  <2>. QED  BY <1>2, <2>2
<1>6. q \in Surjection(1 .. n, S)
  <2>1. Cardinality(1 .. n) = Cardinality(S)
    BY <1>3 DEF n
  <2>. QED  BY <1>1, <1>5, <2>1, FS_Injection
<1>. QED  BY <1>4, <1>6 DEF Surjection

----------------------------------------------------------------------------
(* The states from the key echo on, those of a completed login, and those  *)
(* in which the world may be posted to a client.                           *)
Identified == {"AwaitingUsername", "AwaitingPassword", "Verified", "InGame"}
Playing == {"Verified", "InGame"}
LoggedIn == Playing \cup {"Closed"}

(* What a step does that serves client s, up to the facts used below. *)
Serves(s) ==
    /\ state[s] # Absent /\ state'[s] # Absent
    /\ \A r \in Sid \ {s} :
         state'[r] = state[r] /\ endpoint'[r] = endpoint[r] /\ roster'[r] = roster[r]
    /\ \A p \in Sid \ {s} : roster'[s][p] = roster[s][p]
    /\ roster'[s][s] = roster[s][s] \/ roster'[s][s] # Unlisted
    /\ endpoint'[s] = endpoint[s] \/ state[s] = "AwaitingKeyEcho"
    /\ state'[s] \in Identified => state[s] \in Identified \/ endpoint'[s] # NoEndpoint
    /\ state'[s] \in Playing => state[s] \in Playing \/ roster'[s][s] # Unlisted
    /\ state[s] \in LoggedIn => state'[s] \in LoggedIn
    /\ \E c \in Seq(Command) :
         /\ inbound' = inbound \o c
         /\ \A k \in DOMAIN c :
              /\ c[k].sid = s /\ c[k].kind # "Disconnected"
              /\ c[k].kind = "ClientConnected" =>
                   /\ state[s] \in Identified /\ state'[s] = "Verified"
                   /\ roster'[s][s] # Unlisted
    /\ UNCHANGED <<outbound, nextSid>>

Quiet == UNCHANGED <<state, endpoint, roster, inbound, outbound, nextSid>>

(* A step that pushes nothing. *)
LEMMA ServesSilently ==
    ASSUME TypeOK, NEW s \in Sid, NEW st, st # Absent, state[s] # Absent,
           state' = [state EXCEPT ![s] = st],
           inbound' = inbound, roster' = roster, UNCHANGED <<outbound, nextSid>>,
           \/ endpoint' = endpoint /\ st \notin Identified
           \/ /\ \E e \in Endpoint : endpoint' = [endpoint EXCEPT ![s] = e]
              /\ state[s] = "AwaitingKeyEcho" /\ st = "AwaitingUsername",
           state[s] \in LoggedIn => st \in LoggedIn
    PROVE  Serves(s)
<1>1. /\ <<>> \in Seq(Command) /\ inbound' = inbound \o <<>>
      /\ \A k \in DOMAIN <<>> : FALSE
  <2>1. inbound \in Seq(Command)
    BY DEF TypeOK, QueuesTypeOK
  <2>. QED  BY <2>1, ConcatEmptySeq
<1>2. state'[s] = st /\ \A r \in Sid \ {s} : state'[r] = state[r]
  BY DEF TypeOK, AcceptorTypeOK, ConnectionTypeOK
<1>3. /\ \A r \in Sid \ {s} : endpoint'[r] = endpoint[r]
      /\ endpoint'[s] = endpoint[s] \/ state[s] = "AwaitingKeyEcho"
      /\ st \in Identified => endpoint'[s] # NoEndpoint
  BY EndpointAssumption DEF TypeOK, AcceptorTypeOK, ConnectionTypeOK
<1>4. st \in Playing => state[s] \in Playing
  BY DEF Playing, Identified
<1>5. \E c \in Seq(Command) :
         /\ inbound' = inbound \o c
         /\ \A k \in DOMAIN c :
              /\ c[k].sid = s /\ c[k].kind # "Disconnected"
              /\ c[k].kind = "ClientConnected" =>
                   /\ state[s] \in Identified /\ state'[s] = "Verified"
                   /\ roster'[s][s] # Unlisted
  BY <1>1
<1>. QED  BY <1>2, <1>3, <1>4, <1>5 DEF Serves

(* A step that pushes commands, of a client that was identified before. *)
LEMMA ServesAloud ==
    ASSUME TypeOK, NEW s \in Sid, NEW st, st # Absent, state[s] # Absent,
           state' = [state EXCEPT ![s] = st], endpoint' = endpoint,
           NEW c \in Seq(Command), inbound' = inbound \o c, UNCHANGED <<outbound, nextSid>>,
           \A k \in DOMAIN c :
              /\ c[k].sid = s /\ c[k].kind # "Disconnected"
              /\ c[k].kind = "ClientConnected" => st = "Verified" /\ state[s] \notin Playing,
           \/ roster' = roster /\ (st \in Playing => state[s] \in Playing)
           \/ \E t \in Team \cup {NoTeam} : roster' = [roster EXCEPT ![s][s] = t],
           state[s] \in Identified, st \in Identified,
           state[s] \in LoggedIn => st \in LoggedIn
    PROVE  Serves(s)
<1>2. state'[s] = st /\ \A r \in Sid \ {s} : state'[r] = state[r]
  BY DEF TypeOK, AcceptorTypeOK, ConnectionTypeOK
<1>3. /\ \A r \in Sid \ {s} : roster'[r] = roster[r]
      /\ \A p \in Sid \ {s} : roster'[s][p] = roster[s][p]
      /\ roster'[s][s] = roster[s][s] \/ roster'[s][s] # Unlisted
      /\ st \in Playing => state[s] \in Playing \/ roster'[s][s] # Unlisted
  BY DEF TypeOK, AcceptorTypeOK, Team, NoTeam, Unlisted
<1>4. \A k \in DOMAIN c :
        /\ c[k].sid = s /\ c[k].kind # "Disconnected"
        /\ c[k].kind = "ClientConnected" =>
             /\ state[s] \in Identified /\ state'[s] = "Verified"
             /\ roster'[s][s] # Unlisted
  BY <1>2, <1>3 DEF Playing
<1>. QED  BY <1>2, <1>3, <1>4 DEF Serves

LEMMA HandleFrameServes ==
    ASSUME TypeOK, SessionInv, NEW s \in Sid, HandleFrame(s)
    PROVE  Quiet \/ Serves(s)
<1>. USE DEF Absent
<1>0. UNCHANGED nextSid
  BY DEF HandleFrame
<1>b. \A k \in CommandKind : /\ Cmd(k, s) \in Command /\ Cmd(k, s).sid = s
                             /\ Cmd(k, s).kind = k
  BY CmdType DEF Cmd
<1>1. CASE HandleLoginUsername(s) /\ UNCHANGED roster
  <2>. DEFINE c == <<Cmd("LoginUser", s)>>
  <2>1. c \in Seq(Command) /\ \A k \in DOMAIN c : c[k].sid = s /\ c[k].kind = "LoginUser"
    BY <1>b DEF CommandKind
  <2>2. /\ state[s] = "AwaitingUsername" /\ inbound' = inbound \o c
        /\ state' = [state EXCEPT ![s] = "AwaitingPassword"]
        /\ UNCHANGED <<endpoint, outbound>>
    BY <1>1 DEF HandleLoginUsername, Push
  <2>. HIDE DEF c
  <2>. QED  BY <1>0, <1>1, <2>1, <2>2, ServesAloud DEF Identified, Playing, LoggedIn
<1>2. CASE CompleteLoginWithPassword(s) /\ roster' = [roster EXCEPT ![s][s] = NoTeam]
  <2>. DEFINE user == Cmd("LoginUser", s)
              pass == Cmd("LoginPassword", s)
              last == Cmd("ClientConnected", s)
  <2>1. PICK c \in Seq(Command) :
          /\ \A k \in DOMAIN c : c[k].sid = s /\ c[k].kind # "Disconnected"
          /\ inbound' = inbound \o c
    <3>1. /\ <<pass, last>> \in Seq(Command) /\ <<user, pass, last>> \in Seq(Command)
          /\ \A k \in DOMAIN <<pass, last>> : <<pass, last>>[k] \in {pass, last}
          /\ \A k \in DOMAIN <<user, pass, last>> : <<user, pass, last>>[k] \in {user, pass, last}
      BY <1>b DEF CommandKind
    <3>2. \A x \in {user, pass, last} : x.sid = s /\ x.kind # "Disconnected"
      BY <1>b DEF CommandKind
    <3>3. inbound' \in {inbound \o <<pass, last>>, inbound \o <<user, pass, last>>}
      BY <1>2 DEF CompleteLoginWithPassword, Push
    <3>. HIDE DEF user, pass, last
    <3>. QED  BY <3>1, <3>2, <3>3
  <2>2. /\ state[s] \in {"AwaitingUsername", "AwaitingPassword"}
        /\ state' = [state EXCEPT ![s] = "Verified"]
        /\ UNCHANGED <<endpoint, outbound>>
    BY <1>2 DEF CompleteLoginWithPassword
  <2>. QED  BY <1>0, <1>2, <2>1, <2>2, ServesAloud DEF Identified, Playing, LoggedIn
<1>3. CASE EnterGame(s) /\ UNCHANGED roster
  <2>. DEFINE c == <<Cmd("WantUpdates", s)>>
  <2>1. c \in Seq(Command) /\ \A k \in DOMAIN c : c[k].sid = s /\ c[k].kind = "WantUpdates"
    BY <1>b DEF CommandKind
  <2>2. /\ state[s] = "Verified" /\ inbound' = inbound \o c
        /\ state' = [state EXCEPT ![s] = "InGame"]
        /\ UNCHANGED <<endpoint, outbound>>
    BY <1>3 DEF EnterGame, Push
  <2>. HIDE DEF c
  <2>. QED  BY <1>0, <1>3, <2>1, <2>2, ServesAloud DEF Identified, Playing, LoggedIn
<1>4. ASSUME NEW t \in Requests, QueueReincarnate(s, t), UNCHANGED roster
      PROVE  Serves(s)
  <2>. DEFINE c == <<[Cmd("Reincarnate", s) EXCEPT !.team = t]>>
  <2>1. c \in Seq(Command) /\ \A k \in DOMAIN c : c[k].sid = s /\ c[k].kind = "Reincarnate"
    BY AcceptorAssumption DEF Cmd, Command, CommandKind
  <2>2. /\ state[s] = "InGame" /\ inbound' = inbound \o c
        /\ UNCHANGED <<endpoint, outbound>>
    BY <1>4 DEF QueueReincarnate, Push, connVars
  <2>. HIDE DEF c
  <2>3. state' = [state EXCEPT ![s] = "InGame"]
    BY <1>4 DEF QueueReincarnate, connVars, TypeOK, AcceptorTypeOK, ConnectionTypeOK
  <2>. QED  BY <1>0, <1>4, <2>1, <2>2, <2>3, ServesAloud DEF Identified, Playing, LoggedIn
<1>5. CASE IgnoreFrame(s) /\ UNCHANGED roster
  BY <1>0, <1>5 DEF IgnoreFrame, connVars, queueVars, Quiet
<1>. QED  BY <1>1, <1>2, <1>3, <1>4, <1>5 DEF HandleFrame

(* A step of the I/O thread changes nothing that matters here, flushes,    *)
(* accepts, reaps, or serves one client.                                   *)
LEMMA IoStepCases ==
    ASSUME TypeOK, SessionInv, IoStep
    PROVE  \/ Quiet \/ FlushOutboundMessages \/ AcceptNewConnection
           \/ \E s \in Sid : Serves(s) \/ ReapClient(s)
<1>. USE DEF Absent
<1>1. CASE Select \/ NoDatagram
  BY <1>1 DEF Select, NoDatagram, connVars, queueVars, Quiet
<1>2. ASSUME NEW s \in Sid, RecvClosed(s) \/ RecvData(s) \/ EndDrain(s) PROVE Quiet
  BY <1>2 DEF RecvClosed, RecvData, EndDrain, connVars, queueVars, Quiet
<1>3. ASSUME NEW s \in Sid, HandleFrame(s) PROVE Quiet \/ Serves(s)
  BY <1>3, HandleFrameServes
<1>4. ASSUME NEW s \in Sid, DropClient(s) PROVE Serves(s)
  <2>1. state[s] # Absent
    BY <1>4 DEF SessionInv, PassInv, DropClient, Current, IsFirst, Clients
  <2>2. /\ state' = [state EXCEPT ![s] = "Closed"]
        /\ UNCHANGED <<endpoint, roster, inbound, outbound, nextSid>>
    BY <1>4 DEF DropClient, CloseConnection, queueVars
  <2>. QED  BY <2>1, <2>2, ServesSilently DEF Identified, LoggedIn
<1>5. ASSUME NEW s \in Sid, NEW e \in Endpoint, LinkUdp(s, e) PROVE Serves(s)
  <2>1. /\ state[s] = "AwaitingKeyEcho" /\ state' = [state EXCEPT ![s] = "AwaitingUsername"]
        /\ endpoint' = [endpoint EXCEPT ![s] = e]
        /\ UNCHANGED <<roster, inbound, outbound, nextSid>>
    BY <1>5 DEF LinkUdp, LinkUdpAndIdentify, queueVars
  <2>. QED  BY <2>1, ServesSilently DEF LoggedIn, Playing
<1>6. ASSUME NEW s \in Sid, NEW e \in Endpoint, UdpActionInput(s, e) PROVE Serves(s)
  <2>. DEFINE c == <<Cmd("ActionInput", s)>>
  <2>1. c \in Seq(Command) /\ \A k \in DOMAIN c : c[k].sid = s /\ c[k].kind = "ActionInput"
    BY CmdType DEF Cmd, CommandKind
  <2>2. /\ state[s] = "InGame" /\ inbound' = inbound \o c
        /\ UNCHANGED <<endpoint, outbound, nextSid, roster>>
    BY <1>6 DEF UdpActionInput, HandleUdpActionInput, Push, connVars
  <2>. HIDE DEF c
  <2>3. state' = [state EXCEPT ![s] = "InGame"]
    BY <1>6 DEF UdpActionInput, HandleUdpActionInput, connVars, TypeOK, AcceptorTypeOK, ConnectionTypeOK
  <2>. QED  BY <2>1, <2>2, <2>3, ServesAloud DEF Identified, Playing, LoggedIn
<1>7. ASSUME NEW s \in Sid, NEW e \in Endpoint, NEW t \in Requests, UdpReincarnate(s, e, t)
      PROVE  Serves(s)
  <2>. DEFINE c == <<[Cmd("Reincarnate", s) EXCEPT !.team = t]>>
  <2>1. c \in Seq(Command) /\ \A k \in DOMAIN c : c[k].sid = s /\ c[k].kind = "Reincarnate"
    BY AcceptorAssumption DEF Cmd, Command, CommandKind
  <2>2. /\ state[s] = "InGame" /\ inbound' = inbound \o c
        /\ UNCHANGED <<endpoint, outbound, nextSid>>
    BY <1>7 DEF UdpReincarnate, QueueReincarnate, Push, connVars
  <2>3. t \in Team \cup {NoTeam}
    BY AcceptorAssumption
  <2>. HIDE DEF c
  <2>4. state' = [state EXCEPT ![s] = "InGame"]
    BY <1>7 DEF UdpReincarnate, QueueReincarnate, connVars, TypeOK, AcceptorTypeOK,
           ConnectionTypeOK
  <2>5. CASE roster' = roster
    BY <2>1, <2>2, <2>4, <2>5, ServesAloud DEF Identified, Playing, LoggedIn
  <2>6. CASE roster' = [roster EXCEPT ![s][s] = t]
    BY <2>1, <2>2, <2>3, <2>4, <2>6, ServesAloud DEF Identified, Playing, LoggedIn
  <2>. QED  BY <1>7, <2>5, <2>6 DEF UdpReincarnate
<1>. QED  BY <1>1, <1>2, <1>3, <1>4, <1>5, <1>6, <1>7 DEF IoStep

(* What commands c, appended to the pending ones, add to those of kind k. *)
LEMMA HasAppended ==
    ASSUME NEW q \in Seq(Command), NEW c \in Seq(Command), NEW k, NEW r
    PROVE  Has(q \o c, k, r) <=> Has(q, k, r) \/ Has(c, k, r)
<1>. DEFINE p == q \o c
<1>1. /\ \A i \in DOMAIN q : i \in DOMAIN p /\ p[i] = q[i]
      /\ \A i \in DOMAIN c : Len(q) + i \in DOMAIN p /\ p[Len(q) + i] = c[i]
      /\ \A i \in DOMAIN p : i \notin DOMAIN q => \E j \in DOMAIN c : p[i] = c[j]
  <2>1. \A i \in DOMAIN c : Len(q) + i \in DOMAIN p /\ p[Len(q) + i] = c[i]
    OBVIOUS
  <2>2. \A i \in DOMAIN p : i \notin DOMAIN q => \E j \in DOMAIN c : p[i] = c[j]
    BY AppendIndex
  <2>. QED  BY <2>1, <2>2
<1>. HIDE DEF p
<1>2. Has(p, k, r) <=> Has(q, k, r) \/ Has(c, k, r)
  BY <1>1 DEF Has
<1>. QED  BY <1>2 DEF p

(* Serving client s announces no end, and at most the login of s. *)
LEMMA ServesPending ==
    ASSUME TypeOK, UNCHANGED bridgeVars, NEW s \in Sid, Serves(s), NEW r \in Sid
    PROVE  /\ Has(Pending, "Disconnected", r)' <=> Has(Pending, "Disconnected", r)
           /\ Has(Pending, "ClientConnected", r)' =>
                \/ Has(Pending, "ClientConnected", r)
                \/ /\ r = s /\ state[s] \in Identified /\ state'[s] = "Verified"
                   /\ roster'[s][s] # Unlisted
<1>1. PICK c \in Seq(Command) :
        /\ inbound' = inbound \o c
        /\ \A k \in DOMAIN c :
             /\ c[k].sid = s /\ c[k].kind # "Disconnected"
             /\ c[k].kind = "ClientConnected" =>
                  /\ state[s] \in Identified /\ state'[s] = "Verified"
                  /\ roster'[s][s] # Unlisted
  BY DEF Serves
<1>2. Pending \in Seq(Command) /\ Pending' = Pending \o c
  BY <1>1, PushPending
<1>3. \A k : Has(Pending, k, r)' <=> Has(Pending, k, r) \/ Has(c, k, r)
  BY <1>2, HasAppended
<1>4. ~Has(c, "Disconnected", r)
  BY <1>1 DEF Has
<1>5. Has(c, "ClientConnected", r) => /\ r = s /\ state[s] \in Identified
                                      /\ state'[s] = "Verified" /\ roster'[s][s] # Unlisted
  BY <1>1 DEF Has
<1>. QED  BY <1>3, <1>4, <1>5

----------------------------------------------------------------------------
(* The server implements PlayerLifecycle. *)

(* Only sessions in the table have asked for updates. *)
WatchersJoined == wants \subseteq joined

LEMMA WatchersStep ==
    ASSUME WatchersJoined, [Next]_vars
    PROVE  WatchersJoined'
<1>1. CASE UNCHANGED <<joined, wants>>
  BY <1>1 DEF WatchersJoined
<1>2. CASE TickStep
  BY <1>2 DEF TickStep, BeginTick, AddSession, MarkWantUpdates, RemoveSession,
              HandleTeamSwitch, HandleSpawn, IgnoreCommand, EmitSnapshots, WatchersJoined
<1>. QED  BY <1>1, <1>2 DEF Next, vars, bridgeVars

(* When a step of the I/O thread leaves the world, everybody stays put. *)
LEMMA IoStepStages ==
    ASSUME TypeOK, SessionInv, IoStep, UNCHANGED bridgeVars, NEW r \in Sid
    PROVE  StageOf(r)' = StageOf(r)
<1>. DEFINE Ended == r < nextSid /\ state[r] = Absent /\ ~Has(Pending, "Disconnected", r)
<1>0. /\ joined' = joined /\ wants' = wants /\ batch' = batch
      /\ nextSid \in Nat /\ r \in Nat
      /\ Pending \in Seq(Command)
  BY NothingPushed DEF bridgeVars, TypeOK, AcceptorTypeOK, Sid
<1>1. SUFFICES Ended' <=> Ended
  BY <1>0 DEF StageOf
<1>2. CASE Quiet \/ FlushOutboundMessages
  <2>1. UNCHANGED <<state, nextSid, inbound>>
    BY <1>2 DEF Quiet, FlushOutboundMessages, connVars
  <2>. QED  BY <1>0, <2>1 DEF Pending
<1>3. CASE AcceptNewConnection
  <2>1. /\ state' = [state EXCEPT ![nextSid] = "AwaitingKeyEcho"]
        /\ nextSid' = nextSid + 1 /\ inbound' = inbound
    BY <1>3 DEF AcceptNewConnection, queueVars
  <2>2. Pending' = Pending
    BY <1>0, <2>1 DEF Pending
  <2>3. CASE r = nextSid
    <3>1. state'[r] # Absent
      BY <2>1, <2>3 DEF TypeOK, AcceptorTypeOK, ConnectionTypeOK, Absent
    <3>. QED  BY <1>0, <2>3, <3>1
  <2>4. CASE r # nextSid
    <3>1. state'[r] = state[r]
      BY <2>1, <2>4 DEF TypeOK, AcceptorTypeOK, ConnectionTypeOK
    <3>. QED  BY <1>0, <2>1, <2>2, <2>4, <3>1
  <2>. QED  BY <2>3, <2>4
<1>4. ASSUME NEW s \in Sid, Serves(s) PROVE Ended' <=> Ended
  <2>1. nextSid' = nextSid /\ (state'[r] = Absent <=> state[r] = Absent)
    BY <1>4 DEF Serves
  <2>2. Has(Pending, "Disconnected", r)' <=> Has(Pending, "Disconnected", r)
    BY <1>4, ServesPending
  <2>. QED  BY <2>1, <2>2
<1>5. ASSUME NEW s \in Sid, ReapClient(s) PROVE Ended' <=> Ended
  <2>. DEFINE c == <<Cmd("Disconnected", s)>>
  <2>1. /\ inbound' = inbound \o c /\ nextSid' = nextSid
        /\ state' = [state EXCEPT ![s] = Absent] /\ state[s] # Absent
    BY <1>5 DEF ReapClient, Push, SessionInv, PassInv, Clients
  <2>2. c \in Seq(Command) /\ Has(c, "Disconnected", s) /\ \A k \in DOMAIN c : c[k].sid = s
    BY CmdType DEF Cmd, CommandKind, Has
  <2>. HIDE DEF c
  <2>3. \A k : Has(Pending, k, r)' <=> Has(Pending, k, r) \/ Has(c, k, r)
    <3>1. Pending' = Pending \o c
      BY <2>1, <2>2, PushPending
    <3>. QED  BY <1>0, <2>2, <3>1, HasAppended
  <2>4. CASE r = s
    BY <2>1, <2>2, <2>3, <2>4
  <2>5. CASE r # s
    <3>1. state'[r] = state[r]
      BY <2>1, <2>5 DEF TypeOK, AcceptorTypeOK, ConnectionTypeOK
    <3>2. ~Has(c, "Disconnected", r)
      BY <2>2, <2>5 DEF Has
    <3>. QED  BY <2>1, <2>3, <3>1, <3>2
  <2>. QED  BY <2>4, <2>5
<1>. QED  BY <1>2, <1>3, <1>4, <1>5, IoStepCases

(* The oldest pending command, consumed, is all that is lost. *)
LEMMA HasTaken ==
    ASSUME TypeOK, SessionInv, NEW kinds, Take(kinds), NEW k, NEW r \in Sid
    PROVE  /\ Has(Pending, k, r)' => Has(Pending, k, r)
           /\ Has(Pending, k, r) => \/ Has(Pending, k, r)'
                                    \/ k \in kinds /\ r = Head(batch).sid
<1>1. /\ Pending \in Seq(Command) /\ Pending # <<>> /\ Pending' = Tail(Pending)
      /\ Head(Pending) = Head(batch) /\ Head(batch).kind \in kinds
  BY TakePending
<1>2. nextSid \in Nat /\ Consistent(r, Pending, state[r], joined, wants, nextSid)
  BY DEF TypeOK, AcceptorTypeOK, SessionInv
<1>3. /\ Has(Pending, k, r) => Has(Tail(Pending), k, r) \/ IsCmd(Head(Pending), k, r)
      /\ Has(Tail(Pending), k, r) => Has(Pending, k, r)
  BY <1>1, <1>2, TailConsistent
<1>. QED  BY <1>1, <1>3 DEF IsCmd

(* A command taken is of a session that was given out, and a Disconnected  *)
(* is the last of its session.                                             *)
LEMMA TakenSession ==
    ASSUME TypeOK, SessionInv, NEW kinds, Take(kinds)
    PROVE  LET s == Head(batch).sid IN
             /\ s \in Sid /\ s < nextSid /\ Has(Pending, Head(batch).kind, s)
             /\ Head(batch).kind = "Disconnected" =>
                  state[s] = Absent /\ ~Has(Pending', "Disconnected", s)
<1>. DEFINE s == Head(batch).sid
            q == Pending
<1>1. /\ q \in Seq(Command) /\ q # <<>> /\ q' = Tail(q) /\ Head(q) = Head(batch)
      /\ s \in Sid
  BY TakePending
<1>. HIDE DEF q, s
<1>2. 1 \in DOMAIN q /\ q[1] = Head(batch)
  BY <1>1, TailIndex
<1>3. nextSid \in Nat /\ s \in Nat /\ Consistent(s, q, state[s], joined, wants, nextSid)
  BY <1>1 DEF TypeOK, AcceptorTypeOK, SessionInv, Sid, q
<1>4. s < nextSid
  BY <1>2, <1>3 DEF Consistent, NotYet, s
<1>5. ASSUME Head(batch).kind = "Disconnected"
      PROVE  state[s] = Absent /\ ~Has(q', "Disconnected", s)
  <2>1. IsCmd(q[1], "Disconnected", s)
    BY <1>2, <1>5 DEF IsCmd, s
  <2>2. state[s] = Absent /\ \A j \in DOMAIN q : q[j].sid = s => j <= 1
    BY <1>2, <1>3, <2>1 DEF Consistent, EndAnnounced, IsCmd
  <2>3. ASSUME NEW i \in DOMAIN Tail(q), Tail(q)[i].sid = s PROVE FALSE
    <3>1. i \in Nat /\ i >= 1
      BY <1>1, TailIndex, LenProperties
    <3>2. i + 1 \in DOMAIN q /\ q[i + 1].sid = s
      BY <1>1, <2>3, TailIndex
    <3>. QED  BY <2>2, <3>1, <3>2
  <2>. QED  BY <1>1, <2>2, <2>3 DEF Has
<1>. QED  BY <1>1, <1>2, <1>4, <1>5 DEF Has, q, s

(* One visitor moves, the others stay. *)
Moves(s, from, to) ==
    /\ StageOf(s) \in from /\ StageOf(s)' = to
    /\ \A r \in Sid \ {s} : StageOf(r)' = StageOf(r)

AllStay == \A r \in Sid : StageOf(r)' = StageOf(r)

LEMMA TickStepStages ==
    ASSUME TypeOK, SessionInv, WatchersJoined, TickStep, UNCHANGED acceptorVars
    PROVE  \/ AllStay
           \/ \E s \in Sid : \/ Moves(s, {"away"}, "joined")
                             \/ Moves(s, {"joined"}, "watching")
                             \/ Moves(s, {"away", "joined", "watching"}, "gone")
<1>0. state' = state /\ nextSid' = nextSid
  BY DEF acceptorVars, connVars
<1>s. PICK s \in Sid : batch # <<>> => s = Head(batch).sid
  <2>1. 1 \in Sid
    BY QueuesAssumption DEF Sid
  <2>2. batch # <<>> => Head(batch).sid \in Sid
    <3>1. batch \in Seq(Command)
      BY DEF TypeOK, BridgeTypeOK
    <3>2. batch # <<>> => Head(batch) \in Command
      BY <3>1
    <3>. QED  BY <3>2 DEF Command
  <2>. QED  BY <2>1, <2>2
<1>1. CASE BeginTick
  <2>1. batch = <<>> /\ batch' = inbound /\ inbound' = <<>> /\ inbound \in Seq(Command)
    BY <1>1 DEF BeginTick, SessionInv, PassInv, TypeOK, QueuesTypeOK
  <2>2. Pending' = Pending /\ UNCHANGED <<joined, wants>>
    BY <1>1, <2>1, ConcatEmptySeq DEF Pending, BeginTick
  <2>. QED  BY <1>0, <2>2 DEF StageOf, AllStay
<1>2. CASE EmitSnapshots
  <2>1. Pending' = Pending /\ UNCHANGED <<joined, wants>>
    BY <1>2 DEF Pending, EmitSnapshots
  <2>. QED  BY <1>0, <2>1 DEF StageOf, AllStay
<1>3. ASSUME NEW kinds, Take(kinds), "Disconnected" \notin kinds, NEW r \in Sid,
             r \in joined' <=> r \in joined, r \in wants' <=> r \in wants
      PROVE  StageOf(r)' = StageOf(r)
  <2>1. Has(Pending, "Disconnected", r)' <=> Has(Pending, "Disconnected", r)
    BY <1>3, HasTaken
  <2>. QED  BY <1>0, <1>3, <2>1 DEF StageOf
<1>4. CASE IgnoreCommand \/ HandleTeamSwitch \/ HandleSpawn
  <2>1. PICK kinds : Take(kinds) /\ "Disconnected" \notin kinds
    BY <1>4 DEF IgnoreCommand, HandleTeamSwitch, HandleSpawn
  <2>2. UNCHANGED <<joined, wants>>
    BY <1>4 DEF IgnoreCommand, HandleTeamSwitch, HandleSpawn
  <2>. QED  BY <1>3, <2>1, <2>2 DEF AllStay
<1>5. CASE AddSession
  <2>1. Take({"ClientConnected"}) /\ wants' = wants /\ joined' = joined \cup {s}
    BY <1>s, <1>5 DEF Take, AddSession
  <2>2. \A r \in Sid : r # s => StageOf(r)' = StageOf(r)
    BY <1>3, <2>1
  <2>3. s \in Sid /\ Has(Pending, "ClientConnected", s)
    <3>1. Head(batch).kind = "ClientConnected"
      BY <2>1 DEF Take
    <3>. QED  BY <1>s, <2>1, <3>1, TakenSession DEF Take
  <2>4. CASE s \in joined
    BY <1>3, <2>1, <2>2, <2>3, <2>4 DEF AllStay
  <2>5. CASE s \notin joined
    <3>1. StageOf(s) = "away"
      <4>1. state[s] = Absent => Has(Pending, "Disconnected", s)
        BY <2>3 DEF SessionInv, Consistent, EndAnnounced
      <4>. QED  BY <2>5, <4>1 DEF StageOf
    <3>2. StageOf(s)' = "joined"
      BY <2>1, <2>5 DEF StageOf, WatchersJoined
    <3>3. Moves(s, {"away"}, "joined")
      BY <2>2, <3>1, <3>2 DEF Moves
    <3>. QED  BY <2>3, <3>3
  <2>. QED  BY <2>4, <2>5
<1>6. CASE MarkWantUpdates
  <2>1. Take({"WantUpdates"}) /\ wants' = wants \cup ({s} \cap joined) /\ joined' = joined
    BY <1>s, <1>6 DEF Take, MarkWantUpdates
  <2>2. \A r \in Sid : r # s => StageOf(r)' = StageOf(r)
    BY <1>3, <2>1
  <2>3. CASE s \notin joined \/ s \in wants
    BY <1>3, <2>1, <2>2, <2>3 DEF AllStay
  <2>4. CASE s \in joined /\ s \notin wants
    <3>1. StageOf(s) = "joined" /\ StageOf(s)' = "watching"
      BY <2>1, <2>4 DEF StageOf
    <3>2. Moves(s, {"joined"}, "watching")
      BY <2>2, <3>1 DEF Moves
    <3>. QED  BY <3>2
  <2>. QED  BY <2>3, <2>4
<1>7. CASE RemoveSession
  <2>1. Take({"Disconnected"}) /\ wants' = wants \ {s} /\ joined' = joined \ {s}
    BY <1>s, <1>7 DEF Take, RemoveSession
  <2>2. /\ s \in Sid /\ s < nextSid /\ Has(Pending, "Disconnected", s)
        /\ state[s] = Absent /\ ~Has(Pending, "Disconnected", s)'
    <3>1. Head(batch).kind = "Disconnected"
      BY <2>1 DEF Take
    <3>. QED  BY <1>s, <2>1, <3>1, TakenSession DEF Take
  <2>3. \A r \in Sid : r # s => StageOf(r)' = StageOf(r)
    <3>. SUFFICES ASSUME NEW r \in Sid, r # s PROVE StageOf(r)' = StageOf(r)
      OBVIOUS
    <3>1. Has(Pending, "Disconnected", r)' <=> Has(Pending, "Disconnected", r)
      BY <1>s, <2>1, HasTaken DEF Take
    <3>. QED  BY <1>0, <2>1, <3>1 DEF StageOf
  <2>4. StageOf(s) \in {"away", "joined", "watching"}
    BY <2>2 DEF StageOf
  <2>5. StageOf(s)' = "gone"
    BY <1>0, <2>1, <2>2 DEF StageOf
  <2>6. Moves(s, {"away", "joined", "watching"}, "gone")
    BY <2>3, <2>4, <2>5 DEF Moves
  <2>. QED  BY <2>2, <2>6
<1>. QED  BY <1>1, <1>2, <1>4, <1>5, <1>6, <1>7 DEF TickStep

(* Every step is one visitor's move, or nobody's. *)
LEMMA LifecycleSteps ==
    ASSUME TypeOK, SessionInv, WatchersJoined, [Next]_vars
    PROVE  [Lifecycle!LifecycleNext]_([s \in Sid |-> StageOf(s)])
<1>. DEFINE stage == [s \in Sid |-> StageOf(s)]
<1>1. ASSUME AllStay PROVE stage' = stage
  BY <1>1 DEF AllStay
<1>2. ASSUME NEW s \in Sid, NEW from, NEW to, Moves(s, from, to)
      PROVE  stage[s] \in from /\ stage' = [stage EXCEPT ![s] = to]
  BY <1>2 DEF Moves
<1>3. CASE IoStep /\ UNCHANGED bridgeVars
  BY <1>1, <1>3, IoStepStages DEF AllStay
<1>4. CASE UNCHANGED vars
  <2>1. UNCHANGED <<state, nextSid, joined, wants, batch, inbound>>
    BY <1>4 DEF vars, queueVars, acceptorVars, connVars, bridgeVars
  <2>2. AllStay
    BY <2>1 DEF AllStay, StageOf, Pending
  <2>. QED  BY <1>1, <2>2
<1>5. CASE TickStep /\ UNCHANGED acceptorVars
  <2>1. CASE AllStay
    BY <1>1, <2>1
  <2>2. ASSUME NEW s \in Sid, Moves(s, {"away"}, "joined") PROVE Lifecycle!Join(s)
    BY <1>2, <2>2 DEF Lifecycle!Join, Lifecycle!Move
  <2>3. ASSUME NEW s \in Sid, Moves(s, {"joined"}, "watching") PROVE Lifecycle!Watch(s)
    BY <1>2, <2>3 DEF Lifecycle!Watch, Lifecycle!Move
  <2>4. ASSUME NEW s \in Sid, Moves(s, {"away", "joined", "watching"}, "gone")
        PROVE  Lifecycle!Leave(s)
    BY <1>2, <2>4 DEF Lifecycle!Leave, Lifecycle!Move
  <2>. QED  BY <1>5, <2>1, <2>2, <2>3, <2>4, TickStepStages DEF Lifecycle!LifecycleNext
<1>. QED  BY <1>3, <1>4, <1>5 DEF Next

(* A session id stands for one visit: whatever the interleaving of the     *)
(* I/O thread and the tick, HandleCommand lets a session join once, watch  *)
(* only after it joined, and never come back.                              *)
THEOREM OneVisitPerSession == Spec => ImplementsLifecycle
<1>1. Init => WatchersJoined /\ Lifecycle!LifecycleInit
  <2>. SUFFICES ASSUME Init PROVE WatchersJoined /\ Lifecycle!LifecycleInit
    OBVIOUS
  <2>1. joined = {} /\ wants = {} /\ nextSid = 1
    BY DEF Init, BridgeInit, AcceptorInit
  <2>2. \A s \in Sid : StageOf(s) = "away"
    BY <2>1 DEF StageOf, Sid
  <2>. QED  BY <2>1, <2>2 DEF WatchersJoined, Lifecycle!LifecycleInit
<1>2. WatchersJoined /\ [Next]_vars => WatchersJoined'
  BY WatchersStep
<1>3. TypeOK /\ SessionInv /\ WatchersJoined /\ [Next]_vars
        => [Lifecycle!LifecycleNext]_([s \in Sid |-> StageOf(s)])
  BY LifecycleSteps
<1>. QED  BY <1>1, <1>2, <1>3, TypeCorrect, SessionsConsistent, PTL
          DEF Spec, ImplementsLifecycle, Lifecycle!LifecycleSpec

----------------------------------------------------------------------------
(* The mail m that a step of the tick posts to session r: it is for a      *)
(* session in the table, tells it of players it has in common with the     *)
(* sender's table, adds whoever is new to it, and reports their new teams. *)
MailFor(r, m) ==
    /\ m # <<>> => r \in joined'
    /\ \A i \in DOMAIN m :
         /\ m[i].kind \in {"UpdateStats", "BirthNotice"} => r \in joined /\ m[i].about \in joined
         /\ m[i].kind \in {"AddToRoster", "UpdateStats"} => m[i].team = team'[m[i].about]
    /\ \A p \in Sid \ {r} :
         r \in joined' /\ p \in joined' =>
           /\ ~(r \in joined /\ p \in joined) =>
                \E i \in DOMAIN m : m[i].kind = "AddToRoster" /\ m[i].about = p
           /\ team'[p] # team[p] => NewsOf(m, p) # {}

LEMMA AddSessionMail ==
    ASSUME TypeOK, AddSession, NEW r \in Sid
    PROVE  \E m \in Seq(Message) : outbound'[r] = outbound[r] \o m /\ MailFor(r, m)
<1>. USE DEF Team, NoTeam
<1>0. /\ outbound \in [Sid -> Seq(Message)] /\ batch \in Seq(Command)
      /\ team \in [Sid -> Team \cup {NoTeam}] /\ joined \subseteq Sid
  BY DEF TypeOK, QueuesTypeOK, BridgeTypeOK
<1>1. PICK s \in Sid : s = Head(batch).sid
  <2>1. Take({"ClientConnected"})
    BY DEF AddSession
  <2>. QED  BY <2>1, TakePending
<1>2. CASE s \in joined
  <2>1. UNCHANGED <<outbound, joined, team>>
    BY <1>1, <1>2 DEF AddSession
  <2>2. outbound'[r] = outbound[r] \o <<>> /\ <<>> \in Seq(Message)
    BY <1>0, <2>1, ConcatEmptySeq
  <2>3. MailFor(r, <<>>)
    BY <2>1 DEF MailFor
  <2>. QED  BY <2>2, <2>3
<1>3. CASE s \notin joined
  <2>1. /\ joined' = joined \cup {s} /\ team' = [team EXCEPT ![s] = NoTeam]
        /\ \E others \in Visits(joined) :
             Post([u \in Sid |->
               CASE u = s -> [i \in DOMAIN others |->
                                Msg("AddToRoster", others[i], team[others[i]])]
                 [] u \in joined -> <<Msg("AddToRoster", s, NoTeam)>>
                 [] OTHER -> <<>>])
    BY <1>1, <1>3 DEF AddSession
  <2>2. PICK others \in Visits(joined) :
             Post([u \in Sid |->
               CASE u = s -> [i \in DOMAIN others |->
                                Msg("AddToRoster", others[i], team[others[i]])]
                 [] u \in joined -> <<Msg("AddToRoster", s, NoTeam)>>
                 [] OTHER -> <<>>])
    BY <2>1
  <2>3. team'[s] = NoTeam /\ \A p \in Sid \ {s} : team'[p] = team[p]
    BY <1>0, <2>1
  <2>4. CASE r = s
    <3>. DEFINE m == [i \in DOMAIN others |-> Msg("AddToRoster", others[i], team[others[i]])]
    <3>1. others \in Seq(Sid) /\ DOMAIN others = 1 .. Len(others) /\ Len(others) \in Nat
      <4>1. others \in Seq(Sid)
        BY <1>0, VisitsAreSequences
      <4>. QED  BY <4>1
    <3>2. \A i \in DOMAIN others : others[i] \in joined
      BY DEF Visits
    <3>3. DOMAIN m = DOMAIN others /\
          \A i \in DOMAIN m : /\ m[i].kind = "AddToRoster" /\ m[i].about = others[i]
                              /\ m[i].team = team[others[i]] /\ m[i] \in Message
      <4>1. \A i \in DOMAIN others : Msg("AddToRoster", others[i], team[others[i]]) \in Message
        BY <1>0, <3>2, MsgType DEF MessageKind
      <4>. QED  BY <4>1 DEF Msg
    <3>4. m \in Seq(Message)
      <4>. HIDE DEF m
      <4>1. m \in [1 .. Len(others) -> Message]
        <5>1. m = [i \in DOMAIN others |-> m[i]]
          BY DEF m
        <5>. QED  BY <3>1, <3>3, <5>1
      <4>. QED  BY <3>1, <4>1
    <3>5. outbound'[r] = outbound[r] \o m
      <4>. DEFINE box(v) == [u \in Sid |-> CASE u = s -> v
                                            [] u \in joined -> <<Msg("AddToRoster", s, NoTeam)>>
                                            [] OTHER -> <<>>]
      <4>1. Post(box(m))
        BY <2>2
      <4>2. \A v : box(v)[r] = v
        BY <1>3, <2>4
      <4>. HIDE DEF box, m
      <4>. QED  BY <4>1, <4>2 DEF Post
    <3>. HIDE DEF m
    <3>6. MailFor(r, m)
      <4>1. \A i \in DOMAIN m : m[i].team = team'[m[i].about]
        BY <1>0, <1>3, <2>3, <3>2, <3>3
      <4>2. \A p \in joined : \E i \in DOMAIN m : m[i].kind = "AddToRoster" /\ m[i].about = p
        <5>. SUFFICES ASSUME NEW p \in joined
                      PROVE  \E i \in DOMAIN m : m[i].kind = "AddToRoster" /\ m[i].about = p
          OBVIOUS
        <5>1. \E i \in DOMAIN others : others[i] = p
          BY <1>0, VisitsAreComplete
        <5>. QED  BY <3>3, <5>1
      <4>. QED  BY <1>0, <1>3, <2>1, <2>3, <2>4, <3>3, <4>1, <4>2 DEF MailFor
    <3>. QED  BY <3>4, <3>5, <3>6
  <2>5. CASE r # s /\ r \in joined
    <3>. DEFINE x == Msg("AddToRoster", s, NoTeam)
    <3>1. x \in Message /\ x.kind = "AddToRoster" /\ x.about = s /\ x.team = NoTeam
      BY MsgType DEF Msg, MessageKind
    <3>2. outbound'[r] = outbound[r] \o <<x>>
      BY <2>2, <2>5 DEF Post
    <3>. HIDE DEF x
    <3>3. <<x>> \in Seq(Message) /\ DOMAIN <<x>> = {1} /\ <<x>>[1] = x
      BY <3>1
    <3>4. MailFor(r, <<x>>)
      <4>1. 1 \in NewsOf(<<x>>, s)
        BY <3>1, <3>3 DEF NewsOf
      <4>. QED  BY <1>3, <2>1, <2>3, <2>5, <3>1, <3>3, <4>1 DEF MailFor
    <3>. QED  BY <3>2, <3>3, <3>4
  <2>6. CASE r # s /\ r \notin joined
    <3>1. outbound'[r] = outbound[r] \o <<>> /\ <<>> \in Seq(Message)
      BY <2>2, <2>6 DEF Post
    <3>2. MailFor(r, <<>>)
      BY <2>1, <2>6 DEF MailFor
    <3>. QED  BY <3>1, <3>2
  <2>. QED  BY <2>4, <2>5, <2>6
<1>. QED  BY <1>2, <1>3

(* A step that posts nothing, and lets nobody in. *)
LEMMA NoMail ==
    ASSUME TypeOK, UNCHANGED outbound, joined' \subseteq joined,
           \A p \in joined' : team'[p] = team[p], NEW r \in Sid
    PROVE  \E m \in Seq(Message) : outbound'[r] = outbound[r] \o m /\ MailFor(r, m)
<1>1. outbound'[r] = outbound[r] \o <<>> /\ <<>> \in Seq(Message)
  BY ConcatEmptySeq DEF TypeOK, QueuesTypeOK
<1>2. MailFor(r, <<>>)
  BY DEF MailFor
<1>. QED  BY <1>1, <1>2

LEMMA TeamSwitchMail ==
    ASSUME TypeOK, HandleTeamSwitch, NEW r \in Sid
    PROVE  \E m \in Seq(Message) : outbound'[r] = outbound[r] \o m /\ MailFor(r, m)
<1>0. /\ outbound \in [Sid -> Seq(Message)] /\ team \in [Sid -> Team \cup {NoTeam}]
      /\ joined \subseteq Sid /\ joined' = joined
  BY DEF TypeOK, QueuesTypeOK, BridgeTypeOK, HandleTeamSwitch
<1>1. PICK s \in Sid, t \in Team \cup {NoTeam} : s = Head(batch).sid /\ t = Head(batch).team
  <2>1. batch \in Seq(Command) /\ batch # <<>>
    BY DEF HandleTeamSwitch, Take, TypeOK, BridgeTypeOK
  <2>2. Head(batch) \in Command
    BY <2>1
  <2>. QED  BY <2>2 DEF Command
<1>2. CASE s \notin joined
  BY <1>0, <1>1, <1>2, NoMail DEF HandleTeamSwitch
<1>3. CASE s \in joined
  <2>. DEFINE x == Msg("ReincarnateResult", s, t)
              y == Msg("UpdateStats", s, t)
  <2>1. /\ x \in Message /\ x.kind = "ReincarnateResult"
        /\ y \in Message /\ y.kind = "UpdateStats" /\ y.about = s /\ y.team = t
    BY MsgType DEF Msg, MessageKind
  <2>2. /\ team' = [team EXCEPT ![s] = t]
        /\ outbound'[r] = outbound[r] \o (CASE r = s -> <<x>>
                                            [] r \in joined \ {s} -> <<y>>
                                            [] OTHER -> <<>>)
    BY <1>1, <1>3 DEF HandleTeamSwitch, Post
  <2>3. team'[s] = t /\ \A p \in Sid \ {s} : team'[p] = team[p]
    BY <1>0, <2>2
  <2>. HIDE DEF x, y
  <2>4. /\ <<x>> \in Seq(Message) /\ DOMAIN <<x>> = {1} /\ <<x>>[1] = x
        /\ <<y>> \in Seq(Message) /\ DOMAIN <<y>> = {1} /\ <<y>>[1] = y
    BY <2>1
  <2>5. CASE r = s
    <3>1. MailFor(r, <<x>>)
      BY <1>0, <1>3, <2>1, <2>3, <2>4, <2>5 DEF MailFor
    <3>. QED  BY <2>2, <2>4, <2>5, <3>1
  <2>6. CASE r \in joined \ {s}
    <3>1. 1 \in NewsOf(<<y>>, s)
      BY <2>1, <2>4 DEF NewsOf
    <3>2. MailFor(r, <<y>>)
      BY <1>0, <1>3, <2>1, <2>3, <2>4, <2>6, <3>1 DEF MailFor
    <3>. QED  BY <2>2, <2>4, <2>6, <3>2
  <2>7. CASE r \notin joined
    <3>1. MailFor(r, <<>>)
      BY <1>0, <2>7 DEF MailFor
    <3>2. outbound'[r] = outbound[r] \o <<>>
      BY <1>3, <2>2, <2>7
    <3>3. <<>> \in Seq(Message)
      OBVIOUS
    <3>. QED  BY <3>1, <3>2, <3>3
  <2>. QED  BY <2>5, <2>6, <2>7
<1>. QED  BY <1>2, <1>3

LEMMA SpawnMail ==
    ASSUME TypeOK, HandleSpawn, NEW r \in Sid
    PROVE  \E m \in Seq(Message) : outbound'[r] = outbound[r] \o m /\ MailFor(r, m)
<1>0. /\ outbound \in [Sid -> Seq(Message)] /\ team \in [Sid -> Team \cup {NoTeam}]
      /\ joined \subseteq Sid /\ joined' = joined /\ team' = team
  BY DEF TypeOK, QueuesTypeOK, BridgeTypeOK, HandleSpawn
<1>1. PICK s \in Sid : s = Head(batch).sid
  <2>1. Take({"Reincarnate"})
    BY DEF HandleSpawn
  <2>. QED  BY <2>1, TakePending
<1>. DEFINE t == team[s]
            x == Msg("TankSpawn", s, t)
            y == Msg("ReincarnateResult", s, t)
            z == Msg("BirthNotice", s, t)
<1>2. /\ x \in Message /\ x.kind = "TankSpawn" /\ y \in Message /\ y.kind = "ReincarnateResult"
      /\ z \in Message /\ z.kind = "BirthNotice" /\ z.about = s
  BY <1>0, MsgType DEF Msg, MessageKind
<1>3. \/ outbound'[r] = outbound[r]
      \/ s \in joined /\ r = s /\ outbound'[r] = outbound[r] \o <<y>>
      \/ s \in joined /\ r = s /\ outbound'[r] = outbound[r] \o <<x, y, z>>
      \/ s \in joined /\ r \in joined /\ outbound'[r] = outbound[r] \o <<z>>
  <2>1. CASE s \notin joined
    BY <1>1, <2>1 DEF HandleSpawn
  <2>2. CASE s \in joined /\ t \notin PadTeams
    <3>1. Post([u \in Sid |-> IF u = s THEN <<y>> ELSE <<>>])
      BY <1>1, <2>2 DEF HandleSpawn
    <3>. HIDE DEF y
    <3>2. outbound'[r] = outbound[r] \o (IF r = s THEN <<y>> ELSE <<>>)
      BY <3>1 DEF Post
    <3>3. outbound[r] \o <<>> = outbound[r]
      BY <1>0, ConcatEmptySeq
    <3>. QED  BY <2>2, <3>2, <3>3
  <2>3. CASE s \in joined /\ t \in PadTeams
    <3>1. Post([u \in Sid |-> CASE u = s -> <<x, y, z>>
                                [] u \in joined \ {s} -> <<z>>
                                [] OTHER -> <<>>])
      BY <1>1, <2>3 DEF HandleSpawn
    <3>. HIDE DEF x, y, z
    <3>2. outbound'[r] = outbound[r] \o (CASE r = s -> <<x, y, z>>
                                           [] r \in joined \ {s} -> <<z>>
                                           [] OTHER -> <<>>)
      BY <3>1 DEF Post
    <3>3. outbound[r] \o <<>> = outbound[r]
      BY <1>0, ConcatEmptySeq
    <3>4. CASE r = s
      BY <2>3, <3>2, <3>4
    <3>5. CASE r \in joined \ {s}
      BY <2>3, <3>2, <3>5
    <3>6. CASE r # s /\ r \notin joined
      BY <3>2, <3>3, <3>6
    <3>. QED  BY <3>4, <3>5, <3>6
  <2>. QED  BY <2>1, <2>2, <2>3
<1>. HIDE DEF x, y, z
<1>4. ASSUME NEW m \in Seq(Message), s \in joined, r \in joined,
             \A i \in DOMAIN m : m[i] \in {x, y, z}
      PROVE  MailFor(r, m)
  BY <1>0, <1>2, <1>4 DEF MailFor
<1>5. /\ <<y>> \in Seq(Message) /\ \A i \in DOMAIN <<y>> : <<y>>[i] \in {x, y, z}
      /\ <<z>> \in Seq(Message) /\ \A i \in DOMAIN <<z>> : <<z>>[i] \in {x, y, z}
      /\ <<x, y, z>> \in Seq(Message)
      /\ \A i \in DOMAIN <<x, y, z>> : <<x, y, z>>[i] \in {x, y, z}
  BY <1>2
<1>6. CASE outbound'[r] = outbound[r]
  <2>1. outbound'[r] = outbound[r] \o <<>> /\ <<>> \in Seq(Message)
    BY <1>0, <1>6, ConcatEmptySeq
  <2>2. MailFor(r, <<>>)
    BY <1>0 DEF MailFor
  <2>. QED  BY <2>1, <2>2
<1>7. CASE s \in joined /\ r \in joined /\ outbound'[r] \in {outbound[r] \o <<y>>,
             outbound[r] \o <<z>>, outbound[r] \o <<x, y, z>>}
  BY <1>4, <1>5, <1>7
<1>. QED  BY <1>3, <1>6, <1>7

LEMMA SnapshotMail ==
    ASSUME TypeOK, EmitSnapshots, NEW r \in Sid
    PROVE  \E m \in Seq(Message) : outbound'[r] = outbound[r] \o m /\ MailFor(r, m)
<1>0. /\ outbound \in [Sid -> Seq(Message)] /\ joined' = joined /\ team' = team
  BY DEF TypeOK, QueuesTypeOK, EmitSnapshots
<1>. DEFINE x == Msg("EntryMap", r, NoTeam)
            y == Msg("SelfUpdate", r, NoTeam)
            z == Msg("OthersUpdate", r, NoTeam)
            M(u) == CASE u \notin joined \cap wants -> <<>>
                      [] u \in (joined \cap wants) \ spawned -> <<Msg("EntryMap", u, NoTeam)>>
                      [] u \in joined \cap wants \cap spawned /\ spawned \subseteq {u} ->
                           <<Msg("SelfUpdate", u, NoTeam)>>
                      [] OTHER -> <<Msg("OthersUpdate", u, NoTeam), Msg("SelfUpdate", u, NoTeam)>>
<1>1. x \in Message /\ y \in Message /\ z \in Message
  BY MsgType DEF MessageKind
<1>2. \A v \in {x, y, z} :
        v.kind \notin {"AddToRoster", "UpdateStats", "BirthNotice"}
  BY DEF Msg
<1>3. Post([u \in Sid |-> M(u)])
  BY DEF EmitSnapshots
<1>4. outbound'[r] = outbound[r] \o M(r)
  <2>. HIDE DEF M
  <2>. QED  BY <1>3 DEF Post
<1>5. M(r) = <<>> \/ (r \in joined /\ M(r) \in {<<x>>, <<y>>, <<z, y>>})
  OBVIOUS
<1>. HIDE DEF M, x, y, z
<1>6. /\ <<>> \in Seq(Message) /\ <<x>> \in Seq(Message) /\ <<y>> \in Seq(Message)
      /\ <<z, y>> \in Seq(Message)
      /\ \A i \in DOMAIN <<x>> : <<x>>[i] \in {x, y, z}
      /\ \A i \in DOMAIN <<y>> : <<y>>[i] \in {x, y, z}
      /\ \A i \in DOMAIN <<z, y>> : <<z, y>>[i] \in {x, y, z}
  BY <1>1
<1>7. ASSUME NEW m \in Seq(Message), r \in joined, \A i \in DOMAIN m : m[i] \in {x, y, z}
      PROVE  MailFor(r, m)
  BY <1>0, <1>2, <1>7 DEF MailFor
<1>8. MailFor(r, <<>>)
  BY <1>0 DEF MailFor
<1>. QED  BY <1>4, <1>5, <1>6, <1>7, <1>8

(* A step of the tick posts mail, and only mail that is due. *)
LEMMA TickMail ==
    ASSUME TypeOK, TickStep, NEW r \in Sid
    PROVE  \E m \in Seq(Message) : outbound'[r] = outbound[r] \o m /\ MailFor(r, m)
<1>1. CASE BeginTick \/ MarkWantUpdates \/ IgnoreCommand
  BY <1>1, NoMail DEF BeginTick, MarkWantUpdates, IgnoreCommand
<1>2. CASE RemoveSession
  <2>1. PICK s \in Sid : s = Head(batch).sid
    <3>1. Take({"Disconnected"})
      BY <1>2 DEF RemoveSession
    <3>. QED  BY <3>1, TakePending
  <2>2. /\ joined' = joined \ {s} /\ team' = [team EXCEPT ![s] = NoTeam]
        /\ UNCHANGED outbound
    BY <1>2, <2>1 DEF RemoveSession
  <2>3. joined \subseteq Sid /\ team \in [Sid -> Team \cup {NoTeam}]
    BY DEF TypeOK, BridgeTypeOK
  <2>4. joined' \subseteq joined /\ \A p \in joined' : team'[p] = team[p]
    BY <2>2, <2>3
  <2>. QED  BY <2>2, <2>4, NoMail
<1>. QED  BY <1>1, <1>2, AddSessionMail, TeamSwitchMail, SpawnMail, SnapshotMail DEF TickStep

----------------------------------------------------------------------------
(* Who may be sent something: the bridge holds the session, is about to,   *)
(* or has posted to it.                                                    *)
Known(s) == s \in joined \/ Has(Pending, "ClientConnected", s) \/ outbound[s] # <<>>

(* A client is identified before it logs in, listed to itself as it does,  *)
(* and known to the bridge only from then on.                              *)
PlayerInv ==
    \A s \in Sid :
        /\ s >= nextSid => outbound[s] = <<>>
        /\ state[s] \in Identified => endpoint[s] # NoEndpoint
        /\ state[s] \in Playing => roster[s][s] # Unlisted
        /\ Known(s) /\ state[s] # Absent =>
             state[s] \in LoggedIn /\ roster[s][s] # Unlisted /\ endpoint[s] # NoEndpoint

(* What a flush does to the messages and to what the clients were told. *)
LEMMA FlushEffect ==
    ASSUME TypeOK, FlushOutboundMessages, NEW s \in Sid
    PROVE  /\ outbound'[s] = <<>>
           /\ UNCHANGED <<state, endpoint, inbound, nextSid>>
           /\ \A p \in Sid :
                /\ roster[s][p] # Unlisted => roster'[s][p] # Unlisted
                /\ ~SendMayFail /\ state[s] # Absent =>
                     roster'[s][p] = LastNews(outbound[s], p, roster[s][p])
<1>1. PICK full \in IF SendMayFail THEN SUBSET Clients ELSE {{}} :
        roster' = [r \in Sid |-> [p \in Sid |->
                     IF r \in Clients \ full
                     THEN LastNews(outbound[r], p, roster[r][p])
                     ELSE roster[r][p]]]
  BY DEF FlushOutboundMessages
<1>2. outbound[s] \in Seq(Message)
  BY DEF TypeOK, QueuesTypeOK
<1>3. ASSUME NEW p \in Sid
      PROVE  /\ roster[s][p] # Unlisted => roster'[s][p] # Unlisted
             /\ ~SendMayFail /\ state[s] # Absent =>
                  roster'[s][p] = LastNews(outbound[s], p, roster[s][p])
  <2>1. roster'[s][p] = IF s \in Clients \ full
                        THEN LastNews(outbound[s], p, roster[s][p])
                        ELSE roster[s][p]
    BY <1>1
  <2>2. roster[s][p] # Unlisted => LastNews(outbound[s], p, roster[s][p]) # Unlisted
    BY <1>2, NewsAreListed
  <2>3. ~SendMayFail /\ state[s] # Absent => s \in Clients \ full
    BY <1>1 DEF Clients
  <2>. QED  BY <2>1, <2>2, <2>3
<1>4. outbound'[s] = <<>> /\ UNCHANGED <<state, endpoint, inbound, nextSid>>
  BY DEF FlushOutboundMessages, NoMessages, connVars
<1>. QED  BY <1>3, <1>4

LEMMA IoStepPlayer ==
    ASSUME TypeOK, SessionInv, PlayerInv, IoStep, UNCHANGED bridgeVars
    PROVE  PlayerInv'
<1>. SUFFICES ASSUME NEW r \in Sid
              PROVE  /\ r >= nextSid' => outbound'[r] = <<>>
                     /\ state'[r] \in Identified => endpoint'[r] # NoEndpoint
                     /\ state'[r] \in Playing => roster'[r][r] # Unlisted
                     /\ Known(r)' /\ state'[r] # Absent =>
                          /\ state'[r] \in LoggedIn /\ roster'[r][r] # Unlisted
                          /\ endpoint'[r] # NoEndpoint
  BY DEF PlayerInv
<1>0. /\ joined' = joined /\ batch' = batch /\ nextSid \in Nat /\ r \in Nat
      /\ r >= nextSid => outbound[r] = <<>>
      /\ state[r] \in Identified => endpoint[r] # NoEndpoint
      /\ state[r] \in Playing => roster[r][r] # Unlisted
      /\ Known(r) /\ state[r] # Absent =>
           state[r] \in LoggedIn /\ roster[r][r] # Unlisted /\ endpoint[r] # NoEndpoint
  BY DEF PlayerInv, bridgeVars, TypeOK, AcceptorTypeOK, Sid
<1>1. CASE Quiet
  <2>1. UNCHANGED <<state, endpoint, roster, inbound, outbound, nextSid>>
    BY <1>1 DEF Quiet
  <2>2. Known(r)' <=> Known(r)
    BY <1>0, <2>1 DEF Known, Pending
  <2>. QED  BY <1>0, <2>1, <2>2
<1>2. CASE FlushOutboundMessages
  <2>1. /\ outbound'[r] = <<>> /\ UNCHANGED <<state, endpoint, inbound, nextSid>>
        /\ roster[r][r] # Unlisted => roster'[r][r] # Unlisted
    BY <1>2, FlushEffect
  <2>2. Known(r)' => Known(r)
    BY <1>0, <2>1 DEF Known, Pending
  <2>. QED  BY <1>0, <2>1, <2>2
<1>3. CASE AcceptNewConnection
  <2>1. /\ state' = [state EXCEPT ![nextSid] = "AwaitingKeyEcho"]
        /\ nextSid' = nextSid + 1 /\ UNCHANGED <<endpoint, roster, inbound, outbound>>
    BY <1>3 DEF AcceptNewConnection, queueVars
  <2>2. Known(r)' <=> Known(r)
    BY <1>0, <2>1 DEF Known, Pending
  <2>3. CASE r = nextSid
    <3>1. state'[r] = "AwaitingKeyEcho"
      BY <2>1, <2>3 DEF TypeOK, AcceptorTypeOK, ConnectionTypeOK
    <3>2. ~Known(r)
      <4>1. r \notin joined /\ \A i \in DOMAIN Pending : Pending[i].sid # r
        BY <1>0, <2>3 DEF SessionInv, Consistent, NotYet
      <4>. QED  BY <1>0, <2>3, <4>1 DEF Known, Has
    <3>. QED  BY <1>0, <2>1, <2>2, <2>3, <3>1, <3>2 DEF Identified, Playing
  <2>4. CASE r # nextSid
    <3>1. state'[r] = state[r]
      BY <2>1, <2>4 DEF TypeOK, AcceptorTypeOK, ConnectionTypeOK
    <3>. QED  BY <1>0, <2>1, <2>2, <2>4, <3>1
  <2>. QED  BY <2>3, <2>4
<1>4. ASSUME NEW s \in Sid, Serves(s), r # s
      PROVE  /\ UNCHANGED <<state[r], endpoint[r], roster[r], outbound[r], nextSid>>
             /\ Known(r)' => Known(r)
  <2>1. UNCHANGED <<state[r], endpoint[r], roster[r], outbound[r], nextSid>>
    BY <1>4 DEF Serves
  <2>2. Has(Pending, "ClientConnected", r)' => Has(Pending, "ClientConnected", r)
    BY <1>4, ServesPending
  <2>. QED  BY <1>0, <2>1, <2>2 DEF Known
<1>5. ASSUME Serves(r)
      PROVE  /\ state[r] # Absent /\ state'[r] # Absent /\ UNCHANGED <<outbound, nextSid>>
             /\ state'[r] \in Identified => endpoint'[r] # NoEndpoint
             /\ state'[r] \in Playing => roster'[r][r] # Unlisted
             /\ Known(r)' =>
                  /\ state'[r] \in LoggedIn /\ roster'[r][r] # Unlisted
                  /\ endpoint'[r] # NoEndpoint
  <2>1. /\ state[r] # Absent /\ state'[r] # Absent /\ UNCHANGED <<outbound, nextSid>>
        /\ roster'[r][r] = roster[r][r] \/ roster'[r][r] # Unlisted
        /\ endpoint'[r] = endpoint[r] \/ state[r] = "AwaitingKeyEcho"
        /\ state'[r] \in Identified => state[r] \in Identified \/ endpoint'[r] # NoEndpoint
        /\ state'[r] \in Playing => state[r] \in Playing \/ roster'[r][r] # Unlisted
        /\ state[r] \in LoggedIn => state'[r] \in LoggedIn
    BY <1>5 DEF Serves
  <2>2. state'[r] \in Identified => endpoint'[r] # NoEndpoint
    BY <1>0, <2>1 DEF Identified
  <2>3. state'[r] \in Playing => roster'[r][r] # Unlisted
    BY <1>0, <2>1
  <2>4. CASE Known(r)
    BY <1>0, <2>1, <2>4 DEF LoggedIn, Playing
  <2>5. CASE ~Known(r) /\ Known(r)'
    <3>1. state[r] \in Identified /\ state'[r] = "Verified" /\ roster'[r][r] # Unlisted
      <4>1. Has(Pending, "ClientConnected", r)' /\ ~Has(Pending, "ClientConnected", r)
        BY <1>0, <2>1, <2>5 DEF Known
      <4>. QED  BY <1>5, <4>1, ServesPending
    <3>. QED  BY <2>1, <2>2, <3>1 DEF Identified, LoggedIn, Playing
  <2>. QED  BY <2>1, <2>2, <2>3, <2>4, <2>5
<1>6. ASSUME NEW s \in Sid, ReapClient(s)
      PROVE  /\ UNCHANGED <<outbound, nextSid>>
             /\ r = s => state'[r] = Absent
             /\ r # s => UNCHANGED <<state[r], endpoint[r], roster[r]>>
             /\ Known(r)' => Known(r)
  <2>. DEFINE c == <<Cmd("Disconnected", s)>>
  <2>1. /\ inbound' = inbound \o c /\ UNCHANGED <<outbound, nextSid>>
        /\ state' = [state EXCEPT ![s] = Absent]
        /\ endpoint' = [endpoint EXCEPT ![s] = NoEndpoint]
        /\ roster' = [roster EXCEPT ![s] = [p \in Sid |-> Unlisted]]
    BY <1>6 DEF ReapClient, Push
  <2>2. c \in Seq(Command) /\ ~Has(c, "ClientConnected", r)
    BY CmdType DEF Cmd, CommandKind, Has
  <2>. HIDE DEF c
  <2>3. Has(Pending, "ClientConnected", r)' <=> Has(Pending, "ClientConnected", r)
    <3>1. Pending \in Seq(Command) /\ Pending' = Pending \o c
      BY <2>1, <2>2, PushPending
    <3>2. Has(Pending \o c, "ClientConnected", r) <=> Has(Pending, "ClientConnected", r)
      BY <2>2, <3>1, HasAppended
    <3>. QED  BY <3>1, <3>2
  <2>4. r = s => state'[r] = Absent
    BY <2>1 DEF TypeOK, AcceptorTypeOK, ConnectionTypeOK
  <2>5. r # s => UNCHANGED <<state[r], endpoint[r], roster[r]>>
    BY <2>1 DEF TypeOK, AcceptorTypeOK, ConnectionTypeOK
  <2>. QED  BY <1>0, <2>1, <2>3, <2>4, <2>5 DEF Known
<1>7. ASSUME NEW s \in Sid, Serves(s) \/ ReapClient(s)
      PROVE  /\ r >= nextSid' => outbound'[r] = <<>>
             /\ state'[r] \in Identified => endpoint'[r] # NoEndpoint
             /\ state'[r] \in Playing => roster'[r][r] # Unlisted
             /\ Known(r)' /\ state'[r] # Absent =>
                  /\ state'[r] \in LoggedIn /\ roster'[r][r] # Unlisted
                  /\ endpoint'[r] # NoEndpoint
  <2>1. CASE Serves(s) /\ r # s
    BY <1>0, <1>4, <2>1
  <2>2. CASE Serves(s) /\ r = s
    BY <1>0, <1>5, <2>2
  <2>3. CASE ReapClient(s)
    BY <1>0, <1>6, <2>3 DEF Identified, Playing, Absent
  <2>. QED  BY <1>7, <2>1, <2>2, <2>3
<1>. QED  BY <1>1, <1>2, <1>3, <1>7, IoStepCases

(* What a tick step makes known was known before. *)
LEMMA TickStepKnown ==
    ASSUME TypeOK, SessionInv, TickStep, UNCHANGED acceptorVars, NEW r \in Sid, Known(r)'
    PROVE  Known(r)
<1>1. PICK m \in Seq(Message) : outbound'[r] = outbound[r] \o m /\ MailFor(r, m)
  BY TickMail
<1>2. Has(Pending, "ClientConnected", r)' => Has(Pending, "ClientConnected", r)
  <2>1. CASE BeginTick
    <3>1. batch = <<>> /\ batch' = inbound /\ inbound' = <<>> /\ inbound \in Seq(Command)
      BY <2>1 DEF BeginTick, SessionInv, PassInv, TypeOK, QueuesTypeOK
    <3>2. Pending' = Pending
      BY <3>1, ConcatEmptySeq DEF Pending
    <3>. QED  BY <3>2
  <2>2. CASE EmitSnapshots
    BY <2>2 DEF EmitSnapshots, Pending
  <2>3. ASSUME NEW kinds, Take(kinds)
        PROVE  Has(Pending, "ClientConnected", r)' => Has(Pending, "ClientConnected", r)
    BY <2>3, HasTaken
  <2>. QED  BY <2>1, <2>2, <2>3 DEF TickStep, AddSession, MarkWantUpdates, RemoveSession,
                                    HandleTeamSwitch, HandleSpawn, IgnoreCommand
<1>3. r \in joined' => Known(r)
  <2>1. CASE AddSession
    <3>1. /\ Take({"ClientConnected"}) /\ Head(batch).kind = "ClientConnected"
          /\ joined' = joined \cup {Head(batch).sid}
      BY <2>1 DEF AddSession, Take
    <3>2. Has(Pending, "ClientConnected", Head(batch).sid)
      BY <3>1, TakenSession
    <3>. QED  BY <3>1, <3>2 DEF Known
  <2>2. CASE ~AddSession
    <3>1. joined' \subseteq joined
      BY <2>2 DEF TickStep, BeginTick, MarkWantUpdates, RemoveSession, HandleTeamSwitch,
                  HandleSpawn, IgnoreCommand, EmitSnapshots
    <3>. QED  BY <3>1 DEF Known
  <2>. QED  BY <2>1, <2>2
<1>4. outbound'[r] # <<>> => Known(r)
  <2>1. outbound[r] \in Seq(Message)
    BY DEF TypeOK, QueuesTypeOK
  <2>2. outbound'[r] # <<>> => outbound[r] # <<>> \/ m # <<>>
    BY <1>1, <2>1, ConcatEmptySeq
  <2>. QED  BY <1>1, <1>3, <2>2 DEF Known, MailFor
<1>. QED  BY <1>2, <1>3, <1>4 DEF Known

LEMMA TickStepPlayer ==
    ASSUME TypeOK, SessionInv, PlayerInv, TickStep, UNCHANGED acceptorVars
    PROVE  PlayerInv'
<1>. SUFFICES ASSUME NEW r \in Sid
              PROVE  /\ r >= nextSid => outbound'[r] = <<>>
                     /\ state[r] \in Identified => endpoint[r] # NoEndpoint
                     /\ state[r] \in Playing => roster[r][r] # Unlisted
                     /\ Known(r)' /\ state[r] # Absent =>
                          /\ state[r] \in LoggedIn /\ roster[r][r] # Unlisted
                          /\ endpoint[r] # NoEndpoint
  BY DEF PlayerInv, acceptorVars, connVars
<1>1. Known(r)' => Known(r)
  BY TickStepKnown
<1>2. r >= nextSid => ~Known(r)
  <2>1. nextSid \in Nat /\ Consistent(r, Pending, state[r], joined, wants, nextSid)
    BY DEF TypeOK, AcceptorTypeOK, SessionInv
  <2>. QED  BY <2>1 DEF Consistent, NotYet, Known, Has, PlayerInv
<1>3. outbound'[r] # <<>> => Known(r)'
  BY DEF Known
<1>. QED  BY <1>1, <1>2, <1>3 DEF PlayerInv

(* In every interleaving of login, tick, flush and reap, the clients the   *)
(* bridge may post to have logged in.                                      *)
THEOREM PlayersAreKnown == Spec => []PlayerInv
<1>1. Init => PlayerInv
  <2>. SUFFICES ASSUME Init, NEW s \in Sid
                PROVE  /\ s >= nextSid => outbound[s] = <<>>
                       /\ state[s] \in Identified => endpoint[s] # NoEndpoint
                       /\ state[s] \in Playing => roster[s][s] # Unlisted
                       /\ Known(s) /\ state[s] # Absent =>
                            /\ state[s] \in LoggedIn /\ roster[s][s] # Unlisted
                            /\ endpoint[s] # NoEndpoint
    BY DEF PlayerInv
  <2>1. state[s] = Absent /\ outbound[s] = <<>>
    BY DEF Init, AcceptorInit, ConnectionInit, QueuesInit, NoMessages
  <2>. QED  BY <2>1 DEF Absent, Identified, Playing
<1>2. TypeOK /\ SessionInv /\ PlayerInv /\ [Next]_vars => PlayerInv'
  <2>. SUFFICES ASSUME TypeOK, SessionInv, PlayerInv, [Next]_vars PROVE PlayerInv'
    OBVIOUS
  <2>1. CASE UNCHANGED vars
    BY <2>1 DEF vars, queueVars, acceptorVars, connVars, bridgeVars, PlayerInv, Known, Pending
  <2>. QED  BY <2>1, IoStepPlayer, TickStepPlayer DEF Next
<1>. QED  BY <1>1, <1>2, TypeCorrect, SessionsConsistent, PTL DEF Spec

(* Nothing about the world waits for a client that has not completed its   *)
(* login, nor for one whose packets FlushOneOutbound would drop for want   *)
(* of an endpoint.                                                         *)
THEOREM WorldIsForPlayers == Spec => []WorldOnlyToPlayers
<1>1. TypeOK /\ PlayerInv => WorldOnlyToPlayers
  <2>. SUFFICES ASSUME TypeOK, PlayerInv, NEW s \in Sid, outbound[s] # <<>>
                PROVE  /\ state[s] \in {"Verified", "InGame", "Closed", Absent}
                       /\ state[s] # Absent => roster[s][s] # Unlisted
                       /\ state[s] # Absent => endpoint[s] # NoEndpoint
    BY DEF WorldOnlyToPlayers
  <2>. QED  BY DEF PlayerInv, Known, LoggedIn, Playing
<1>. QED  BY <1>1, TypeCorrect, PlayersAreKnown, PTL

----------------------------------------------------------------------------
(* When no send fails, the rosters of the players agree with the table.    *)

(* Client s was told of player p, or the message that tells it is posted. *)
Told(s, p) ==
    \/ roster[s][p] # Unlisted
    \/ \E i \in DOMAIN outbound[s] : /\ outbound[s][i].kind = "AddToRoster"
                                     /\ outbound[s][i].about = p

EveryoneIsTold == \A s, p \in joined : state[s] # Absent => Told(s, p)

RosterInv == EveryoneIsTold /\ RosterBeforeNews /\ RosterConverges

(* The roster of a client that an I/O step neither flushes nor reaps. *)
SameMail(s) ==
    /\ outbound'[s] = outbound[s] /\ state[s] # Absent
    /\ \A p \in Sid : /\ roster[s][p] # Unlisted => roster'[s][p] # Unlisted
                      /\ p # s => roster'[s][p] = roster[s][p]

(* Whether a step of the I/O thread touches client s, which it serves still *)
(* or anew, it flushes its messages or leaves them where they are.          *)
LEMMA IoStepMail ==
    ASSUME TypeOK, SessionInv, PlayerInv, IoStep, UNCHANGED bridgeVars,
           NEW s \in Sid, state'[s] # Absent
    PROVE  \/ SameMail(s)
           \/ s \notin joined /\ outbound'[s] = <<>>
           \/ FlushOutboundMessages /\ state[s] # Absent
<1>1. CASE Quiet
  <2>1. state[s] # Absent /\ UNCHANGED <<outbound, roster>>
    BY <1>1 DEF Quiet
  <2>. QED  BY <2>1 DEF SameMail
<1>2. CASE FlushOutboundMessages
  BY <1>2 DEF FlushOutboundMessages, connVars
<1>3. CASE AcceptNewConnection
  <2>1. /\ state' = [state EXCEPT ![nextSid] = "AwaitingKeyEcho"]
        /\ UNCHANGED <<outbound, roster>>
    BY <1>3 DEF AcceptNewConnection, queueVars
  <2>2. CASE s = nextSid
    <3>1. s \notin joined /\ outbound[s] = <<>>
      BY <2>2 DEF SessionInv, Consistent, NotYet, PlayerInv, TypeOK, AcceptorTypeOK
    <3>. QED  BY <2>1, <3>1
  <2>3. CASE s # nextSid
    <3>1. state'[s] = state[s]
      BY <2>1, <2>3 DEF TypeOK, AcceptorTypeOK, ConnectionTypeOK
    <3>. QED  BY <2>1, <3>1 DEF SameMail
  <2>. QED  BY <2>2, <2>3
<1>4. ASSUME NEW r \in Sid, Serves(r) PROVE SameMail(s)
  BY <1>4 DEF Serves, SameMail
<1>5. ASSUME NEW r \in Sid, ReapClient(r) PROVE SameMail(s)
  <2>1. /\ state' = [state EXCEPT ![r] = Absent] /\ UNCHANGED outbound
        /\ roster' = [roster EXCEPT ![r] = [p \in Sid |-> Unlisted]]
    BY <1>5 DEF ReapClient
  <2>2. s # r
    BY <2>1 DEF TypeOK, AcceptorTypeOK, ConnectionTypeOK
  <2>3. state'[s] = state[s] /\ roster'[s] = roster[s]
    BY <2>1, <2>2 DEF TypeOK, AcceptorTypeOK, ConnectionTypeOK
  <2>. QED  BY <2>1, <2>3 DEF SameMail
<1>. QED  BY <1>1, <1>2, <1>3, <1>4, <1>5, IoStepCases

LEMMA IoStepRoster ==
    ASSUME ~SendMayFail, TypeOK, SessionInv, PlayerInv, RosterInv, IoStep, UNCHANGED bridgeVars
    PROVE  RosterInv'
<1>0. joined' = joined /\ team' = team /\ joined \subseteq Sid
  BY DEF bridgeVars, TypeOK, BridgeTypeOK
<1>1. ASSUME NEW s \in Sid, state'[s] # Absent
      PROVE  \/ SameMail(s)
             \/ s \notin joined /\ outbound'[s] = <<>>
             \/ /\ state[s] # Absent /\ outbound'[s] = <<>> /\ outbound[s] \in Seq(Message)
                /\ \A p \in Sid : roster'[s][p] = LastNews(outbound[s], p, roster[s][p])
  <2>1. CASE FlushOutboundMessages /\ state[s] # Absent
    BY <2>1, FlushEffect DEF TypeOK, QueuesTypeOK
  <2>. QED  BY <1>1, <2>1, IoStepMail
<1>2. EveryoneIsTold'
  <2>. SUFFICES ASSUME NEW s \in joined, NEW p \in joined, state'[s] # Absent
                PROVE  Told(s, p)'
    BY <1>0 DEF EveryoneIsTold
  <2>1. CASE SameMail(s)
    <3>1. Told(s, p)
      BY <1>0, <2>1 DEF RosterInv, EveryoneIsTold, SameMail
    <3>. QED  BY <1>0, <2>1, <3>1 DEF Told, SameMail
  <2>2. CASE /\ state[s] # Absent /\ outbound'[s] = <<>> /\ outbound[s] \in Seq(Message)
             /\ roster'[s][p] = LastNews(outbound[s], p, roster[s][p])
    <3>1. roster[s][p] # Unlisted \/ NewsOf(outbound[s], p) # {}
      BY <2>2 DEF RosterInv, EveryoneIsTold, Told, NewsOf
    <3>2. roster'[s][p] # Unlisted
      BY <2>2, <3>1, NewsAreListed
    <3>. QED  BY <3>2 DEF Told
  <2>. QED  BY <1>0, <1>1, <2>1, <2>2
<1>3. RosterBeforeNews'
  <2>. SUFFICES ASSUME NEW s \in Sid, state'[s] # Absent, NEW i \in DOMAIN (outbound'[s]),
                       outbound'[s][i].kind \in {"UpdateStats", "BirthNotice"}
                PROVE  \/ roster'[s][outbound'[s][i].about] # Unlisted
                       \/ \E j \in 1 .. i - 1 :
                            /\ outbound'[s][j].kind = "AddToRoster"
                            /\ outbound'[s][j].about = outbound'[s][i].about
    BY DEF RosterBeforeNews, Clients
  <2>1. SameMail(s)
    BY <1>1
  <2>2. outbound[s][i] \in Message
    BY <2>1 DEF SameMail, TypeOK, QueuesTypeOK
  <2>3. outbound[s][i].about \in Sid
    BY <2>2 DEF Message
  <2>. QED  BY <2>1, <2>3 DEF RosterInv, RosterBeforeNews, Clients, SameMail
<1>4. RosterConverges'
  <2>. SUFFICES ASSUME NEW s \in joined, NEW p \in joined, s # p, state'[s] # Absent
                PROVE  LastNews(outbound'[s], p, roster'[s][p]) = team[p]
    BY <1>0 DEF RosterConverges
  <2>1. CASE SameMail(s)
    BY <1>0, <2>1 DEF RosterInv, RosterConverges, SameMail
  <2>2. CASE /\ state[s] # Absent /\ outbound'[s] = <<>>
             /\ roster'[s][p] = LastNews(outbound[s], p, roster[s][p])
    <3>1. roster'[s][p] = team[p]
      BY <2>2 DEF RosterInv, RosterConverges
    <3>2. NewsOf(<<>>, p) = {}
      BY DEF NewsOf
    <3>. QED  BY <2>2, <3>1, <3>2, NoNewsIsOldNews
  <2>. QED  BY <1>0, <1>1, <2>1, <2>2
<1>. QED  BY <1>2, <1>3, <1>4 DEF RosterInv

(* Where the messages of a concatenation are. *)
LEMMA MailIndex ==
    ASSUME NEW a \in Seq(Message), NEW m \in Seq(Message)
    PROVE  /\ \A i \in DOMAIN a : i \in DOMAIN (a \o m) /\ (a \o m)[i] = a[i]
           /\ \A i \in DOMAIN m : Len(a) + i \in DOMAIN (a \o m) /\ (a \o m)[Len(a) + i] = m[i]
           /\ \A i \in DOMAIN (a \o m) : i \notin DOMAIN a =>
                /\ \A j \in DOMAIN a : j \in 1 .. i - 1
                /\ \E k \in DOMAIN m : (a \o m)[i] = m[k]
<1>1. /\ \A i \in DOMAIN a : i \in DOMAIN (a \o m) /\ (a \o m)[i] = a[i]
      /\ \A i \in DOMAIN m : Len(a) + i \in DOMAIN (a \o m) /\ (a \o m)[Len(a) + i] = m[i]
  OBVIOUS
<1>2. ASSUME NEW i \in DOMAIN (a \o m), i \notin DOMAIN a
      PROVE  /\ \A j \in DOMAIN a : j \in 1 .. i - 1
             /\ i - Len(a) \in DOMAIN m /\ (a \o m)[i] = m[i - Len(a)]
  BY <1>2
<1>. QED  BY <1>1, <1>2

LEMMA TickStepRoster ==
    ASSUME TypeOK, SessionInv, RosterInv, PlayerInv, TickStep, UNCHANGED acceptorVars
    PROVE  RosterInv'
<1>0. /\ state' = state /\ roster' = roster /\ joined \subseteq Sid /\ joined' \subseteq Sid
      /\ outbound \in [Sid -> Seq(Message)]
  BY TickStepType DEF acceptorVars, connVars, TypeOK, BridgeTypeOK, QueuesTypeOK
<1>1. \A s \in Sid : \E m \in Seq(Message) : outbound'[s] = outbound[s] \o m /\ MailFor(s, m)
  BY TickMail
<1>2. EveryoneIsTold'
  <2>. SUFFICES ASSUME NEW s \in joined', NEW p \in joined', state[s] # Absent
                PROVE  Told(s, p)'
    BY <1>0 DEF EveryoneIsTold
  <2>1. PICK m \in Seq(Message) : outbound'[s] = outbound[s] \o m /\ MailFor(s, m)
    BY <1>0, <1>1
  <2>2. CASE s \in joined /\ p \in joined
    <3>1. Told(s, p)
      BY <2>2 DEF RosterInv, EveryoneIsTold
    <3>2. \A i \in DOMAIN outbound[s] :
            i \in DOMAIN (outbound'[s]) /\ outbound'[s][i] = outbound[s][i]
      BY <1>0, <2>1, MailIndex
    <3>. QED  BY <1>0, <3>1, <3>2 DEF Told
  <2>3. CASE s # p /\ ~(s \in joined /\ p \in joined)
    <3>1. PICK i \in DOMAIN m : m[i].kind = "AddToRoster" /\ m[i].about = p
      BY <1>0, <2>1, <2>3 DEF MailFor
    <3>2. outbound[s] \in Seq(Message)
      BY <1>0
    <3>3. \E j \in DOMAIN (outbound[s] \o m) : (outbound[s] \o m)[j] = m[i]
      BY <3>2, MailIndex
    <3>. QED  BY <2>1, <3>1, <3>3 DEF Told
  <2>4. CASE s = p
    <3>1. Known(s)
      <4>1. Known(s)'
        BY DEF Known
      <4>. QED  BY <1>0, <4>1, TickStepKnown
    <3>2. roster[s][s] # Unlisted
      BY <1>0, <3>1 DEF PlayerInv
    <3>. QED  BY <1>0, <2>4, <3>2 DEF Told
  <2>. QED  BY <2>2, <2>3, <2>4
<1>3. RosterBeforeNews'
  <2>. SUFFICES ASSUME NEW s \in Sid, state[s] # Absent, NEW i \in DOMAIN (outbound'[s]),
                       outbound'[s][i].kind \in {"UpdateStats", "BirthNotice"}
                PROVE  \/ roster[s][outbound'[s][i].about] # Unlisted
                       \/ \E j \in 1 .. i - 1 :
                            /\ outbound'[s][j].kind = "AddToRoster"
                            /\ outbound'[s][j].about = outbound'[s][i].about
    BY <1>0 DEF RosterBeforeNews, Clients
  <2>1. PICK m \in Seq(Message) : outbound'[s] = outbound[s] \o m /\ MailFor(s, m)
    BY <1>1
  <2>2. /\ outbound[s] \in Seq(Message)
        /\ \A j \in DOMAIN outbound[s] : outbound'[s][j] = outbound[s][j] /\ j \in Nat
    BY <1>0, <2>1, MailIndex
  <2>3. CASE i \in DOMAIN outbound[s]
    <3>1. \/ roster[s][outbound[s][i].about] # Unlisted
          \/ \E j \in 1 .. i - 1 : /\ outbound[s][j].kind = "AddToRoster"
                                   /\ outbound[s][j].about = outbound[s][i].about
      BY <2>2, <2>3 DEF RosterInv, RosterBeforeNews, Clients
    <3>2. \A j \in 1 .. i - 1 : j \in DOMAIN outbound[s]
      BY <2>2, <2>3
    <3>. QED  BY <2>2, <2>3, <3>1, <3>2
  <2>4. CASE i \notin DOMAIN outbound[s]
    <3>1. PICK k \in DOMAIN m : outbound'[s][i] = m[k]
      BY <2>1, <2>2, <2>4, MailIndex
    <3>2. s \in joined /\ m[k].about \in joined
      BY <2>1, <3>1 DEF MailFor
    <3>3. Told(s, m[k].about)
      BY <3>2 DEF RosterInv, EveryoneIsTold
    <3>4. \A j \in DOMAIN outbound[s] : j \in 1 .. i - 1
      BY <2>1, <2>2, <2>4, MailIndex
    <3>. QED  BY <2>2, <3>1, <3>3, <3>4 DEF Told
  <2>. QED  BY <2>3, <2>4
<1>4. RosterConverges'
  <2>. SUFFICES ASSUME NEW s \in joined', NEW p \in joined', s # p, state[s] # Absent
                PROVE  LastNews(outbound'[s], p, roster[s][p]) = team'[p]
    BY <1>0 DEF RosterConverges
  <2>. DEFINE old == LastNews(outbound[s], p, roster[s][p])
  <2>1. PICK m \in Seq(Message) : outbound'[s] = outbound[s] \o m /\ MailFor(s, m)
    BY <1>0, <1>1
  <2>2. LastNews(outbound'[s], p, roster[s][p]) = LastNews(m, p, old)
    BY <1>0, <2>1, NewsOfConcat
  <2>3. \A i \in NewsOf(m, p) : m[i].team = team'[p]
    BY <2>1 DEF MailFor, NewsOf
  <2>4. NewsOf(m, p) # {} \/ old = team'[p]
    <3>1. CASE s \in joined /\ p \in joined
      <4>1. old = team[p]
        BY <3>1 DEF RosterInv, RosterConverges
      <4>2. team'[p] # team[p] => NewsOf(m, p) # {}
        BY <1>0, <2>1 DEF MailFor
      <4>. QED  BY <4>1, <4>2
    <3>2. CASE ~(s \in joined /\ p \in joined)
      <4>1. \E i \in DOMAIN m : m[i].kind = "AddToRoster" /\ m[i].about = p
        BY <1>0, <2>1, <3>2 DEF MailFor
      <4>. QED  BY <4>1 DEF NewsOf
    <3>. QED  BY <3>1, <3>2
  <2>. DEFINE new == team'[p]
  <2>5. LastNews(m, p, old) = new
    <3>1. /\ \A i \in NewsOf(m, p) : m[i].team = new
          /\ NewsOf(m, p) # {} \/ old = new
      BY <2>3, <2>4
    <3>. HIDE DEF old, new
    <3>. QED  BY <3>1, AgreeingNews
  <2>. QED  BY <2>2, <2>5
<1>. QED  BY <1>2, <1>3, <1>4 DEF RosterInv

(* When no send fails, EmitRosterCatchup and HandleTeamSwitch between them  *)
(* have told, or are telling, every player of every other, before any news. *)
THEOREM RostersAgree == ASSUME ~SendMayFail PROVE Spec => []RosterInv
<1>1. Init => RosterInv
  BY DEF Init, QueuesInit, BridgeInit, NoMessages, RosterInv, EveryoneIsTold, RosterBeforeNews,
         RosterConverges, AcceptorInit, ConnectionInit, Clients
<1>2. TypeOK /\ SessionInv /\ PlayerInv /\ RosterInv /\ [Next]_vars => RosterInv'
  <2>. SUFFICES ASSUME TypeOK, SessionInv, PlayerInv, RosterInv, [Next]_vars PROVE RosterInv'
    OBVIOUS
  <2>1. CASE UNCHANGED vars
    <3>1. UNCHANGED <<joined, team, state, outbound, roster>>
      BY <2>1 DEF vars, queueVars, acceptorVars, connVars, bridgeVars
    <3>2. EveryoneIsTold'
      BY <3>1 DEF RosterInv, EveryoneIsTold, Told
    <3>3. RosterBeforeNews'
      BY <3>1 DEF RosterInv, RosterBeforeNews, Clients
    <3>4. RosterConverges'
      BY <3>1 DEF RosterInv, RosterConverges
    <3>. QED  BY <3>2, <3>3, <3>4 DEF RosterInv
  <2>. QED  BY <2>1, IoStepRoster, TickStepRoster DEF Next
<1>. QED  BY <1>1, <1>2, TypeCorrect, SessionsConsistent, PlayersAreKnown, PTL DEF Spec

(* No peer reads of a player's team or spawn before the packet that adds    *)
(* the player, whatever the order of joins, switches, spawns and flushes.   *)
THEOREM RosterComesFirst == ASSUME ~SendMayFail PROVE Spec => []RosterBeforeNews
BY RostersAgree, PTL DEF RosterInv

(* Once what is posted has been sent, every player knows every other's team. *)
THEOREM RostersConverge == ASSUME ~SendMayFail PROVE Spec => []RosterConverges
BY RostersAgree, PTL DEF RosterInv

----------------------------------------------------------------------------
(* Who is served. *)

(* The safety of InGameIsServed: the tick that follows a client's entry    *)
(* into the game posts it a picture of the world, and so does every later  *)
(* one; only a request that the tick had not yet taken from the queue when *)
(* it began is left for the next (EmitSnapshots).                          *)
EveryTickServes ==
    [][EmitSnapshots =>
         \A s \in Sid : state[s] = "InGame" =>
            \/ Has(inbound, "WantUpdates", s)
            \/ \E i \in DOMAIN outbound'[s] : outbound'[s][i].kind \in {"EntryMap", "SelfUpdate"}]_vars

(* What EmitSnapshots posts to a watching session ends with its own view. *)
LEMMA SnapshotsServe ==
    ASSUME TypeOK, EmitSnapshots, NEW s \in joined \cap wants
    PROVE  \E i \in DOMAIN outbound'[s] : outbound'[s][i].kind \in {"EntryMap", "SelfUpdate"}
<1>. DEFINE x == Msg("EntryMap", s, NoTeam)
            y == Msg("SelfUpdate", s, NoTeam)
            z == Msg("OthersUpdate", s, NoTeam)
            M(u) == CASE u \notin joined \cap wants -> <<>>
                      [] u \in (joined \cap wants) \ spawned -> <<Msg("EntryMap", u, NoTeam)>>
                      [] u \in joined \cap wants \cap spawned /\ spawned \subseteq {u} ->
                           <<Msg("SelfUpdate", u, NoTeam)>>
                      [] OTHER -> <<Msg("OthersUpdate", u, NoTeam), Msg("SelfUpdate", u, NoTeam)>>
<1>1. s \in Sid /\ outbound[s] \in Seq(Message)
  BY DEF TypeOK, QueuesTypeOK, BridgeTypeOK
<1>2. /\ x \in Message /\ y \in Message /\ z \in Message
      /\ x.kind = "EntryMap" /\ y.kind = "SelfUpdate"
  BY <1>1, MsgType DEF MessageKind, Msg
<1>3. outbound'[s] = outbound[s] \o M(s)
  <2>1. Post([u \in Sid |-> M(u)])
    BY DEF EmitSnapshots
  <2>. HIDE DEF M
  <2>. QED  BY <1>1, <2>1 DEF Post
<1>4. M(s) \in {<<x>>, <<y>>, <<z, y>>}
  OBVIOUS
<1>. HIDE DEF M, x, y, z
<1>5. CASE M(s) \in {<<x>>, <<y>>}
  <2>1. /\ Len(outbound[s]) + 1 \in DOMAIN outbound'[s]
        /\ outbound'[s][Len(outbound[s]) + 1] \in {x, y}
    BY <1>1, <1>2, <1>3, <1>5
  <2>. QED  BY <1>2, <2>1
<1>6. CASE M(s) = <<z, y>>
  <2>1. /\ Len(outbound[s]) + 2 \in DOMAIN outbound'[s]
        /\ outbound'[s][Len(outbound[s]) + 2] = y
    BY <1>1, <1>2, <1>3, <1>6
  <2>. QED  BY <1>2, <2>1
<1>. QED  BY <1>4, <1>5, <1>6

(* A client in the game is in the bridge's table among those who asked for *)
(* updates when the batch is applied, or its request is still queued.      *)
LEMMA PlayersWatch ==
    ASSUME TypeOK, SessionInv, WatchersJoined, batch = <<>>,
           NEW s \in Sid, state[s] = "InGame", ~Has(inbound, "WantUpdates", s)
    PROVE  s \in joined \cap wants
<1>1. Pending = inbound
  BY ConcatEmptySeq DEF Pending, TypeOK, QueuesTypeOK
<1>. QED  BY <1>1 DEF SessionInv, Consistent, Announced, WatchersJoined

(* Whoever plays is sent the world at the end of every tick.               *)
THEOREM PlayersAreServed == Spec => EveryTickServes
<1>1. Init => WatchersJoined
  BY DEF Init, BridgeInit, WatchersJoined
<1>2. ASSUME TypeOK, SessionInv, WatchersJoined, EmitSnapshots,
             NEW s \in Sid, state[s] = "InGame", ~Has(inbound, "WantUpdates", s)
      PROVE  \E i \in DOMAIN outbound'[s] : outbound'[s][i].kind \in {"EntryMap", "SelfUpdate"}
  <2>1. batch = <<>>
    BY <1>2 DEF EmitSnapshots
  <2>. QED  BY <1>2, <2>1, PlayersWatch, SnapshotsServe
<1>3. TypeOK /\ SessionInv /\ WatchersJoined =>
        [EmitSnapshots =>
           \A s \in Sid : state[s] = "InGame" =>
              \/ Has(inbound, "WantUpdates", s)
              \/ \E i \in DOMAIN outbound'[s] :
                   outbound'[s][i].kind \in {"EntryMap", "SelfUpdate"}]_vars
  BY <1>2
<1>4. WatchersJoined /\ [Next]_vars => WatchersJoined'
  BY WatchersStep
<1>. QED  BY <1>1, <1>3, <1>4, TypeCorrect, SessionsConsistent, PTL DEF Spec, EveryTickServes
=============================================================================
