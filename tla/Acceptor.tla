------------------------------ MODULE Acceptor ------------------------------
(***************************************************************************)
(* The acceptor's I/O thread (net/acceptor.cpp): one pass of Run selects   *)
(* the readable sockets, accepts a connection, reads one UDP datagram,     *)
(* reads each readable client and handles the frames it sent, sends what   *)
(* the engine thread has posted, and reaps the clients that closed.  `pc`  *)
(* is the place in that pass (a pass ends in "reap").  Only this thread    *)
(* touches the clients, so its steps interleave with the engine thread's   *)
(* at the two queues alone.                                                *)
(***************************************************************************)
EXTENDS Connection, FiniteSetsExt

CONSTANTS
    FdSlots,     \* FD_SETSIZE less the listening and the UDP socket
    SendMayFail, \* whether a client's TCP send buffer can be full
    Requests     \* bound: the teams (NoTeam to spawn) that clients ask for

ASSUME AcceptorAssumption ==
    /\ Requests \subseteq Team \cup {NoTeam}
    /\ FdSlots \in Nat \ {0}
    /\ SendMayFail \in BOOLEAN

VARIABLES
    pc,       \* the place in Run's loop
    nextSid,  \* next_session_id
    ready,    \* the readable clients of this pass that are still to be read
    dead,     \* the clients to reap at the end of this pass
    hungup,   \* the clients whose peer has closed: their stream is at its end
    roster    \* history: the team each client was last told of each player

acceptorVars == <<connVars, pc, nextSid, ready, dead, hungup, roster>>

Unlisted == 3  \* in roster: the client was not told of the player
PassPlace == {"reap", "accept", "udp", "recv", "frames"}

AcceptorTypeOK ==
    /\ ConnectionTypeOK
    /\ pc \in PassPlace
    /\ nextSid \in 1 .. MaxSessions + 1
    /\ ready \subseteq Sid
    /\ dead \subseteq Sid
    /\ hungup \subseteq Sid
    /\ roster \in [Sid -> [Sid -> Team \cup {NoTeam, Unlisted}]]

AcceptorInit ==
    /\ ConnectionInit
    /\ pc = "reap"
    /\ nextSid = 1
    /\ ready = {}
    /\ dead = {}
    /\ hungup = {}
    /\ roster = [s \in Sid |-> [p \in Sid |-> Unlisted]]

----------------------------------------------------------------------------
(* Mutant: the read set is full one socket early. *)
PolledButLast == {s \in Clients : Cardinality({c \in Clients : c <= s}) < FdSlots}

(* s is the first session of S in the order of a std::map. *)
IsFirst(s, S) == s \in S /\ \A r \in S : s <= r

(* BuildReadSet offers select the clients that fit an fd_set, by session   *)
(* id; AddReadableSocket leaves the rest out without a word.               *)
Polled == {s \in Clients : Cardinality({c \in Clients : c <= s}) <= FdSlots}

(* BuildReadSet and PollReadable, once the last pass has reaped its dead.  *)
(* By then more peers may have closed their side, or their connection may  *)
(* have failed, with nothing left to read but the end of the stream; those *)
(* are readable, and any other client may be.                              *)
Select ==
    /\ pc = "reap"
    /\ dead = {}
    /\ pc' = "accept"
    /\ \E H \in SUBSET (Clients \ hungup) : hungup' = hungup \cup H
    /\ \E R \in SUBSET (Polled \ hungup') : ready' = R \cup (Polled \cap hungup')
    /\ UNCHANGED <<connVars, queueVars, nextSid, dead, roster>>

(* Mutant: a new connection takes the lowest id that is free. *)
AcceptReusingId ==
    /\ pc = "accept"
    /\ pc' = "udp"
    /\ Clients # Sid
    /\ LET s == Min(Sid \ Clients) IN
         /\ state' = [state EXCEPT ![s] = "AwaitingKeyEcho"]
         /\ nextSid' = IF s = nextSid THEN nextSid + 1 ELSE nextSid
    /\ UNCHANGED <<endpoint, queueVars, ready, dead, hungup, roster>>

(* AcceptNewConnection *)
AcceptNewConnection ==
    /\ pc = "accept"
    /\ pc' = "udp"
    /\ nextSid <= MaxSessions
    /\ state' = [state EXCEPT ![nextSid] = "AwaitingKeyEcho"]
    /\ nextSid' = nextSid + 1
    /\ UNCHANGED <<endpoint, queueVars, ready, dead, hungup, roster>>

(* PumpUdp reads one datagram, whether or not there was a connection.      *)
(* HandleUdpDatagram splits it into packets: a key echo may be followed by *)
(* another packet, anything else takes the rest of the datagram.           *)
PumpUdp(next) == pc \in {"accept", "udp"} /\ pc' = next

(* TryRouteLinkedUdpFrame finds, in session order, the first client linked *)
(* to the source of a datagram.                                            *)
RoutesTo(e, s) == IsFirst(s, {c \in Clients : endpoint[c] = e})

(* TryLinkUdpFrame: a session that is not linked recognises its key. *)
LinkUdp(s, e) ==
    /\ PumpUdp("udp")
    /\ LinkUdpAndIdentify(s, e)
    /\ UNCHANGED <<nextSid, ready, dead, hungup, roster>>

(* HandleUdpReincarnateRequest: a team switch is also answered at once, on *)
(* UDP, with the UPDATE_STATS record of the requester.                     *)
UdpReincarnate(s, e, t) ==
    /\ PumpUdp("recv")
    /\ RoutesTo(e, s)
    /\ QueueReincarnate(s, t)
    /\ roster' = IF t = NoTeam THEN roster ELSE [roster EXCEPT ![s][s] = t]
    /\ UNCHANGED <<nextSid, ready, dead, hungup>>

UdpActionInput(s, e) ==
    /\ PumpUdp("recv")
    /\ RoutesTo(e, s)
    /\ HandleUdpActionInput(s)
    /\ UNCHANGED <<nextSid, ready, dead, hungup, roster>>

(* No datagram, or a packet that changes nothing. *)
NoDatagram ==
    /\ PumpUdp("recv")
    /\ UNCHANGED <<connVars, queueVars, nextSid, ready, dead, hungup, roster>>

----------------------------------------------------------------------------
(* PumpReadableSockets reads the readable clients in session order. *)
Current(s) == IsFirst(s, ready)

(* PumpTcpClient, when recv says that the peer closed. *)
RecvClosed(s) ==
    /\ pc = "recv"
    /\ Current(s)
    /\ s \in hungup
    /\ dead' = dead \cup {s}
    /\ ready' = ready \ {s}
    /\ UNCHANGED <<connVars, queueVars, pc, nextSid, hungup, roster>>

(* PumpTcpClient, when recv returns bytes for OnTcpData. *)
RecvData(s) ==
    /\ pc = "recv"
    /\ Current(s)
    /\ s \notin hungup
    /\ pc' = "frames"
    /\ UNCHANGED <<connVars, queueVars, nextSid, ready, dead, hungup, roster>>

(* HandleFrame on a complete frame that leaves the connection open.  The   *)
(* bring-up burst of a completed login lists the player itself.            *)
HandleFrame(s) ==
    /\ pc = "frames"
    /\ Current(s)
    /\ \/ /\ \/ HandleLoginUsername(s)
             \/ EnterGame(s)
             \/ \E t \in Requests : QueueReincarnate(s, t)
             \/ IgnoreFrame(s)
          /\ UNCHANGED roster
       \/ /\ CompleteLoginWithPassword(s)
          /\ roster' = [roster EXCEPT ![s][s] = NoTeam]
    /\ UNCHANGED <<pc, nextSid, ready, dead, hungup>>

(* The bytes are used up, or the last of them is part of a frame. *)
EndDrain(s) ==
    /\ pc = "frames"
    /\ Current(s)
    /\ pc' = "recv"
    /\ ready' = ready \ {s}
    /\ UNCHANGED <<connVars, queueVars, nextSid, dead, hungup, roster>>

(* Mutant: the close flag of the step is not returned. *)
DropClientUnreaped(s) ==
    /\ pc = "frames"
    /\ Current(s)
    /\ pc' = "recv"
    /\ CloseConnection(s)
    /\ ready' = ready \ {s}
    /\ UNCHANGED <<nextSid, dead, hungup, roster>>

(* PumpTcpClient, when the step asks to close the connection. *)
DropClient(s) ==
    /\ pc = "frames"
    /\ Current(s)
    /\ pc' = "recv"
    /\ CloseConnection(s)
    /\ dead' = dead \cup {s}
    /\ ready' = ready \ {s}
    /\ UNCHANGED <<nextSid, hungup, roster>>

----------------------------------------------------------------------------
(* The last team that the messages of mail report of player p, or t. *)
LastNews(mail, p, t) ==
    LET news == {i \in DOMAIN mail : /\ mail[i].about = p
                                     /\ mail[i].kind \in {"AddToRoster", "UpdateStats"}}
    IN  IF news = {} THEN t ELSE mail[Max(news)].team

(* FlushOutboundMessages, after the last read: drain the queue and send    *)
(* each message to its client, if there is one.  The result of send on the *)
(* non-blocking socket is not looked at: a client whose buffer is full     *)
(* misses its messages.                                                    *)
FlushOutboundMessages ==
    /\ pc = "recv"
    /\ ready = {}
    /\ pc' = "reap"
    /\ outbound' = NoMessages
    /\ \E full \in IF SendMayFail THEN SUBSET Clients ELSE {{}} :
         roster' = [s \in Sid |-> [p \in Sid |->
                      IF s \in Clients \ full
                      THEN LastNews(outbound[s], p, roster[s][p])
                      ELSE roster[s][p]]]
    /\ UNCHANGED <<connVars, inbound, nextSid, ready, dead, hungup>>

(* Mutant: a client that broke the protocol is erased without a word. *)
ReapSilently(s) ==
    /\ pc = "reap"
    /\ s \in dead
    /\ dead' = dead \ {s}
    /\ state' = [state EXCEPT ![s] = Absent]
    /\ endpoint' = [endpoint EXCEPT ![s] = NoEndpoint]
    /\ hungup' = hungup \ {s}
    /\ Push(IF state[s] = "Closed" THEN <<>> ELSE <<Cmd("Disconnected", s)>>)
    /\ roster' = [roster EXCEPT ![s] = [p \in Sid |-> Unlisted]]
    /\ UNCHANGED <<outbound, pc, nextSid, ready>>

(* ReapClients, one client of the list at a time. *)
ReapClient(s) ==
    /\ pc = "reap"
    /\ s \in dead
    /\ dead' = dead \ {s}
    /\ state' = [state EXCEPT ![s] = Absent]
    /\ endpoint' = [endpoint EXCEPT ![s] = NoEndpoint]
    /\ hungup' = hungup \ {s}
    /\ Push(<<Cmd("Disconnected", s)>>)
    /\ roster' = [roster EXCEPT ![s] = [p \in Sid |-> Unlisted]]
    /\ UNCHANGED <<outbound, pc, nextSid, ready>>

IoStep ==
    \/ Select \/ AcceptNewConnection \/ NoDatagram \/ FlushOutboundMessages
    \/ \E s \in Sid :
         \/ \E e \in Endpoint : LinkUdp(s, e) \/ UdpActionInput(s, e)
         \/ \E e \in Endpoint, t \in Requests : UdpReincarnate(s, e, t)
         \/ RecvClosed(s) \/ RecvData(s) \/ HandleFrame(s)
         \/ EndDrain(s) \/ DropClient(s) \/ ReapClient(s)
=============================================================================
