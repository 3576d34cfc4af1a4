------------------------------- MODULE Queues -------------------------------
(***************************************************************************)
(* The two mutex-guarded FIFO queues through which the acceptor's I/O      *)
(* thread and the engine thread meet (include/wfh/server/queues.hpp):      *)
(* `inbound` carries validated client commands to the engine thread,       *)
(* `outbound` carries serialized messages to the I/O thread.  They are the *)
(* only state the two threads share.                                       *)
(*                                                                         *)
(* OutboundStateQueue is one FIFO.  Its reader drains all of it and sends  *)
(* each message on the socket of its own session, so only the order within *)
(* one session can be observed; it is modelled as one FIFO per session.    *)
(***************************************************************************)
EXTENDS Naturals, Sequences, FiniteSets

CONSTANTS
    MaxSessions,  \* bound: TCP sessions accepted in a behaviour
    MaxInbound,   \* bound: commands queued when a client sends another
    MaxOutbound   \* bound: messages left unsent to one session when a tick starts

ASSUME QueuesAssumption ==
    /\ MaxSessions \in Nat \ {0}
    /\ MaxInbound \in Nat \ {0}
    /\ MaxOutbound \in Nat

Sid == 1 .. MaxSessions  \* session ids, numbered from 1 in accept order
Team == {1, 2}
NoTeam == 0

CommandKind ==
    {"ClientConnected", "LoginUser", "LoginPassword", "ActionInput",
     "WantUpdates", "Reincarnate", "Disconnected"}

(* A validated command.  Its payload is abstracted to the team, which tells *)
(* a team switch (1 or 2) from a request to spawn (0).                      *)
Command == [kind : CommandKind, sid : Sid, team : Team \cup {NoTeam}]

Cmd(kind, s) == [kind |-> kind, sid |-> s, team |-> NoTeam]

MessageKind ==
    {"AddToRoster", "UpdateStats", "ReincarnateResult", "TankSpawn",
     "BirthNotice", "EntryMap", "OthersUpdate", "SelfUpdate"}

(* A serialized message: the packet it holds, the player it is about (the   *)
(* player id of a session is its session id) and the team it reports.       *)
Message == [kind : MessageKind, about : Sid, team : Team \cup {NoTeam}]

Msg(kind, p, t) == [kind |-> kind, about |-> p, team |-> t]

(* The transport: the in-game updates go over UDP, the rest over TCP. *)
Reliable(m) == m.kind \notin {"OthersUpdate", "SelfUpdate"}

VARIABLES
    inbound,   \* IncomingCmdQueue
    outbound   \* OutboundStateQueue, per session

queueVars == <<inbound, outbound>>

QueuesTypeOK ==
    /\ inbound \in Seq(Command)
    /\ outbound \in [Sid -> Seq(Message)]

NoMessages == [s \in Sid |-> <<>>]

QueuesInit ==
    /\ inbound = <<>>
    /\ outbound = NoMessages

(* ConcurrentQueue::Push, once per command of cmds. *)
Push(cmds) == inbound' = inbound \o cmds

(* The bound on what may be queued when a client sends something else. *)
Room == Len(inbound) < MaxInbound

(* OutboundStateQueue::Push of mail[s], in order, for each session s. *)
Post(mail) == outbound' = [s \in Sid |-> outbound[s] \o mail[s]]

(* Some queued command of kind k is from session s. *)
Has(queue, k, s) == \E i \in DOMAIN queue : queue[i].kind = k /\ queue[i].sid = s
=============================================================================
