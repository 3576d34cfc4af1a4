----------------------------- MODULE UdpRouting -----------------------------
(***************************************************************************)
(* How the acceptor finds the session that a UDP datagram is for           *)
(* (net/acceptor.cpp).  A packet may come in three forms: [opcode][body],  *)
(* the same in an envelope with its total length, and                      *)
(* [sequence][opcode][body].  Nothing tells them apart, so each packet is  *)
(* read both with and without two leading bytes, and each reading is       *)
(* offered first to the sessions that are not linked, then to the one that *)
(* is linked to the source.  OnUdpPacket (net/connection.cpp) decides what *)
(* a session does with a reading.                                          *)
(*                                                                         *)
(* Module Acceptor has the outcome of all this as its UDP actions.         *)
(***************************************************************************)
EXTENDS Connection

(***************************************************************************)
(* Readings, by what OnUdpPacket tells apart: the key echo of a session, a *)
(* stream handshake or a ping (answered in any state), a reincarnate       *)
(* request and action input that can be decoded, whatever else has a known *)
(* opcode, malformed requests included, and an unknown opcode or too short *)
(* a packet.                                                               *)
(***************************************************************************)
Reading == {"echo", "query", "reincarnate", "action", "ignored", "unknown"}

(* A packet of a session's client: what it says, and what its bytes happen *)
(* to say in the reading it is not meant for.  An envelope has its opcode  *)
(* where a sequence-framed packet has it, and a key is never where it is   *)
(* not meant to be.                                                        *)
Packet ==
    [from : Sid, form : {"raw", "seq"}, says : Reading, slip : Reading \ {"echo"}]
        \cup [from : Sid, form : {"envelope"}, says : Reading, slip : {"unknown"}]
NoPacket == [from |-> 1, form |-> "raw", says |-> "unknown", slip |-> "unknown"]

VARIABLES
    port,     \* the UDP source address of each session's client
    nextSid,  \* next_session_id
    attempt,  \* the place in HandleOneUdpPacket
    packet,   \* the packet in hand
    rest,     \* what follows it in the datagram, or NoPacket
    took      \* history: who reacted to the packet, and to which reading

udpVars == <<connVars, queueVars, port, nextSid, attempt, packet, rest, took>>

UdpTypeOK ==
    /\ QueuesTypeOK
    /\ ConnectionTypeOK
    /\ port \in [Sid -> Endpoint]
    /\ nextSid \in 1 .. MaxSessions + 1
    /\ attempt \in {"none", "link_seq", "link_raw", "route_raw", "route_seq", "done"}
    /\ packet \in Packet
    /\ rest \in Packet
    /\ took \in Seq([by : Sid, on : Reading])

UdpInit ==
    /\ QueuesInit
    /\ ConnectionInit
    /\ port \in [Sid -> Endpoint]
    /\ nextSid = 1
    /\ attempt = "none"
    /\ packet = NoPacket
    /\ rest = NoPacket
    /\ took = <<>>

----------------------------------------------------------------------------
(* The rest of the I/O thread and the tick, between two datagrams. *)

(* AcceptNewConnection *)
Accept ==
    /\ attempt = "none"
    /\ nextSid <= MaxSessions
    /\ state' = [state EXCEPT ![nextSid] = "AwaitingKeyEcho"]
    /\ nextSid' = nextSid + 1
    /\ UNCHANGED <<endpoint, queueVars, port, attempt, packet, rest, took>>

(* The frames that take a session on its way into the game. *)
TcpProgress(s) ==
    /\ attempt = "none"
    /\ HandleLoginUsername(s) \/ CompleteLoginWithPassword(s) \/ EnterGame(s)
    /\ UNCHANGED <<port, nextSid, attempt, packet, rest, took>>

(* A client whose peer closed, or that broke the protocol, is reaped at    *)
(* the end of the pass that saw it: no datagram finds it closed.           *)
Reap(s) ==
    /\ attempt = "none"
    /\ s \in Clients
    /\ Room
    /\ Push(<<Cmd("Disconnected", s)>>)
    /\ state' = [state EXCEPT ![s] = Absent]
    /\ endpoint' = [endpoint EXCEPT ![s] = NoEndpoint]
    /\ UNCHANGED <<outbound, port, nextSid, attempt, packet, rest, took>>

(* The tick takes the commands. *)
DrainInbound ==
    /\ attempt = "none"
    /\ inbound' = <<>>
    /\ UNCHANGED <<connVars, outbound, port, nextSid, attempt, packet, rest, took>>

----------------------------------------------------------------------------
(* PumpUdp and HandleUdpDatagram.  A client may go on to send when its     *)
(* session is gone.  Bound: the tick has taken the commands of the last    *)
(* datagram.                                                               *)
ReceiveDatagram(p, next) ==
    /\ attempt = "none"
    /\ inbound = <<>>
    /\ p.from < nextSid
    /\ attempt' = "link_seq"
    /\ packet' = p
    /\ rest' = next
    /\ took' = <<>>
    /\ UNCHANGED <<connVars, queueVars, port, nextSid>>

(* FirstUdpPacketLength: a raw Hello or HelloThere has an end of its own,  *)
(* and another packet may follow; anything else takes the whole datagram.  *)
(* Left out: a sequence that looks like one of the two opcodes.            *)
HelloPacket(s) == [from : {s}, form : {"raw"}, says : {"echo", "ignored"}, slip : {"ignored"}]

ReceiveOne == \E p \in Packet : ReceiveDatagram(p, NoPacket)

ReceiveBatch ==
    \E s \in Sid : \E p \in HelloPacket(s), q \in {r \in Packet : r.from = s} :
        ReceiveDatagram(p, q)

(* DecodeUdpFrame and DecodeRawUdpPayload *)
SeqReading == IF packet.form = "raw" THEN packet.slip ELSE packet.says
RawReading == IF packet.form = "seq" THEN packet.slip ELSE packet.says

(* s is the first session of S in the order of a std::map. *)
FirstOf(s, S) == s \in S /\ \A r \in S : s <= r

Unlinked == {s \in Clients : endpoint[s] = NoEndpoint}
LinkedTo(e) == {s \in Clients : endpoint[s] = e}

(* Session s does something about reading r. *)
Reacts(s, r) ==
    \/ r = "echo" /\ s = packet.from /\ endpoint[s] = NoEndpoint
    \/ r = "query"
    \/ r \in {"reincarnate", "action"} /\ state[s] = "InGame"

(* OnUdpPacket.  Its request to close the connection is not acted on.      *)
OnUdpPacket(s, r) ==
    \/ /\ Reacts(s, r)
       /\ \/ r = "echo" /\ LinkUdpAndIdentify(s, port[packet.from])
          \/ r = "query" /\ UNCHANGED <<connVars, queueVars>>
          \/ r = "reincarnate" /\ QueueReincarnate(s, NoTeam)
          \/ r = "action" /\ HandleUdpActionInput(s)
       /\ took' = Append(took, [by |-> s, on |-> r])
    \/ /\ ~Reacts(s, r)
       /\ UNCHANGED <<connVars, queueVars, took>>

(* Mutant: the answer to a session that is not linked does not count. *)
TryLinkAnswering(from, r, next) ==
    LET takers == {s \in Unlinked : Reacts(s, r)} IN
    /\ attempt = from
    /\ \/ \E s \in takers : FirstOf(s, takers) /\ OnUdpPacket(s, r)
       \/ takers = {} /\ UNCHANGED <<connVars, queueVars, took>>
    /\ attempt' = IF takers # {} /\ r = "echo" THEN "done" ELSE next
    /\ UNCHANGED <<port, nextSid, packet, rest>>

(* TryLinkUdpFrame: the first session that is not linked and that is       *)
(* linked by the reading, or answers it, takes the packet.                 *)
TryLinkUdpFrame(from, r, next) ==
    LET takers == {s \in Unlinked : Reacts(s, r)} IN
    /\ attempt = from
    /\ \/ \E s \in takers : FirstOf(s, takers) /\ OnUdpPacket(s, r)
       \/ takers = {} /\ UNCHANGED <<connVars, queueVars, took>>
    /\ attempt' = IF takers # {} THEN "done" ELSE next
    /\ UNCHANGED <<port, nextSid, packet, rest>>

(* Mutant: any session that is linked will do. *)
RouteToAnyLinked(from, r, next) ==
    LET linked == Clients \ Unlinked IN
    /\ attempt = from
    /\ \/ /\ r # "unknown"
          /\ \E s \in linked : FirstOf(s, linked) /\ OnUdpPacket(s, r)
          /\ attempt' = "done"
       \/ /\ r = "unknown" \/ linked = {}
          /\ attempt' = next
          /\ UNCHANGED <<connVars, queueVars, took>>
    /\ UNCHANGED <<port, nextSid, packet, rest>>

(* Mutant: the newest session is found. *)
RouteToNewest(from, r, next) ==
    LET linked == LinkedTo(port[packet.from]) IN
    /\ attempt = from
    /\ \/ /\ r # "unknown"
          /\ \E s \in linked : (\A o \in linked : o <= s) /\ OnUdpPacket(s, r)
          /\ attempt' = "done"
       \/ /\ r = "unknown" \/ linked = {}
          /\ attempt' = next
          /\ UNCHANGED <<connVars, queueVars, took>>
    /\ UNCHANGED <<port, nextSid, packet, rest>>

(* Mutant: the opcode need not be known. *)
RouteUnknown(from, r, next) ==
    LET linked == LinkedTo(port[packet.from]) IN
    /\ attempt = from
    /\ \/ /\ \E s \in linked : FirstOf(s, linked) /\ OnUdpPacket(s, r)
          /\ attempt' = "done"
       \/ /\ linked = {}
          /\ attempt' = next
          /\ UNCHANGED <<connVars, queueVars, took>>
    /\ UNCHANGED <<port, nextSid, packet, rest>>

(* TryRouteLinkedUdpFrame: a reading with a known opcode goes to the first *)
(* session that is linked to the source, whatever that makes of it.        *)
TryRouteLinkedUdpFrame(from, r, next) ==
    LET linked == LinkedTo(port[packet.from]) IN
    /\ attempt = from
    /\ \/ /\ r # "unknown"
          /\ \E s \in linked : FirstOf(s, linked) /\ OnUdpPacket(s, r)
          /\ attempt' = "done"
       \/ /\ r = "unknown" \/ linked = {}
          /\ attempt' = next
          /\ UNCHANGED <<connVars, queueVars, took>>
    /\ UNCHANGED <<port, nextSid, packet, rest>>

(* HandleOneUdpPacket tries both readings of a packet, in this order. *)
HandleOneUdpPacket ==
    \/ TryLinkUdpFrame("link_seq", SeqReading, "link_raw")
    \/ TryLinkUdpFrame("link_raw", RawReading, "route_raw")
    \/ TryRouteLinkedUdpFrame("route_raw", RawReading, "route_seq")
    \/ TryRouteLinkedUdpFrame("route_seq", SeqReading, "done")

(* HandleUdpDatagram goes on to the rest of the datagram. *)
NextUdpPacket ==
    /\ attempt = "done"
    /\ packet' = rest
    /\ rest' = NoPacket
    /\ attempt' = IF rest = NoPacket THEN "none" ELSE "link_seq"
    /\ took' = <<>>
    /\ UNCHANGED <<connVars, queueVars, port, nextSid>>

UdpNext ==
    \/ Accept \/ DrainInbound \/ (\E s \in Sid : TcpProgress(s) \/ Reap(s))
    \/ ReceiveOne \/ ReceiveBatch \/ HandleOneUdpPacket \/ NextUdpPacket

UdpSpec == UdpInit /\ [][UdpNext]_udpVars

----------------------------------------------------------------------------
(* A packet is read twice and offered to every session, and yet at most    *)
(* one session reacts to it, and once.                                     *)
OneReaction == Len(took) <= 1

(* Whatever is queued on behalf of a session came from the address that    *)
(* its own client sends from, in whichever way the packet was read.        *)
CommandsAreTheSenders ==
    \A i \in DOMAIN took :
        took[i].on \in {"reincarnate", "action"} =>
            port[took[i].by] = port[packet.from]

(* Something else is made of a packet than its client meant, if either     *)
(* reading is a question that a session which is not linked will answer,   *)
(* or if a sequence begins with the byte of a known opcode.                *)
Misread ==
    \/ Unlinked # {} /\ (packet.says = "query" \/ packet.slip = "query")
    \/ packet.form = "seq" /\ packet.slip # "unknown"

(* Anything else that a linked client asks is done, for its own session,   *)
(* if no older session is linked to the same address.                      *)
ServedByItsSession ==
    LET s == packet.from
        asked == \/ packet.says = "query"
                 \/ packet.says \in {"reincarnate", "action"} /\ state[s] = "InGame"
    IN  attempt = "done" /\ FirstOf(s, LinkedTo(port[s])) /\ asked /\ ~Misread =>
            took = <<[by |-> s, on |-> packet.says]>>

(* All that comes of a packet is what module Acceptor says of datagrams:   *)
(* a session is linked, or the first session that is linked to some        *)
(* address queues a command, or nothing happens.                           *)
UdpStepsOfAcceptor ==
    [][attempt # "none" =>
         \/ UNCHANGED <<connVars, queueVars>>
         \/ \E s \in Sid, e \in Endpoint :
              \/ LinkUdpAndIdentify(s, e)
              \/ /\ FirstOf(s, LinkedTo(e))
                 /\ QueueReincarnate(s, NoTeam) \/ HandleUdpActionInput(s)]_udpVars
=============================================================================
