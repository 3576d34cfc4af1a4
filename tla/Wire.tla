--------------------------------- MODULE Wire ---------------------------------
(***************************************************************************)
(* The three ways in which bytes from a client become something that the   *)
(* server acts on: the frames of a TCP stream, the routing of a datagram   *)
(* and the decoding of control input.  They share no state, so each        *)
(* behaviour exercises one of them, from any of its initial states.        *)
(***************************************************************************)
EXTENDS TcpStream, UdpRouting, ActionInput

VARIABLE part  \* the one that this behaviour exercises

wireVars == <<part, tcpVars, udpVars, actVars>>

(* Those that are not exercised have one initial state each. *)
Init ==
    /\ part \in {"tcp", "udp", "act"}
    /\ TcpInit /\ (part # "tcp" => stream = CHOOSE q \in Stream : TRUE)
    /\ UdpInit /\ (part # "udp" => port = [s \in Sid |-> CHOOSE e \in Endpoint : TRUE])
    /\ ActInit /\ (part # "act" => /\ sent.kind = "dump"
                                  /\ lost = CHOOSE k \in Missing : k <= BodyBytes(sent))

NextTcp == part = "tcp" /\ TcpNext /\ UNCHANGED <<part, udpVars, actVars>>
NextUdp == part = "udp" /\ UdpNext /\ UNCHANGED <<part, tcpVars, actVars>>
NextAct == part = "act" /\ ActNext /\ UNCHANGED <<part, tcpVars, udpVars>>

Next == NextTcp \/ NextUdp \/ NextAct

(* OnTcpData returns; whether a client goes on to send is up to it. *)
Spec == Init /\ [][Next]_wireVars /\ WF_wireVars(part = "tcp" /\ Drain /\ UNCHANGED <<part, udpVars, actVars>>)

TypeOK == TcpTypeOK /\ UdpTypeOK /\ ActTypeOK
=============================================================================
