----------------------------- MODULE Connection -----------------------------
(***************************************************************************)
(* The protocol state machine of one TCP session (net/connection.cpp),     *)
(* which the I/O thread runs for every accepted client.  A session is      *)
(* "Absent" before it is accepted and after it is reaped.                  *)
(*                                                                         *)
(* Only the UDP packet that links the session and the frames that change   *)
(* state have an action of their own; `Ignored` lists the others that a    *)
(* state accepts, and whatever is in neither closes the connection.        *)
(***************************************************************************)
EXTENDS Queues

CONSTANT Endpoint  \* UDP source addresses

ConnState ==
    {"AwaitingKeyEcho", "AwaitingUsername", "AwaitingPassword", "Verified",
     "InGame", "Closed"}

Absent == "Absent"
NoEndpoint == "none"

ASSUME EndpointAssumption == NoEndpoint \notin Endpoint

VARIABLES
    state,     \* Connection::state_
    endpoint   \* TcpClient::udp_addr, NoEndpoint while udp_addr_known is false

connVars == <<state, endpoint>>

ConnectionTypeOK ==
    /\ state \in [Sid -> ConnState \cup {Absent}]
    /\ endpoint \in [Sid -> Endpoint \cup {NoEndpoint}]

ConnectionInit ==
    /\ state = [s \in Sid |-> Absent]
    /\ endpoint = [s \in Sid |-> NoEndpoint]

Clients == {s \in Sid : state[s] # Absent}

(***************************************************************************)
(* TCP frames, by what HandleFrame tells apart.  A Login frame holds one   *)
(* acceptable string or two.                                               *)
(***************************************************************************)
FrameKind ==
    {"UnknownOpcode", "Generic", "HelloVersion", "HelloConfirm", "HelloOther",
     "HelloBad", "LoginOne", "LoginTwo", "LoginBad", "Bps", "BpsBad",
     "WantUpdates", "Reincarnate", "ReincarnateBad", "OtherKnown"}

(* The frames state st acts on. *)
Acting(st) ==
    CASE st \in {"AwaitingUsername", "AwaitingPassword"} -> {"LoginOne", "LoginTwo"}
      [] st = "Verified" -> {"WantUpdates"}
      [] st = "InGame" -> {"Reincarnate"}
      [] OTHER -> {}

(* The frames state st accepts without acting on them. *)
Ignored(st) ==
    CASE st = "AwaitingKeyEcho" -> {"Generic", "HelloVersion", "HelloConfirm", "HelloOther"}
      [] st = "AwaitingUsername" -> {"Generic", "HelloVersion", "HelloConfirm"}
      [] st = "AwaitingPassword" -> {"Generic"}
      [] st = "Verified" -> FrameKind \ {"UnknownOpcode", "BpsBad", "WantUpdates"}
      [] st = "InGame" -> FrameKind \ {"UnknownOpcode", "BpsBad", "Reincarnate", "ReincarnateBad"}
      [] OTHER -> {}

Rejected(st) == FrameKind \ (Acting(st) \cup Ignored(st))

----------------------------------------------------------------------------
(* LinkUdpAndIdentify: the client echoed its key from endpoint e. *)
LinkUdpAndIdentify(s, e) ==
    /\ state[s] = "AwaitingKeyEcho"
    /\ state' = [state EXCEPT ![s] = "AwaitingUsername"]
    /\ endpoint' = [endpoint EXCEPT ![s] = e]
    /\ UNCHANGED queueVars

(* HandleLoginUsername, with the one string the login names. *)
HandleLoginUsername(s) ==
    /\ state[s] = "AwaitingUsername"
    /\ state' = [state EXCEPT ![s] = "AwaitingPassword"]
    /\ Room
    /\ Push(<<Cmd("LoginUser", s)>>)
    /\ UNCHANGED <<endpoint, outbound>>

(* Mutant: a login in one frame is not announced. *)
CompleteLoginUnannounced(s) ==
    /\ Room
    /\ \/ /\ state[s] = "AwaitingPassword"
          /\ Push(<<Cmd("LoginPassword", s), Cmd("ClientConnected", s)>>)
       \/ /\ state[s] = "AwaitingUsername"
          /\ Push(<<Cmd("LoginUser", s), Cmd("LoginPassword", s)>>)
    /\ state' = [state EXCEPT ![s] = "Verified"]
    /\ UNCHANGED <<endpoint, outbound>>

(* CompleteLoginWithPassword: the password is trusted, the bring-up burst  *)
(* is answered on TCP and the session is announced to the engine thread.   *)
(* A client that put both strings in one frame is also announced by name.  *)
CompleteLoginWithPassword(s) ==
    /\ Room
    /\ \/ /\ state[s] = "AwaitingPassword"
          /\ Push(<<Cmd("LoginPassword", s), Cmd("ClientConnected", s)>>)
       \/ /\ state[s] = "AwaitingUsername"
          /\ Push(<<Cmd("LoginUser", s), Cmd("LoginPassword", s),
                    Cmd("ClientConnected", s)>>)
    /\ state' = [state EXCEPT ![s] = "Verified"]
    /\ UNCHANGED <<endpoint, outbound>>

(* WANT_UPDATES enters the game. *)
EnterGame(s) ==
    /\ state[s] = "Verified"
    /\ state' = [state EXCEPT ![s] = "InGame"]
    /\ Room
    /\ Push(<<Cmd("WantUpdates", s)>>)
    /\ UNCHANGED <<endpoint, outbound>>

(* QueueTeamReincarnate (t is a team) and QueueSpawnReincarnate (NoTeam). *)
QueueReincarnate(s, t) ==
    /\ state[s] = "InGame"
    /\ Room
    /\ Push(<<[Cmd("Reincarnate", s) EXCEPT !.team = t]>>)
    /\ UNCHANGED <<connVars, outbound>>

(* HandleUdpActionInput: one command per drivable channel of the packet. *)
HandleUdpActionInput(s) ==
    /\ state[s] = "InGame"
    /\ Room
    /\ Push(<<Cmd("ActionInput", s)>>)
    /\ UNCHANGED <<connVars, outbound>>

(* A frame the state accepts without acting on it. *)
IgnoreFrame(s) ==
    /\ Ignored(state[s]) # {}
    /\ UNCHANGED <<connVars, queueVars>>

(* Mutant: the connection announces its own end, and the reaper does again. *)
CloseConnectionAnnounced(s) ==
    /\ \E f \in FrameKind : f \in Rejected(state[s])
    /\ state' = [state EXCEPT ![s] = "Closed"]
    /\ Push(<<Cmd("Disconnected", s)>>)
    /\ UNCHANGED <<endpoint, outbound>>

(* OnTcpData, when a frame is rejected or the byte stream is malformed. *)
CloseConnection(s) ==
    /\ \E f \in FrameKind : f \in Rejected(state[s])
    /\ state' = [state EXCEPT ![s] = "Closed"]
    /\ UNCHANGED <<endpoint, queueVars>>
=============================================================================
