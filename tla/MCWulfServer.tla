----------------------------- MODULE MCWulfServer -----------------------------
(***************************************************************************)
(* WulfServer on a small instance, with the requests and the map as the    *)
(* configuration chooses them.                                             *)
(***************************************************************************)
EXTENDS WulfServer

CONSTANTS e1, e2  \* UDP endpoints

NoRequests == {}
Spawns == {NoTeam}
Switches == {1}
SpawnsAndSwitches == {NoTeam, 1}

TeamPads == Team
AllPads == Team \cup {NoTeam}
=============================================================================
