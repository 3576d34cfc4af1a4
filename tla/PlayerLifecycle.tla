--------------------------- MODULE PlayerLifecycle ---------------------------
(***************************************************************************)
(* What the two threads promise together, as the world sees it: a session  *)
(* id stands for at most one visit.  A visitor is away, joins once, may    *)
(* then watch the world, and in the end is gone, for good.                 *)
(***************************************************************************)
CONSTANT Visitor

VARIABLE stage

Stage == {"away", "joined", "watching", "gone"}

LifecycleInit == stage = [v \in Visitor |-> "away"]

Move(v, from, to) ==
    /\ stage[v] \in from
    /\ stage' = [stage EXCEPT ![v] = to]

Join(v) == Move(v, {"away"}, "joined")

Watch(v) == Move(v, {"joined"}, "watching")

Leave(v) == Move(v, {"away", "joined", "watching"}, "gone")

LifecycleNext == \E v \in Visitor : Join(v) \/ Watch(v) \/ Leave(v)

LifecycleSpec == LifecycleInit /\ [][LifecycleNext]_stage
=============================================================================
