---------------------------- MODULE MCWorldRelay ----------------------------
(* Instances of WorldRelay for TLC: ids in the code's order, but small.    *)
EXTENDS WorldRelay

MCExtraOids == {6}
=============================================================================
