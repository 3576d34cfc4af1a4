----------------------------- MODULE MCDevEngine -----------------------------
(* DevEngine with the commands the configuration chooses. *)
EXTENDS DevEngine

CONSTANTS f1, f2  \* stack frames

Calls == {"call"}
Backtraces == {"bt"}
CallsAndBacktraces == {"call", "bt"}
=============================================================================
