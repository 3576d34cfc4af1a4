------------------------------- MODULE MCLogger -------------------------------
(* Logger with named threads. *)
EXTENDS Logger

CONSTANTS tick, io, dev  \* the engine thread, the I/O thread and the dev console's
=============================================================================
