------------------------------- MODULE LogFile -------------------------------
(***************************************************************************)
(* What the logger promises to whoever reads its file: the lines that were *)
(* logged, each once, in the order in which they were logged, and, when    *)
(* the file is closed, at least those of before the shutdown.              *)
(***************************************************************************)
EXTENDS Naturals, Sequences

VARIABLES
    logged,  \* how many lines were logged
    lines,   \* the lines in the file, by their number
    owed,    \* how many of them the file must hold before it is closed
    phase    \* whether lines are logged, the last ones are written, or it is closed

LogFileInit ==
    /\ logged = 0
    /\ lines = <<>>
    /\ owed = 0
    /\ phase = "logging"

(* Threads may log until the file is closed. *)
LogLine ==
    /\ phase # "closed"
    /\ logged' = logged + 1
    /\ UNCHANGED <<lines, owed, phase>>

WriteNext ==
    /\ phase # "closed"
    /\ Len(lines) < logged
    /\ lines' = Append(lines, Len(lines) + 1)
    /\ UNCHANGED <<logged, owed, phase>>

(* A shutdown begins.  Nothing is owed if the file could not be opened.    *)
Stop ==
    /\ phase = "logging"
    /\ phase' = "stopping"
    /\ owed' \in {0, logged}
    /\ UNCHANGED <<logged, lines>>

Close ==
    /\ phase = "stopping"
    /\ Len(lines) >= owed
    /\ phase' = "closed"
    /\ UNCHANGED <<logged, lines, owed>>

LogFileNext == LogLine \/ WriteNext \/ Stop \/ Close

LogFileSpec == LogFileInit /\ [][LogFileNext]_<<logged, lines, owed, phase>>
=============================================================================
