-------------------------------- MODULE Logger --------------------------------
(***************************************************************************)
(* The logger (log/log.cpp).  Any thread queues a line under the mutex and *)
(* notifies the worker, which waits for lines, takes the whole queue at    *)
(* once and writes it to the file.  A thread that is about to end the      *)
(* process shuts the logger down first: it tells the worker to stop, waits *)
(* for it and closes the file.  It does so without the mutex.              *)
(*                                                                         *)
(* The mutex is held by the worker from its test of the queue until it is  *)
(* asleep, and otherwise only within one step.                             *)
(***************************************************************************)
EXTENDS Naturals, Sequences

CONSTANTS
    Thread,   \* the threads that log
    Closer,   \* the one that shuts the logger down
    MaxLines  \* bound: lines that are logged

ASSUME LoggerAssumption == Closer \in Thread /\ MaxLines \in Nat

Line == 1 .. MaxLines  \* lines, in the order in which they were queued

VARIABLES
    running,  \* State::running
    queue,    \* State::queue
    open,     \* whether State::file is open
    file,     \* the lines in the file
    worker,   \* the place of WorkerMain
    local,    \* DrainOnce's lines that are still to be written
    writer,   \* the place of each thread in Write
    closer,   \* the place of the closer in Shutdown
    queued,   \* history: how many lines were queued
    expected  \* history: how many the file is to hold when Shutdown returns

vars == <<running, queue, open, file, worker, local, writer, closer, queued, expected>>

TypeOK ==
    /\ running \in BOOLEAN
    /\ queue \in Seq(Line)
    /\ open \in BOOLEAN
    /\ file \in Seq(Line)
    /\ worker \in {"none", "loop", "test", "sleepy", "asleep", "drain", "write", "last_drain",
                   "last_write", "ended"}
    /\ local \in Seq(Line)
    /\ writer \in [Thread -> {"idle", "notify"}]
    /\ closer \in {"none", "notify", "join", "close", "returned"}
    /\ queued \in 0 .. MaxLines
    /\ expected \in 0 .. MaxLines

Init ==
    /\ running = FALSE
    /\ queue = <<>>
    /\ open = FALSE
    /\ file = <<>>
    /\ worker = "none"
    /\ local = <<>>
    /\ writer = [t \in Thread |-> "idle"]
    /\ closer = "none"
    /\ queued = 0
    /\ expected = 0

----------------------------------------------------------------------------
(* Log::Init.  The file may fail to open. *)
InitLog ==
    /\ ~running
    /\ worker = "none"
    /\ open' \in BOOLEAN
    /\ running' = TRUE
    /\ worker' = "loop"
    /\ UNCHANGED <<queue, file, local, writer, closer, queued, expected>>

(* The process is at an end when the closer has returned from Shutdown.    *)
(* The closer itself does not log while it is there.                       *)
MayLog(t) == closer = "none" \/ (closer # "returned" /\ t # Closer)

(* Write, under the mutex, *)
QueueLine(t) ==
    /\ MayLog(t)
    /\ writer[t] = "idle"
    /\ worker # "sleepy"
    /\ queued < MaxLines
    /\ queued' = queued + 1
    /\ queue' = Append(queue, queued + 1)
    /\ writer' = [writer EXCEPT ![t] = "notify"]
    /\ UNCHANGED <<running, open, file, worker, local, closer, expected>>

(* A notification wakes the worker if it sleeps. *)
Woken == IF worker = "asleep" THEN "test" ELSE worker

(* and then, without it, notify_one. *)
NotifyLine(t) ==
    /\ closer # "returned"
    /\ writer[t] = "notify"
    /\ writer' = [writer EXCEPT ![t] = "idle"]
    /\ worker' = Woken
    /\ UNCHANGED <<running, queue, open, file, local, closer, queued, expected>>

----------------------------------------------------------------------------
(* WorkerMain *)

TestRunning ==
    /\ worker = "loop"
    /\ worker' = IF running THEN "test" ELSE "last_drain"
    /\ UNCHANGED <<running, queue, open, file, local, writer, closer, queued, expected>>

(* The predicate of wait_for. *)
TestPredicate ==
    /\ worker = "test"
    /\ worker' = IF queue # <<>> \/ ~running THEN "drain" ELSE "sleepy"
    /\ UNCHANGED <<running, queue, open, file, local, writer, closer, queued, expected>>

FallAsleep ==
    /\ worker = "sleepy"
    /\ worker' = "asleep"
    /\ UNCHANGED <<running, queue, open, file, local, writer, closer, queued, expected>>

(* Mutant: the wait has no time limit. *)
WakeOnlyWhenNotified ==
    /\ worker = "asleep"
    /\ FALSE
    /\ UNCHANGED vars

(* 50 ms have passed: wait_for tests its predicate once more and returns. *)
WaitExpires ==
    /\ worker = "asleep"
    /\ worker' = "drain"
    /\ UNCHANGED <<running, queue, open, file, local, writer, closer, queued, expected>>

(* Mutant: the queue is copied. *)
CopyQueue ==
    /\ \/ worker = "drain" /\ worker' = "write"
       \/ worker = "last_drain" /\ worker' = "last_write"
    /\ local' = queue
    /\ UNCHANGED <<running, queue, open, file, writer, closer, queued, expected>>

(* DrainOnce takes the queue, under the mutex, *)
SwapQueue ==
    /\ \/ worker = "drain" /\ worker' = "write"
       \/ worker = "last_drain" /\ worker' = "last_write"
    /\ local' = queue
    /\ queue' = <<>>
    /\ UNCHANGED <<running, open, file, writer, closer, queued, expected>>

(* writes its lines to the file if that is open, *)
WriteLine ==
    /\ worker \in {"write", "last_write"}
    /\ local # <<>>
    /\ file' = IF open THEN Append(file, Head(local)) ELSE file
    /\ local' = Tail(local)
    /\ UNCHANGED <<running, queue, open, worker, writer, closer, queued, expected>>

(* Mutant: the worker stops without a last look at the queue. *)
DrainedWithoutLast ==
    /\ worker \in {"write", "last_write"}
    /\ local = <<>>
    /\ worker' = IF running /\ worker = "write" THEN "loop" ELSE "ended"
    /\ UNCHANGED <<running, queue, open, file, local, writer, closer, queued, expected>>

(* and goes on, once more when the loop has ended. *)
Drained ==
    /\ worker \in {"write", "last_write"}
    /\ local = <<>>
    /\ worker' = IF worker = "write" THEN "loop" ELSE "ended"
    /\ UNCHANGED <<running, queue, open, file, local, writer, closer, queued, expected>>

WorkerStep ==
    \/ TestRunning \/ TestPredicate \/ FallAsleep \/ WaitExpires
    \/ SwapQueue \/ WriteLine \/ Drained

----------------------------------------------------------------------------
(* Log::Shutdown: clear running, which only the first caller does, *)
StopWorker ==
    /\ closer = "none"
    /\ writer[Closer] = "idle"
    /\ running
    /\ running' = FALSE
    /\ closer' = "notify"
    /\ expected' = IF open THEN queued ELSE 0
    /\ UNCHANGED <<queue, open, file, worker, local, writer, queued>>

(* notify the worker, *)
NotifyWorker ==
    /\ closer = "notify"
    /\ closer' = "join"
    /\ worker' = Woken
    /\ UNCHANGED <<running, queue, open, file, local, writer, queued, expected>>

(* Mutant: the worker is not waited for. *)
DetachWorker ==
    /\ closer = "join"
    /\ closer' = "close"
    /\ UNCHANGED <<running, queue, open, file, worker, local, writer, queued, expected>>

(* wait for its end, *)
JoinWorker ==
    /\ closer = "join"
    /\ worker = "ended"
    /\ closer' = "close"
    /\ UNCHANGED <<running, queue, open, file, worker, local, writer, queued, expected>>

(* and close the file. *)
CloseFile ==
    /\ closer = "close"
    /\ closer' = "returned"
    /\ open' = FALSE
    /\ UNCHANGED <<running, queue, file, worker, local, writer, queued, expected>>

ShutdownStep == StopWorker \/ NotifyWorker \/ JoinWorker \/ CloseFile

Next ==
    \/ InitLog
    \/ \E t \in Thread : QueueLine(t) \/ NotifyLine(t)
    \/ WorkerStep
    \/ ShutdownStep

Spec == Init /\ [][Next]_vars

(* The worker and a thread in Shutdown go on; nobody has to log. *)
FairSpec ==
    Spec /\ WF_vars(WorkerStep) /\ WF_vars(NotifyWorker \/ JoinWorker \/ CloseFile)

----------------------------------------------------------------------------
(* The lines that are not in the file yet are in the worker's hands or in  *)
(* the queue, in order: no line is lost, repeated or overtaken, although   *)
(* the worker writes without the mutex (DrainOnce).                        *)
NothingLostOnTheWay ==
    open => file \o local \o queue = [i \in 1 .. queued |-> i]

(* What was logged before Shutdown, such as the reason why the process     *)
(* ends, is in the file when Shutdown returns.                             *)
ShutdownFlushes ==
    closer = "returned" => Len(file) >= expected

LogReader == INSTANCE LogFile WITH
    logged <- queued,
    lines <- file,
    owed <- expected,
    phase <- CASE closer = "none" -> "logging"
               [] closer = "returned" -> "closed"
               [] OTHER -> "stopping"

(* Whoever reads the file finds the lines in the order of the queue, each  *)
(* once; the file only grows, is closed last, and holds by then what was   *)
(* logged before the shutdown, although Shutdown closes it without the     *)
(* mutex and other threads go on logging.                                  *)
ImplementsLogFile == LogReader!LogFileSpec

(* Shutdown returns, although its notification may come between the        *)
(* worker's test and its sleep.                                            *)
ShutdownReturns == closer = "notify" ~> closer = "returned"
=============================================================================
