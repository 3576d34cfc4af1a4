------------------------------ MODULE DevEngine ------------------------------
(***************************************************************************)
(* The engine commands of the dev console (dev_engine.cpp).  One socket    *)
(* thread serves one console client, line by line (net/dev_console.cpp).   *)
(* For `call` it builds a DevCall in its own stack frame, offers a pointer *)
(* to it in the slot `pending` and waits up to two seconds for the engine  *)
(* thread, whose tick runs PumpDevEngine, to execute it.  For `bt` it      *)
(* suspends the engine thread and formats the frames of its stack.         *)
(*                                                                         *)
(* A frame that HandleCall left is dead, and a later call may be built at  *)
(* the same place.  What the tick writes into a dead frame is lost on the  *)
(* model; what it writes into a frame that lives again is not.             *)
(***************************************************************************)
EXTENDS Naturals

CONSTANTS
    MaxLines,  \* bound: lines the console client sends
    Frame,     \* the places where the stack frame of HandleCall can be
    Commands,  \* bound: the commands it sends, "call" or "bt"
    HeapLock,  \* whether allocations of the two threads wait for each other
    null       \* the null DevCall pointer

ASSUME DevEngineAssumption ==
    /\ MaxLines \in Nat \ {0}
    /\ null \notin Frame
    /\ Commands \subseteq {"call", "bt"}
    /\ HeapLock \in BOOLEAN

Line == 1 .. MaxLines
None == 0

Outcome == {"unanswered", "ok", "faulted", "timed_out", "in_flight", "backtrace", "no_thread"}

(* A DevCall.  Its address and its stack arguments are those of the line   *)
(* that asked for it, its result that of the lines it was executed for.    *)
NoCall == [addr |-> None, args |-> None, result |-> <<None, None>>, faulted |-> FALSE,
           done |-> FALSE]

VARIABLES
    line,       \* the line being served; the later ones are still to come
    sock,       \* the place of the socket thread
    here,       \* the frame of HandleCall
    mem,        \* the memory of the frames
    pending,    \* DevEngineState::pending
    captured,   \* whether DevEngineState::engine_tid is set
    tick,       \* the place of the engine thread
    call,       \* PumpDevEngine's local pointer
    got,        \* what it has read of the call, and then the result
    suspended,  \* whether the engine thread is suspended
    heap,       \* whether the engine thread is at work in the process heap
    answer,     \* history: the outcome that was sent for each line
    value,      \* history: the result that was sent for each line
    raced,      \* history: whether a call was taken back that the tick had got
    ran         \* history: how often the engine executed the call of a line

sockVars == <<line, sock, here, answer, value>>
tickVars == <<tick, call, got, captured, ran>>
vars == <<sockVars, tickVars, raced, mem, pending, suspended, heap>>

TypeOK ==
    /\ line \in 1 .. MaxLines + 1
    /\ sock \in {"idle", "build", "offer", "wait", "expired", "reclaim", "suspended", "formatted"}
    /\ here \in Frame
    /\ mem \in [Frame -> [addr : Line \cup {None}, args : Line \cup {None},
                          result : (Line \cup {None}) \X (Line \cup {None}),
                          faulted : BOOLEAN, done : BOOLEAN]]
    /\ pending \in Frame \cup {null}
    /\ captured \in BOOLEAN
    /\ tick \in {"idle", "read", "invoke", "store", "clear", "finish"}
    /\ call \in Frame \cup {null}
    /\ got \in (Line \cup {None}) \X (Line \cup {None})
    /\ suspended \in BOOLEAN
    /\ heap \in BOOLEAN
    /\ answer \in [Line -> Outcome]
    /\ value \in [Line -> (Line \cup {None}) \X (Line \cup {None})]
    /\ raced \in BOOLEAN
    /\ ran \in [Line -> Nat]

Init ==
    /\ line = 1
    /\ sock = "idle"
    /\ here \in Frame
    /\ mem = [f \in Frame |-> NoCall]
    /\ pending = null
    /\ captured = FALSE
    /\ tick = "idle"
    /\ call = null
    /\ got = <<None, None>>
    /\ suspended = FALSE
    /\ heap = FALSE
    /\ answer = [l \in Line |-> "unanswered"]
    /\ value = [l \in Line |-> <<None, None>>]
    /\ raced = FALSE
    /\ ran = [l \in Line |-> 0]

----------------------------------------------------------------------------
(* The socket thread. *)

(* The response of line l goes out and the next line is served. *)
Respond(outcome, result) ==
    /\ answer' = [answer EXCEPT ![line] = outcome]
    /\ value' = [value EXCEPT ![line] = result]
    /\ line' = line + 1
    /\ sock' = "idle"

(* HandleCall makes a new DevCall in its frame, *)
StartCall ==
    /\ sock = "idle"
    /\ line \in Line
    /\ "call" \in Commands
    /\ sock' = "build"
    /\ here' \in Frame
    /\ mem' = [mem EXCEPT ![here'] = [NoCall EXCEPT !.addr = line]]
    /\ UNCHANGED <<line, answer, value, tickVars, raced, pending, suspended, heap>>

(* Mutant: one argument too many. *)
BuildCallPastEnd ==
    /\ sock = "build"
    /\ sock' = "offer"
    /\ mem' = [mem EXCEPT ![here].args = line + 1]
    /\ UNCHANGED <<line, here, answer, value, tickVars, raced, pending, suspended, heap>>

(* BuildCall fills in the arguments, *)
BuildCall ==
    /\ sock = "build"
    /\ sock' = "offer"
    /\ mem' = [mem EXCEPT ![here].args = line]
    /\ UNCHANGED <<line, here, answer, value, tickVars, raced, pending, suspended, heap>>

(* Mutant: the call is offered before its arguments are there. *)
OfferEmptyFrame ==
    /\ sock = "offer"
    /\ pending = null
    /\ pending' = here
    /\ mem' = [mem EXCEPT ![here].args = None]
    /\ sock' = "wait"
    /\ UNCHANGED <<line, here, answer, value, tickVars, raced, suspended, heap>>

(* and the exchange puts it into an empty slot. *)
OfferCall ==
    /\ sock = "offer"
    /\ \/ /\ pending = null
          /\ pending' = here
          /\ sock' = "wait"
          /\ UNCHANGED <<line, answer, value>>
       \/ /\ pending # null
          /\ Respond("in_flight", <<None, None>>)
          /\ UNCHANGED pending
    /\ UNCHANGED <<here, tickVars, raced, mem, suspended, heap>>

(* Mutant: the caller waits for as long as it takes. *)
NeverExpires ==
    /\ sock = "wait"
    /\ FALSE
    /\ UNCHANGED vars

(* The wait is over when the call is done, *)
CallDone ==
    /\ sock \in {"wait", "expired"}
    /\ mem[here].done
    /\ \/ mem[here].faulted /\ Respond("faulted", <<None, None>>)
       \/ ~mem[here].faulted /\ Respond("ok", mem[here].result)
    /\ UNCHANGED <<here, tickVars, raced, mem, pending, suspended, heap>>

(* or when the last of its turns has passed.  A call that is not done by   *)
(* then, which is tested again, *)
WaitExpires ==
    /\ ~mem[here].done
    /\ \/ sock = "wait" /\ sock' = "expired"
       \/ sock = "expired" /\ sock' = "reclaim"
    /\ UNCHANGED <<line, here, answer, value, tickVars, raced, mem, pending, suspended, heap>>

(* Mutant: the slot is left to the tick. *)
GiveUpWithoutReclaim ==
    /\ sock = "reclaim"
    /\ raced' = (raced \/ tick # "idle" \/ mem[here].done)
    /\ Respond("timed_out", <<None, None>>)
    /\ UNCHANGED <<here, tickVars, mem, pending, suspended, heap>>

(* is taken back, even if the tick has meanwhile got hold of it. *)
GiveUp ==
    /\ sock = "reclaim"
    /\ pending' = null
    /\ raced' = (raced \/ tick # "idle" \/ mem[here].done)
    /\ Respond("timed_out", <<None, None>>)
    /\ UNCHANGED <<here, tickVars, mem, suspended, heap>>

(* HandleBacktrace suspends the engine thread, *)
Suspend ==
    /\ sock = "idle"
    /\ line \in Line
    /\ "bt" \in Commands
    /\ \/ /\ captured
          /\ sock' = "suspended"
          /\ suspended' = TRUE
          /\ UNCHANGED <<line, answer, value>>
       \/ /\ ~captured
          /\ Respond("no_thread", <<None, None>>)
          /\ UNCHANGED suspended
    /\ UNCHANGED <<here, tickVars, raced, mem, pending, heap>>

(* allocates the vectors and strings of the answer, for which it may need  *)
(* a lock of the heap that the suspended thread holds,                     *)
FormatFrames ==
    /\ sock = "suspended"
    /\ ~(HeapLock /\ heap)
    /\ sock' = "formatted"
    /\ UNCHANGED <<line, here, answer, value, tickVars, raced, mem, pending, suspended, heap>>

(* and lets the thread go on. *)
Resume ==
    /\ sock = "formatted"
    /\ suspended' = FALSE
    /\ Respond("backtrace", <<None, None>>)
    /\ UNCHANGED <<here, tickVars, raced, mem, pending, heap>>

Serve ==
    \/ BuildCall \/ OfferCall \/ CallDone \/ WaitExpires \/ GiveUp
    \/ FormatFrames \/ Resume

SocketStep == StartCall \/ Suspend \/ Serve

----------------------------------------------------------------------------
(* The engine thread: PumpDevEngine, once per tick. *)

(* The frame a pointer points to is read and written as it then is. *)
Running == ~suspended

LoadPending ==
    /\ Running
    /\ tick = "idle"
    /\ ~heap
    /\ captured' = TRUE
    /\ call' = pending
    /\ tick' = IF pending = null THEN "idle" ELSE "read"
    /\ UNCHANGED <<got, ran, raced, sockVars, mem, pending, suspended, heap>>

(* SafeEngineInvoke is passed the address *)
ReadAddress ==
    /\ Running
    /\ tick = "read"
    /\ got' = <<mem[call].addr, None>>
    /\ tick' = "invoke"
    /\ UNCHANGED <<call, captured, ran, raced, sockVars, mem, pending, suspended, heap>>

(* and pushes the arguments that it finds in the frame. *)
Invoke ==
    /\ Running
    /\ tick = "invoke"
    /\ got' = <<got[1], mem[call].args>>
    /\ ran' = IF got[1] = None THEN ran ELSE [ran EXCEPT ![got[1]] = @ + 1]
    /\ tick' = "store"
    /\ UNCHANGED <<call, captured, raced, sockVars, mem, pending, suspended, heap>>

(* The result, or that the call faulted. *)
StoreResult ==
    /\ Running
    /\ tick = "store"
    /\ \E fault \in BOOLEAN :
         mem' = [mem EXCEPT ![call].result = got, ![call].faulted = fault]
    /\ tick' = "clear"
    /\ UNCHANGED <<call, captured, got, ran, raced, sockVars, pending, suspended, heap>>

(* Mutant: the slot keeps the pointer. *)
KeepPending ==
    /\ Running
    /\ tick = "clear"
    /\ tick' = "finish"
    /\ UNCHANGED <<call, captured, got, ran, raced, sockVars, mem, pending, suspended, heap>>

(* The slot is cleared before the caller is told. *)
ClearPending ==
    /\ Running
    /\ tick = "clear"
    /\ pending' = null
    /\ tick' = "finish"
    /\ UNCHANGED <<call, captured, got, ran, raced, sockVars, mem, suspended, heap>>

Finish ==
    /\ Running
    /\ tick = "finish"
    /\ mem' = [mem EXCEPT ![call].done = TRUE]
    /\ tick' = "idle"
    /\ UNCHANGED <<call, captured, got, ran, raced, sockVars, pending, suspended, heap>>

(* The rest of the engine thread's work allocates and frees memory. *)
UseHeap ==
    /\ Running
    /\ tick = "idle"
    /\ heap' = ~heap
    /\ UNCHANGED <<tickVars, raced, sockVars, mem, pending, suspended>>

TickStep ==
    LoadPending \/ ReadAddress \/ Invoke \/ StoreResult \/ ClearPending \/ Finish \/ UseHeap

Next == SocketStep \/ TickStep

Spec == Init /\ [][Next]_vars

(* A line that is being served goes on to be served: HandleCall counts its *)
(* turns.  Nothing is asked of the engine thread here.                     *)
FairSpec == Spec /\ WF_vars(Serve)

(* Nor does the engine thread stop of its own accord. *)
TickingSpec == FairSpec /\ WF_vars(TickStep)

----------------------------------------------------------------------------
(* A time-out is harmless unless the tick has got hold of the call: as     *)
(* long as that does not happen, no call is executed twice, for the tick   *)
(* clears the slot it has served before anyone can fill it again,          *)
RunAtMostOnce == ~raced => \A l \in Line : ran[l] <= 1

(* with its one client the slot is free for the next call, also after one  *)
(* timed out, so that nobody is told that a call is in flight,             *)
NoCallRefused == ~raced => \A l \in Line : answer[l] # "in_flight"

(* and a call that is answered was executed with its own arguments, its    *)
(* caller gets its own result, and one that timed out was not executed.    *)
AnswersAreTheirOwn ==
    ~raced => \A l \in Line :
        /\ answer[l] \in {"ok", "faulted"} => ran[l] = 1
        /\ answer[l] = "ok" => value[l] = <<l, l>>
        /\ answer[l] = "timed_out" => ran[l] = 0

(* The comment in HandleCall, where a call that timed out is taken back:   *)
(* "reclaim the slot; tick never ran it".                                  *)
TimedOutNeverRan == \A l \in Line : answer[l] = "timed_out" => ran[l] = 0

(* The promise of dev_console.hpp: "each recv'd line is parsed + executed  *)
(* + answered".                                                            *)
EveryLineAnswered == sock # "idle" ~> sock = "idle"
=============================================================================
