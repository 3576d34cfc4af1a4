--------------------------- MODULE DevEngineProofs ---------------------------
(***************************************************************************)
(* What the dev console answers, for any number of lines and frames.       *)
(*                                                                         *)
(* As long as no call is taken back that the tick has got, the two threads *)
(* take turns on the frame: Orderly says that the slot, and the pointer    *)
(* the tick has read from it, are the frame of a caller that still waits,  *)
(* and how far its call has come.  After such a race nothing of this       *)
(* holds, so every conjunct is about the runs without one; ServedInTurn,   *)
(* the order of the answers, holds in all.                                 *)
(***************************************************************************)
EXTENDS DevEngine, TLAPS

Waiting == sock \in {"wait", "expired", "reclaim"}

(* The line that is served, and the frame that the tick writes, exist. *)
Places ==
    /\ sock # "idle" => line \in Line
    /\ tick # "idle" => call \in Frame

(* Who waits for what: the slot holds the call of a caller that waits, and *)
(* so does the tick, until it is done.                                     *)
TakingTurns ==
    /\ pending # null => Waiting /\ pending = here /\ ~mem[here].done
    /\ tick # "idle" =>
         /\ Waiting /\ call = here /\ ~mem[here].done
         /\ tick = "finish" => pending = null
    /\ Waiting /\ ~mem[here].done /\ tick = "idle" => pending = here

(* What the frame holds is of the line that is being served. *)
OwnFrame ==
    /\ sock \in {"build", "offer"} \/ Waiting => mem[here].addr = line
    /\ sock = "offer" \/ Waiting => mem[here].args = line
    /\ sock \in {"build", "offer"} => ~mem[here].done
    /\ tick = "invoke" => got[1] = line
    /\ tick = "store" => got = <<line, line>>
    /\ Waiting /\ (mem[here].done \/ tick \in {"clear", "finish"}) =>
         mem[here].result = <<line, line>>

Executed == Waiting /\ (mem[here].done \/ tick \in {"store", "clear", "finish"})

(* How often each line's call was executed, and what was answered. *)
Counted ==
    /\ \A l \in Line : l > line => ran[l] = 0
    /\ line \in Line => ran[line] = IF Executed THEN 1 ELSE 0
    /\ \A l \in Line : l < line =>
         /\ ran[l] <= 1
         /\ answer[l] # "in_flight"
         /\ answer[l] \in {"ok", "faulted"} => ran[l] = 1
         /\ answer[l] = "ok" => value[l] = <<l, l>>
         /\ answer[l] = "timed_out" => ran[l] = 0
    /\ \A l \in Line : l >= line => answer[l] = "unanswered"

Orderly == TakingTurns /\ OwnFrame /\ Counted

DevInv == TypeOK /\ Places /\ (~raced => Orderly)

Call == [addr : Line \cup {None}, args : Line \cup {None},
         result : (Line \cup {None}) \X (Line \cup {None}), faulted : BOOLEAN, done : BOOLEAN]

----------------------------------------------------------------------------
LEMMA LinesAreNumbers ==
    /\ MaxLines \in Nat
    /\ \A l \in Line : l \in Nat /\ l >= 1 /\ l <= MaxLines
    /\ None \notin Line
BY DevEngineAssumption DEF Line, None

LEMMA InitDevInv == Init => DevInv
<1>. SUFFICES ASSUME Init PROVE DevInv
  OBVIOUS
<1>1. NoCall \in Call
  BY DEF NoCall, Call, None
<1>2. TypeOK
  <2>1. captured \in BOOLEAN /\ suspended \in BOOLEAN /\ heap \in BOOLEAN /\ raced \in BOOLEAN
    BY Zenon DEF Init
  <2>2. mem \in [Frame -> Call]
    BY <1>1 DEF Init
  <2>3. /\ answer \in [Line -> Outcome] /\ ran \in [Line -> Nat]
        /\ value \in [Line -> (Line \cup {None}) \X (Line \cup {None})]
    BY DEF Init, Outcome
  <2>. QED  BY <2>1, <2>2, <2>3, LinesAreNumbers DEF Init, TypeOK, Call
<1>3. Places /\ TakingTurns /\ OwnFrame
  BY DEF Init, Places, TakingTurns, OwnFrame, Waiting
<1>4. Counted
  BY LinesAreNumbers DEF Init, Counted, Executed, Waiting
<1>. QED  BY <1>2, <1>3, <1>4 DEF DevInv, Orderly

LEMMA RespondType ==
    ASSUME TypeOK, line \in Line, NEW o \in Outcome,
           NEW r \in (Line \cup {None}) \X (Line \cup {None}), Respond(o, r)
    PROVE  /\ line' \in 1 .. MaxLines + 1 /\ line' = line + 1
           /\ sock' = "idle"
           /\ answer' \in [Line -> Outcome] /\ answer'[line] = o
           /\ value' \in [Line -> (Line \cup {None}) \X (Line \cup {None})] /\ value'[line] = r
           /\ \A l \in Line : l # line => answer'[l] = answer[l] /\ value'[l] = value[l]
BY LinesAreNumbers DEF Respond, TypeOK

(* Every write into a frame leaves a DevCall there. *)
LEMMA FrameWrites ==
    ASSUME TypeOK, NEW f \in Frame, NEW l \in Line,
           NEW r \in (Line \cup {None}) \X (Line \cup {None})
    PROVE  /\ [mem EXCEPT ![f] = [NoCall EXCEPT !.addr = l]] \in [Frame -> Call]
           /\ [mem EXCEPT ![f].args = l] \in [Frame -> Call]
           /\ \A b \in BOOLEAN :
                [mem EXCEPT ![f].result = r, ![f].faulted = b] \in [Frame -> Call]
           /\ [mem EXCEPT ![f].done = TRUE] \in [Frame -> Call]
<1>1. mem \in [Frame -> Call]
  BY DEF TypeOK, Call
<1>2. [NoCall EXCEPT !.addr = l] \in Call
  BY DEF NoCall, Call, None
<1>. QED  BY <1>1, <1>2 DEF Call

LEMMA TypeStep == TypeOK /\ Places /\ [Next]_vars => TypeOK' /\ Places'
<1>. SUFFICES ASSUME TypeOK, Places, [Next]_vars PROVE TypeOK' /\ Places'
  OBVIOUS
<1>0. /\ <<None, None>> \in (Line \cup {None}) \X (Line \cup {None})
      /\ mem \in [Frame -> Call]
  BY DEF TypeOK, Call
<1>. USE LinesAreNumbers DEF Places
<1>1. CASE StartCall
  BY <1>1, FrameWrites DEF StartCall, TypeOK, Call, tickVars
<1>2. CASE BuildCall
  BY <1>2, FrameWrites DEF BuildCall, TypeOK, Call, tickVars
<1>3. CASE OfferCall
  BY <1>0, <1>3, RespondType DEF OfferCall, TypeOK, Outcome, tickVars
<1>4. CASE CallDone
  <2>1. mem[here].result \in (Line \cup {None}) \X (Line \cup {None})
    BY <1>0 DEF TypeOK, Call
  <2>. QED  BY <1>0, <1>4, <2>1, RespondType DEF CallDone, TypeOK, Outcome, tickVars
<1>5. CASE WaitExpires
  BY <1>5 DEF WaitExpires, TypeOK, tickVars
<1>6. CASE GiveUp
  <2>1. raced' \in BOOLEAN
    BY <1>6, Zenon DEF GiveUp
  <2>. QED  BY <1>0, <1>6, <2>1, RespondType DEF GiveUp, TypeOK, Outcome, tickVars
<1>7. CASE Suspend
  BY <1>0, <1>7, RespondType DEF Suspend, TypeOK, Outcome, tickVars
<1>8. CASE FormatFrames
  BY <1>8 DEF FormatFrames, TypeOK, tickVars
<1>9. CASE Resume
  BY <1>0, <1>9, RespondType DEF Resume, TypeOK, Outcome, tickVars
<1>10. CASE LoadPending
  BY <1>10 DEF LoadPending, TypeOK, sockVars
<1>11. CASE ReadAddress
  BY <1>0, <1>11 DEF ReadAddress, TypeOK, Call, sockVars
<1>12. CASE Invoke
  <2>1. mem[call].args \in Line \cup {None} /\ got[1] \in Line \cup {None}
    BY <1>0, <1>12 DEF Invoke, TypeOK, Call
  <2>2. ran' \in [Line -> Nat]
    BY <1>12, <2>1 DEF Invoke, TypeOK
  <2>. QED  BY <1>12, <2>1, <2>2 DEF Invoke, TypeOK, sockVars
<1>13. CASE StoreResult
  <2>1. call \in Frame /\ 1 \in Line /\ got \in (Line \cup {None}) \X (Line \cup {None})
    BY <1>13, DevEngineAssumption DEF StoreResult, TypeOK, Line
  <2>2. PICK b \in BOOLEAN : mem' = [mem EXCEPT ![call].result = got, ![call].faulted = b]
    BY <1>13 DEF StoreResult
  <2>3. mem' \in [Frame -> Call]
    BY <2>1, <2>2, FrameWrites
  <2>. QED  BY <1>13, <2>1, <2>3 DEF StoreResult, TypeOK, Call, sockVars
<1>14. CASE ClearPending
  BY <1>14 DEF ClearPending, TypeOK, sockVars
<1>15. CASE Finish
  <2>1. call \in Frame /\ 1 \in Line
    BY <1>15, DevEngineAssumption DEF Finish, Line
  <2>2. mem' \in [Frame -> Call]
    BY <1>0, <1>15, <2>1, FrameWrites DEF Finish
  <2>. QED  BY <1>15, <2>1, <2>2 DEF Finish, TypeOK, Call, sockVars
<1>16. CASE UseHeap
  <2>1. heap' \in BOOLEAN
    BY <1>16, Zenon DEF UseHeap
  <2>. QED  BY <1>16, <2>1 DEF UseHeap, TypeOK, sockVars, tickVars
<1>17. CASE UNCHANGED vars
  BY <1>17 DEF vars, TypeOK, sockVars, tickVars
<1>. QED  BY <1>1, <1>2, <1>3, <1>4, <1>5, <1>6, <1>7, <1>8, <1>9, <1>10, <1>11, <1>12,
             <1>13, <1>14, <1>15, <1>16, <1>17 DEF Next, SocketStep, Serve, TickStep

----------------------------------------------------------------------------
(* Whoever answers a line has finished with its call. *)
LEMMA RespondOrderly ==
    ASSUME TypeOK, Orderly, line \in Line, NEW o \in Outcome,
           NEW r \in (Line \cup {None}) \X (Line \cup {None}), Respond(o, r),
           pending' = null, tick = "idle", UNCHANGED tickVars,
           o \notin {"in_flight", "unanswered"},
           o \in {"ok", "faulted"} => Executed,
           o = "ok" => r = <<line, line>>,
           o = "timed_out" => ~Executed
    PROVE  Orderly'
<1>. USE LinesAreNumbers
<1>1. /\ line' \in 1 .. MaxLines + 1 /\ line' = line + 1
      /\ sock' = "idle"
      /\ answer'[line] = o
      /\ value'[line] = r
      /\ \A l \in Line : l # line => answer'[l] = answer[l] /\ value'[l] = value[l]
  BY RespondType
<1>2. tick' = "idle" /\ ran' = ran
  BY DEF tickVars
<1>3. TakingTurns' /\ OwnFrame'
  BY <1>1, <1>2 DEF TakingTurns, OwnFrame, Waiting
<1>4. ~Executed'
  BY <1>1 DEF Executed, Waiting
<1>5. Counted'
  <2>1. \A l \in Line : l > line' => ran'[l] = 0
    BY <1>1, <1>2 DEF Orderly, Counted
  <2>2. line' \in Line => ran'[line'] = IF Executed' THEN 1 ELSE 0
    BY <1>1, <1>2, <1>4 DEF Orderly, Counted
  <2>3. \A l \in Line : l < line' =>
         /\ ran'[l] <= 1
         /\ answer'[l] # "in_flight"
         /\ answer'[l] \in {"ok", "faulted"} => ran'[l] = 1
         /\ answer'[l] = "ok" => value'[l] = <<l, l>>
         /\ answer'[l] = "timed_out" => ran'[l] = 0
    <3>. SUFFICES ASSUME NEW l \in Line, l < line'
                  PROVE  /\ ran'[l] <= 1
                         /\ answer'[l] # "in_flight"
                         /\ answer'[l] \in {"ok", "faulted"} => ran'[l] = 1
                         /\ answer'[l] = "ok" => value'[l] = <<l, l>>
                         /\ answer'[l] = "timed_out" => ran'[l] = 0
      OBVIOUS
    <3>1. CASE l = line
      <4>1. ran[line] = IF Executed THEN 1 ELSE 0
        BY DEF Orderly, Counted
      <4>. QED  BY <1>1, <1>2, <3>1, <4>1
    <3>2. CASE l # line
      <4>1. line \in Nat /\ l \in Nat /\ l < line + 1
        BY <1>1
      <4>2. l < line
        BY <3>2, <4>1
      <4>. QED  BY <1>1, <1>2, <3>2, <4>2 DEF Orderly, Counted
    <3>. QED  BY <3>1, <3>2
  <2>4. \A l \in Line : l >= line' => answer'[l] = "unanswered"
    BY <1>1 DEF Orderly, Counted
  <2>. QED  BY <2>1, <2>2, <2>3, <2>4 DEF Counted
<1>. QED  BY <1>3, <1>5 DEF Orderly

(* A step that answers no line and executes nothing keeps the counts. *)
LEMMA NothingCounted ==
    ASSUME Counted, line' = line, ran' = ran, answer' = answer, value' = value,
           Executed' <=> Executed
    PROVE  Counted'
BY DEF Counted

LEMMA StartCallStep ==
    ASSUME DevInv, ~raced, StartCall
    PROVE  Orderly'
<1>. USE DEF DevInv, Orderly
<1>1. pending = null /\ tick = "idle" /\ ~Waiting
  BY DEF StartCall, TakingTurns, Waiting
<1>2. here' \in Frame /\ mem'[here'].addr = line /\ ~mem'[here'].done
  BY DEF StartCall, TypeOK, NoCall
<1>3. TakingTurns' /\ OwnFrame'
  BY <1>1, <1>2 DEF StartCall, TakingTurns, OwnFrame, Waiting, tickVars
<1>4. ~Executed /\ ~Executed'
  BY DEF StartCall, Executed, Waiting
<1>5. Counted'
  BY <1>4, NothingCounted DEF StartCall, tickVars
<1>. QED  BY <1>3, <1>5

LEMMA BuildCallStep ==
    ASSUME DevInv, ~raced, BuildCall
    PROVE  Orderly'
<1>. USE DEF DevInv, Orderly
<1>1. pending = null /\ tick = "idle" /\ ~Waiting
  BY DEF BuildCall, TakingTurns, Waiting
<1>2. /\ here \in Frame /\ mem'[here].addr = mem[here].addr
      /\ mem'[here].args = line /\ (mem'[here].done <=> mem[here].done)
  BY DEF BuildCall, TypeOK
<1>3. TakingTurns' /\ OwnFrame'
  BY <1>1, <1>2 DEF BuildCall, TakingTurns, OwnFrame, Waiting, tickVars
<1>4. ~Executed /\ ~Executed'
  BY DEF BuildCall, Executed, Waiting
<1>5. Counted'
  BY <1>4, NothingCounted DEF BuildCall, tickVars
<1>. QED  BY <1>3, <1>5

LEMMA OfferCallStep ==
    ASSUME DevInv, ~raced, OfferCall
    PROVE  Orderly'
<1>. USE DEF DevInv, Orderly
<1>1. pending = null /\ tick = "idle" /\ here \in Frame /\ null \notin Frame
  BY DevEngineAssumption DEF OfferCall, TakingTurns, Waiting, TypeOK
<1>2. /\ pending' = here /\ sock' = "wait"
      /\ UNCHANGED <<line, answer, value, here, tickVars, mem>>
  BY <1>1 DEF OfferCall
<1>3. mem[here].addr = line /\ mem[here].args = line /\ ~mem[here].done
  BY DEF OfferCall, OwnFrame
<1>4. TakingTurns' /\ OwnFrame'
  BY <1>1, <1>2, <1>3 DEF TakingTurns, OwnFrame, Waiting, tickVars
<1>5. ~Executed /\ ~Executed'
  BY <1>1, <1>2, <1>3 DEF OfferCall, Executed, Waiting, tickVars
<1>6. Counted'
  BY <1>2, <1>5, NothingCounted DEF tickVars
<1>. QED  BY <1>4, <1>6

LEMMA CallDoneStep ==
    ASSUME DevInv, ~raced, CallDone
    PROVE  Orderly'
<1>. USE DEF DevInv, Orderly
<1>1. Waiting /\ line \in Line /\ tick = "idle" /\ pending = null /\ Executed
  BY DEF CallDone, TakingTurns, Waiting, Executed, Places
<1>2. mem[here].result = <<line, line>>
  BY <1>1 DEF CallDone, OwnFrame
<1>3. /\ <<None, None>> \in (Line \cup {None}) \X (Line \cup {None})
      /\ <<line, line>> \in (Line \cup {None}) \X (Line \cup {None})
  BY <1>1
<1>4. Respond("faulted", <<None, None>>) \/ Respond("ok", <<line, line>>)
  BY <1>2 DEF CallDone
<1>5. UNCHANGED tickVars /\ pending' = null
  BY <1>1 DEF CallDone
<1>. QED  BY <1>1, <1>3, <1>4, <1>5, RespondOrderly DEF Outcome

LEMMA WaitExpiresStep ==
    ASSUME DevInv, ~raced, WaitExpires
    PROVE  Orderly'
<1>. USE DEF DevInv, Orderly
<1>1. Waiting /\ Waiting' /\ sock' # "offer"
  BY DEF WaitExpires, Waiting
<1>2. TakingTurns' /\ OwnFrame'
  BY <1>1 DEF WaitExpires, TakingTurns, OwnFrame, tickVars, Waiting
<1>3. Executed' <=> Executed
  BY <1>1 DEF WaitExpires, Executed, tickVars
<1>4. Counted'
  BY <1>3, NothingCounted DEF WaitExpires, tickVars
<1>. QED  BY <1>2, <1>4

LEMMA GiveUpStep ==
    ASSUME DevInv, ~raced, ~raced', GiveUp
    PROVE  Orderly'
<1>. USE DEF DevInv, Orderly
<1>1. tick = "idle" /\ ~mem[here].done
  BY DEF GiveUp
<1>2. line \in Line /\ ~Executed
  BY <1>1 DEF GiveUp, Executed, Places
<1>3. <<None, None>> \in (Line \cup {None}) \X (Line \cup {None})
  OBVIOUS
<1>4. Respond("timed_out", <<None, None>>) /\ pending' = null /\ UNCHANGED tickVars
  BY DEF GiveUp
<1>. QED  BY <1>1, <1>2, <1>3, <1>4, RespondOrderly DEF Outcome

LEMMA BacktraceStep ==
    ASSUME DevInv, ~raced, Suspend \/ FormatFrames \/ Resume
    PROVE  Orderly'
<1>. USE DEF DevInv, Orderly
<1>1. /\ ~Waiting /\ pending = null /\ tick = "idle" /\ line \in Line
      /\ UNCHANGED tickVars /\ pending' = null /\ here' = here /\ mem' = mem
  BY DEF Suspend, FormatFrames, Resume, TakingTurns, Waiting, Places
<1>2. <<None, None>> \in (Line \cup {None}) \X (Line \cup {None})
  OBVIOUS
<1>3. CASE Respond("no_thread", <<None, None>>)
  BY <1>1, <1>2, <1>3, RespondOrderly DEF Outcome
<1>4. CASE Respond("backtrace", <<None, None>>)
  BY <1>1, <1>2, <1>4, RespondOrderly DEF Outcome
<1>5. CASE UNCHANGED <<line, answer, value>> /\ sock' \in {"suspended", "formatted"}
  <2>1. ~Executed /\ ~Executed' /\ ~Waiting'
    BY <1>1, <1>5 DEF Executed, Waiting
  <2>2. TakingTurns' /\ OwnFrame'
    BY <1>1, <1>5, <2>1 DEF TakingTurns, OwnFrame, tickVars
  <2>. QED  BY <1>1, <1>5, <2>1, <2>2, NothingCounted DEF tickVars
<1>. QED  BY <1>3, <1>4, <1>5 DEF Suspend, FormatFrames, Resume

LEMMA LoadPendingStep ==
    ASSUME DevInv, ~raced, LoadPending
    PROVE  Orderly'
<1>. USE DEF DevInv, Orderly
<1>1. UNCHANGED <<sockVars, mem, pending, got, ran>> /\ tick = "idle" /\ call' = pending
  BY DEF LoadPending
<1>2. TakingTurns' /\ OwnFrame'
  BY <1>1 DEF LoadPending, sockVars, TakingTurns, OwnFrame, Waiting
<1>3. Executed' <=> Executed
  BY <1>1 DEF LoadPending, sockVars, Executed, Waiting
<1>4. Counted'
  BY <1>1, <1>3, NothingCounted DEF sockVars
<1>. QED  BY <1>2, <1>4

LEMMA ReadAddressStep ==
    ASSUME DevInv, ~raced, ReadAddress
    PROVE  Orderly'
<1>. USE DEF DevInv, Orderly
<1>1. UNCHANGED <<sockVars, mem, pending, call, ran>> /\ tick = "read" /\ tick' = "invoke"
  BY DEF ReadAddress
<1>2. Waiting /\ call = here /\ ~mem[here].done /\ mem[here].addr = line
  BY <1>1 DEF TakingTurns, OwnFrame
<1>3. got'[1] = line
  BY <1>2 DEF ReadAddress
<1>4. TakingTurns' /\ OwnFrame'
  BY <1>1, <1>2, <1>3 DEF sockVars, TakingTurns, OwnFrame, Waiting
<1>5. Executed' <=> Executed
  BY <1>1 DEF sockVars, Executed, Waiting
<1>6. Counted'
  BY <1>1, <1>5, NothingCounted DEF sockVars
<1>. QED  BY <1>4, <1>6

LEMMA InvokeStep ==
    ASSUME DevInv, ~raced, Invoke
    PROVE  Orderly'
<1>. USE DEF DevInv, Orderly
<1>1. UNCHANGED <<sockVars, mem, pending, call>> /\ tick = "invoke" /\ tick' = "store"
  BY DEF Invoke
<1>2. /\ Waiting /\ line \in Line
      /\ call = here /\ ~mem[here].done /\ mem[here].args = line /\ got[1] = line
  BY <1>1 DEF TakingTurns, OwnFrame, Waiting, Places
<1>3. got' = <<line, line>>
  BY <1>2 DEF Invoke
<1>4. TakingTurns' /\ OwnFrame'
  BY <1>1, <1>2, <1>3 DEF sockVars, TakingTurns, OwnFrame, Waiting
<1>5. ~Executed /\ Executed'
  BY <1>1, <1>2 DEF sockVars, Executed, Waiting
<1>6. ran[line] = 0 /\ ran' = [ran EXCEPT ![line] = @ + 1] /\ ran \in [Line -> Nat]
  BY <1>2, <1>5, LinesAreNumbers DEF Invoke, Counted, TypeOK
<1>7. ran'[line] = 1 /\ \A l \in Line : l # line => ran'[l] = ran[l]
  BY <1>2, <1>6
<1>8. Counted'
  BY <1>1, <1>2, <1>5, <1>7, LinesAreNumbers DEF sockVars, Counted
<1>. QED  BY <1>4, <1>8

LEMMA StoreResultStep ==
    ASSUME DevInv, ~raced, StoreResult
    PROVE  Orderly'
<1>. USE DEF DevInv, Orderly
<1>1. UNCHANGED <<sockVars, pending, call, got, ran>> /\ tick = "store" /\ tick' = "clear"
  BY DEF StoreResult
<1>2. Waiting /\ call = here /\ ~mem[here].done /\ got = <<line, line>>
  BY <1>1 DEF TakingTurns, OwnFrame
<1>3. PICK fault \in BOOLEAN : mem' = [mem EXCEPT ![call].result = got, ![call].faulted = fault]
  BY DEF StoreResult
<1>4. /\ here \in Frame
      /\ mem'[here].addr = mem[here].addr /\ mem'[here].args = mem[here].args
      /\ mem'[here].result = <<line, line>>
      /\ (mem'[here].done <=> mem[here].done)
  BY <1>2, <1>3 DEF TypeOK
<1>5. TakingTurns' /\ OwnFrame'
  BY <1>1, <1>2, <1>4 DEF sockVars, TakingTurns, OwnFrame, Waiting
<1>6. Executed /\ Executed'
  BY <1>1, <1>2 DEF sockVars, Executed, Waiting
<1>7. Counted'
  BY <1>1, <1>6, NothingCounted DEF sockVars
<1>. QED  BY <1>5, <1>7

LEMMA ClearPendingStep ==
    ASSUME DevInv, ~raced, ClearPending
    PROVE  Orderly'
<1>. USE DEF DevInv, Orderly
<1>1. /\ UNCHANGED <<sockVars, mem, call, got, ran>>
      /\ tick = "clear" /\ tick' = "finish" /\ pending' = null
  BY DEF ClearPending
<1>2. Waiting /\ call = here /\ ~mem[here].done
  BY <1>1 DEF TakingTurns
<1>3. TakingTurns' /\ OwnFrame'
  BY <1>1, <1>2 DEF sockVars, TakingTurns, OwnFrame, Waiting
<1>4. Executed /\ Executed'
  BY <1>1, <1>2 DEF sockVars, Executed, Waiting
<1>5. Counted'
  BY <1>1, <1>4, NothingCounted DEF sockVars
<1>. QED  BY <1>3, <1>5

LEMMA FinishStep ==
    ASSUME DevInv, ~raced, Finish
    PROVE  Orderly'
<1>. USE DEF DevInv, Orderly
<1>1. /\ UNCHANGED <<sockVars, pending, call, got, ran>>
      /\ tick = "finish" /\ tick' = "idle"
  BY DEF Finish
<1>2. Waiting /\ call = here /\ pending = null /\ mem[here].result = <<line, line>>
  BY <1>1 DEF TakingTurns, OwnFrame
<1>3. /\ here \in Frame
      /\ mem'[here].addr = mem[here].addr /\ mem'[here].args = mem[here].args
      /\ mem'[here].result = mem[here].result
      /\ mem'[here].done
  BY <1>2 DEF Finish, TypeOK
<1>4. TakingTurns' /\ OwnFrame'
  BY <1>1, <1>2, <1>3 DEF sockVars, TakingTurns, OwnFrame, Waiting
<1>5. Executed /\ Executed'
  BY <1>1, <1>2, <1>3 DEF sockVars, Executed, Waiting
<1>6. Counted'
  BY <1>1, <1>5, NothingCounted DEF sockVars
<1>. QED  BY <1>4, <1>6

LEMMA QuietStep ==
    ASSUME DevInv, ~raced, UseHeap \/ UNCHANGED vars
    PROVE  Orderly'
BY DEF DevInv, Orderly, UseHeap, vars, sockVars, tickVars, TakingTurns, OwnFrame, Counted,
       Executed, Waiting

LEMMA NextDevInv == DevInv /\ [Next]_vars => DevInv'
<1>. SUFFICES ASSUME DevInv, [Next]_vars PROVE DevInv'
  OBVIOUS
<1>1. TypeOK' /\ Places'
  BY TypeStep DEF DevInv
<1>2. ASSUME ~raced' PROVE Orderly'
  <2>1. ~raced
    BY <1>2, Zenon DEF Next, SocketStep, Serve, TickStep, StartCall, BuildCall, OfferCall, CallDone,
          WaitExpires, GiveUp, Suspend, FormatFrames, Resume, LoadPending, ReadAddress, Invoke,
          StoreResult, ClearPending, Finish, UseHeap, vars
  <2>. QED  BY <1>2, <2>1, StartCallStep, BuildCallStep, OfferCallStep, CallDoneStep,
               WaitExpiresStep, GiveUpStep, BacktraceStep, LoadPendingStep, ReadAddressStep,
               InvokeStep, StoreResultStep, ClearPendingStep, FinishStep, QuietStep, Zenon
            DEF Next, SocketStep, Serve, TickStep
<1>. QED  BY <1>1, <1>2 DEF DevInv

(* The two threads take turns on the frame of a call, unless the caller    *)
(* takes it back from under the tick.                                      *)
THEOREM DevConsistent == Spec => []DevInv
BY InitDevInv, NextDevInv, PTL DEF Spec

(* Whatever the tick writes into a frame, dead or alive, is a DevCall, and *)
(* no pointer is followed that is null.                                    *)
THEOREM DevTyped == Spec => []TypeOK
<1>. DevInv => TypeOK
  BY DEF DevInv
<1>. QED  BY DevConsistent, PTL

LEMMA LinesBefore ==
    ASSUME DevInv, NEW l \in Line
    PROVE  l < line \/ l = line \/ l > line
<1>1. line \in Nat
  BY DEF DevInv, TypeOK
<1>2. l \in Nat
  BY LinesAreNumbers
<1>. QED  BY <1>1, <1>2

(* Without such a race no call is executed twice. *)
THEOREM NotTwice == Spec => []RunAtMostOnce
<1>1. DevInv => RunAtMostOnce
  <2>. SUFFICES ASSUME DevInv, ~raced, NEW l \in Line PROVE ran[l] <= 1
    BY DEF RunAtMostOnce
  <2>. QED  BY LinesBefore DEF DevInv, Orderly, Counted
<1>. QED  BY <1>1, DevConsistent, PTL

(* Without such a race nobody is told that a call is in flight: the slot   *)
(* is free when the next call is offered.                                  *)
THEOREM SlotIsFree == Spec => []NoCallRefused
<1>1. DevInv => NoCallRefused
  <2>. SUFFICES ASSUME DevInv, ~raced, NEW l \in Line PROVE answer[l] # "in_flight"
    BY Zenon DEF NoCallRefused
  <2>1. l < line => answer[l] # "in_flight"
    BY DEF DevInv, Orderly, Counted
  <2>2. l >= line => answer[l] = "unanswered"
    BY DEF DevInv, Orderly, Counted
  <2>3. l < line \/ l >= line
    BY LinesBefore, LinesAreNumbers DEF DevInv, TypeOK
  <2>. QED  BY <2>1, <2>2, <2>3
<1>. QED  BY <1>1, DevConsistent, PTL

(* Without such a race a caller gets the result of its own call, executed  *)
(* once with its own arguments, and a call that timed out never runs.      *)
THEOREM ResultsAreTheirOwn == Spec => []AnswersAreTheirOwn
<1>1. DevInv => AnswersAreTheirOwn
  <2>. SUFFICES ASSUME DevInv, ~raced, NEW l \in Line
                PROVE  /\ answer[l] \in {"ok", "faulted"} => ran[l] = 1
                       /\ answer[l] = "ok" => value[l] = <<l, l>>
                       /\ answer[l] = "timed_out" => ran[l] = 0
    BY DEF AnswersAreTheirOwn
  <2>1. CASE l < line
    BY <2>1 DEF DevInv, Orderly, Counted
  <2>2. CASE l >= line
    BY <2>2 DEF DevInv, Orderly, Counted
  <2>. QED  BY <2>1, <2>2, LinesBefore, LinesAreNumbers DEF DevInv, TypeOK
<1>. QED  BY <1>1, DevConsistent, PTL

----------------------------------------------------------------------------
(* What holds also after such a race.  The lines are answered one after    *)
(* the other, and the engine thread is suspended only by the backtrace     *)
(* that is being served, which resumes it before it answers.               *)
ServedInTurn ==
    /\ \A l \in Line : answer[l] = "unanswered" <=> l >= line
    /\ suspended <=> sock \in {"suspended", "formatted"}

(* Answering a line is what moves on to the next. *)
LEMMA RespondInTurn ==
    ASSUME TypeOK, ServedInTurn, line \in Line, NEW o \in Outcome \ {"unanswered"},
           NEW r \in (Line \cup {None}) \X (Line \cup {None}), Respond(o, r)
    PROVE  /\ \A l \in Line : answer'[l] = "unanswered" <=> l >= line'
           /\ sock' = "idle"
<1>1. /\ line' = line + 1 /\ sock' = "idle" /\ answer'[line] = o
      /\ \A l \in Line : l # line => answer'[l] = answer[l]
  BY RespondType
<1>2. ASSUME NEW l \in Line
      PROVE  answer'[l] = "unanswered" <=> l >= line'
  <2>1. l \in Nat /\ line \in Nat
    BY LinesAreNumbers
  <2>2. answer[l] = "unanswered" <=> l >= line
    BY DEF ServedInTurn
  <2>3. CASE l = line
    BY <1>1, <2>1, <2>3
  <2>4. CASE l # line
    BY <1>1, <2>1, <2>2, <2>4
  <2>. QED  BY <2>3, <2>4
<1>. QED  BY <1>1, <1>2

(* A step of the console thread answers at most the line it serves. *)
LEMMA SocketAnswers ==
    ASSUME TypeOK, Places, SocketStep
    PROVE  \/ UNCHANGED <<line, answer, value>>
           \/ /\ line \in Line
              /\ \E o \in Outcome \ {"unanswered"},
                    r \in (Line \cup {None}) \X (Line \cup {None}) : Respond(o, r)
<1>1. <<None, None>> \in (Line \cup {None}) \X (Line \cup {None})
  OBVIOUS
<1>2. mem[here].result \in (Line \cup {None}) \X (Line \cup {None})
  BY DEF TypeOK
<1>3. ASSUME NEW o \in Outcome \ {"unanswered"},
             NEW r \in (Line \cup {None}) \X (Line \cup {None}), Respond(o, r)
      PROVE  \E p \in Outcome \ {"unanswered"},
               q \in (Line \cup {None}) \X (Line \cup {None}) : Respond(p, q)
  BY <1>3
<1>4. CASE StartCall \/ BuildCall \/ WaitExpires \/ FormatFrames
  BY <1>4 DEF StartCall, BuildCall, WaitExpires, FormatFrames
<1>5. CASE OfferCall
  BY <1>1, <1>3, <1>5 DEF OfferCall, Places, Outcome
<1>6. CASE CallDone
  BY <1>1, <1>2, <1>3, <1>6 DEF CallDone, Places, Outcome
<1>7. CASE GiveUp
  BY <1>1, <1>3, <1>7 DEF GiveUp, Places, Outcome
<1>8. CASE Suspend
  BY <1>1, <1>3, <1>8 DEF Suspend, Outcome
<1>9. CASE Resume
  BY <1>1, <1>3, <1>9 DEF Resume, Places, Outcome
<1>. QED  BY <1>4, <1>5, <1>6, <1>7, <1>8, <1>9 DEF SocketStep, Serve

LEMMA TickAnswersNothing ==
    ASSUME TickStep \/ UNCHANGED vars
    PROVE  UNCHANGED <<line, sock, answer, value, suspended>>
BY DEF TickStep, LoadPending, ReadAddress, Invoke, StoreResult, ClearPending, Finish, UseHeap,
       vars, sockVars

LEMMA InTurnStep ==
    ASSUME DevInv, ServedInTurn, [Next]_vars
    PROVE  ServedInTurn'
<1>. USE DEF DevInv
<1>1. CASE TickStep \/ UNCHANGED vars
  BY <1>1, TickAnswersNothing DEF ServedInTurn
<1>2. CASE SocketStep
  <2>1. \A l \in Line : answer'[l] = "unanswered" <=> l >= line'
    BY <1>2, SocketAnswers, RespondInTurn DEF ServedInTurn
  <2>2. suspended' <=> sock' \in {"suspended", "formatted"}
    BY <1>2 DEF SocketStep, StartCall, Suspend, Serve, BuildCall, OfferCall, CallDone,
         WaitExpires, GiveUp, FormatFrames, Resume, Respond, ServedInTurn
  <2>. QED  BY <2>1, <2>2 DEF ServedInTurn
<1>. QED  BY <1>1, <1>2 DEF Next

(* The lines are answered in the order in which they came, none is passed  *)
(* over, and whoever suspends the engine thread lets it go on before it    *)
(* answers: the promise of dev_console.hpp but for the waiting.            *)
THEOREM LinesTakeTurns == Spec => []ServedInTurn
<1>1. Init => ServedInTurn
  <2>. SUFFICES ASSUME Init PROVE ServedInTurn
    OBVIOUS
  <2>1. \A l \in Line : answer[l] = "unanswered" /\ l >= line
    BY LinesAreNumbers DEF Init
  <2>. QED  BY <2>1 DEF Init, ServedInTurn
<1>. QED  BY <1>1, InTurnStep, DevConsistent, PTL DEF Spec

(* No line is answered twice: an answer that was sent stands, whatever the *)
(* tick still does for a call that was given up.                           *)
AnswersStand ==
    [][\A l \in Line : answer[l] # "unanswered" =>
          answer'[l] = answer[l] /\ value'[l] = value[l]]_vars

(* An answer is sent once. *)
THEOREM AnsweredOnce == Spec => AnswersStand
<1>1. ASSUME DevInv, ServedInTurn, [Next]_vars, NEW l \in Line, answer[l] # "unanswered"
      PROVE  answer'[l] = answer[l] /\ value'[l] = value[l]
  <2>. USE DEF DevInv
  <2>1. l # line
    BY <1>1, LinesAreNumbers DEF ServedInTurn
  <2>2. CASE UNCHANGED <<line, answer, value>>
    BY <2>2
  <2>3. ASSUME line \in Line, NEW o \in Outcome,
               NEW r \in (Line \cup {None}) \X (Line \cup {None}), Respond(o, r)
        PROVE  answer'[l] = answer[l] /\ value'[l] = value[l]
    BY <1>1, <2>1, <2>3, RespondType
  <2>. QED  BY <1>1, <2>2, <2>3, SocketAnswers, TickAnswersNothing DEF Next
<1>2. DevInv /\ ServedInTurn /\ [Next]_vars
        => [\A l \in Line : answer[l] # "unanswered" =>
              answer'[l] = answer[l] /\ value'[l] = value[l]]_vars
  BY <1>1
<1>. QED  BY <1>2, DevConsistent, LinesTakeTurns, PTL DEF Spec, AnswersStand

(* Unless a call was given up while it ran, the engine thread is not       *)
(* suspended in the middle of one, nor with one waiting for it             *)
(* (HandleBacktrace).                                                      *)
SuspendedBetweenCalls == ~raced /\ suspended => tick = "idle" /\ pending = null

(* A backtrace and a call do not meet. *)
THEOREM BacktraceFindsNoCall == Spec => []SuspendedBetweenCalls
<1>. DevInv /\ ServedInTurn => SuspendedBetweenCalls
  BY DEF DevInv, ServedInTurn, Orderly, TakingTurns, Waiting, SuspendedBetweenCalls
<1>. QED  BY DevConsistent, LinesTakeTurns, PTL
=============================================================================
