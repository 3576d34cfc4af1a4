----------------------------- MODULE LoggerProofs -----------------------------
(***************************************************************************)
(* What holds of Logger for any set of threads and any number of lines:    *)
(* the lines keep their order on the way to the file, and none that was    *)
(* logged before the shutdown is missing there when it returns.            *)
(***************************************************************************)
EXTENDS Logger, SequenceTheorems, TLAPS

(* The lines 1 .. n, in order. *)
FirstLines(n) == [i \in 1 .. n |-> i]

(* What NothingLostOnTheWay needs to be inductive: lines may be queued     *)
(* before Log::Init, and the worker has lines in its hands only between    *)
(* taking the queue and its next round.                                    *)
InOrder ==
    /\ open \/ worker = "none" => file \o local \o queue = FirstLines(queued)
    /\ worker \notin {"write", "last_write"} => local = <<>>

(* How far the worker and the closer are from each other: the worker goes  *)
(* for its last round when the closer has told it to, and the closer       *)
(* closes the file when it has ended.                                      *)
Handshake ==
    /\ running => worker # "none"
    /\ closer # "none" => worker # "none"
    /\ closer = "none" /\ worker # "none" => running
    /\ worker \in {"last_drain", "last_write", "ended"} => closer # "none"
    /\ closer \in {"close", "returned"} => worker = "ended"

(* What is expected in the file was queued when the closer came, is on its *)
(* way while the worker makes its last round and has arrived when it ends. *)
Flushed ==
    /\ expected <= queued
    /\ closer \in {"notify", "join", "close"} /\ expected > 0 => open
    /\ worker = "last_write" => Len(file) + Len(local) >= expected
    /\ worker = "ended" => Len(file) >= expected

LoggerInv == TypeOK /\ InOrder /\ Handshake /\ Flushed

----------------------------------------------------------------------------
(* Sequences. *)

(* FirstLines, one more. *)
LEMMA NextLine ==
    ASSUME NEW n \in 0 .. MaxLines, n < MaxLines
    PROVE  /\ FirstLines(n) \in Seq(Line)
           /\ Len(FirstLines(n)) = n
           /\ n + 1 \in Line
           /\ Append(FirstLines(n), n + 1) = FirstLines(n + 1)
<1>1. FirstLines(n) \in Seq(Line) /\ Len(FirstLines(n)) = n /\ n + 1 \in Line
  BY LoggerAssumption DEF FirstLines, Line
<1>2. FirstLines(n + 1) \in Seq(Line) /\ Len(FirstLines(n + 1)) = n + 1
  BY LoggerAssumption DEF FirstLines, Line
<1>3. /\ Append(FirstLines(n), n + 1) \in Seq(Line)
      /\ Len(Append(FirstLines(n), n + 1)) = n + 1
      /\ \A i \in 1 .. n : Append(FirstLines(n), n + 1)[i] = FirstLines(n)[i]
      /\ Append(FirstLines(n), n + 1)[n + 1] = n + 1
  BY <1>1, AppendProperties
<1>4. \A i \in 1 .. n + 1 : Append(FirstLines(n), n + 1)[i] = FirstLines(n + 1)[i]
  BY <1>3 DEF FirstLines
<1> QED
  BY <1>1, <1>2, <1>3, <1>4, SeqEqual

(* Adding at the end of what is underway. *)
LEMMA QueueAtEnd ==
    ASSUME NEW f \in Seq(Line), NEW l \in Seq(Line), NEW q \in Seq(Line), NEW e \in Line
    PROVE  f \o l \o Append(q, e) = Append(f \o l \o q, e)
<1>1. f \o l \in Seq(Line) /\ f \o l \o q \in Seq(Line) /\ <<e>> \in Seq(Line)
  BY ConcatProperties
<1>2. Append(q, e) = q \o <<e>> /\ Append(f \o l \o q, e) = (f \o l \o q) \o <<e>>
  BY <1>1, AppendIsConcat
<1>3. ((f \o l) \o q) \o <<e>> = (f \o l) \o (q \o <<e>>)
  BY <1>1, ConcatAssociative
<1> QED
  BY <1>2, <1>3

(* Moving the first line of the worker's hands to the end of the file.     *)
LEMMA WriteInOrder ==
    ASSUME NEW f \in Seq(Line), NEW l \in Seq(Line), NEW q \in Seq(Line), l # <<>>
    PROVE  /\ Append(f, Head(l)) \in Seq(Line)
           /\ Tail(l) \in Seq(Line)
           /\ Len(Append(f, Head(l))) = Len(f) + 1
           /\ Len(Tail(l)) = Len(l) - 1
           /\ Append(f, Head(l)) \o Tail(l) \o q = f \o l \o q
<1>1. Head(l) \in Line /\ Tail(l) \in Seq(Line) /\ Len(Tail(l)) = Len(l) - 1
  BY HeadTailProperties
<1>2. /\ Append(f, Head(l)) \in Seq(Line)
      /\ Len(Append(f, Head(l))) = Len(f) + 1
      /\ Append(f, Head(l)) = f \o <<Head(l)>>
  BY <1>1, AppendProperties, AppendIsConcat
<1>3. <<Head(l)>> \in Seq(Line) /\ <<Head(l)>> \o Tail(l) = l
  <2>1. <<Head(l)>> \in Seq(Line) /\ Len(<<Head(l)>>) = 1 /\ <<Head(l)>>[1] = l[1]
    BY <1>1
  <2>2. Len(l) \in Nat \ {0}
    BY EmptySeq
  <2>3. /\ <<Head(l)>> \o Tail(l) \in Seq(Line)
        /\ Len(<<Head(l)>> \o Tail(l)) = Len(l)
        /\ \A i \in 1 .. Len(l) :
              (<<Head(l)>> \o Tail(l))[i] = IF i <= 1 THEN <<Head(l)>>[i] ELSE Tail(l)[i - 1]
    BY <1>1, <2>1, <2>2, ConcatProperties
  <2>4. \A i \in 1 .. Len(l) : (<<Head(l)>> \o Tail(l))[i] = l[i]
    BY <1>1, <2>1, <2>2, <2>3, HeadTailProperties
  <2> QED
    BY <2>1, <2>2, <2>3, <2>4, SeqEqual
<1>4. Append(f, Head(l)) \o Tail(l) = f \o l
  BY <1>1, <1>2, <1>3, ConcatAssociative
<1> QED
  BY <1>1, <1>2, <1>4

----------------------------------------------------------------------------
(* The four parts of the invariant.  Each of them holds at the start, and  *)
(* a step preserves it, given the others.                                  *)

LEMMA InitLoggerInv == Init => LoggerInv
<1> SUFFICES ASSUME Init PROVE LoggerInv
  OBVIOUS
<1>1. TypeOK
  <2>1. running \in BOOLEAN /\ open \in BOOLEAN
    BY Zenon DEF Init
  <2> QED
    BY <2>1, LoggerAssumption, EmptySeq DEF Init, TypeOK
<1>2. InOrder
  <2>1. <<>> \in Seq(Line) /\ FirstLines(0) = <<>>
    BY DEF FirstLines
  <2>2. <<>> \o <<>> \o <<>> = <<>>
    OBVIOUS
  <2> QED
    BY <2>1, <2>2 DEF Init, InOrder
<1>3. Handshake /\ Flushed
  BY DEF Init, Handshake, Flushed
<1> QED
  BY <1>1, <1>2, <1>3 DEF LoggerInv

LEMMA TypeStep == TypeOK /\ [Next]_vars => TypeOK'
<1> SUFFICES ASSUME TypeOK, [Next]_vars PROVE TypeOK'
  OBVIOUS
<1> USE DEF TypeOK
<1>1. CASE InitLog
  BY <1>1 DEF InitLog
<1>2. ASSUME NEW t \in Thread, QueueLine(t) PROVE TypeOK'
  <2>1. queued + 1 \in Line /\ queued + 1 \in 0 .. MaxLines
    BY <1>2, LoggerAssumption DEF QueueLine, Line
  <2> QED
    BY <1>2, <2>1, AppendProperties DEF QueueLine
<1>3. ASSUME NEW t \in Thread, NotifyLine(t) PROVE TypeOK'
  BY <1>3 DEF NotifyLine, Woken
<1>4. CASE TestRunning
  BY <1>4 DEF TestRunning
<1>5. CASE TestPredicate
  BY <1>5 DEF TestPredicate
<1>6. CASE FallAsleep
  BY <1>6 DEF FallAsleep
<1>7. CASE WaitExpires
  BY <1>7 DEF WaitExpires
<1>8. CASE SwapQueue
  BY <1>8, EmptySeq DEF SwapQueue
<1>9. CASE WriteLine
  BY <1>9, HeadTailProperties, AppendProperties DEF WriteLine
<1>10. CASE Drained
  BY <1>10 DEF Drained
<1>11. CASE StopWorker
  <2>1. running' \in BOOLEAN
    BY <1>11, Zenon DEF StopWorker
  <2> QED
    BY <1>11, <2>1, LoggerAssumption DEF StopWorker
<1>12. CASE NotifyWorker
  BY <1>12 DEF NotifyWorker, Woken
<1>13. CASE JoinWorker
  BY <1>13 DEF JoinWorker
<1>14. CASE CloseFile
  BY <1>14 DEF CloseFile
<1>15. CASE UNCHANGED vars
  BY <1>15 DEF vars
<1> QED
  BY <1>1, <1>2, <1>3, <1>4, <1>5, <1>6, <1>7, <1>8, <1>9, <1>10, <1>11, <1>12, <1>13,
     <1>14, <1>15 DEF Next, WorkerStep, ShutdownStep

(* The worker only sees the closer's word, and the closer waits for it.    *)
LEMMA HandshakeStep == TypeOK /\ Handshake /\ [Next]_vars => Handshake'
<1> SUFFICES ASSUME TypeOK, Handshake, [Next]_vars PROVE Handshake'
  OBVIOUS
<1> USE DEF Handshake
<1>1. CASE InitLog
  BY <1>1 DEF InitLog
<1>2. ASSUME NEW t \in Thread, QueueLine(t) PROVE Handshake'
  BY <1>2 DEF QueueLine
<1>3. ASSUME NEW t \in Thread, NotifyLine(t) PROVE Handshake'
  BY <1>3 DEF NotifyLine, Woken
<1>4. CASE TestRunning
  BY <1>4 DEF TestRunning
<1>5. CASE TestPredicate
  BY <1>5 DEF TestPredicate
<1>6. CASE FallAsleep
  BY <1>6 DEF FallAsleep
<1>7. CASE WaitExpires
  BY <1>7 DEF WaitExpires
<1>8. CASE SwapQueue
  BY <1>8 DEF SwapQueue
<1>9. CASE WriteLine
  BY <1>9 DEF WriteLine
<1>10. CASE Drained
  BY <1>10 DEF Drained
<1>11. CASE StopWorker
  BY <1>11 DEF StopWorker
<1>12. CASE NotifyWorker
  BY <1>12 DEF NotifyWorker, Woken
<1>13. CASE JoinWorker
  BY <1>13 DEF JoinWorker
<1>14. CASE CloseFile
  BY <1>14 DEF CloseFile
<1>15. CASE UNCHANGED vars
  BY <1>15 DEF vars
<1> QED
  BY <1>1, <1>2, <1>3, <1>4, <1>5, <1>6, <1>7, <1>8, <1>9, <1>10, <1>11, <1>12, <1>13,
     <1>14, <1>15 DEF Next, WorkerStep, ShutdownStep

(* Lines are queued in order, and the worker moves them in order.          *)
LEMMA InOrderStep == TypeOK /\ InOrder /\ [Next]_vars => InOrder'
<1> SUFFICES ASSUME TypeOK, InOrder, [Next]_vars PROVE InOrder'
  OBVIOUS
<1> USE DEF InOrder
<1>1. CASE InitLog
  BY <1>1 DEF InitLog
<1>2. ASSUME NEW t \in Thread, QueueLine(t) PROVE InOrder'
  <2>1. queued + 1 \in Line /\ queued' = queued + 1 /\ queue' = Append(queue, queued + 1)
    BY <1>2, NextLine DEF QueueLine, TypeOK
  <2>2. file \o local \o queue' = Append(file \o local \o queue, queued + 1)
    BY <2>1, QueueAtEnd DEF TypeOK
  <2>3. Append(FirstLines(queued), queued + 1) = FirstLines(queued')
    BY <1>2, <2>1, NextLine DEF QueueLine, TypeOK
  <2> QED
    BY <1>2, <2>2, <2>3 DEF QueueLine
<1>3. CASE SwapQueue
  <2>1. worker # "none" /\ local = <<>> /\ local' = queue /\ queue' = <<>> /\ file' = file
    BY <1>3 DEF SwapQueue
  <2>2. file' \o local' \o queue' = file \o local \o queue
    BY <2>1, ConcatEmptySeq, ConcatProperties DEF TypeOK
  <2> QED
    BY <1>3, <2>1, <2>2 DEF SwapQueue
<1>4. CASE WriteLine
  <2>1. CASE open
    <3>1. file' = Append(file, Head(local)) /\ local' = Tail(local) /\ local # <<>>
      BY <1>4, <2>1 DEF WriteLine
    <3>2. file' \o local' \o queue = file \o local \o queue
      BY <3>1, WriteInOrder DEF TypeOK
    <3> QED
      BY <1>4, <2>1, <3>2 DEF WriteLine
  <2>2. CASE ~open
    BY <1>4, <2>2 DEF WriteLine
  <2> QED
    BY <2>1, <2>2
<1>5. CASE CloseFile
  BY <1>5 DEF CloseFile
<1>6. ASSUME NEW t \in Thread, NotifyLine(t) PROVE InOrder'
  BY <1>6 DEF NotifyLine, Woken
<1>7. CASE TestRunning
  BY <1>7 DEF TestRunning
<1>8. CASE TestPredicate
  BY <1>8 DEF TestPredicate
<1>9. CASE FallAsleep \/ WaitExpires
  BY <1>9 DEF FallAsleep, WaitExpires
<1>10. CASE Drained
  BY <1>10 DEF Drained
<1>11. CASE StopWorker
  BY <1>11 DEF StopWorker
<1>12. CASE NotifyWorker
  <2>1. UNCHANGED <<open, file, local, queue, queued>>
    BY <1>12 DEF NotifyWorker
  <2>2. CASE worker = "asleep"
    <3>1. worker' = "test"
      BY <1>12, <2>2 DEF NotifyWorker, Woken
    <3> QED
      BY <2>1, <2>2, <3>1
  <2>3. CASE worker # "asleep"
    <3>1. worker' = worker
      BY <1>12, <2>3 DEF NotifyWorker, Woken
    <3> QED
      BY <2>1, <3>1
  <2> QED
    BY <2>2, <2>3
<1>13. CASE JoinWorker
  BY <1>13 DEF JoinWorker
<1>14. CASE UNCHANGED vars
  BY <1>14 DEF vars
<1> QED
  BY <1>1, <1>2, <1>3, <1>4, <1>5, <1>6, <1>7, <1>8, <1>9, <1>10, <1>11, <1>12, <1>13, <1>14
     DEF Next, WorkerStep, ShutdownStep

(* The last round takes everything that was queued before the closer came. *)
LEMMA FlushedStep ==
    LoggerInv /\ [Next]_vars => Flushed'
<1> SUFFICES ASSUME TypeOK, InOrder, Handshake, Flushed, [Next]_vars PROVE Flushed'
  BY DEF LoggerInv
<1> USE DEF Flushed
<1>1. Len(file) \in Nat /\ Len(local) \in Nat /\ queued \in Nat /\ expected \in Nat
  BY LenProperties, LoggerAssumption DEF TypeOK
<1>2. ASSUME NEW t \in Thread, QueueLine(t) PROVE Flushed'
  BY <1>1, <1>2 DEF QueueLine
<1>3. CASE SwapQueue
  <2>1. CASE worker = "last_drain"
    <3>1. local = <<>> /\ local' = queue /\ file' = file /\ worker' = "last_write"
      BY <1>3, <2>1 DEF SwapQueue, InOrder
    <3>2. CASE expected > 0
      <4>1. open
        BY <2>1, <3>2 DEF Handshake, TypeOK
      <4>2. file \o queue = FirstLines(queued)
        BY <3>1, <4>1, ConcatEmptySeq DEF InOrder, TypeOK
      <4>3. Len(file) + Len(queue) = queued
        BY <1>1, <4>2, ConcatProperties DEF FirstLines, TypeOK
      <4> QED
        BY <1>1, <1>3, <3>1, <4>3 DEF SwapQueue
    <3>3. CASE expected = 0
      BY <1>1, <1>3, <3>1, <3>3, LenProperties DEF SwapQueue, TypeOK
    <3> QED
      BY <1>1, <3>2, <3>3
  <2>2. CASE worker = "drain"
    BY <1>3, <2>2 DEF SwapQueue
  <2> QED
    BY <1>3, <2>1, <2>2 DEF SwapQueue
<1>4. CASE WriteLine
  <2>1. local # <<>> /\ local' = Tail(local) /\ Len(local') = Len(local) - 1
    BY <1>4, HeadTailProperties DEF WriteLine, TypeOK
  <2>2. CASE open
    <3>1. Len(file') = Len(file) + 1
      BY <1>4, <2>1, <2>2, WriteInOrder DEF WriteLine, TypeOK
    <3> QED
      BY <1>1, <1>4, <2>1, <3>1 DEF WriteLine
  <2>3. CASE ~open
    <3>1. worker = "last_write" => expected = 0
      BY <1>1, <1>4, <2>3 DEF Handshake, TypeOK
    <3> QED
      BY <1>1, <1>4, <2>1, <2>3, <3>1, LenProperties DEF WriteLine, TypeOK
  <2> QED
    BY <2>2, <2>3
<1>5. CASE Drained
  BY <1>1, <1>5 DEF Drained, TypeOK
<1>6. CASE StopWorker
  BY <1>1, <1>6 DEF StopWorker, Handshake
<1>7. CASE CloseFile
  BY <1>7 DEF CloseFile
<1>8. CASE InitLog
  BY <1>8 DEF InitLog, Handshake
<1>9. ASSUME NEW t \in Thread, NotifyLine(t) PROVE Flushed'
  BY <1>9 DEF NotifyLine, Woken
<1>10. CASE TestRunning \/ TestPredicate \/ FallAsleep \/ WaitExpires
  BY <1>10 DEF TestRunning, TestPredicate, FallAsleep, WaitExpires
<1>11. CASE NotifyWorker \/ JoinWorker
  BY <1>11 DEF NotifyWorker, JoinWorker, Woken
<1>12. CASE UNCHANGED vars
  BY <1>12 DEF vars
<1> QED
  BY <1>2, <1>3, <1>4, <1>5, <1>6, <1>7, <1>8, <1>9, <1>10, <1>11, <1>12
     DEF Next, WorkerStep, ShutdownStep

----------------------------------------------------------------------------
(* Logger's lines, worker and closer fit together in every behaviour.      *)
THEOREM LoggerConsistent == Spec => []LoggerInv
<1>1. Init => LoggerInv
  BY InitLoggerInv
<1>2. LoggerInv /\ [Next]_vars => LoggerInv'
  BY TypeStep, InOrderStep, HandshakeStep, FlushedStep DEF LoggerInv
<1> QED
  BY <1>1, <1>2, PTL DEF Spec

(* Its variables keep their types.                                         *)
THEOREM LoggerTyped == Spec => []TypeOK
BY LoggerConsistent, PTL DEF LoggerInv

(* No line is lost, repeated or overtaken on its way to the file.          *)
THEOREM LinesKeepTheirOrder == Spec => []NothingLostOnTheWay
<1>1. LoggerInv => NothingLostOnTheWay
  BY DEF LoggerInv, InOrder, NothingLostOnTheWay, FirstLines
<1> QED
  BY <1>1, LoggerConsistent, PTL

(* What was logged before the shutdown is in the file when it returns.     *)
THEOREM ShutdownLosesNothing == Spec => []ShutdownFlushes
<1>1. LoggerInv => ShutdownFlushes
  BY DEF LoggerInv, Handshake, Flushed, ShutdownFlushes
<1> QED
  BY <1>1, LoggerConsistent, PTL

(* The file is closed when the worker has ended, so that no thread writes  *)
(* to a closed stream (Shutdown, DrainOnce).                               *)
ClosedAfterWorker == closer = "returned" => worker = "ended"

(* The file is closed after the worker's last write.                       *)
THEOREM WorkerEndsFirst == Spec => []ClosedAfterWorker
<1>1. LoggerInv => ClosedAfterWorker
  BY DEF LoggerInv, Handshake, ClosedAfterWorker
<1> QED
  BY <1>1, LoggerConsistent, PTL

----------------------------------------------------------------------------
(* The logger implements LogFile. *)

Phase == CASE closer = "none" -> "logging"
           [] closer = "returned" -> "closed"
           [] OTHER -> "stopping"

(* The line that the worker writes is the one the file has yet to get.     *)
LEMMA HeadIsNext ==
    ASSUME LoggerInv, open, local # <<>>
    PROVE  Head(local) = Len(file) + 1 /\ Len(file) < queued
<1>1. file \in Seq(Line) /\ local \in Seq(Line) /\ queue \in Seq(Line) /\ queued \in Nat
  BY LoggerAssumption DEF LoggerInv, TypeOK
<1>2. file \o local \o queue = FirstLines(queued)
  BY DEF LoggerInv, InOrder
<1>3. /\ Len(local) \in Nat \ {0} /\ Len(file) \in Nat /\ Len(queue) \in Nat
      /\ Head(local) = local[1]
  BY <1>1, EmptySeq
<1>4. /\ file \o local \in Seq(Line)
      /\ Len(file \o local) = Len(file) + Len(local)
      /\ (file \o local)[Len(file) + 1] = local[1]
  BY <1>1, <1>3, ConcatProperties
<1>5. /\ Len(file \o local \o queue) = Len(file) + Len(local) + Len(queue)
      /\ (file \o local \o queue)[Len(file) + 1] = local[1]
  BY <1>1, <1>3, <1>4, ConcatProperties
<1>6. Len(FirstLines(queued)) = queued
  BY <1>1 DEF FirstLines
<1>7. Len(file) < queued
  BY <1>2, <1>3, <1>5, <1>6
<1>8. FirstLines(queued)[Len(file) + 1] = Len(file) + 1
  BY <1>1, <1>3, <1>7 DEF FirstLines
<1> QED
  BY <1>2, <1>3, <1>5, <1>7, <1>8

(* Each step of a thread is a step of the file's history, or none.         *)
LEMMA LogFileSteps ==
    ASSUME LoggerInv, [Next]_vars
    PROVE  \/ LogReader!LogFileNext
           \/ UNCHANGED <<queued, file, expected>> /\ Phase' = Phase
<1>1. ASSUME NEW t \in Thread, QueueLine(t) PROVE LogReader!LogLine
  BY <1>1 DEF QueueLine, MayLog, LogReader!LogLine
<1>2. CASE WriteLine
  <2>1. closer # "returned" /\ UNCHANGED <<queued, expected, closer>>
    BY <1>2 DEF WriteLine, LoggerInv, Handshake
  <2>2. CASE open
    <3>1. file' = Append(file, Len(file) + 1) /\ Len(file) < queued
      BY <1>2, <2>2, HeadIsNext DEF WriteLine
    <3>2. LogReader!WriteNext
      BY <2>1, <3>1 DEF LogReader!WriteNext
    <3> QED
      BY <3>2 DEF LogReader!LogFileNext
  <2>3. CASE ~open
    BY <1>2, <2>1, <2>3 DEF WriteLine, Phase
  <2> QED
    BY <2>2, <2>3
<1>3. CASE StopWorker
  <2>1. LogReader!Stop
    BY <1>3 DEF StopWorker, LogReader!Stop
  <2> QED
    BY <2>1 DEF LogReader!LogFileNext
<1>4. CASE CloseFile
  <2>1. LogReader!Close
    BY <1>4 DEF CloseFile, LoggerInv, Handshake, Flushed, LogReader!Close
  <2> QED
    BY <2>1 DEF LogReader!LogFileNext
<1>5. CASE \/ InitLog \/ TestRunning \/ TestPredicate \/ FallAsleep \/ WaitExpires
           \/ SwapQueue \/ Drained \/ UNCHANGED vars
           \/ \E t \in Thread : NotifyLine(t)
  BY <1>5 DEF InitLog, TestRunning, TestPredicate, FallAsleep, WaitExpires, SwapQueue, Drained,
       NotifyLine, vars, Phase
<1>6. CASE NotifyWorker \/ JoinWorker
  BY <1>6 DEF NotifyWorker, JoinWorker, Phase
<1> QED
  BY <1>1, <1>2, <1>3, <1>4, <1>5, <1>6
     DEF Next, WorkerStep, ShutdownStep, LogReader!LogFileNext

(* The file is what LogFile promises: DrainOnce and Shutdown keep the      *)
(* order and the last lines in every interleaving with Write.              *)
THEOREM FileKeepsPromise == Spec => ImplementsLogFile
<1>1. Init => LogReader!LogFileInit
  BY DEF Init, LogReader!LogFileInit
<1>2. LoggerInv /\ [Next]_vars
        => [LogReader!LogFileNext]_<<queued, file, expected, Phase>>
  BY LogFileSteps
<1> QED
  BY <1>1, <1>2, LoggerConsistent, PTL
     DEF Spec, Phase, ImplementsLogFile, LogReader!LogFileSpec
===============================================================================
