-------------------------------- MODULE MCWire --------------------------------
(***************************************************************************)
(* Instances of module Wire: the streams and the control input that its    *)
(* clients send.                                                           *)
(***************************************************************************)
EXTENDS Wire

CONSTANTS e1, e2  \* UDP endpoints

(* Streams by the lengths that their frames declare: frames of three to    *)
(* seven bytes, a flood of short ones, a frame that the buffer cannot hold *)
(* beside a chunk, one that is larger than the buffer, and frames that are *)
(* followed by part of a frame or by bytes that are no frame.              *)
MCStream == {<<3, 5, 4, 7>>, <<3, 3, 3, 3, 3, 3, 3, 3>>, <<6, 8, 3>>, <<4, 12>>,
             <<5, 3, 2>>, <<3, 3, 0, 3>>, <<4, 4, 9>>}

(* The last length of these is declared, but not sent in full. *)
CutShort == {<<4, 4, 9>>}

SumUpTo(q, n) == LET sum[i \in 0 .. n] == IF i = 0 THEN 0 ELSE sum[i - 1] + q[i] IN sum[n]

(* The frames of q that are well formed and complete. *)
Whole(q) ==
    LET good == {n \in 0 .. Len(q) : \A i \in 1 .. n : q[i] >= 3 /\ (q \in CutShort => i < Len(q))}
    IN  CHOOSE n \in good : \A m \in good : m <= n

MCFrameAt == [q \in MCStream |-> [n \in 1 .. Whole(q) + 1 |-> SumUpTo(q, n - 1)]]

MCLength == [q \in MCStream |->
               IF Whole(q) = Len(q) THEN SumUpTo(q, Len(q)) ELSE SumUpTo(q, Whole(q)) + 4]

(* The bytes inside a frame look like the beginning of another. *)
MCDeclares == [q \in MCStream |-> [p \in 0 .. MCLength[q] |->
    IF \E n \in 1 .. Len(q) : n <= Whole(q) + 1 /\ p = SumUpTo(q, n - 1)
    THEN q[CHOOSE n \in 1 .. Len(q) : n <= Whole(q) + 1 /\ p = SumUpTo(q, n - 1)]
    ELSE 3]]

(* Updates of no, one, two and too many changes, of channels that are one  *)
(* bit or sixteen wide, the last that can be driven and one that cannot.   *)
MCUpdates == {<<>>, <<4>>, <<0>>, <<7, 8>>, <<21, 22, 1>>, <<8, 8, 2>>, <<0, 1, 2, 3>>}
=============================================================================
