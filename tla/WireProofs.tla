----------------------------- MODULE WireProofs -----------------------------
(***************************************************************************)
(* What becomes of the bytes of a client, for any streams, chunks and      *)
(* limits, any number of sessions and any addresses.                       *)
(*                                                                         *)
(* StreamInv says where the buffer begins: at the first byte of a frame,   *)
(* the one that follows those that were handled.  So what the buffer       *)
(* declares at its front is the length of that frame, if it is one, and a  *)
(* frame that is complete for Next is complete for its client.             *)
(*                                                                         *)
(* UdpInv says that nobody has reacted to a packet while it is still being *)
(* offered, and that a session that got past its key echo is linked, so    *)
(* that the sessions that are not can only be linked or answer.            *)
(*                                                                         *)
(* ActInv says that the decoder's reader is at the first bit of the change *)
(* that comes next.  A change is known by where it begins, so the decoder  *)
(* takes each for what it is; and the bits that are missing are the last,  *)
(* so that it cannot come to the end without them.  Where the changes      *)
(* begin, and what is queued of them, is defined by recursion; that these  *)
(* recursions have solutions is shown by an induction over sets, UpTo.     *)
(***************************************************************************)
EXTENDS Wire, FiniteSetTheorems, WellFoundedInduction, TLAPS

(* The buffer begins with the frame after those that were handled. *)
AtFrame ==
    /\ Len(frames) < Len(FrameAt[stream])
    /\ erased = FrameAt[stream][Len(frames) + 1]
    /\ \A i \in 1 .. Len(frames) :
         frames[i] = <<FrameAt[stream][i], Declares[stream][FrameAt[stream][i]]>>

DrainsWhileOpen == place = "drain" => dropped = "no"

StreamInv ==
    /\ TcpTypeOK
    /\ AtFrame
    /\ DrainsWhileOpen
    /\ NothingWaitsUnlessCapped
    /\ BacklogHasACause

----------------------------------------------------------------------------
LEMMA LengthsAreNaturals ==
    ASSUME TcpTypeOK
    PROVE  /\ stream \in Stream
           /\ erased \in Nat /\ received \in Nat /\ Length[stream] \in Nat
           /\ erased <= received /\ received <= Length[stream]
           /\ TotalLen \in Nat
<1>1. stream \in Stream /\ Length[stream] \in Nat
  BY TcpStreamAssumption DEF TcpTypeOK
<1>2. /\ erased \in Nat /\ received \in Nat
      /\ erased <= received /\ received <= Length[stream]
  BY <1>1 DEF TcpTypeOK
<1>3. erased \in 0 .. Length[stream]
  BY <1>1, <1>2
<1>4. Declares[stream] \in [0 .. Length[stream] -> Nat]
  BY <1>1, TcpStreamAssumption
<1>. QED  BY <1>1, <1>2, <1>3, <1>4 DEF TotalLen

LEMMA FramesOfAStream ==
    ASSUME NEW q \in Stream, NEW n \in 1 .. Len(FrameAt[q])
    PROVE  /\ FrameAt[q] \in Seq(Nat)
           /\ FrameAt[q][n] \in Nat
           /\ FrameAt[q][n] <= Length[q]
           /\ Declares[q][FrameAt[q][n]] \in Nat
           /\ IsFrame(q, n) =>
                /\ n < Len(FrameAt[q])
                /\ FrameAt[q][n + 1] = FrameAt[q][n] + Declares[q][FrameAt[q][n]]
BY TcpStreamAssumption DEF IsFrame

(* The length that the front of the buffer declares is that of a frame,    *)
(* and the buffer holds all of it: so did the client write it.             *)
LEMMA CompleteIsFrame ==
    ASSUME TcpTypeOK, AtFrame, Complete
    PROVE  LET k == Len(frames) + 1 IN
           /\ k \in 1 .. Len(FrameAt[stream])
           /\ TotalLen = Declares[stream][FrameAt[stream][k]]
           /\ k < Len(FrameAt[stream])
           /\ FrameAt[stream][k + 1] = erased + TotalLen
           /\ erased + TotalLen <= received
<1>. DEFINE k == Len(frames) + 1
<1>1. /\ Len(frames) \in Nat
      /\ stream \in Stream
      /\ FrameAt[stream] \in Seq(Nat)
  BY TcpStreamAssumption DEF TcpTypeOK
<1>2. k \in 1 .. Len(FrameAt[stream])
  BY <1>1 DEF AtFrame
<1>3. TotalLen = Declares[stream][FrameAt[stream][k]] /\ erased = FrameAt[stream][k]
  BY DEF AtFrame, TotalLen
<1>4. erased + TotalLen <= received /\ erased + TotalLen <= Length[stream] /\ TotalLen >= MinFrameLen
  BY LengthsAreNaturals DEF Complete, Buffered
<1>5. IsFrame(stream, k)
  BY <1>3, <1>4, LengthsAreNaturals DEF IsFrame, HeaderLen, MinFrameLen
<1>. QED  BY <1>1, <1>2, <1>3, <1>4, <1>5, FramesOfAStream

----------------------------------------------------------------------------
LEMMA InitStreamInv == TcpInit => StreamInv
<1>. SUFFICES ASSUME TcpInit PROVE StreamInv
  OBVIOUS
<1>1. TcpTypeOK
  <2>1. capped \in BOOLEAN
    BY Zenon DEF TcpInit
  <2>2. stream \in Stream /\ Length[stream] \in Nat /\ MaxFrames \in Nat
    BY TcpStreamAssumption DEF TcpInit
  <2>3. frames \in Seq(Nat \X Nat)
    BY DEF TcpInit
  <2>. QED  BY <2>1, <2>2, <2>3 DEF TcpInit, TcpTypeOK, Reason
<1>2. AtFrame
  BY TcpStreamAssumption DEF TcpInit, AtFrame
<1>3. ~Complete
  BY DEF TcpInit, Complete, Buffered, HeaderLen
<1>. QED  BY <1>1, <1>2, <1>3 DEF TcpInit, StreamInv, DrainsWhileOpen, NothingWaitsUnlessCapped, BacklogHasACause

LEMMA OnTcpDataStep ==
    ASSUME StreamInv, NEW n \in 1 .. RecvChunk, OnTcpData(n)
    PROVE  StreamInv'
<1>. USE DEF StreamInv
<1>. DEFINE b == received + n - erased
<1>1. n \in Nat /\ n >= 1 /\ n <= RecvChunk /\ RecvChunk \in Nat /\ MaxBuffered \in Nat /\ RecvChunk < MaxBuffered
  BY TcpStreamAssumption
<1>2. TcpTypeOK'
  BY <1>1, LengthsAreNaturals, TcpStreamAssumption DEF OnTcpData, TcpTypeOK, Reason
<1>3. AtFrame'
  BY DEF OnTcpData, AtFrame
<1>4. DrainsWhileOpen'
  BY DEF OnTcpData, DrainsWhileOpen
<1>5. NothingWaitsUnlessCapped'
  BY DEF OnTcpData, NothingWaitsUnlessCapped
<1>6. BacklogHasACause'
  <2>. SUFFICES ASSUME dropped' = "backlog", ~capped
                PROVE  TotalLen + RecvChunk > MaxBuffered + 1
    BY DEF OnTcpData, BacklogHasACause, TotalLen
  <2>1. ~Malformed(b) /\ b > MaxBuffered
    BY DEF OnTcpData
  <2>2. ~Complete
    BY DEF OnTcpData, NothingWaitsUnlessCapped
  <2>3. TotalLen >= MinFrameLen
    BY <1>1, <2>1, LengthsAreNaturals DEF Malformed, HeaderLen, MinFrameLen
  <2>4. Buffered < HeaderLen \/ Buffered < TotalLen
    BY <2>2, <2>3, LengthsAreNaturals DEF Complete, Buffered, HeaderLen
  <2>. QED  BY <1>1, <2>1, <2>3, <2>4, LengthsAreNaturals DEF Buffered, HeaderLen, MinFrameLen
<1>. QED  BY <1>2, <1>3, <1>4, <1>5, <1>6

LEMMA NextFrameStep ==
    ASSUME StreamInv, NextFrame
    PROVE  StreamInv'
<1>. USE DEF StreamInv
<1>. DEFINE k == Len(frames) + 1
<1>1. /\ k \in 1 .. Len(FrameAt[stream])
      /\ TotalLen = Declares[stream][FrameAt[stream][k]]
      /\ k < Len(FrameAt[stream])
      /\ FrameAt[stream][k + 1] = erased + TotalLen
      /\ erased + TotalLen <= received
  BY CompleteIsFrame DEF NextFrame
<1>2. /\ frames \in Seq(Nat \X Nat) /\ Len(frames) \in Nat
      /\ frames' = Append(frames, <<erased, TotalLen>>)
      /\ <<erased, TotalLen>> \in Nat \X Nat
  BY LengthsAreNaturals DEF NextFrame, TcpTypeOK
<1>3. /\ frames' \in Seq(Nat \X Nat)
      /\ Len(frames') = k
      /\ frames'[k] = <<erased, TotalLen>>
      /\ \A i \in 1 .. Len(frames) : frames'[i] = frames[i]
  BY <1>2
<1>4. TcpTypeOK'
  <2>1. erased' \in 0 .. received'
    BY <1>1, LengthsAreNaturals DEF NextFrame
  <2>2. processed' \in 0 .. MaxFrames
    BY TcpStreamAssumption DEF NextFrame, TcpTypeOK
  <2>. QED  BY <1>3, <2>1, <2>2 DEF NextFrame, TcpTypeOK, Reason
<1>5. AtFrame'
  <2>1. erased = FrameAt[stream][k]
    BY DEF AtFrame
  <2>2. \A i \in 1 .. k :
          frames'[i] = <<FrameAt[stream][i], Declares[stream][FrameAt[stream][i]]>>
    BY <1>1, <1>2, <1>3, <2>1 DEF AtFrame
  <2>. QED  BY <1>1, <1>3, <2>2 DEF NextFrame, AtFrame
<1>6. DrainsWhileOpen' /\ NothingWaitsUnlessCapped' /\ BacklogHasACause'
  BY DEF NextFrame, DrainsWhileOpen, NothingWaitsUnlessCapped, BacklogHasACause
<1>. QED  BY <1>4, <1>5, <1>6

LEMMA NextFailsStep ==
    ASSUME StreamInv, NextFails
    PROVE  StreamInv'
BY DEF StreamInv, NextFails, TcpTypeOK, Reason, AtFrame, DrainsWhileOpen,
       NothingWaitsUnlessCapped, BacklogHasACause

LEMMA EndDrainStep ==
    ASSUME StreamInv, EndDrain
    PROVE  StreamInv'
<1>. USE DEF StreamInv
<1>1. capped' \in BOOLEAN
  BY Zenon DEF EndDrain
<1>2. TcpTypeOK'
  BY <1>1 DEF EndDrain, TcpTypeOK
<1>3. AtFrame' /\ DrainsWhileOpen'
  BY DEF EndDrain, AtFrame, DrainsWhileOpen
<1>4. NothingWaitsUnlessCapped'
  <2>1. processed = MaxFrames \/ ~Complete
    BY DEF EndDrain
  <2>2. Complete' <=> Complete
    BY DEF EndDrain, Complete, Buffered, TotalLen
  <2>3. processed = MaxFrames => capped'
    BY Zenon DEF EndDrain
  <2>. QED  BY <2>1, <2>2, <2>3 DEF NothingWaitsUnlessCapped
<1>5. BacklogHasACause'
  BY DEF EndDrain, DrainsWhileOpen, BacklogHasACause
<1>. QED  BY <1>2, <1>3, <1>4, <1>5

LEMMA NextStreamInv == StreamInv /\ [TcpNext]_tcpVars => StreamInv'
<1>. SUFFICES ASSUME StreamInv, [TcpNext]_tcpVars PROVE StreamInv'
  OBVIOUS
<1>1. CASE \E n \in 1 .. RecvChunk : OnTcpData(n)
  BY <1>1, OnTcpDataStep
<1>2. CASE Drain
  BY <1>2, NextFrameStep, NextFailsStep, EndDrainStep DEF Drain
<1>3. CASE UNCHANGED tcpVars
  BY <1>3 DEF tcpVars, StreamInv, TcpTypeOK, AtFrame, DrainsWhileOpen, NothingWaitsUnlessCapped,
              BacklogHasACause, Complete, Buffered, TotalLen
<1>. QED  BY <1>1, <1>2, <1>3 DEF TcpNext

(* The buffer always begins with the frame that is to be handled next.     *)
THEOREM StreamConsistent == TcpSpec => []StreamInv
BY InitStreamInv, NextStreamInv, PTL DEF TcpSpec

(* What the accumulator erases was received, and what is received was      *)
(* sent: no stream and no chunking takes a byte that is not there.         *)
THEOREM StreamTyped == TcpSpec => []TcpTypeOK
<1>. StreamInv => TcpTypeOK
  BY DEF StreamInv
<1>. QED  BY StreamConsistent, PTL

(* A complete frame is left in the buffer only by a drain that has handled *)
(* as many as it may.                                                      *)
THEOREM NothingWaits == TcpSpec => []NothingWaitsUnlessCapped
<1>. StreamInv => NothingWaitsUnlessCapped
  BY DEF StreamInv
<1>. QED  BY StreamConsistent, PTL

(* Only a capped drain or a frame that does not fit beside a chunk gets a  *)
(* client dropped for its backlog.                                         *)
THEOREM NoDropWithoutCause == TcpSpec => []BacklogHasACause
<1>. StreamInv => BacklogHasACause
  BY DEF StreamInv
<1>. QED  BY StreamConsistent, PTL

----------------------------------------------------------------------------
LEMMA WrittenFrames ==
    ASSUME NEW q \in Stream
    PROVE  /\ Len(Written(q)) = Len(FrameAt[q]) - 1
           /\ \A i \in 1 .. Len(FrameAt[q]) - 1 :
                Written(q)[i] = <<FrameAt[q][i], Declares[q][FrameAt[q][i]]>>
<1>1. FrameAt[q] \in Seq(Nat) /\ FrameAt[q] # <<>>
  BY TcpStreamAssumption
<1>. QED  BY <1>1 DEF Written

LEMMA DeliveryInits == TcpInit => Delivery!DeliveryInit
<1>. SUFFICES ASSUME TcpInit PROVE Delivery!DeliveryInit
  OBVIOUS
<1>1. (dropped = "no") = TRUE
  BY DEF TcpInit
<1>. QED  BY <1>1, Zenon DEF TcpInit, Delivery!DeliveryInit

(* Every step of the stream delivers the next frame, drops the connection, *)
(* or is invisible.                                                        *)
LEMMA DeliverySteps ==
    StreamInv /\ [TcpNext]_tcpVars =>
        [Delivery!Deliver \/ Delivery!Drop]_<<Written(stream), frames, dropped = "no">>
<1>. SUFFICES ASSUME StreamInv, [TcpNext]_tcpVars
              PROVE  [Delivery!Deliver \/ Delivery!Drop]_<<Written(stream), frames, dropped = "no">>
  OBVIOUS
<1>. USE DEF StreamInv
<1>1. ASSUME stream' = stream, frames' = frames, dropped' = dropped
      PROVE  UNCHANGED <<Written(stream), frames, dropped = "no">>
  BY <1>1
<1>2. ASSUME stream' = stream, frames' = frames, dropped = "no", dropped' # "no"
      PROVE  Delivery!Drop
  BY <1>2 DEF Delivery!Drop
<1>3. ASSUME NEW n \in 1 .. RecvChunk, OnTcpData(n)
      PROVE  \/ stream' = stream /\ frames' = frames /\ dropped' = dropped
             \/ stream' = stream /\ frames' = frames /\ dropped = "no" /\ dropped' # "no"
  BY <1>3 DEF OnTcpData
<1>4. ASSUME NextFrame
      PROVE  Delivery!Deliver
  <2>. DEFINE k == Len(frames) + 1
  <2>1. /\ k \in 1 .. Len(FrameAt[stream])
        /\ TotalLen = Declares[stream][FrameAt[stream][k]]
        /\ k < Len(FrameAt[stream])
    BY <1>4, CompleteIsFrame DEF NextFrame
  <2>2. stream \in Stream /\ Len(frames) \in Nat /\ FrameAt[stream] \in Seq(Nat)
    BY TcpStreamAssumption DEF TcpTypeOK
  <2>3. Len(frames) < Len(Written(stream))
    BY <2>1, <2>2, WrittenFrames
  <2>4. Written(stream)[Len(frames) + 1] = <<erased, TotalLen>>
    BY <2>1, <2>2, WrittenFrames DEF AtFrame
  <2>5. frames' = Append(frames, Written(stream)[Len(frames) + 1])
    BY <1>4, <2>4 DEF NextFrame
  <2>6. dropped = "no"
    BY <1>4 DEF NextFrame, DrainsWhileOpen
  <2>7. Written(stream)' = Written(stream)
    BY <1>4 DEF NextFrame, Written
  <2>8. (dropped' = "no") \in BOOLEAN
    BY Zenon
  <2>. QED  BY <2>3, <2>5, <2>6, <2>7, <2>8, Zenon DEF Delivery!Deliver
<1>5. ASSUME NextFails
      PROVE  stream' = stream /\ frames' = frames /\ dropped = "no" /\ dropped' # "no"
  BY <1>5 DEF NextFails, DrainsWhileOpen
<1>6. ASSUME EndDrain
      PROVE  stream' = stream /\ frames' = frames /\ dropped' = dropped
  BY <1>6 DEF EndDrain
<1>7. ASSUME UNCHANGED tcpVars
      PROVE  stream' = stream /\ frames' = frames /\ dropped' = dropped
  BY <1>7 DEF tcpVars
<1>. QED  BY <1>1, <1>2, <1>3, <1>4, <1>5, <1>6, <1>7, Zenon DEF TcpNext, Drain

(* However recv cuts or joins the stream, HandleFrame gets the frames that *)
(* the client wrote, whole, in order, once, and none after a drop.         *)
THEOREM StreamDelivers == TcpSpec => ImplementsDelivery
<1>1. TcpInit => Delivery!DeliveryInit
  BY DeliveryInits
<1>. QED  BY <1>1, StreamConsistent, DeliverySteps, PTL
          DEF TcpSpec, ImplementsDelivery, Delivery!DeliverySpec

(* Once all of a stream has arrived and OnTcpData has returned, all of its *)
(* frames were handled, unless the client was dropped or enough of them    *)
(* were handled at once: what AllIsHandled leaves to be reached.           *)
ArrivedIsHandled ==
    received = Length[stream] /\ place = "recv" /\ dropped = "no" /\ ~capped =>
        frames = Written(stream)

(* A client is dropped for bytes that are no frame only when all of its    *)
(* frames were handled: those bytes are the next ones.                     *)
MalformedIsLast ==
    dropped = "malformed" => frames = Written(stream) /\ TotalLen < MinFrameLen

(* Whoever handled as many frames as were written handled what was written. *)
LEMMA AllFramesAreWritten ==
    ASSUME StreamInv, Len(frames) + 1 = Len(FrameAt[stream])
    PROVE  frames = Written(stream)
<1>1. stream \in Stream /\ FrameAt[stream] \in Seq(Nat) /\ frames \in Seq(Nat \X Nat)
  BY TcpStreamAssumption DEF StreamInv, TcpTypeOK
<1>2. Len(FrameAt[stream]) \in Nat /\ Len(frames) = Len(FrameAt[stream]) - 1
  BY <1>1
<1>3. frames = [i \in 1 .. Len(frames) |-> frames[i]]
  BY <1>1
<1>4. \A i \in 1 .. Len(frames) :
        frames[i] = <<FrameAt[stream][i], Declares[stream][FrameAt[stream][i]]>>
  BY DEF StreamInv, AtFrame
<1>. QED  BY <1>2, <1>3, <1>4 DEF Written

(* The buffer begins with a frame of the client, if any is left.           *)
LEMMA FrontIsFrame ==
    ASSUME StreamInv, Len(frames) + 1 # Len(FrameAt[stream])
    PROVE  TotalLen >= MinFrameLen /\ erased + TotalLen <= Length[stream]
<1>. DEFINE k == Len(frames) + 1
<1>1. stream \in Stream /\ FrameAt[stream] \in Seq(Nat) /\ Len(frames) \in Nat
  BY TcpStreamAssumption DEF StreamInv, TcpTypeOK
<1>2. k \in 1 .. Len(FrameAt[stream]) /\ k < Len(FrameAt[stream])
  BY <1>1 DEF StreamInv, AtFrame
<1>3. IsFrame(stream, k)
  BY <1>1, <1>2, TcpStreamAssumption
<1>. QED  BY <1>3 DEF IsFrame, StreamInv, AtFrame, TotalLen

LEMMA ArrivedIsHandledInv == StreamInv => ArrivedIsHandled
<1>. SUFFICES ASSUME StreamInv, received = Length[stream], place = "recv", dropped = "no", ~capped,
                     Len(frames) + 1 # Len(FrameAt[stream])
              PROVE  FALSE
  BY AllFramesAreWritten DEF ArrivedIsHandled
<1>1. ~Complete
  BY DEF StreamInv, NothingWaitsUnlessCapped
<1>2. TotalLen >= MinFrameLen /\ erased + TotalLen <= received
  BY FrontIsFrame
<1>. QED  BY <1>1, <1>2, LengthsAreNaturals
          DEF StreamInv, Complete, Buffered, HeaderLen, MinFrameLen

(* Nothing but what the client sent wrongly is left at the front. *)
LEMMA MalformedFront ==
    ASSUME StreamInv, TotalLen < MinFrameLen
    PROVE  frames = Written(stream)
<1>1. TotalLen \in Nat
  BY LengthsAreNaturals DEF StreamInv
<1>. QED  BY <1>1, FrontIsFrame, AllFramesAreWritten DEF MinFrameLen

LEMMA NextMalformedIsLast ==
    ASSUME StreamInv, MalformedIsLast, [TcpNext]_tcpVars
    PROVE  MalformedIsLast'
<1>1. ASSUME UNCHANGED <<stream, erased, frames>>
      PROVE  Written(stream)' = Written(stream) /\ TotalLen' = TotalLen
  BY <1>1 DEF Written, TotalLen
<1>2. CASE \E n \in 1 .. RecvChunk : OnTcpData(n)
  <2>1. PICK n \in 1 .. RecvChunk : OnTcpData(n)
    BY <1>2
  <2>2. UNCHANGED <<stream, erased, frames>> /\ (dropped' = "malformed" => TotalLen < MinFrameLen)
    BY <2>1 DEF OnTcpData, Malformed
  <2>. QED  BY <1>1, <2>2, MalformedFront DEF MalformedIsLast
<1>3. CASE NextFrame
  BY <1>3 DEF NextFrame, StreamInv, DrainsWhileOpen, MalformedIsLast
<1>4. CASE NextFails
  BY <1>1, <1>4, MalformedFront DEF NextFails, Malformed, MalformedIsLast
<1>5. CASE EndDrain
  BY <1>1, <1>5 DEF EndDrain, MalformedIsLast
<1>6. CASE UNCHANGED tcpVars
  BY <1>1, <1>6 DEF tcpVars, MalformedIsLast
<1>. QED  BY <1>2, <1>3, <1>4, <1>5, <1>6 DEF TcpNext, Drain

(* When all has arrived, all is handled but for a drop or a capped drain.  *)
THEOREM ArrivedIsAllHandled == TcpSpec => []ArrivedIsHandled
BY StreamConsistent, ArrivedIsHandledInv, PTL

(* However its frames and what follows them are cut by recv, no frame of a *)
(* client is lost to malformed bytes that it sent later.                   *)
THEOREM NoFrameLostToGarbage == TcpSpec => []MalformedIsLast
<1>1. TcpInit => MalformedIsLast
  BY DEF TcpInit, MalformedIsLast
<1>. QED  BY <1>1, StreamConsistent, NextMalformedIsLast, PTL DEF TcpSpec

----------------------------------------------------------------------------
(* Whoever has echoed its key, and is not closed, has an endpoint, and an  *)
(* endpoint is the address of the session's own client.                    *)
IdentifiedAreLinked ==
    \A s \in Sid :
        /\ state[s] \in {"AwaitingUsername", "AwaitingPassword", "Verified", "InGame"} =>
             endpoint[s] # NoEndpoint
        /\ endpoint[s] \in {NoEndpoint, port[s]}

(* A packet that was taken is not offered again. *)
TookWhenDone == attempt # "done" => took = <<>>

(* The second reading is routed only if the first could not be. *)
RawWasTried ==
    attempt = "route_seq" => RawReading = "unknown" \/ LinkedTo(port[packet.from]) = {}

Routed == OneReaction /\ CommandsAreTheSenders /\ ServedByItsSession

UdpInv ==
    /\ UdpTypeOK
    /\ IdentifiedAreLinked
    /\ TookWhenDone
    /\ RawWasTried
    /\ Routed

LEMMA SidsAreNaturals == Sid \subseteq Nat /\ 1 \in Sid /\ MaxSessions \in Nat
BY QueuesAssumption DEF Sid

LEMMA NoPacketIsAPacket == NoPacket \in Packet
BY SidsAreNaturals DEF NoPacket, Packet, Reading

LEMMA PacketFields ==
    ASSUME NEW p \in Packet
    PROVE  /\ p.from \in Sid /\ p.form \in {"raw", "seq", "envelope"}
           /\ p.says \in Reading /\ p.slip \in Reading \ {"echo"}
           /\ p.form = "envelope" => p.slip = "unknown"
BY DEF Packet, Reading

LEMMA ReadingsAreReadings ==
    ASSUME packet \in Packet
    PROVE  SeqReading \in Reading /\ RawReading \in Reading
BY PacketFields DEF SeqReading, RawReading

(* While a packet is being offered, or there is none, all was well. *)
LEMMA UntakenIsRouted ==
    ASSUME took = <<>>, attempt # "done"
    PROVE  Routed
BY DEF Routed, OneReaction, CommandsAreTheSenders, ServedByItsSession

LEMMA InitUdpInv == UdpInit => UdpInv
<1>. SUFFICES ASSUME UdpInit PROVE UdpInv
  OBVIOUS
<1>1. QueuesTypeOK /\ ConnectionTypeOK
  BY DEF UdpInit, QueuesInit, ConnectionInit, QueuesTypeOK, ConnectionTypeOK, NoMessages
<1>2. UdpTypeOK
  BY <1>1, NoPacketIsAPacket, SidsAreNaturals DEF UdpInit, UdpTypeOK
<1>3. IdentifiedAreLinked
  BY DEF UdpInit, ConnectionInit, IdentifiedAreLinked, Absent
<1>. QED  BY <1>2, <1>3, UntakenIsRouted DEF UdpInit, UdpInv, TookWhenDone, RawWasTried

(* A step between two datagrams need only keep the connections in order. *)
LEMMA BetweenDatagrams ==
    ASSUME UdpInv, attempt = "none", UNCHANGED <<port, attempt, packet, rest, took>>,
           nextSid' \in 1 .. MaxSessions + 1, QueuesTypeOK', ConnectionTypeOK',
           IdentifiedAreLinked'
    PROVE  UdpInv'
<1>1. UdpTypeOK'
  BY DEF UdpInv, UdpTypeOK
<1>2. took' = <<>> /\ attempt' = "none"
  BY DEF UdpInv, TookWhenDone
<1>3. Routed'
  BY <1>2 DEF Routed, OneReaction, CommandsAreTheSenders, ServedByItsSession
<1>. QED  BY <1>1, <1>2, <1>3 DEF UdpInv, TookWhenDone, RawWasTried

LEMMA AcceptStep == UdpInv /\ Accept => UdpInv'
<1>. SUFFICES ASSUME UdpInv, Accept PROVE UdpInv'
  OBVIOUS
<1>1. nextSid \in Sid /\ nextSid' = nextSid + 1 /\ nextSid' \in 1 .. MaxSessions + 1
  BY SidsAreNaturals DEF Accept, UdpInv, UdpTypeOK, Sid
<1>2. QueuesTypeOK' /\ ConnectionTypeOK'
  BY <1>1 DEF Accept, queueVars, UdpInv, UdpTypeOK, QueuesTypeOK, ConnectionTypeOK, ConnState
<1>3. IdentifiedAreLinked'
  BY <1>1 DEF Accept, UdpInv, UdpTypeOK, ConnectionTypeOK, IdentifiedAreLinked
<1>. QED  BY <1>1, <1>2, <1>3, BetweenDatagrams DEF Accept

LEMMA TcpProgressStep == UdpInv /\ (\E s \in Sid : TcpProgress(s)) => UdpInv'
<1>. SUFFICES ASSUME UdpInv, NEW s \in Sid, TcpProgress(s) PROVE UdpInv'
  OBVIOUS
<1>1. PICK st \in {"AwaitingPassword", "Verified", "InGame"}, cmds \in Seq(Command) :
        /\ state[s] \in {"AwaitingUsername", "AwaitingPassword", "Verified"}
        /\ state' = [state EXCEPT ![s] = st]
        /\ inbound' = inbound \o cmds
        /\ UNCHANGED <<endpoint, outbound>>
  <2>1. \A k \in CommandKind : Cmd(k, s) \in Command
    BY DEF Cmd, Command
  <2>. DEFINE user == Cmd("LoginUser", s)  pass == Cmd("LoginPassword", s)
              last == Cmd("ClientConnected", s)  go == Cmd("WantUpdates", s)
  <2>a. {user, pass, last, go} \subseteq Command
    BY <2>1 DEF CommandKind
  <2>b. \A x, y, z \in Command :
          <<x>> \in Seq(Command) /\ <<x, y>> \in Seq(Command) /\ <<x, y, z>> \in Seq(Command)
    OBVIOUS
  <2>2. CASE HandleLoginUsername(s)
    <3>1. /\ state[s] = "AwaitingUsername"
          /\ state' = [state EXCEPT ![s] = "AwaitingPassword"]
          /\ inbound' = inbound \o <<user>>
          /\ UNCHANGED <<endpoint, outbound>>
      BY <2>2 DEF HandleLoginUsername, Push
    <3>2. <<user>> \in Seq(Command)
      BY <2>a, <2>b
    <3>. HIDE DEF user
    <3>. QED  BY <3>1, <3>2
  <2>3. CASE CompleteLoginWithPassword(s)
    <3>1. /\ state[s] \in {"AwaitingUsername", "AwaitingPassword"}
          /\ state' = [state EXCEPT ![s] = "Verified"]
          /\ inbound' = inbound \o <<pass, last>> \/ inbound' = inbound \o <<user, pass, last>>
          /\ UNCHANGED <<endpoint, outbound>>
      BY <2>3 DEF CompleteLoginWithPassword, Push
    <3>2. <<pass, last>> \in Seq(Command) /\ <<user, pass, last>> \in Seq(Command)
      BY <2>a, <2>b
    <3>. HIDE DEF user, pass, last
    <3>. QED  BY <3>1, <3>2
  <2>4. CASE EnterGame(s)
    <3>1. /\ state[s] = "Verified"
          /\ state' = [state EXCEPT ![s] = "InGame"]
          /\ inbound' = inbound \o <<go>>
          /\ UNCHANGED <<endpoint, outbound>>
      BY <2>4 DEF EnterGame, Push
    <3>2. <<go>> \in Seq(Command)
      BY <2>a, <2>b
    <3>. HIDE DEF go
    <3>. QED  BY <3>1, <3>2
  <2>. QED  BY <2>2, <2>3, <2>4 DEF TcpProgress
<1>2. QueuesTypeOK' /\ ConnectionTypeOK'
  BY <1>1 DEF UdpInv, UdpTypeOK, QueuesTypeOK, ConnectionTypeOK, ConnState
<1>3. IdentifiedAreLinked'
  BY <1>1 DEF TcpProgress, UdpInv, UdpTypeOK, ConnectionTypeOK, IdentifiedAreLinked
<1>. QED  BY <1>2, <1>3, BetweenDatagrams DEF TcpProgress, UdpInv, UdpTypeOK

LEMMA ReapStep == UdpInv /\ (\E s \in Sid : Reap(s)) => UdpInv'
<1>. SUFFICES ASSUME UdpInv, NEW s \in Sid, Reap(s) PROVE UdpInv'
  OBVIOUS
<1>1. /\ state' = [state EXCEPT ![s] = Absent]
      /\ endpoint' = [endpoint EXCEPT ![s] = NoEndpoint]
      /\ inbound' = inbound \o <<Cmd("Disconnected", s)>>
      /\ UNCHANGED outbound
  BY DEF Reap, Push
<1>2. Cmd("Disconnected", s) \in Command
  BY DEF Cmd, Command, CommandKind
<1>3. QueuesTypeOK' /\ ConnectionTypeOK'
  BY <1>1, <1>2 DEF UdpInv, UdpTypeOK, QueuesTypeOK, ConnectionTypeOK
<1>4. IdentifiedAreLinked'
  BY <1>1 DEF Reap, UdpInv, UdpTypeOK, ConnectionTypeOK, IdentifiedAreLinked, Absent
<1>. QED  BY <1>3, <1>4, BetweenDatagrams DEF Reap, UdpInv, UdpTypeOK

LEMMA DrainInboundStep == UdpInv /\ DrainInbound => UdpInv'
<1>. SUFFICES ASSUME UdpInv, DrainInbound PROVE UdpInv'
  OBVIOUS
<1>1. QueuesTypeOK' /\ ConnectionTypeOK' /\ IdentifiedAreLinked'
  BY DEF DrainInbound, connVars, UdpInv, UdpTypeOK, QueuesTypeOK, ConnectionTypeOK, IdentifiedAreLinked
<1>. QED  BY <1>1, BetweenDatagrams DEF DrainInbound, UdpInv, UdpTypeOK

(* A packet comes in hand, alone or with another after it, or none does. *)
LEMMA NewPacket ==
    ASSUME UdpInv, packet' \in Packet, rest' \in Packet, took' = <<>>,
           attempt' \in {"none", "link_seq"}, UNCHANGED <<connVars, queueVars, port, nextSid>>
    PROVE  UdpInv'
<1>1. UdpTypeOK'
  BY DEF UdpInv, UdpTypeOK, QueuesTypeOK, ConnectionTypeOK, connVars, queueVars
<1>2. IdentifiedAreLinked'
  BY DEF UdpInv, IdentifiedAreLinked, connVars
<1>3. Routed'
  BY DEF Routed, OneReaction, CommandsAreTheSenders, ServedByItsSession
<1>. QED  BY <1>1, <1>2, <1>3 DEF UdpInv, TookWhenDone, RawWasTried

LEMMA ReceiveStep == UdpInv /\ (ReceiveOne \/ ReceiveBatch) => UdpInv'
<1>. SUFFICES ASSUME UdpInv, ReceiveOne \/ ReceiveBatch PROVE UdpInv'
  OBVIOUS
<1>1. PICK p \in Packet, q \in Packet : ReceiveDatagram(p, q)
  BY NoPacketIsAPacket DEF ReceiveOne, ReceiveBatch, HelloPacket, Packet, Reading
<1>. QED  BY <1>1, NewPacket DEF ReceiveDatagram

LEMMA NextUdpPacketStep == UdpInv /\ NextUdpPacket => UdpInv'
BY NewPacket, NoPacketIsAPacket DEF NextUdpPacket, UdpInv, UdpTypeOK

----------------------------------------------------------------------------
(* What a session that is not linked can do about a reading: answer it, or *)
(* be linked by its own key.                                               *)
LEMMA UnlinkedReaction ==
    ASSUME UdpInv, NEW s \in Unlinked, NEW r, Reacts(s, r)
    PROVE  r = "query" \/ (r = "echo" /\ s = packet.from)
BY DEF Reacts, Unlinked, Clients, UdpInv, IdentifiedAreLinked

(* Nobody who is linked is linked again. *)
LEMMA LinkedReaction ==
    ASSUME UdpInv, NEW s \in LinkedTo(port[packet.from]), NEW r, Reacts(s, r)
    PROVE  r \in {"query", "reincarnate", "action"}
<1>1. port[packet.from] # NoEndpoint
  BY PacketFields, EndpointAssumption DEF UdpInv, UdpTypeOK
<1>. QED  BY <1>1 DEF Reacts, LinkedTo, Clients

(* A link gives its session an endpoint and touches no other. *)
LEMMA LinkEffect ==
    ASSUME UdpInv, NEW s \in Sid, LinkUdpAndIdentify(s, port[s]), UNCHANGED port
    PROVE  /\ QueuesTypeOK' /\ ConnectionTypeOK' /\ IdentifiedAreLinked'
           /\ UNCHANGED queueVars
           /\ state'[s] # "InGame"
<1>e. port[s] \in Endpoint
  BY DEF UdpInv, UdpTypeOK
<1>1. QueuesTypeOK'
  BY DEF LinkUdpAndIdentify, queueVars, UdpInv, UdpTypeOK, QueuesTypeOK
<1>2. ConnectionTypeOK'
  BY <1>e DEF LinkUdpAndIdentify, UdpInv, UdpTypeOK, ConnectionTypeOK, ConnState
<1>3. IdentifiedAreLinked'
  BY <1>e, EndpointAssumption
     DEF LinkUdpAndIdentify, UdpInv, UdpTypeOK, ConnectionTypeOK, IdentifiedAreLinked
<1>4. state'[s] # "InGame"
  BY DEF LinkUdpAndIdentify, UdpInv, UdpTypeOK, ConnectionTypeOK
<1>. QED  BY <1>1, <1>2, <1>3, <1>4 DEF LinkUdpAndIdentify

(* Whatever a session in the game queues is a command. *)
LEMMA QueueEffect ==
    ASSUME UdpInv, NEW s \in Sid, QueueReincarnate(s, NoTeam) \/ HandleUdpActionInput(s),
           UNCHANGED port
    PROVE  /\ QueuesTypeOK' /\ ConnectionTypeOK' /\ IdentifiedAreLinked'
           /\ UNCHANGED connVars
<1>1. PICK c \in Command : inbound' = inbound \o <<c>> /\ UNCHANGED outbound
  <2>1. [Cmd("Reincarnate", s) EXCEPT !.team = NoTeam] \in Command
    BY DEF Cmd, Command, CommandKind
  <2>2. Cmd("ActionInput", s) \in Command
    BY DEF Cmd, Command, CommandKind
  <2>. QED  BY <2>1, <2>2 DEF QueueReincarnate, HandleUdpActionInput, Push
<1>2. UNCHANGED connVars
  BY DEF QueueReincarnate, HandleUdpActionInput
<1>3. QueuesTypeOK'
  BY <1>1 DEF UdpInv, UdpTypeOK, QueuesTypeOK
<1>4. ConnectionTypeOK' /\ IdentifiedAreLinked'
  BY <1>2 DEF connVars, UdpInv, UdpTypeOK, ConnectionTypeOK, IdentifiedAreLinked
<1>. QED  BY <1>2, <1>3, <1>4

LEMMA NothingChanges ==
    ASSUME UdpInv, UNCHANGED <<connVars, queueVars, port>>
    PROVE  QueuesTypeOK' /\ ConnectionTypeOK' /\ IdentifiedAreLinked'
BY DEF connVars, queueVars, UdpInv, UdpTypeOK, QueuesTypeOK, ConnectionTypeOK, IdentifiedAreLinked

LEMMA ShortSequences ==
    ASSUME NEW X, NEW x \in X
    PROVE  <<>> \in Seq(X) /\ <<x>> \in Seq(X)
OBVIOUS

(* The types after an attempt, of which nobody or one session has made     *)
(* something.                                                              *)
LEMMA AttemptTypes ==
    ASSUME UdpInv, UNCHANGED <<port, nextSid, packet, rest>>, QueuesTypeOK', ConnectionTypeOK',
           attempt' \in {"link_raw", "route_raw", "route_seq", "done"},
           NEW s \in Sid, NEW r \in Reading, took' \in {<<>>, <<[by |-> s, on |-> r]>>}
    PROVE  UdpTypeOK'
<1>. DEFINE x == [by |-> s, on |-> r]  X == [by : Sid, on : Reading]
<1>1. x \in X /\ took' \in {<<>>, <<x>>}
  OBVIOUS
<1>2. took' \in Seq(X)
  <2>1. <<>> \in Seq(X) /\ <<x>> \in Seq(X)
    BY <1>1, ShortSequences
  <2>. QED  BY <1>1, <2>1
<1>. QED  BY <1>2 DEF UdpInv, UdpTypeOK

(* A session that is not linked takes the packet, or it is offered on. *)
LEMMA LinkStep ==
    ASSUME UdpInv, NEW from \in {"link_seq", "link_raw"},
           NEW next \in {"link_raw", "route_raw"}, NEW r \in {SeqReading, RawReading},
           TryLinkUdpFrame(from, r, next)
    PROVE  UdpInv'
<1>. DEFINE takers == {s \in Unlinked : Reacts(s, r)}
<1>1. /\ attempt = from /\ took = <<>>
      /\ attempt' = IF takers # {} THEN "done" ELSE next
      /\ UNCHANGED <<port, nextSid, packet, rest>>
      /\ packet \in Packet /\ r \in Reading
  BY ReadingsAreReadings DEF TryLinkUdpFrame, UdpInv, TookWhenDone, UdpTypeOK
<1>2. RawWasTried'
  BY <1>1 DEF RawWasTried
<1>3. CASE takers = {}
  <2>1. UNCHANGED <<connVars, queueVars, took>> /\ attempt' = next
    BY <1>1, <1>3 DEF TryLinkUdpFrame, FirstOf
  <2>2. UdpTypeOK'
    BY <1>1, <2>1, NothingChanges, AttemptTypes, SidsAreNaturals
  <2>3. Routed'
    BY <1>1, <2>1 DEF Routed, OneReaction, CommandsAreTheSenders, ServedByItsSession
  <2>. QED  BY <1>1, <1>2, <2>1, <2>2, <2>3, NothingChanges DEF UdpInv, TookWhenDone
<1>4. CASE takers # {}
  <2>1. PICK s \in takers : OnUdpPacket(s, r)
    BY <1>4 DEF TryLinkUdpFrame
  <2>2. attempt' = "done" /\ took' = <<[by |-> s, on |-> r]>>
    BY <1>1, <1>4, <2>1 DEF OnUdpPacket
  <2>3. s \in Sid /\ s \in Unlinked /\ Reacts(s, r)
    BY DEF Unlinked, Clients
  <2>4. r = "query" \/ (r = "echo" /\ s = packet.from)
    BY <2>3, UnlinkedReaction
  <2>5. CASE r = "query"
    <3>1. UNCHANGED <<connVars, queueVars>>
      BY <2>1, <2>3, <2>5 DEF OnUdpPacket
    <3>2. Misread'
      <4>1. Unlinked' = Unlinked /\ Unlinked # {}
        BY <2>3, <3>1 DEF connVars, Unlinked, Clients
      <4>2. packet.says = "query" \/ packet.slip = "query"
        BY <2>5 DEF SeqReading, RawReading
      <4>. QED  BY <1>1, <4>1, <4>2 DEF Misread
    <3>3. Routed'
      BY <2>2, <2>5, <3>2 DEF Routed, OneReaction, CommandsAreTheSenders, ServedByItsSession
    <3>4. UdpTypeOK'
      BY <1>1, <2>2, <2>3, <3>1, NothingChanges, AttemptTypes
    <3>. QED  BY <1>1, <1>2, <2>2, <3>1, <3>3, <3>4, NothingChanges DEF UdpInv, TookWhenDone
  <2>6. CASE r = "echo" /\ s = packet.from
    <3>1. LinkUdpAndIdentify(s, port[s])
      BY <2>1, <2>3, <2>6 DEF OnUdpPacket
    <3>2. packet.says = "echo"
      BY <1>1, <2>6, PacketFields DEF SeqReading, RawReading
    <3>3. Routed'
      BY <1>1, <2>2, <2>6, <3>2 DEF Routed, OneReaction, CommandsAreTheSenders, ServedByItsSession
    <3>4. UdpTypeOK'
      BY <1>1, <2>2, <2>3, <3>1, LinkEffect, AttemptTypes
    <3>. QED  BY <1>1, <1>2, <2>2, <2>3, <3>1, <3>3, <3>4, LinkEffect DEF UdpInv, TookWhenDone
  <2>. QED  BY <2>4, <2>5, <2>6
<1>. QED  BY <1>3, <1>4

(* Once a packet is routed to somebody, it is in the reading in which it   *)
(* was meant, unless it can be misread.                                    *)
LEMMA RoutedAsMeant ==
    ASSUME UdpInv, LinkedTo(port[packet.from]) # {}, packet.says # "unknown",
           packet.form = "seq" => packet.slip = "unknown"
    PROVE  /\ attempt = "route_raw" /\ RawReading # "unknown" => RawReading = packet.says
           /\ attempt = "route_seq" => SeqReading = packet.says
<1>1. packet \in Packet
  BY DEF UdpInv, UdpTypeOK
<1>. QED  BY <1>1, PacketFields DEF UdpInv, RawWasTried, RawReading, SeqReading

(* The first session that is linked to the source gets the packet, or it   *)
(* is offered on.                                                          *)
LEMMA RouteStep ==
    ASSUME UdpInv,
           NEW from, NEW r, NEW next,
           \/ from = "route_raw" /\ r = RawReading /\ next = "route_seq"
           \/ from = "route_seq" /\ r = SeqReading /\ next = "done",
           TryRouteLinkedUdpFrame(from, r, next)
    PROVE  UdpInv'
<1>. DEFINE linked == LinkedTo(port[packet.from])
<1>1. /\ attempt = from /\ took = <<>>
      /\ UNCHANGED <<port, nextSid, packet, rest>>
      /\ packet \in Packet /\ r \in Reading /\ packet.from \in Sid
  BY ReadingsAreReadings, PacketFields
     DEF TryRouteLinkedUdpFrame, UdpInv, TookWhenDone, UdpTypeOK
<1>2. ASSUME UNCHANGED connVars
      PROVE  /\ linked' = linked
             /\ LinkedTo(port[packet.from])' = linked
             /\ Misread' = Misread
             /\ packet.form = "seq" /\ ~Misread => packet.slip = "unknown"
  BY <1>1, <1>2 DEF connVars, LinkedTo, Clients, Misread, Unlinked
<1>3. CASE /\ r = "unknown" \/ linked = {}
           /\ attempt' = next
           /\ UNCHANGED <<connVars, queueVars, took>>
  <2>1. UdpTypeOK'
    BY <1>1, <1>3, NothingChanges, AttemptTypes
  <2>2. RawWasTried'
    BY <1>1, <1>2, <1>3 DEF RawWasTried, RawReading
  <2>3. ServedByItsSession'
    <3>. SUFFICES ASSUME attempt' = "done", packet.from \in linked, ~Misread,
                         packet.says \in {"query", "reincarnate", "action"}
                  PROVE  FALSE
      BY <1>1, <1>2, <1>3 DEF ServedByItsSession, FirstOf
    <3>1. attempt = "route_seq" /\ r = SeqReading /\ r = "unknown"
      BY <1>1, <1>3
    <3>. QED  BY <1>2, <1>3, <3>1, RoutedAsMeant
  <2>4. Routed'
    BY <1>1, <1>3, <2>3 DEF Routed, OneReaction, CommandsAreTheSenders
  <2>. QED  BY <1>1, <1>3, <2>1, <2>2, <2>4, NothingChanges DEF UdpInv, TookWhenDone
<1>4. CASE /\ r # "unknown"
           /\ \E s \in linked : FirstOf(s, linked) /\ OnUdpPacket(s, r)
           /\ attempt' = "done"
  <2>1. PICK s \in linked : FirstOf(s, linked) /\ OnUdpPacket(s, r)
    BY <1>4
  <2>2. s \in Sid /\ endpoint[s] = port[packet.from]
    BY DEF LinkedTo, Clients
  <2>3. QueuesTypeOK' /\ ConnectionTypeOK' /\ IdentifiedAreLinked' /\ UNCHANGED connVars
    <3>1. CASE Reacts(s, r)
      <4>1. r \in {"query", "reincarnate", "action"}
        BY <3>1, LinkedReaction
      <4>2. CASE r = "query"
        BY <1>1, <2>1, <3>1, <4>2, NothingChanges DEF OnUdpPacket
      <4>3. CASE r \in {"reincarnate", "action"}
        BY <1>1, <2>1, <2>2, <3>1, <4>3, QueueEffect DEF OnUdpPacket
      <4>. QED  BY <4>1, <4>2, <4>3
    <3>2. CASE ~Reacts(s, r)
      BY <1>1, <2>1, <3>2, NothingChanges DEF OnUdpPacket
    <3>. QED  BY <3>1, <3>2
  <2>4. took' = IF Reacts(s, r) THEN <<[by |-> s, on |-> r]>> ELSE <<>>
    BY <1>1, <2>1 DEF OnUdpPacket
  <2>5. UdpTypeOK'
    BY <1>1, <1>4, <2>2, <2>3, <2>4, AttemptTypes
  <2>6. OneReaction'
    BY <2>4 DEF OneReaction
  <2>7. CommandsAreTheSenders'
    <3>1. port[s] = port[packet.from]
      <4>1. port[packet.from] # NoEndpoint
        BY <1>1, EndpointAssumption DEF UdpInv, UdpTypeOK
      <4>. QED  BY <2>2, <4>1 DEF UdpInv, IdentifiedAreLinked
    <3>. QED  BY <1>1, <2>4, <3>1 DEF CommandsAreTheSenders
  <2>8. ServedByItsSession'
    <3>. SUFFICES ASSUME FirstOf(packet.from, linked), ~Misread,
                         \/ packet.says = "query"
                         \/ /\ packet.says \in {"reincarnate", "action"}
                            /\ state[packet.from] = "InGame"
                  PROVE  took' = <<[by |-> packet.from, on |-> packet.says]>>
      BY <1>1, <1>2, <2>3 DEF ServedByItsSession, connVars
    <3>1. s = packet.from
      <4>1. s <= packet.from /\ packet.from <= s
        BY <2>1 DEF FirstOf
      <4>2. s \in Nat /\ packet.from \in Nat
        BY <1>1, <2>2, SidsAreNaturals
      <4>. QED  BY <4>1, <4>2
    <3>2. r = packet.says
      BY <1>1, <1>2, <1>4, <2>3, RoutedAsMeant
    <3>3. Reacts(s, r)
      BY <3>1, <3>2 DEF Reacts
    <3>. QED  BY <2>4, <3>1, <3>2, <3>3
  <2>. QED  BY <1>4, <2>3, <2>5, <2>6, <2>7, <2>8 DEF UdpInv, TookWhenDone, RawWasTried, Routed
<1>. QED  BY <1>3, <1>4 DEF TryRouteLinkedUdpFrame

LEMMA NextUdpInv == UdpInv /\ [UdpNext]_udpVars => UdpInv'
<1>. SUFFICES ASSUME UdpInv, [UdpNext]_udpVars PROVE UdpInv'
  OBVIOUS
<1>1. CASE UNCHANGED udpVars
  <2>1. UNCHANGED <<connVars, queueVars, port, nextSid, attempt, packet, rest, took>>
    BY <1>1 DEF udpVars
  <2>. QED  BY <2>1 DEF connVars, queueVars, UdpInv, UdpTypeOK, QueuesTypeOK, ConnectionTypeOK,
              IdentifiedAreLinked, TookWhenDone, RawWasTried, RawReading, LinkedTo, Clients,
              Routed, OneReaction, CommandsAreTheSenders, ServedByItsSession, FirstOf, Misread,
              Unlinked
<1>2. CASE HandleOneUdpPacket
  BY <1>2, LinkStep, RouteStep DEF HandleOneUdpPacket
<1>3. CASE \E s \in Sid : TcpProgress(s) \/ Reap(s)
  BY <1>3, TcpProgressStep, ReapStep
<1>. QED  BY <1>1, <1>2, <1>3, AcceptStep, DrainInboundStep, ReceiveStep, NextUdpPacketStep
          DEF UdpNext

(* At any time: sessions that are not linked cannot be in the game, and a  *)
(* packet that somebody took is offered to nobody else.                    *)
THEOREM RoutingConsistent == UdpSpec => []UdpInv
BY InitUdpInv, NextUdpInv, PTL DEF UdpSpec

(* HandleOneUdpPacket reads a packet twice and offers it to all, but at    *)
(* most one session reacts, and once.                                      *)
THEOREM ReactsOnce == UdpSpec => []OneReaction
<1>. UdpInv => OneReaction
  BY DEF UdpInv, Routed
<1>. QED  BY RoutingConsistent, PTL

(* What is queued for a session came from its own client's address.        *)
THEOREM NobodyElsesCommands == UdpSpec => []CommandsAreTheSenders
<1>. UdpInv => CommandsAreTheSenders
  BY DEF UdpInv, Routed
<1>. QED  BY RoutingConsistent, PTL

(* What a linked client asks is done for its own session, unless it is     *)
(* misread or an older session is linked to the same address.              *)
THEOREM ClientsAreServed == UdpSpec => []ServedByItsSession
<1>. UdpInv => ServedByItsSession
  BY DEF UdpInv, Routed
<1>. QED  BY RoutingConsistent, PTL

----------------------------------------------------------------------------
(* What UdpStepsOfAcceptor says of a step. *)
AcceptorSteps ==
    attempt # "none" =>
        \/ UNCHANGED <<connVars, queueVars>>
        \/ \E s \in Sid, e \in Endpoint :
             \/ LinkUdpAndIdentify(s, e)
             \/ /\ FirstOf(s, LinkedTo(e))
                /\ QueueReincarnate(s, NoTeam) \/ HandleUdpActionInput(s)

LEMMA StepsOfAcceptor == UdpInv /\ [UdpNext]_udpVars => [AcceptorSteps]_udpVars
<1>. SUFFICES ASSUME UdpInv, UdpNext, attempt # "none", ~UNCHANGED <<connVars, queueVars>>
              PROVE  AcceptorSteps
  BY DEF AcceptorSteps
<1>1. port[packet.from] \in Endpoint /\ packet.from \in Sid
  BY PacketFields DEF UdpInv, UdpTypeOK
<1>2. HandleOneUdpPacket
  BY DEF UdpNext, Accept, DrainInbound, TcpProgress, Reap, ReceiveOne, ReceiveBatch,
         ReceiveDatagram, NextUdpPacket
<1>3. ASSUME NEW from, NEW r, NEW next, TryLinkUdpFrame(from, r, next)
      PROVE  \E s \in Sid, e \in Endpoint : LinkUdpAndIdentify(s, e)
  <2>1. PICK s \in Unlinked : Reacts(s, r) /\ OnUdpPacket(s, r)
    BY <1>3 DEF TryLinkUdpFrame
  <2>2. s \in Sid /\ r = "echo" /\ s = packet.from
    BY <2>1, UnlinkedReaction DEF OnUdpPacket, Unlinked, Clients
  <2>. QED  BY <1>1, <2>1, <2>2 DEF OnUdpPacket
<1>4. ASSUME NEW from, NEW r, NEW next, TryRouteLinkedUdpFrame(from, r, next)
      PROVE  \E s \in Sid, e \in Endpoint :
                /\ FirstOf(s, LinkedTo(e))
                /\ QueueReincarnate(s, NoTeam) \/ HandleUdpActionInput(s)
  <2>1. PICK s \in LinkedTo(port[packet.from]) :
            FirstOf(s, LinkedTo(port[packet.from])) /\ OnUdpPacket(s, r)
    BY <1>4 DEF TryRouteLinkedUdpFrame
  <2>2. s \in Sid /\ Reacts(s, r)
    BY <2>1 DEF OnUdpPacket, LinkedTo, Clients
  <2>3. r \in {"reincarnate", "action"}
    BY <2>1, <2>2, LinkedReaction DEF OnUdpPacket
  <2>. QED  BY <1>1, <2>1, <2>2, <2>3 DEF OnUdpPacket
<1>. QED  BY <1>2, <1>3, <1>4 DEF HandleOneUdpPacket, AcceptorSteps

(* All that HandleOneUdpPacket does in its four attempts is what module    *)
(* Acceptor has as a single step.                                          *)
THEOREM OutcomesOfAcceptor == UdpSpec => UdpStepsOfAcceptor
<1>. QED  BY RoutingConsistent, StepsOfAcceptor, PTL
          DEF UdpSpec, UdpStepsOfAcceptor, AcceptorSteps

----------------------------------------------------------------------------
(* An induction that needs no operator parameter: a set that has 1 and,    *)
(* with each number below n, the next, has all numbers up to n.  Of the    *)
(* intervals up to a number that is missing, one includes no other.        *)
LEMMA UpTo ==
    ASSUME NEW n \in Nat, NEW S, 1 \in S, \A k \in 1 .. n - 1 : k \in S => k + 1 \in S
    PROVE  1 .. n \subseteq S
<1>. SUFFICES ASSUME NEW b \in 1 .. n, b \notin S PROVE FALSE
  OBVIOUS
<1>. DEFINE Below(x) == 1 .. x
            T == {Below(x) : x \in {y \in 1 .. n : y \notin S}}
<1>1. T \subseteq FiniteSubsetsOf(Nat)
  <2>. SUFFICES ASSUME NEW x \in 1 .. n PROVE Below(x) \in FiniteSubsetsOf(Nat)
    OBVIOUS
  <2>1. IsFiniteSet(Below(x))
    BY FS_Interval
  <2>. QED  BY <2>1 DEF FiniteSubsetsOf
<1>2. T # {}
  OBVIOUS
<1>3. PICK I \in T : \A J \in T : ~(<<J, I>> \in StrictSubsetOrdering(Nat))
  <2>. HIDE DEF T
  <2>. QED  BY <1>1, <1>2, WFMin, FS_StrictSubsetOrderingWellFounded
<1>4. PICK m \in 1 .. n : m \notin S /\ I = Below(m)
  OBVIOUS
<1>5. m - 1 \in 1 .. n - 1
  BY <1>4
<1>6. m - 1 \notin S
  <2>. SUFFICES ASSUME m - 1 \in S PROVE FALSE
    OBVIOUS
  <2>1. (m - 1) + 1 = m
    OBVIOUS
  <2>. QED  BY <1>4, <1>5, <2>1
<1>7. Below(m - 1) \in T /\ Below(m - 1) \in SUBSET Nat /\ I \in SUBSET Nat
  BY <1>4, <1>5, <1>6
<1>8. Below(m - 1) \subseteq I /\ m \in I /\ m \notin Below(m - 1)
  BY <1>4, <1>5
<1>9. <<Below(m - 1), I>> \in StrictSubsetOrdering(Nat)
  BY <1>7, <1>8 DEF StrictSubsetOrdering
<1>. QED  BY <1>3, <1>7, <1>9

(* What starts as a and goes on as F says, n times: a recursion from 1 up  *)
(* to n + 1 has a solution.                                                *)
Iterates(g, a, n, F) == g[1] = a /\ \A k \in 1 .. n : g[k + 1] = F[k][g[k]]

LEMMA Iteration ==
    ASSUME NEW A, NEW a \in A, NEW n \in Nat, NEW F \in [1 .. n -> [A -> A]]
    PROVE  \E g \in [1 .. n + 1 -> A] : Iterates(g, a, n, F)
<1>. DEFINE Goes(g, k) == g[1] = a /\ \A j \in 1 .. k - 1 : g[j + 1] = F[j][g[j]]
            S == {k \in 1 .. n + 1 : \E g \in [1 .. k -> A] : Goes(g, k)}
<1>1. 1 \in S
  <2>. DEFINE h == [i \in 1 .. 1 |-> a]
  <2>1. h \in [1 .. 1 -> A] /\ h[1] = a
    OBVIOUS
  <2>2. Goes(h, 1)
    BY <2>1
  <2>3. 1 \in 1 .. n + 1
    OBVIOUS
  <2>. HIDE DEF h, Goes
  <2>. QED  BY <2>1, <2>2, <2>3
<1>2. ASSUME NEW k \in 1 .. n, k \in S
      PROVE  k + 1 \in S
  <2>1. PICK g \in [1 .. k -> A] : Goes(g, k)
    BY <1>2
  <2>. DEFINE h == [i \in 1 .. k + 1 |-> IF i = k + 1 THEN F[k][g[k]] ELSE g[i]]
  <2>2. h \in [1 .. k + 1 -> A]
    OBVIOUS
  <2>3. k \in Nat /\ k >= 1 /\ (k + 1) - 1 = k /\ k + 1 \in 1 .. n + 1
    OBVIOUS
  <2>4. h[1] = a
    BY <2>1, <2>3
  <2>5. ASSUME NEW j \in 1 .. k
        PROVE  h[j + 1] = F[j][h[j]]
    <3>1. CASE j = k
      BY <3>1
    <3>2. CASE j # k
      <4>1. j \in 1 .. k - 1 /\ j + 1 \in 1 .. k
        BY <3>2
      <4>. QED  BY <2>1, <4>1
    <3>. QED  BY <3>1, <3>2
  <2>6. Goes(h, k + 1)
    BY <2>3, <2>4, <2>5
  <2>. HIDE DEF h, Goes
  <2>. QED  BY <2>2, <2>3, <2>6
<1>3. n + 1 \in S
  <2>1. n + 1 \in Nat /\ n + 1 \in 1 .. n + 1 /\ (n + 1) - 1 = n
    OBVIOUS
  <2>. HIDE DEF S
  <2>2. \A k \in 1 .. (n + 1) - 1 : k \in S => k + 1 \in S
    BY <1>2, <2>1
  <2>3. 1 .. n + 1 \subseteq S
    BY <1>1, <2>1, <2>2, UpTo
  <2>. QED  BY <2>1, <2>3
<1>4. PICK g \in [1 .. n + 1 -> A] : Goes(g, n + 1)
  BY <1>3
<1>5. Iterates(g, a, n, F)
  BY <1>4 DEF Iterates
<1>. QED  BY <1>5

LEMMA WhatIsSent ==
    ASSUME NEW m \in Sent
    PROVE  /\ m.kind \in {"update", "dump"}
           /\ m.channels \in Seq(Bits) /\ Len(m.channels) \in Nat
           /\ \A n \in 1 .. Len(m.channels) : m.channels[n] \in Bits
           /\ m.kind = "dump" =>
                /\ Len(m.channels) = ActionMaxChannel
                /\ \A n \in 1 .. ActionMaxChannel : m.channels[n] = n
<1>1. Updates \subseteq Seq(Bits)
  BY ActionInputAssumption
<1>2. CASE m.kind = "update"
  BY <1>1, <1>2 DEF Sent
<1>3. CASE m.kind = "dump"
  <2>1. m.channels = [n \in 1 .. ActionMaxChannel |-> n] /\ ActionMaxChannel = 21
    BY <1>3 DEF Sent, ActionMaxChannel
  <2>2. m.channels \in Seq(Bits) /\ Len(m.channels) = ActionMaxChannel
    BY <2>1 DEF Bits
  <2>. QED  BY <1>3, <2>1, <2>2
<1>. QED  BY <1>2, <1>3 DEF Sent

(* A change takes a bit at least, its index included. *)
LEMMA ChangeTakesBits ==
    ASSUME NEW m \in Sent, NEW n \in 1 .. Len(m.channels)
    PROVE  ChangeBits(m, n) \in Nat \ {0}
BY WhatIsSent DEF ChangeBits, ValueBits, IndexBits

(* The recursion of BeginsAt is well founded: the changes follow one       *)
(* another, behind the header.                                             *)
LEMMA ChangesFollow ==
    ASSUME NEW m \in Sent
    PROVE  /\ BeginsAt(m) \in [1 .. Len(m.channels) + 1 -> Nat]
           /\ BeginsAt(m)[1] = HeaderBits(m.kind)
           /\ \A n \in 1 .. Len(m.channels) :
                BeginsAt(m)[n + 1] = BeginsAt(m)[n] + ChangeBits(m, n)
<1>. DEFINE L == Len(m.channels)
            Goes(b) == b = [n \in 1 .. L + 1 |->
                               IF n = 1 THEN HeaderBits(m.kind) ELSE b[n - 1] + ChangeBits(m, n - 1)]
<1>1. L \in Nat
  BY WhatIsSent
<1>2. \E b : Goes(b)
  <2>. DEFINE F == [k \in 1 .. L |-> [x \in Nat |-> x + ChangeBits(m, k)]]
  <2>1. F \in [1 .. L -> [Nat -> Nat]] /\ HeaderBits(m.kind) \in Nat
    BY ChangeTakesBits DEF HeaderBits
  <2>2. PICK g \in [1 .. L + 1 -> Nat] : Iterates(g, HeaderBits(m.kind), L, F)
    <3>. HIDE DEF F, L
    <3>. QED  BY <1>1, <2>1, Iteration, Zenon
  <2>3. ASSUME NEW n \in 1 .. L + 1, n # 1
        PROVE  g[n] = g[n - 1] + ChangeBits(m, n - 1)
    <3>1. PICK k \in 1 .. L : n = k + 1 /\ n - 1 = k
      BY <1>1, <2>3
    <3>2. g[k] \in Nat
      BY <1>1
    <3>3. g[k + 1] = F[k][g[k]]
      BY <2>2 DEF Iterates
    <3>. QED  BY <3>1, <3>2, <3>3
  <2>4. Goes(g)
    BY <1>1, <2>2, <2>3 DEF Iterates
  <2>. QED  BY <2>4
<1>3. Goes(BeginsAt(m))
  <2>1. Goes(CHOOSE b : Goes(b))
    BY <1>2, Zenon
  <2>. QED  BY <2>1, Zenon DEF BeginsAt
<1>. DEFINE b == BeginsAt(m)
<1>4. b[1] = HeaderBits(m.kind) /\ HeaderBits(m.kind) \in Nat
  BY <1>1, <1>3 DEF HeaderBits
<1>5. ASSUME NEW n \in 1 .. L
      PROVE  b[n + 1] = b[n] + ChangeBits(m, n)
  <2>1. n + 1 \in 1 .. L + 1 /\ n + 1 # 1 /\ (n + 1) - 1 = n
    BY <1>1
  <2>. HIDE DEF b
  <2>2. b[n + 1] = b[(n + 1) - 1] + ChangeBits(m, (n + 1) - 1)
    BY <1>3, <2>1 DEF b
  <2>. QED  BY <2>1, <2>2
<1>6. \A n \in 1 .. L + 1 : b[n] \in Nat
  <2>. DEFINE S == {n \in 1 .. L + 1 : b[n] \in Nat}
  <2>. HIDE DEF b
  <2>1. 1 \in S
    BY <1>1, <1>4
  <2>2. \A k \in 1 .. (L + 1) - 1 : k \in S => k + 1 \in S
    BY <1>1, <1>5, ChangeTakesBits
  <2>3. 1 .. L + 1 \subseteq S
    <3>1. L + 1 \in Nat
      BY <1>1
    <3>. HIDE DEF S, L
    <3>. QED  BY <2>1, <2>2, <3>1, UpTo
  <2>. QED  BY <2>3
<1>. QED  BY <1>3, <1>4, <1>5, <1>6

(* Where a change begins tells which it is. *)
LEMMA ChangesAreApart ==
    ASSUME NEW m \in Sent, NEW i \in 1 .. Len(m.channels) + 1, NEW j \in 1 .. Len(m.channels) + 1, i < j
    PROVE  BeginsAt(m)[i] < BeginsAt(m)[j]
<1>. DEFINE L == Len(m.channels)
            b == BeginsAt(m)
            S == {k \in 1 .. L + 1 : i < k => b[i] < b[k]}
<1>1. L \in Nat /\ L + 1 \in Nat /\ (L + 1) - 1 = L
  BY WhatIsSent
<1>2. 1 \in S
  BY <1>1
<1>3. ASSUME NEW k \in 1 .. L, k \in S
      PROVE  k + 1 \in S
  <2>1. b[k + 1] = b[k] + ChangeBits(m, k) /\ ChangeBits(m, k) \in Nat \ {0}
    BY ChangesFollow, ChangeTakesBits
  <2>2. k + 1 \in 1 .. L + 1 /\ k \in 1 .. L + 1
    BY <1>1
  <2>3. b[i] \in Nat /\ b[k] \in Nat
    BY <2>2, ChangesFollow
  <2>. HIDE DEF b
  <2>4. i < k + 1 => b[i] < b[k + 1]
    BY <1>1, <1>3, <2>1, <2>3
  <2>. QED  BY <2>2, <2>4
<1>4. 1 .. L + 1 \subseteq S
  <2>. HIDE DEF S, L
  <2>. QED  BY <1>1, <1>2, <1>3, UpTo
<1>. QED  BY <1>4

(* The last byte of a body holds the end of its last change. *)
LEMMA BodyHoldsChanges ==
    ASSUME NEW m \in Sent
    PROVE  LET end == BeginsAt(m)[Len(m.channels) + 1] IN
           /\ end \in Nat /\ BodyBytes(m) \in Nat
           /\ end <= 8 * BodyBytes(m) /\ 8 * BodyBytes(m) < end + 8
           /\ HeaderBits(m.kind) <= end
           /\ \A n \in 1 .. Len(m.channels) : BeginsAt(m)[n] + ChangeBits(m, n) <= end
<1>. DEFINE L == Len(m.channels)
            b == BeginsAt(m)
            end == b[L + 1]
<1>1. L \in Nat /\ 1 \in 1 .. L + 1 /\ L + 1 \in 1 .. L + 1
  BY WhatIsSent
<1>2. \A n \in 1 .. L + 1 : b[n] \in Nat
  BY ChangesFollow
<1>3. ASSUME NEW n \in 1 .. L + 1
      PROVE  b[n] <= end
  <2>1. n < L + 1 => b[n] < end
    BY <1>1, ChangesAreApart
  <2>. HIDE DEF b
  <2>. QED  BY <1>1, <1>2, <2>1
<1>4. end \in Nat
  BY <1>1, <1>2
<1>5. BodyBytes(m) = (end + 7) \div 8
  BY DEF BodyBytes
<1>. HIDE DEF end
<1>6. BodyBytes(m) \in Nat /\ end <= 8 * BodyBytes(m) /\ 8 * BodyBytes(m) < end + 8
  BY <1>4, <1>5
<1>7. HeaderBits(m.kind) <= end
  BY <1>1, <1>3, ChangesFollow
<1>8. ASSUME NEW n \in 1 .. L
      PROVE  b[n] + ChangeBits(m, n) <= end
  <2>1. n + 1 \in 1 .. L + 1 /\ b[n + 1] = b[n] + ChangeBits(m, n)
    BY <1>1, ChangesFollow
  <2>. QED  BY <1>3, <2>1
<1>. QED  BY <1>4, <1>6, <1>7, <1>8 DEF end

----------------------------------------------------------------------------
Change == [channel : Bits, value : Nat]

(* The first n changes that a client wrote. *)
WrittenInput(m, n) == [k \in 1 .. n |-> [channel |-> m.channels[k], value |-> k]]

LEMMA WrittenIsTyped ==
    ASSUME NEW m \in Sent, NEW n \in 0 .. Len(m.channels)
    PROVE  /\ WrittenInput(m, n) \in Seq(Change)
           /\ Len(WrittenInput(m, n)) = n
           /\ \A k \in 1 .. n : WrittenInput(m, n)[k] = [channel |-> m.channels[k], value |-> k]
<1>1. n \in Nat /\ \A k \in 1 .. n : m.channels[k] \in Bits /\ k \in Nat
  BY WhatIsSent
<1>. QED  BY <1>1 DEF WrittenInput, Change

(* The recursion of Driven is well founded. *)
LEMMA DrivenFollows ==
    ASSUME NEW X, NEW q \in Seq(X)
    PROVE  \E d \in [1 .. Len(q) + 1 -> Seq(X)] :
             /\ d[1] = <<>>
             /\ \A k \in 1 .. Len(q) :
                  d[k + 1] = IF q[k].channel <= ActionMaxChannel THEN Append(d[k], q[k]) ELSE d[k]
             /\ Driven(q) = d[Len(q) + 1]
<1>. DEFINE L == Len(q)
            More(k, s) == IF q[k].channel <= ActionMaxChannel THEN Append(s, q[k]) ELSE s
            Goes(d) == d = [n \in 1 .. L + 1 |->
                               IF n = 1 THEN <<>>
                               ELSE IF q[n - 1].channel <= ActionMaxChannel
                                    THEN Append(d[n - 1], q[n - 1])
                               ELSE d[n - 1]]
            d == CHOOSE e : Goes(e)
            F == [k \in 1 .. L |-> [s \in Seq(X) |-> More(k, s)]]
<1>1. L \in Nat /\ 1 \in 1 .. L + 1
  OBVIOUS
<1>2. \A k \in 1 .. L : q[k] \in X
  OBVIOUS
<1>3. \A k \in 1 .. L, s \in Seq(X) : More(k, s) \in Seq(X)
  BY <1>2
<1>4. PICK g \in [1 .. L + 1 -> Seq(X)] : Iterates(g, <<>>, L, F)
  <2>1. F \in [1 .. L -> [Seq(X) -> Seq(X)]]
    <3>. HIDE DEF More
    <3>. QED  BY <1>3
  <2>2. <<>> \in Seq(X)
    OBVIOUS
  <2>. HIDE DEF F, L
  <2>. QED  BY <1>1, <2>1, <2>2, Iteration, Zenon
<1>5. ASSUME NEW k \in 1 .. L
      PROVE  g[k + 1] = More(k, g[k])
  <2>1. g[k] \in Seq(X)
    BY <1>1, <1>4
  <2>2. g[k + 1] = F[k][g[k]]
    BY <1>4 DEF Iterates
  <2>. HIDE DEF More
  <2>. QED  BY <2>1, <2>2
<1>6. Goes(g)
  <2>1. ASSUME NEW n \in 1 .. L + 1, n # 1
        PROVE  g[n] = More(n - 1, g[n - 1])
    <3>1. PICK k \in 1 .. L : n = k + 1 /\ n - 1 = k
      BY <1>1, <2>1
    <3>. HIDE DEF More
    <3>. QED  BY <1>5, <3>1
  <2>2. g[1] = <<>>
    BY <1>4 DEF Iterates
  <2>. QED  BY <2>1, <2>2
<1>7. Goes(d)
  BY <1>6, Zenon
<1>8. Driven(q) = d[L + 1]
  BY Zenon DEF Driven
<1>. HIDE DEF d
<1>9. DOMAIN d = 1 .. L + 1 /\ d[1] = <<>>
  BY <1>1, <1>7
<1>10. ASSUME NEW k \in 1 .. L
       PROVE  d[k + 1] = More(k, d[k])
  <2>1. k + 1 \in 1 .. L + 1 /\ k + 1 # 1 /\ (k + 1) - 1 = k
    BY <1>1
  <2>2. d[k + 1] = More((k + 1) - 1, d[(k + 1) - 1])
    BY <1>7, <2>1
  <2>. QED  BY <2>1, <2>2
<1>11. \A n \in 1 .. L + 1 : d[n] \in Seq(X)
  <2>. DEFINE S == {n \in 1 .. L + 1 : d[n] \in Seq(X)}
  <2>1. 1 \in S
    <3>1. <<>> \in Seq(X)
      OBVIOUS
    <3>. QED  BY <1>1, <1>9, <3>1
  <2>2. \A k \in 1 .. (L + 1) - 1 : k \in S => k + 1 \in S
    <3>. HIDE DEF More
    <3>. QED  BY <1>1, <1>3, <1>10
  <2>3. L + 1 \in Nat
    BY <1>1
  <2>4. 1 .. L + 1 \subseteq S
    <3>. HIDE DEF S, L
    <3>. QED  BY <2>1, <2>2, <2>3, UpTo
  <2>. QED  BY <2>4
<1>12. d \in [1 .. L + 1 -> Seq(X)]
  <2>1. d = [n \in 1 .. L + 1 |-> d[n]]
    BY <1>7
  <2>. QED  BY <1>11, <2>1
<1>. QED  BY <1>8, <1>9, <1>10, <1>12

(* What the connection queues of the first n - 1 changes. *)
QueuedOf(m, n, s) ==
    /\ {s[i] : i \in DOMAIN s} =
         {[channel |-> m.channels[k], value |-> k] :
            k \in {c \in 1 .. n - 1 : m.channels[c] <= ActionMaxChannel}}
    /\ \A i, j \in DOMAIN s : i < j => s[i].value < s[j].value

LEMMA QueuedOfNext ==
    ASSUME NEW m \in Sent, NEW n \in 1 .. Len(m.channels), NEW s \in Seq(Change),
           QueuedOf(m, n, s),
           NEW x, x = [channel |-> m.channels[n], value |-> n]
    PROVE  QueuedOf(m, n + 1,
                    IF m.channels[n] <= ActionMaxChannel THEN Append(s, x) ELSE s)
<1>. DEFINE new == IF m.channels[n] <= ActionMaxChannel THEN Append(s, x) ELSE s
            Of(k) == [channel |-> m.channels[k], value |-> k]
<1>1. n \in Nat /\ (n + 1) - 1 = n /\ Len(s) \in Nat /\ DOMAIN s = 1 .. Len(s)
  OBVIOUS
<1>2. \A c : c \in 1 .. n <=> c \in 1 .. n - 1 \/ c = n
  BY <1>1
<1>3. CASE m.channels[n] <= ActionMaxChannel
  <2>1. /\ new = Append(s, x)
        /\ DOMAIN new = 1 .. Len(s) + 1
        /\ \A i \in 1 .. Len(s) : new[i] = s[i]
        /\ new[Len(s) + 1] = x
    BY <1>1, <1>3
  <2>2. \A y : (\E i \in DOMAIN new : y = new[i]) <=> (\E i \in DOMAIN s : y = s[i]) \/ y = x
    <3>. HIDE DEF new
    <3>1. \A i : i \in DOMAIN new <=> i \in DOMAIN s \/ i = Len(s) + 1
      BY <1>1, <2>1
    <3>2. \A i \in DOMAIN s : new[i] = s[i]
      BY <1>1, <2>1
    <3>. QED  BY <2>1, <3>1, <3>2, Zenon
  <2>3. \A y : (\E i \in DOMAIN s : y = s[i]) <=>
               (\E k \in 1 .. n - 1 : m.channels[k] <= ActionMaxChannel /\ y = Of(k))
    <3>1. {s[i] : i \in DOMAIN s} =
            {Of(k) : k \in {c \in 1 .. n - 1 : m.channels[c] <= ActionMaxChannel}}
      BY DEF QueuedOf
    <3>. HIDE DEF Of
    <3>. QED  BY <3>1
  <2>4. \A i \in 1 .. Len(s) : s[i].value \in 1 .. n - 1
    <3>. SUFFICES ASSUME NEW i \in 1 .. Len(s) PROVE s[i].value \in 1 .. n - 1
      OBVIOUS
    <3>1. PICK k \in 1 .. n - 1 : s[i] = Of(k)
      <4>. HIDE DEF Of
      <4>. QED  BY <1>1, <2>3
    <3>. QED  BY <3>1
  <2>5. \A i, j \in DOMAIN new : i < j => new[i].value < new[j].value
    <3>. SUFFICES ASSUME NEW i \in 1 .. Len(s) + 1, NEW j \in 1 .. Len(s) + 1, i < j
                  PROVE  new[i].value < new[j].value
      BY <2>1
    <3>1. i \in 1 .. Len(s) /\ new[i] = s[i]
      BY <1>1, <2>1
    <3>2. CASE j \in 1 .. Len(s)
      BY <1>1, <2>1, <3>1, <3>2 DEF QueuedOf
    <3>3. CASE j = Len(s) + 1
      <4>1. new[j] = x /\ x.value = n
        BY <2>1, <3>3
      <4>. HIDE DEF new
      <4>. QED  BY <1>1, <2>4, <3>1, <4>1
    <3>. QED  BY <1>1, <3>2, <3>3
  <2>6. {new[i] : i \in DOMAIN new} =
          {Of(k) : k \in {c \in 1 .. n : m.channels[c] <= ActionMaxChannel}}
    <3>. HIDE DEF new, Of
    <3>1. \A y : (\E i \in DOMAIN new : y = new[i]) <=>
                 (\E k \in 1 .. n : m.channels[k] <= ActionMaxChannel /\ y = Of(k))
      <4>1. x = Of(n)
        BY DEF Of
      <4>. QED  BY <1>2, <1>3, <2>2, <2>3, <4>1
    <3>. QED  BY <3>1
  <2>. HIDE DEF new
  <2>7. QueuedOf(m, n + 1, new)
    BY <1>1, <2>5, <2>6 DEF QueuedOf
  <2>. QED  BY <2>7 DEF new
<1>4. CASE ~(m.channels[n] <= ActionMaxChannel)
  <2>1. {c \in 1 .. n : m.channels[c] <= ActionMaxChannel} =
          {c \in 1 .. n - 1 : m.channels[c] <= ActionMaxChannel}
    BY <1>2, <1>4
  <2>2. new = s
    BY <1>4
  <2>. HIDE DEF new
  <2>3. QueuedOf(m, n + 1, new)
    BY <1>1, <2>1, <2>2 DEF QueuedOf
  <2>. QED  BY <2>3 DEF new
<1>. QED  BY <1>3, <1>4

(* All of what can be driven, in order, and nothing else. *)
LEMMA DrivenIsQueued ==
    ASSUME NEW m \in Sent, NEW n \in 0 .. Len(m.channels)
    PROVE  /\ Driven(WrittenInput(m, n)) \in Seq(Change)
           /\ QueuedOf(m, n + 1, Driven(WrittenInput(m, n)))
<1>. DEFINE q == WrittenInput(m, n)
<1>1. n \in Nat /\ q \in Seq(Change) /\ Len(q) = n
  BY WrittenIsTyped, WhatIsSent
<1>2. ASSUME NEW k \in 1 .. n
      PROVE  /\ q[k] = [channel |-> m.channels[k], value |-> k]
             /\ q[k].channel = m.channels[k]
             /\ k \in 1 .. Len(m.channels)
  <2>1. q[k] = [channel |-> m.channels[k], value |-> k]
    BY WrittenIsTyped
  <2>2. k \in 1 .. Len(m.channels)
    BY WhatIsSent
  <2>. HIDE DEF q
  <2>. QED  BY <2>1, <2>2
<1>. HIDE DEF q
<1>3. PICK d \in [1 .. n + 1 -> Seq(Change)] :
        /\ d[1] = <<>>
        /\ \A k \in 1 .. n :
             d[k + 1] = IF q[k].channel <= ActionMaxChannel THEN Append(d[k], q[k]) ELSE d[k]
        /\ Driven(q) = d[n + 1]
  BY <1>1, DrivenFollows
<1>. DEFINE S == {k \in 1 .. n + 1 : QueuedOf(m, k, d[k])}
<1>4. 1 \in S
  <2>1. QueuedOf(m, 1, <<>>)
    BY DEF QueuedOf
  <2>. QED  BY <1>1, <1>3, <2>1
<1>5. ASSUME NEW k \in 1 .. n, k \in S
      PROVE  k + 1 \in S
  <2>1. k + 1 \in 1 .. n + 1 /\ d[k] \in Seq(Change) /\ QueuedOf(m, k, d[k])
    BY <1>1, <1>5
  <2>2. d[k + 1] = IF m.channels[k] <= ActionMaxChannel THEN Append(d[k], q[k]) ELSE d[k]
    BY <1>2, <1>3
  <2>3. QueuedOf(m, k + 1, IF m.channels[k] <= ActionMaxChannel THEN Append(d[k], q[k]) ELSE d[k])
    <3>. HIDE DEF S
    <3>. QED  BY <1>2, <2>1, QueuedOfNext, Zenon
  <2>. QED  BY <2>1, <2>2, <2>3
<1>6. n + 1 \in 1 .. n + 1 /\ n + 1 \in Nat /\ (n + 1) - 1 = n
  BY <1>1
<1>7. 1 .. n + 1 \subseteq S
  <2>. HIDE DEF S
  <2>. QED  BY <1>4, <1>5, <1>6, UpTo
<1>. QED  BY <1>3, <1>6, <1>7 DEF q

----------------------------------------------------------------------------
(* The decoder refuses an update of too many changes before it reads one. *)
NotTooMany == sent.kind = "update" => Len(sent.channels) <= MaxActionChanges

(* What was read so far is what was written. *)
ReadAsWritten ==
    /\ Len(changes) <= Len(sent.channels)
    /\ changes = WrittenInput(sent, Len(changes))

(* The decoder reads the next change where it begins; or the reader has    *)
(* failed, which it can only have done at the end of the header.           *)
AtChange ==
    /\ reader.failed => changes = <<>> /\ lost > 0
    /\ ~reader.failed =>
         /\ reader.pos = BeginsAt(sent)[Len(changes) + 1]
         /\ reader.pos <= TotalBits

(* A body is refused only with cause, and one that is incomplete is not    *)
(* taken, unless there was no change in it.                                *)
JustOutcome ==
    /\ decode = "ok" =>
         /\ NotTooMany
         /\ Len(changes) = Len(sent.channels)
         /\ lost = 0 \/ changes = <<>>
    /\ decode = "bad" => lost > 0 \/ ~NotTooMany

ActInv ==
    /\ ActTypeOK
    /\ lost <= BodyBytes(sent)
    /\ ReadAsWritten
    /\ decode = "header" => reader = [pos |-> 0, failed |-> FALSE] /\ changes = <<>>
    /\ decode = "changes" => NotTooMany /\ AtChange
    /\ JustOutcome
    /\ InputIsAllOrNothing

Reader == [pos : Nat, failed : BOOLEAN]

LEMMA TotalBitsFact ==
    ASSUME ActTypeOK, lost <= BodyBytes(sent)
    PROVE  LET end == BeginsAt(sent)[Len(sent.channels) + 1] IN
           /\ TotalBits \in Nat
           /\ lost = 0 => end <= TotalBits
           /\ lost > 0 => TotalBits < end
<1>1. sent \in Sent /\ lost \in Nat
  BY ActionInputAssumption DEF ActTypeOK
<1>. DEFINE end == BeginsAt(sent)[Len(sent.channels) + 1]
            bytes == BodyBytes(sent)
<1>2. end \in Nat /\ bytes \in Nat /\ end <= 8 * bytes /\ 8 * bytes < end + 8
  BY <1>1, BodyHoldsChanges
<1>3. TotalBits = 8 * (bytes - lost)
  BY DEF TotalBits
<1>. HIDE DEF end, bytes
<1>. QED  BY <1>1, <1>2, <1>3 DEF end, bytes

LEMMA AfterReadIs ==
    ASSUME NEW r \in Reader, NEW w \in Nat, TotalBits \in Nat
    PROVE  /\ AfterRead(r, w) \in Reader
           /\ ~AfterRead(r, w).failed =>
                ~r.failed /\ r.pos + w <= TotalBits /\ AfterRead(r, w).pos = r.pos + w
           /\ ~r.failed /\ r.pos + w <= TotalBits => ~AfterRead(r, w).failed
<1>1. CASE Fits(r, w)
  <2>1. AfterRead(r, w) = [pos |-> r.pos + w, failed |-> r.failed] /\ ~r.failed
    BY <1>1 DEF AfterRead, Fits, Reader
  <2>. QED  BY <1>1, <2>1 DEF Fits, Reader
<1>2. CASE ~Fits(r, w)
  <2>1. AfterRead(r, w) = [pos |-> r.pos, failed |-> TRUE]
    BY <1>2 DEF AfterRead, Reader
  <2>. QED  BY <1>2, <2>1 DEF Fits, Reader
<1>. QED  BY <1>1, <1>2

(* A read from bit p on fails exactly if the bits are not there. *)
LEMMA ReadFrom ==
    ASSUME NEW r \in Reader, NEW w \in Nat, NEW p \in Nat, NEW after,
           after = AfterRead(r, w), TotalBits \in Nat,
           ~r.failed => r.pos = p, p <= TotalBits => ~r.failed
    PROVE  /\ after \in Reader
           /\ ~after.failed => after.pos = p + w /\ after.pos <= TotalBits
           /\ p + w <= TotalBits => ~after.failed
BY AfterReadIs

LEMMA InitActInv == ActInit => ActInv
<1>. SUFFICES ASSUME ActInit PROVE ActInv
  OBVIOUS
<1>1. changes = <<>> /\ queued = <<>> /\ decode = "header" /\ sent \in Sent /\ lost \in Missing
      /\ lost <= BodyBytes(sent) /\ reader = [pos |-> 0, failed |-> FALSE]
  BY DEF ActInit
<1>2. ActTypeOK
  BY <1>1 DEF ActTypeOK
<1>3. ReadAsWritten
  BY <1>1, WhatIsSent DEF ReadAsWritten, WrittenInput
<1>. QED  BY <1>1, <1>2, <1>3 DEF ActInv, JustOutcome, InputIsAllOrNothing

LEMMA DecodeHeaderStep == ActInv /\ DecodeHeader => ActInv'
<1>. SUFFICES ASSUME ActInv, DecodeHeader PROVE ActInv'
  OBVIOUS
<1>. DEFINE counted == IF sent.kind = "update" THEN AfterRead(reader, 8) ELSE reader
            stamped == AfterRead(counted, 32)
            full == AfterRead(stamped, 32)
            end == BeginsAt(sent)[Len(sent.channels) + 1]
<1>1. /\ reader = [pos |-> 0, failed |-> FALSE]
      /\ changes = <<>>
      /\ reader' = full
      /\ decode' = IF stamped.failed \/ ~NotTooMany THEN "bad" ELSE "changes"
      /\ UNCHANGED <<sent, lost, changes, queued>>
  <2>1. ~NotTooMany <=> sent.kind = "update" /\ Len(sent.channels) > MaxActionChanges
    <3>1. sent \in Sent /\ MaxActionChanges \in Nat
      BY ActionInputAssumption DEF ActInv, ActTypeOK
    <3>. QED  BY <3>1, WhatIsSent DEF NotTooMany
  <2>. QED  BY <2>1 DEF ActInv, DecodeHeader
<1>2. /\ sent \in Sent /\ lost \in Nat /\ Len(sent.channels) \in Nat
      /\ TotalBits \in Nat /\ end \in Nat
      /\ lost = 0 => end <= TotalBits
      /\ HeaderBits(sent.kind) <= end
      /\ BeginsAt(sent)[1] = HeaderBits(sent.kind)
      /\ sent.kind \in {"update", "dump"}
  BY ActionInputAssumption, TotalBitsFact, BodyHoldsChanges, ChangesFollow, WhatIsSent DEF ActInv, ActTypeOK
<1>. DEFINE first == IF sent.kind = "update" THEN 8 ELSE 0
<1>3. first \in Nat
  OBVIOUS
<1>4. /\ counted \in Reader
      /\ ~counted.failed => counted.pos = first
      /\ first <= TotalBits => ~counted.failed
  <2>1. reader \in Reader /\ ~reader.failed /\ reader.pos = 0
    BY <1>1 DEF Reader
  <2>2. CASE sent.kind = "update"
    <3>1. counted = AfterRead(reader, 8)
      BY <2>2
    <3>. HIDE DEF counted
    <3>. QED  BY <1>2, <2>1, <2>2, <3>1, ReadFrom
  <2>3. CASE sent.kind # "update"
    BY <1>2, <2>1, <2>3
  <2>. QED  BY <2>2, <2>3
<1>. HIDE DEF counted, stamped, full
<1>5. /\ stamped \in Reader
      /\ ~stamped.failed => stamped.pos = first + 32
      /\ first + 32 <= TotalBits => ~stamped.failed
  BY <1>2, <1>4, ReadFrom DEF stamped
<1>6. /\ full \in Reader
      /\ ~full.failed => full.pos = first + 64 /\ full.pos <= TotalBits
      /\ first + 64 <= TotalBits => ~full.failed
  <2>. DEFINE p == first + 32
  <2>1. p \in Nat /\ p + 32 = first + 64
    BY <1>3
  <2>2. (~stamped.failed => stamped.pos = p) /\ (p <= TotalBits => ~stamped.failed)
    BY <1>5
  <2>. HIDE DEF p
  <2>3. /\ full \in Reader
        /\ ~full.failed => full.pos = p + 32 /\ full.pos <= TotalBits
        /\ p + 32 <= TotalBits => ~full.failed
    BY <1>2, <1>5, <2>1, <2>2, ReadFrom DEF full
  <2>. QED  BY <2>1, <2>3
<1>. HIDE DEF end
<1>7. HeaderBits(sent.kind) = first + 64
  BY DEF HeaderBits
<1>8. ActTypeOK'
  BY <1>1, <1>6 DEF ActInv, ActTypeOK, Reader
<1>9. (lost <= BodyBytes(sent))' /\ ReadAsWritten'
  BY <1>1 DEF ActInv, ReadAsWritten
<1>10. NotTooMany' = NotTooMany /\ TotalBits' = TotalBits
  BY <1>1 DEF NotTooMany, TotalBits
<1>11. stamped.failed => lost > 0
  BY <1>2, <1>5, <1>7
<1>12. decode' = "changes" => NotTooMany' /\ AtChange'
  <2>. SUFFICES ASSUME decode' = "changes" PROVE NotTooMany' /\ AtChange'
    OBVIOUS
  <2>1. NotTooMany'
    BY <1>1, <1>10
  <2>2. full.failed => lost > 0
    BY <1>2, <1>6, <1>7
  <2>3. Len(changes') + 1 = 1
    BY <1>1
  <2>4. AtChange'
    BY <1>1, <1>2, <1>6, <1>7, <1>10, <2>2, <2>3 DEF AtChange
  <2>. QED  BY <2>1, <2>4
<1>13. JustOutcome'
  BY <1>1, <1>10, <1>11 DEF JustOutcome
<1>. QED  BY <1>1, <1>8, <1>9, <1>12, <1>13 DEF ActInv, InputIsAllOrNothing

(* The decoder is where the next change begins, so that is the one it      *)
(* takes the bits for.                                                     *)
LEMMA ChangeIsNext ==
    ASSUME ActInv, NEW n \in 1 .. Len(sent.channels), n = Len(changes) + 1,
           reader.pos = BeginsAt(sent)[n]
    PROVE  ChangeAt(reader.pos) = [channel |-> sent.channels[n], value |-> n]
<1>. DEFINE L == Len(sent.channels)
            b == BeginsAt(sent)
            here == {k \in DOMAIN sent.channels : b[k] = reader.pos}
<1>1. sent \in Sent /\ L \in Nat /\ DOMAIN sent.channels = 1 .. L
  BY WhatIsSent DEF ActInv, ActTypeOK
<1>2. here = {n}
  <2>1. ASSUME NEW k \in 1 .. L, b[k] = b[n]
        PROVE  k = n
    <3>1. k \in 1 .. L + 1 /\ n \in 1 .. L + 1
      BY <1>1
    <3>2. b[k] \in Nat /\ b[n] \in Nat
      BY <1>1, <3>1, ChangesFollow
    <3>3. k < n => b[k] < b[n]
      BY <1>1, <3>1, ChangesAreApart
    <3>4. n < k => b[n] < b[k]
      BY <1>1, <3>1, ChangesAreApart
    <3>. HIDE DEF b
    <3>. QED  BY <1>1, <2>1, <3>2, <3>3, <3>4
  <2>2. n \in 1 .. L /\ reader.pos = b[n]
    OBVIOUS
  <2>. HIDE DEF b, L
  <2>. QED  BY <1>1, <2>1, <2>2
<1>3. here # {} /\ (CHOOSE k \in here : TRUE) = n
  BY <1>2
<1>4. sent.kind = "dump" => sent.channels[n] = Len(changes) + 1
  BY <1>1, WhatIsSent
<1>5. n # 0
  BY <1>1
<1>6. ChangeAt(reader.pos) =
        [channel |-> IF sent.kind = "dump" THEN Len(changes) + 1
                     ELSE IF n = 0 THEN 8 ELSE sent.channels[n],
         value |-> n]
  <2>1. (IF here = {} THEN 0 ELSE CHOOSE k \in here : TRUE) = n
    BY <1>3
  <2>. QED  BY <2>1, Zenon DEF ChangeAt
<1>. QED  BY <1>4, <1>5, <1>6

LEMMA DecodeChangeStep == ActInv /\ DecodeChange => ActInv'
<1>. SUFFICES ASSUME ActInv, DecodeChange PROVE ActInv'
  OBVIOUS
<1>. DEFINE n == Len(changes) + 1
            b == BeginsAt(sent)
            end == b[Len(sent.channels) + 1]
            indexed == IF sent.kind = "update" THEN AfterRead(reader, IndexBits) ELSE reader
            change == ChangeAt(reader.pos)
            valued == AfterRead(indexed, ValueBits(change.channel))
            index == IF sent.kind = "update" THEN IndexBits ELSE 0
<1>1. /\ sent \in Sent /\ lost \in Nat /\ reader \in Reader
      /\ changes \in Seq(Change) /\ Len(changes) \in Nat
      /\ Len(sent.channels) \in Nat
      /\ decode = "changes" /\ NotTooMany /\ AtChange
      /\ n \in 1 .. Len(sent.channels)
  <2>1. sent \in Sent /\ lost \in Nat /\ reader \in Reader /\ changes \in Seq(Change)
    BY ActionInputAssumption DEF ActInv, ActTypeOK, Reader, Change
  <2>2. Len(sent.channels) \in Nat /\ Len(changes) \in Nat
    BY <2>1, WhatIsSent
  <2>. QED  BY <2>1, <2>2 DEF ActInv, DecodeChange
<1>2. /\ TotalBits \in Nat /\ end \in Nat
      /\ lost = 0 => end <= TotalBits
      /\ b[n] \in Nat /\ b[n + 1] = b[n] + ChangeBits(sent, n)
      /\ b[n] + ChangeBits(sent, n) <= end
  <2>1. TotalBits \in Nat /\ (lost = 0 => end <= TotalBits)
    BY TotalBitsFact DEF ActInv
  <2>2. n \in 1 .. Len(sent.channels) + 1
    BY <1>1
  <2>3. b[n] \in Nat /\ b[n + 1] = b[n] + ChangeBits(sent, n)
    BY <1>1, <2>2, ChangesFollow
  <2>. QED  BY <1>1, <2>1, <2>3, BodyHoldsChanges
<1>3. /\ indexed \in Reader
      /\ reader.failed => indexed.failed
      /\ ~reader.failed => /\ ~indexed.failed => indexed.pos = b[n] + index
                           /\ b[n] + index <= TotalBits => ~indexed.failed
  <2>1. ~reader.failed => reader.pos = b[n] /\ reader.pos <= TotalBits
    BY <1>1 DEF AtChange
  <2>2. CASE sent.kind = "update"
    <3>1. indexed = AfterRead(reader, IndexBits) /\ IndexBits \in Nat /\ index = IndexBits
      BY <2>2 DEF IndexBits
    <3>. HIDE DEF indexed, index, b
    <3>. QED  BY <1>1, <1>2, <2>1, <3>1, AfterReadIs
  <2>3. CASE sent.kind # "update"
    <3>1. indexed = reader /\ index = 0
      BY <2>3
    <3>. HIDE DEF indexed, index, b
    <3>. QED  BY <1>1, <1>2, <2>1, <3>1
  <2>. QED  BY <2>2, <2>3
<1>4. ~reader.failed => change = [channel |-> sent.channels[n], value |-> n]
  BY <1>1, ChangeIsNext DEF AtChange
<1>5. ChangeBits(sent, n) = index + ValueBits(sent.channels[n])
  BY DEF ChangeBits
<1>6. index \in Nat /\ \A c : ValueBits(c) \in Nat
  BY DEF IndexBits, ValueBits
<1>. HIDE DEF indexed, index, change, b, end
<1>7. /\ valued \in Reader
      /\ ~reader.failed /\ ~indexed.failed =>
           /\ ~valued.failed => valued.pos = b[n + 1] /\ valued.pos <= TotalBits
           /\ b[n + 1] <= TotalBits => ~valued.failed
  <2>1. AfterRead(indexed, ValueBits(change.channel)) \in Reader
    BY <1>2, <1>3, <1>6, AfterReadIs
  <2>2. ASSUME ~reader.failed, ~indexed.failed
        PROVE  /\ ~valued.failed => valued.pos = b[n + 1] /\ valued.pos <= TotalBits
               /\ b[n + 1] <= TotalBits => ~valued.failed
    <3>1. change.channel = sent.channels[n] /\ indexed.pos = b[n] + index
      BY <1>3, <1>4, <2>2
    <3>. DEFINE w == ValueBits(sent.channels[n])
    <3>2. valued = AfterRead(indexed, w) /\ w \in Nat /\ b[n + 1] = indexed.pos + w
      BY <1>2, <1>5, <1>6, <3>1
    <3>. HIDE DEF w, valued
    <3>3. /\ ~valued.failed => valued.pos = indexed.pos + w /\ indexed.pos + w <= TotalBits
          /\ indexed.pos + w <= TotalBits => ~valued.failed
      BY <1>2, <1>3, <2>2, <3>2, AfterReadIs
    <3>. QED  BY <3>2, <3>3
  <2>. QED  BY <2>1, <2>2
<1>. HIDE DEF valued
<1>8. \/ /\ ~indexed.failed /\ ~valued.failed
         /\ reader' = valued
         /\ changes' = Append(changes, change)
         /\ decode' = "changes"
      \/ /\ indexed.failed \/ valued.failed
         /\ reader' \in Reader
         /\ decode' = "bad"
         /\ changes' = changes
  BY <1>1, <1>3, <1>7 DEF DecodeChange, indexed, valued, change
<1>9. UNCHANGED <<sent, lost, queued>>
  BY DEF DecodeChange
<1>10. NotTooMany' = NotTooMany /\ TotalBits' = TotalBits /\ BeginsAt(sent)' = BeginsAt(sent)
  BY <1>9 DEF NotTooMany, TotalBits
<1>11. CASE ~indexed.failed /\ ~valued.failed
  <2>1. ~reader.failed
    BY <1>3, <1>11
  <2>2. /\ reader' = valued /\ decode' = "changes"
        /\ changes' = Append(changes, [channel |-> sent.channels[n], value |-> n])
    BY <1>4, <1>8, <1>11, <2>1
  <2>3. [channel |-> sent.channels[n], value |-> n] \in Change
    BY <1>1, WhatIsSent DEF Change
  <2>4. changes' \in Seq(Change) /\ Len(changes') = n
    BY <1>1, <2>2, <2>3
  <2>5. changes' = WrittenInput(sent, n)
    <3>1. \A k \in 1 .. n - 1 : changes[k] = [channel |-> sent.channels[k], value |-> k]
      BY <1>1 DEF ActInv, ReadAsWritten, WrittenInput
    <3>2. \A k \in 1 .. n : changes'[k] = [channel |-> sent.channels[k], value |-> k]
      BY <1>1, <2>2, <3>1
    <3>. QED  BY <1>1, <2>4, <3>2 DEF WrittenInput
  <2>6. ReadAsWritten'
    BY <1>1, <1>9, <2>4, <2>5 DEF ReadAsWritten
  <2>7. AtChange'
    BY <1>7, <1>9, <1>10, <1>11, <2>1, <2>2, <2>4 DEF AtChange, b
  <2>8. ActTypeOK'
    BY <1>7, <1>9, <2>2, <2>4 DEF ActInv, ActTypeOK, Reader, Change
  <2>. QED  BY <1>1, <1>9, <1>10, <2>2, <2>6, <2>7, <2>8 DEF ActInv, JustOutcome, InputIsAllOrNothing
<1>12. CASE indexed.failed \/ valued.failed
  <2>1. reader' \in Reader /\ decode' = "bad" /\ changes' = changes
    BY <1>8, <1>12
  <2>2. lost > 0
    <3>1. CASE reader.failed
      BY <1>1, <3>1 DEF AtChange
    <3>2. CASE ~reader.failed
      <4>. SUFFICES ASSUME lost = 0 PROVE FALSE
        BY <1>1
      <4>1. PICK w \in Nat : b[n + 1] = (b[n] + index) + w
        BY <1>2, <1>5, <1>6
      <4>2. b[n + 1] <= TotalBits /\ b[n] + index <= TotalBits
        BY <1>2, <1>6, <4>1
      <4>3. ~indexed.failed
        BY <1>3, <3>2, <4>2
      <4>. QED  BY <1>7, <1>12, <3>2, <4>2, <4>3
    <3>. QED  BY <3>1, <3>2
  <2>3. ReadAsWritten'
    BY <1>9, <2>1 DEF ActInv, ReadAsWritten
  <2>4. ActTypeOK'
    BY <1>9, <2>1 DEF ActInv, ActTypeOK, Reader
  <2>. QED  BY <1>9, <2>1, <2>2, <2>3, <2>4 DEF ActInv, JustOutcome, InputIsAllOrNothing
<1>. QED  BY <1>11, <1>12

LEMMA EndChangesStep == ActInv /\ EndChanges => ActInv'
<1>. SUFFICES ASSUME ActInv, EndChanges PROVE ActInv'
  OBVIOUS
<1>1. /\ decode = "changes" /\ decode' = "ok"
      /\ Len(changes) = Len(sent.channels)
      /\ UNCHANGED <<sent, lost, reader, changes, queued>>
  BY DEF EndChanges
<1>2. lost = 0 \/ changes = <<>>
  <2>. SUFFICES ASSUME ~reader.failed, lost > 0 PROVE FALSE
    <3>1. lost \in Nat
      BY ActionInputAssumption DEF ActInv, ActTypeOK
    <3>. QED  BY <1>1, <3>1 DEF ActInv, AtChange
  <2>. DEFINE end == BeginsAt(sent)[Len(sent.channels) + 1]
  <2>1. reader.pos = end /\ reader.pos <= TotalBits
    BY <1>1 DEF ActInv, AtChange
  <2>2. TotalBits < end /\ TotalBits \in Nat
    BY TotalBitsFact DEF ActInv
  <2>3. end \in Nat
    BY BodyHoldsChanges DEF ActInv, ActTypeOK
  <2>. HIDE DEF end
  <2>. QED  BY <2>1, <2>2, <2>3
<1>3. ActTypeOK' /\ ReadAsWritten'
  BY <1>1 DEF ActInv, ActTypeOK, ReadAsWritten
<1>4. JustOutcome'
  BY <1>1, <1>2 DEF ActInv, JustOutcome, NotTooMany
<1>. QED  BY <1>1, <1>3, <1>4 DEF ActInv, InputIsAllOrNothing

LEMMA QueueActionInputStep == ActInv /\ QueueActionInput => ActInv'
<1>. SUFFICES ASSUME ActInv, QueueActionInput PROVE ActInv'
  OBVIOUS
<1>1. /\ decode \in {"ok", "bad"} /\ decode' = "done"
      /\ queued' = IF decode = "bad" THEN <<>> ELSE Driven(changes)
      /\ UNCHANGED <<sent, lost, reader, changes>>
  BY DEF QueueActionInput
<1>2. sent \in Sent /\ lost \in Nat /\ Len(sent.channels) \in Nat /\ Len(changes) \in Nat
      /\ DOMAIN sent.channels = 1 .. Len(sent.channels)
  BY ActionInputAssumption, WhatIsSent DEF ActInv, ActTypeOK
<1>3. ReadAsWritten'
  BY <1>1 DEF ActInv, ReadAsWritten
<1>4. Wanted' = {[channel |-> sent.channels[k], value |-> k] :
                   k \in {c \in 1 .. Len(sent.channels) :
                            lost = 0 /\ NotTooMany /\ sent.channels[c] <= ActionMaxChannel}}
  BY <1>1, <1>2 DEF Wanted, NotTooMany
<1>5. CASE decode = "bad"
  <2>1. queued' = <<>>
    BY <1>1, <1>5
  <2>2. Wanted' = {}
    BY <1>4, <1>5 DEF ActInv, JustOutcome
  <2>3. InputIsAllOrNothing'
    BY <2>1, <2>2 DEF InputIsAllOrNothing
  <2>4. ActTypeOK'
    <3>1. queued' \in Seq([channel : Bits, value : Nat])
      BY <2>1
    <3>. QED  BY <1>1, <3>1 DEF ActInv, ActTypeOK
  <2>. QED  BY <1>1, <1>3, <2>3, <2>4 DEF ActInv, JustOutcome
<1>6. CASE decode = "ok"
  <2>1. /\ queued' = Driven(changes)
        /\ NotTooMany /\ Len(changes) = Len(sent.channels)
        /\ lost = 0 \/ changes = <<>>
        /\ changes = WrittenInput(sent, Len(sent.channels))
    BY <1>1, <1>6 DEF ActInv, JustOutcome, ReadAsWritten
  <2>2. queued' \in Seq(Change) /\ QueuedOf(sent, Len(sent.channels) + 1, queued')
    BY <1>2, <2>1, DrivenIsQueued
  <2>3. Wanted' = {[channel |-> sent.channels[k], value |-> k] :
                     k \in {c \in 1 .. Len(sent.channels) : sent.channels[c] <= ActionMaxChannel}}
    <3>1. CASE lost = 0
      BY <1>4, <2>1, <3>1
    <3>2. CASE changes = <<>>
      <4>1. 1 .. Len(sent.channels) = {}
        BY <2>1, <3>2
      <4>. QED  BY <1>4, <4>1
    <3>. QED  BY <2>1, <3>1, <3>2
  <2>4. InputIsAllOrNothing'
    <3>1. (Len(sent.channels) + 1) - 1 = Len(sent.channels)
      BY <1>2
    <3>2. {queued'[i] : i \in DOMAIN queued'} = Wanted'
      BY <2>2, <2>3, <3>1 DEF QueuedOf
    <3>. QED  BY <2>2, <3>2 DEF QueuedOf, InputIsAllOrNothing
  <2>5. ActTypeOK'
    BY <1>1, <2>2 DEF ActInv, ActTypeOK, Change
  <2>. QED  BY <1>1, <1>3, <2>4, <2>5 DEF ActInv, JustOutcome
<1>. QED  BY <1>1, <1>5, <1>6

LEMMA NextActInv == ActInv /\ [ActNext]_actVars => ActInv'
<1>. SUFFICES ASSUME ActInv, [ActNext]_actVars PROVE ActInv'
  OBVIOUS
<1>1. CASE UNCHANGED actVars
  BY <1>1 DEF actVars, ActInv, ActTypeOK, ReadAsWritten, NotTooMany, AtChange, TotalBits, JustOutcome,
              InputIsAllOrNothing, Wanted
<1>. QED  BY <1>1, DecodeHeaderStep, DecodeChangeStep, EndChangesStep, QueueActionInputStep DEF ActNext

(* Wherever the decoder stops, it has read what was written, as far as it  *)
(* has read.                                                               *)
THEOREM DecodingConsistent == ActSpec => []ActInv
BY InitActInv, NextActInv, PTL DEF ActSpec

(* Control input counts as the client wrote it, or not at all, whatever it *)
(* holds and however much of it is missing.                                *)
THEOREM AllOrNothing == ActSpec => []InputIsAllOrNothing
<1>. ActInv => InputIsAllOrNothing
  BY DEF ActInv
<1>. QED  BY DecodingConsistent, PTL

----------------------------------------------------------------------------
(* The three of them together: each step of module Wire is a step of one   *)
(* and leaves the others alone, so each keeps what it promises by itself.  *)
LEMMA PartsAreKept == Spec => TcpSpec /\ UdpSpec /\ ActSpec
<1>1. Init => TcpInit /\ UdpInit /\ ActInit
  BY DEF Init
<1>2. [Next]_wireVars => [TcpNext]_tcpVars /\ [UdpNext]_udpVars /\ [ActNext]_actVars
  BY DEF Next, NextTcp, NextUdp, NextAct, wireVars
<1>. QED  BY <1>1, <1>2, PTL DEF Spec, TcpSpec, UdpSpec, ActSpec

(* Whatever bytes arrive, in whatever pieces, readings and widths, no      *)
(* buffer, route or decoder leaves the states that it is made for.         *)
THEOREM WireTyped == Spec => []TypeOK
<1>. StreamInv /\ UdpInv /\ ActInv => TypeOK
  BY DEF StreamInv, UdpInv, ActInv, TypeOK
<1>. QED  BY PartsAreKept, StreamConsistent, RoutingConsistent, DecodingConsistent, PTL

(* What each part promises, of the three together: frames whole and none   *)
(* waiting or dropped without cause, one reaction to a datagram, of its    *)
(* own session, and input that counts as written or not at all.            *)
THEOREM WireSafe ==
    Spec => [](/\ NothingWaitsUnlessCapped /\ BacklogHasACause
               /\ OneReaction /\ CommandsAreTheSenders /\ ServedByItsSession
               /\ InputIsAllOrNothing)
BY PartsAreKept, NothingWaits, NoDropWithoutCause, ReactsOnce, NobodyElsesCommands, ClientsAreServed,
   AllOrNothing, PTL

(* The steps of the three together are those that the abstract stream and  *)
(* module Acceptor have.                                                   *)
THEOREM WireImplements == Spec => ImplementsDelivery /\ UdpStepsOfAcceptor
BY PartsAreKept, StreamDelivers, OutcomesOfAcceptor, PTL
=============================================================================
