------------------------------ MODULE TcpStream ------------------------------
(***************************************************************************)
(* The byte stream of one TCP session: recv returns it in chunks of any    *)
(* size (net/acceptor.cpp), TcpFrameAccumulator cuts it into frames        *)
(* (proto/framing.cpp) and OnTcpData handles those that are complete, up   *)
(* to a limit, before it returns for more (net/connection.cpp).            *)
(*                                                                         *)
(* A byte is known by its place in the stream.  The buffer holds the bytes *)
(* that were received and not yet erased, [erased, received), so what it   *)
(* declares at its front is what the stream declares at `erased`, be that  *)
(* the first byte of a frame or not.                                       *)
(***************************************************************************)
EXTENDS Naturals, Sequences

CONSTANTS
    Stream,       \* what clients send
    Length,       \* the number of bytes of each stream
    Declares,     \* the length that the two bytes at a place of a stream declare
    FrameAt,      \* the places at which the frames of a stream begin
    RecvChunk,    \* kRecvChunk
    MaxBuffered,  \* max_buffered_bytes
    MaxFrames     \* max_frames_per_drain

HeaderLen == 2
MinFrameLen == 3

(* The n-th frame of stream q is well formed and all of it is sent. *)
IsFrame(q, n) ==
    LET at == FrameAt[q][n] IN
    /\ at + HeaderLen <= Length[q]
    /\ Declares[q][at] >= MinFrameLen
    /\ at + Declares[q][at] <= Length[q]

(* A client writes its frames one after the other; after the last of them  *)
(* come nothing, a part of a frame, or bytes that are no frame.            *)
ASSUME TcpStreamAssumption ==
    /\ RecvChunk \in Nat \ {0}
    /\ MaxBuffered \in Nat
    /\ RecvChunk < MaxBuffered
    /\ MaxFrames \in Nat \ {0}
    /\ Length \in [Stream -> Nat]
    /\ FrameAt \in [Stream -> Seq(Nat)]
    /\ \A q \in Stream :
         /\ Declares[q] \in [0 .. Length[q] -> Nat]
         /\ FrameAt[q] # <<>>
         /\ FrameAt[q][1] = 0
         /\ \A n \in 1 .. Len(FrameAt[q]) :
              /\ FrameAt[q][n] <= Length[q]
              /\ IsFrame(q, n) <=> n < Len(FrameAt[q])
              /\ IsFrame(q, n) =>
                   FrameAt[q][n + 1] = FrameAt[q][n] + Declares[q][FrameAt[q][n]]

VARIABLES
    stream,     \* the stream that this session's client sends
    received,   \* how many bytes were received
    erased,     \* how many of them were erased from TcpFrameAccumulator::buffer_
    place,      \* "recv", or "drain" in OnTcpData's loop
    processed,  \* the loop's counter
    frames,     \* history: the frames that were handled, by place and length
    dropped,    \* history: why the connection was closed, or "no"
    capped      \* history: whether the last drain ended because it had handled enough

tcpVars == <<stream, received, erased, place, processed, frames, dropped, capped>>

Reason == {"no", "malformed", "backlog", "rejected"}

TcpTypeOK ==
    /\ stream \in Stream
    /\ received \in 0 .. Length[stream]
    /\ erased \in 0 .. received
    /\ place \in {"recv", "drain"}
    /\ processed \in 0 .. MaxFrames
    /\ frames \in Seq(Nat \X Nat)
    /\ dropped \in Reason
    /\ capped \in BOOLEAN

TcpInit ==
    /\ stream \in Stream
    /\ received = 0
    /\ erased = 0
    /\ place = "recv"
    /\ processed = 0
    /\ frames = <<>>
    /\ dropped = "no"
    /\ capped = FALSE

----------------------------------------------------------------------------
Buffered == received - erased

(* The length that the buffer declares at its front. *)
TotalLen == Declares[stream][erased]

(* The front of a buffer of b bytes can be no frame. *)
Malformed(b) == b >= HeaderLen /\ TotalLen < MinFrameLen

(* Mutant: a frame is complete once there is more than it. *)
CompleteWithMore ==
    /\ Buffered >= HeaderLen
    /\ TotalLen >= MinFrameLen
    /\ Buffered > TotalLen

(* Mutant: the header is not part of a frame's length. *)
CompletePastHeader ==
    /\ Buffered >= HeaderLen
    /\ TotalLen >= MinFrameLen
    /\ Buffered + HeaderLen > TotalLen

(* Next finds a frame at the front. *)
Complete ==
    /\ Buffered >= HeaderLen
    /\ TotalLen >= MinFrameLen
    /\ Buffered >= TotalLen

(* Mutant: the limit is what one chunk holds. *)
OnTcpDataOneChunk(n) ==
    /\ place = "recv"
    /\ dropped = "no"
    /\ received + n <= Length[stream]
    /\ received' = received + n
    /\ LET b == received + n - erased IN
         \/ /\ Malformed(b) \/ b > RecvChunk
            /\ dropped' = IF Malformed(b) THEN "malformed" ELSE "backlog"
            /\ UNCHANGED <<place, processed>>
         \/ /\ ~Malformed(b) /\ b <= RecvChunk
            /\ place' = "drain"
            /\ processed' = 0
            /\ UNCHANGED dropped
    /\ UNCHANGED <<stream, erased, frames, capped>>

(* PumpTcpClient receives n bytes.  OnTcpData feeds them to the            *)
(* accumulator, which looks at the front of the buffer only, and weighs    *)
(* the buffer before it takes a frame out of it.                           *)
OnTcpData(n) ==
    /\ place = "recv"
    /\ dropped = "no"
    /\ received + n <= Length[stream]
    /\ received' = received + n
    /\ LET b == received + n - erased IN
         \/ /\ Malformed(b) \/ b > MaxBuffered
            /\ dropped' = IF Malformed(b) THEN "malformed" ELSE "backlog"
            /\ UNCHANGED <<place, processed>>
         \/ /\ ~Malformed(b) /\ b <= MaxBuffered
            /\ place' = "drain"
            /\ processed' = 0
            /\ UNCHANGED dropped
    /\ UNCHANGED <<stream, erased, frames, capped>>

(* Mutant: the header of a frame is left in the buffer. *)
NextFrameKeepsHeader ==
    /\ place = "drain"
    /\ processed < MaxFrames
    /\ Complete
    /\ erased' = erased + TotalLen - HeaderLen
    /\ frames' = Append(frames, <<erased, TotalLen>>)
    /\ \/ processed' = processed + 1 /\ UNCHANGED <<place, dropped>>
       \/ dropped' = "rejected" /\ place' = "recv" /\ UNCHANGED processed
    /\ UNCHANGED <<stream, received, capped>>

(* A complete frame leaves the buffer.  HandleFrame may ask to close the   *)
(* connection: which frames it rejects is told in module Connection.       *)
NextFrame ==
    /\ place = "drain"
    /\ processed < MaxFrames
    /\ Complete
    /\ erased' = erased + TotalLen
    /\ frames' = Append(frames, <<erased, TotalLen>>)
    /\ \/ processed' = processed + 1 /\ UNCHANGED <<place, dropped>>
       \/ dropped' = "rejected" /\ place' = "recv" /\ UNCHANGED processed
    /\ UNCHANGED <<stream, received, capped>>

(* What follows the frame just handled can be no frame. *)
NextFails ==
    /\ place = "drain"
    /\ processed < MaxFrames
    /\ Malformed(Buffered)
    /\ dropped' = "malformed"
    /\ place' = "recv"
    /\ UNCHANGED <<stream, received, erased, processed, frames, capped>>

(* Mutant: one frame is handled for each chunk. *)
EndDrainEarly ==
    /\ place = "drain"
    /\ processed > 0
    /\ place' = "recv"
    /\ capped' = (processed = MaxFrames)
    /\ UNCHANGED <<stream, received, erased, processed, frames, dropped>>

(* No complete frame is left, or enough were handled for now. *)
EndDrain ==
    /\ place = "drain"
    /\ \/ processed = MaxFrames
       \/ ~Complete /\ ~Malformed(Buffered)
    /\ place' = "recv"
    /\ capped' = (processed = MaxFrames)
    /\ UNCHANGED <<stream, received, erased, processed, frames, dropped>>

Drain == NextFrame \/ NextFails \/ EndDrain

TcpNext == Drain \/ \E n \in 1 .. RecvChunk : OnTcpData(n)

TcpSpec == TcpInit /\ [][TcpNext]_tcpVars

----------------------------------------------------------------------------
(* The frames of stream q. *)
Written(q) == [n \in 1 .. Len(FrameAt[q]) - 1 |->
                 <<FrameAt[q][n], Declares[q][FrameAt[q][n]]>>]

Delivery == INSTANCE FrameDelivery WITH
    Texts <- {Written(q) : q \in Stream},
    written <- Written(stream),
    delivered <- frames,
    open <- dropped = "no"

(* However recv cuts or joins the frames of a client, they are handled     *)
(* whole, in order and once, and none after the connection was dropped.    *)
ImplementsDelivery == Delivery!DeliverySpec

(* OnTcpData leaves a complete frame in the buffer only if it has handled  *)
(* as many as it may; that frame then waits until more bytes arrive.  So   *)
(* much is left of what connection.hpp says, that all complete frames are  *)
(* parsed and that a client who hits this limit is dropped: OnTcpData      *)
(* stops at the limit and returns as if nothing were left.                 *)
NothingWaitsUnlessCapped ==
    place = "recv" /\ dropped = "no" /\ Complete => capped

(* The buffer is weighed before its frames are taken out of it.  A client  *)
(* is dropped for its backlog only if frames were left to it by the last   *)
(* drain, or the frame it is sending cannot fit beside a whole chunk.      *)
BacklogHasACause ==
    dropped = "backlog" => capped \/ TotalLen + RecvChunk > MaxBuffered + 1

(* Once all of a stream has arrived, all its frames are handled, unless    *)
(* the connection is dropped or its last drain had handled enough.         *)
AllIsHandled ==
    received = Length[stream] ~>
        dropped # "no" \/ capped \/ frames = Written(stream)
=============================================================================
