---------------------------- MODULE FrameDelivery ----------------------------
(***************************************************************************)
(* What the byte stream of a session promises to HandleFrame: the frames   *)
(* that the client wrote, whole, in the order in which it wrote them, each *)
(* once, until the connection is dropped.                                  *)
(***************************************************************************)
EXTENDS Naturals, Sequences

CONSTANT Texts  \* the sequences of frames that clients write

VARIABLES
    written,    \* the one that this client writes
    delivered,  \* the frames that were handled
    open        \* whether the connection goes on

DeliveryInit ==
    /\ written \in Texts
    /\ delivered = <<>>
    /\ open = TRUE

(* The next frame is handled, and may be the last one that is. *)
Deliver ==
    /\ open
    /\ Len(delivered) < Len(written)
    /\ delivered' = Append(delivered, written[Len(delivered) + 1])
    /\ open' \in BOOLEAN
    /\ UNCHANGED written

Drop ==
    /\ open
    /\ open' = FALSE
    /\ UNCHANGED <<written, delivered>>

DeliverySpec == DeliveryInit /\ [][Deliver \/ Drop]_<<written, delivered, open>>
=============================================================================
