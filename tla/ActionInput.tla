----------------------------- MODULE ActionInput -----------------------------
(***************************************************************************)
(* The decoding of control input (net/action_input.cpp) with the bit       *)
(* reader (proto/bitstream.cpp), and what the connection queues of it      *)
(* (HandleUdpActionInput in net/connection.cpp).  An ActionUpdate holds    *)
(* the channels that changed, each with its index; an ActionDump holds the *)
(* values of all but the first channel, in order and without.  Values are  *)
(* one bit or sixteen wide, so only its place tells a field from another.  *)
(*                                                                         *)
(* A body is the fields that a client wrote, of which the last bytes may   *)
(* be missing.  A read gets a field if it is made where the field begins   *)
(* and is as wide; otherwise it gets bits that mean nothing.               *)
(***************************************************************************)
EXTENDS Naturals, Sequences

CONSTANTS
    Updates,          \* bound: the channels of the updates that clients send
    Missing,          \* bound: how many bytes of a body may be missing
    MaxActionChanges  \* kMaxActionChanges

(* What can be written in the IndexBits of a channel's index. *)
Bits == 0 .. 65535

ASSUME ActionInputAssumption ==
    /\ Updates \subseteq Seq(Bits)
    /\ Missing \subseteq Nat
    /\ MaxActionChanges \in Nat

ActionMaxChannel == 21  \* kActionMaxChannel
IndexBits == 16         \* kActionChannelIndexBits

(* IsDigitalActionChannel, and the width of a value in ReadChannelValue. *)
IsDigital(channel) == channel = 4 \/ channel >= 8
ValueBits(channel) == IF IsDigital(channel) THEN 1 ELSE 16

Sent == [kind : {"update"}, channels : Updates]
           \cup [kind : {"dump"}, channels : {[n \in 1 .. ActionMaxChannel |-> n]}]

HeaderBits(kind) == IF kind = "update" THEN 72 ELSE 64

(* The bits that change n takes, and the bit at which it begins. *)
ChangeBits(m, n) == (IF m.kind = "update" THEN IndexBits ELSE 0) + ValueBits(m.channels[n])

BeginsAt(m) ==
    LET begin[n \in 1 .. Len(m.channels) + 1] ==
            IF n = 1 THEN HeaderBits(m.kind) ELSE begin[n - 1] + ChangeBits(m, n - 1)
    IN  begin

BodyBytes(m) == (BeginsAt(m)[Len(m.channels) + 1] + 7) \div 8

VARIABLES
    sent,    \* what the client wrote
    lost,    \* how many bytes of it are missing
    reader,  \* the BitReader: bit_pos_ and failed_
    decode,  \* the place in DecodeActionUpdate or DecodeActionDump
    changes, \* DecodedActions::changes
    queued   \* history: what was pushed to inbound_

actVars == <<sent, lost, reader, decode, changes, queued>>

ActTypeOK ==
    /\ sent \in Sent
    /\ lost \in Missing
    /\ reader \in [pos : Nat, failed : BOOLEAN]
    /\ decode \in {"header", "changes", "ok", "bad", "done"}
    /\ changes \in Seq([channel : Bits, value : Nat])
    /\ queued \in Seq([channel : Bits, value : Nat])

ActInit ==
    /\ sent \in Sent
    /\ lost \in {k \in Missing : k <= BodyBytes(sent)}
    /\ reader = [pos |-> 0, failed |-> FALSE]
    /\ decode = "header"
    /\ changes = <<>>
    /\ queued = <<>>

----------------------------------------------------------------------------
TotalBits == 8 * (BodyBytes(sent) - lost)

(* Mutant: a failure is forgotten by the next read that succeeds. *)
AfterReadUnlatched(r, width) ==
    IF TotalBits - r.pos >= width
    THEN [pos |-> r.pos + width, failed |-> FALSE]
    ELSE [r EXCEPT !.failed = TRUE]

(* ReadBits succeeds; once it has failed, every later read fails. *)
Fits(r, width) == ~r.failed /\ TotalBits - r.pos >= width

AfterRead(r, width) ==
    IF Fits(r, width) THEN [r EXCEPT !.pos = @ + width] ELSE [r EXCEPT !.failed = TRUE]

(* The count of an update, the time stamp and the event counter.  Whether  *)
(* the event counter was there is not looked at: if it was not, no later   *)
(* read succeeds.                                                          *)
DecodeHeader ==
    LET counted == IF sent.kind = "update" THEN AfterRead(reader, 8) ELSE reader
        stamped == AfterRead(counted, 32)
    IN
    /\ decode = "header"
    /\ reader' = AfterRead(stamped, 32)
    /\ decode' = IF \/ stamped.failed
                    \/ sent.kind = "update" /\ Len(sent.channels) > MaxActionChanges
                 THEN "bad" ELSE "changes"
    /\ UNCHANGED <<sent, lost, changes, queued>>

(* The change that is read from bit pos.  In an update its channel is read *)
(* too, in a dump it follows from how many changes were read before it.    *)
(* Bits that mean nothing are taken for the channel that takes one bit and *)
(* can be driven, 8, and for a value that nobody wrote.                    *)
ChangeAt(pos) ==
    LET here == {n \in DOMAIN sent.channels : BeginsAt(sent)[n] = pos}
        n == IF here = {} THEN 0 ELSE CHOOSE m \in here : TRUE
    IN  [channel |-> IF sent.kind = "dump" THEN Len(changes) + 1
                     ELSE IF n = 0 THEN 8 ELSE sent.channels[n],
         value |-> n]

(* One turn of the decoder's loop: the index, if there is one, the value,  *)
(* whose width follows from the channel.                                   *)
DecodeChange ==
    LET indexed == IF sent.kind = "update" THEN AfterRead(reader, IndexBits) ELSE reader
        change == ChangeAt(reader.pos)
        valued == AfterRead(indexed, ValueBits(change.channel))
    IN
    /\ decode = "changes"
    /\ Len(changes) < Len(sent.channels)
    /\ reader' = IF indexed.failed THEN indexed ELSE valued
    /\ \/ /\ ~indexed.failed /\ ~valued.failed
          /\ changes' = Append(changes, change)
          /\ UNCHANGED decode
       \/ /\ indexed.failed \/ valued.failed
          /\ decode' = "bad"
          /\ UNCHANGED changes
    /\ UNCHANGED <<sent, lost, queued>>

EndChanges ==
    /\ decode = "changes"
    /\ Len(changes) = Len(sent.channels)
    /\ decode' = "ok"
    /\ UNCHANGED <<sent, lost, reader, changes, queued>>

(* The changes that HandleUdpActionInput's loop queues of q: those of      *)
(* channels that can be driven.                                            *)
Driven(q) ==
    LET driven[n \in 1 .. Len(q) + 1] ==
            IF n = 1 THEN <<>>
            ELSE IF q[n - 1].channel <= ActionMaxChannel THEN Append(driven[n - 1], q[n - 1])
            ELSE driven[n - 1]
    IN  driven[Len(q) + 1]

(* HandleUdpActionInput: nothing of a body that could not be decoded, and  *)
(* of another what can be driven.                                          *)
QueueActionInput ==
    /\ decode \in {"ok", "bad"}
    /\ decode' = "done"
    /\ queued' = IF decode = "bad" THEN <<>> ELSE Driven(changes)
    /\ UNCHANGED <<sent, lost, reader, changes>>

ActNext == DecodeHeader \/ DecodeChange \/ EndChanges \/ QueueActionInput

ActSpec == ActInit /\ [][ActNext]_actVars

----------------------------------------------------------------------------
(* What the client wrote, less the channels that cannot be driven; or      *)
(* nothing, if some of it is missing or it holds too many changes.         *)
Wanted ==
    {[channel |-> sent.channels[n], value |-> n] :
        n \in {k \in DOMAIN sent.channels :
                 /\ lost = 0
                 /\ sent.kind = "update" => Len(sent.channels) <= MaxActionChanges
                 /\ sent.channels[k] <= ActionMaxChannel}}

(* Control input is queued as the client wrote it, change by change and in *)
(* order, less the channels that cannot be driven; or, if so much as a     *)
(* byte of it is missing or it holds too many changes, not at all.         *)
InputIsAllOrNothing ==
    decode = "done" =>
        /\ {queued[i] : i \in DOMAIN queued} = Wanted
        /\ \A i, j \in DOMAIN queued : i < j => queued[i].value < queued[j].value
=============================================================================
