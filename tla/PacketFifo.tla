---------------------------- MODULE PacketFifo ----------------------------
(***************************************************************************)
(* What a connection promises to the threads at its ends: the receiver is  *)
(* handed the packets the sender has sent, whole, in order and once each,  *)
(* until it hangs up.  The Streams module is built on this promise.        *)
(***************************************************************************)
EXTENDS Naturals, Sequences

CONSTANT Packets  \* the packets the sender has to send, in order

VARIABLES
  sent,      \* how many of them the sender has sent
  delivered, \* the packets given to on_packet
  open       \* the receiver has not hung up

Init ==
  /\ sent = 0
  /\ delivered = <<>>
  /\ open = TRUE

Send ==
  /\ open = TRUE
  /\ sent < Len(Packets)
  /\ sent' = sent + 1
  /\ UNCHANGED <<delivered, open>>

\* on_packet returns true when it wants no more.
Deliver ==
  /\ open = TRUE
  /\ open' \in BOOLEAN
  /\ Len(delivered) < sent
  /\ delivered' = Append(delivered, Packets[Len(delivered) + 1])
  /\ UNCHANGED sent

Next == Send \/ Deliver

Spec == Init /\ [][Next]_<<sent, delivered, open>>
=============================================================================
