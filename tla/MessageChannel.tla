---------------------------- MODULE MessageChannel ----------------------------
(***************************************************************************)
(* What the two ends of a connection rely on (src/rpc/transport.hpp):      *)
(* messages arrive whole, in the order in which they were written, each    *)
(* once, until the connection ends; the last ones may then be missing.     *)
(***************************************************************************)
EXTENDS Sequences, Naturals

CONSTANT Messages

VARIABLES
  accepted,    \* the messages the writer was given
  delivered,   \* the messages the reader returned
  open         \* the writer may be given another one

ChannelInit == accepted = <<>> /\ delivered = <<>> /\ open = TRUE

Accept ==
  /\ open
  /\ \E m \in Messages : accepted' = Append(accepted, m)
  /\ UNCHANGED <<delivered, open>>

Deliver ==
  /\ Len(delivered) < Len(accepted)
  /\ delivered' = Append(delivered, accepted[Len(delivered) + 1])
  /\ UNCHANGED <<accepted, open>>

Close == open /\ open' = FALSE /\ UNCHANGED <<accepted, delivered>>

ChannelSpec ==
  ChannelInit /\ [][Accept \/ Deliver \/ Close]_<<accepted, delivered, open>>

=============================================================================
