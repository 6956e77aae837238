------------------------------- MODULE Channel -------------------------------
(***************************************************************************)
(* What the bus promises the two ends of it (src/bus.rs): a queue of a     *)
(* fixed size between the producers and the one consumer. A message that   *)
(* finds no room is lost and one that is accepted comes out, in order,     *)
(* unless the consumer goes first.                                         *)
(***************************************************************************)
EXTENDS Naturals, Sequences

CONSTANTS
  Message,   \* what can be sent
  Capacity   \* slots in the queue

VARIABLES
  queue,   \* accepted and not yet delivered
  got,     \* delivered, oldest first
  open     \* the consumer is there

channelVars == <<queue, got, open>>

ChannelInit == queue = <<>> /\ got = <<>> /\ open = TRUE

Accept(m) ==
  /\ open
  /\ Len(queue) < Capacity
  /\ queue' = Append(queue, m)
  /\ UNCHANGED <<got, open>>

Deliver ==
  /\ queue # <<>>
  /\ got' = Append(got, Head(queue))
  /\ queue' = Tail(queue)
  /\ UNCHANGED open

Shut ==
  /\ open
  /\ open' = FALSE
  /\ queue' = <<>>
  /\ UNCHANGED got

ChannelNext == (\E m \in Message : Accept(m)) \/ Deliver \/ Shut

ChannelSafety == ChannelInit /\ [][ChannelNext]_channelVars

\* The consumer needs no reason to look: what waits is delivered.
ChannelSpec == ChannelSafety /\ WF_channelVars(Deliver)

=============================================================================
