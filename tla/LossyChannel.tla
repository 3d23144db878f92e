------------------------------ MODULE LossyChannel ------------------------------
(***************************************************************************)
(* What the runtime SDK promises of a bot's reports: any of them may be    *)
(* lost, but none is invented, repeated or overtaken.                      *)
(***************************************************************************)
EXTENDS Naturals

VARIABLES
  submitted,  \* number of messages given to the channel
  last        \* number of the last message that came out

Submit == submitted' = submitted + 1 /\ UNCHANGED last

Receive ==
  /\ \E m \in (last + 1) .. submitted : last' = m
  /\ UNCHANGED submitted

ChannelInit == submitted = 0 /\ last = 0
ChannelNext == Submit \/ Receive
ChannelSpec == ChannelInit /\ [][ChannelNext]_<<submitted, last>>

=============================================================================
