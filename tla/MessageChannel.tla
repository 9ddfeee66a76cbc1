----------------------------- MODULE MessageChannel -----------------------------
(***************************************************************************)
(* What a relay may take the wire for once FrameLink is under it: whole    *)
(* messages, received in the order in which they were sent, up to the one  *)
(* at which the sender stopped.  GhostTunnel treats its wire so.           *)
(***************************************************************************)
EXTENDS Naturals, Sequences

CONSTANT Messages

VARIABLES
  sent,    \* the messages handed over in full
  got,     \* the messages received
  closed,  \* the sender sends no more
  lossy    \* what it sent may be lost

channelVars == <<sent, got, closed, lossy>>

Init == sent = <<>> /\ got = <<>> /\ closed = FALSE /\ lossy = FALSE

Send ==
  /\ ~closed
  /\ \E m \in Messages : sent' = Append(sent, m)
  /\ UNCHANGED <<got, closed, lossy>>

Receive ==
  /\ Len(got) < Len(sent)
  /\ got' = Append(got, sent[Len(got) + 1])
  /\ UNCHANGED <<sent, closed, lossy>>

Close ==
  /\ ~closed
  /\ closed' = TRUE /\ lossy' \in BOOLEAN
  /\ UNCHANGED <<sent, got>>

Next == Send \/ Receive \/ Close

SafeSpec == Init /\ [][Next]_channelVars

FairSpec == SafeSpec /\ WF_channelVars(~lossy /\ Receive)
================================================================================
