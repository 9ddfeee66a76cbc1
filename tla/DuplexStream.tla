----------------------------- MODULE DuplexStream -----------------------------
(***************************************************************************)
(* What the tunnel promises to the two programs it joins, an application   *)
(* behind the SOCKS5 client and a target host behind the server: a pair of *)
(* byte streams.  Each end receives a prefix of what the other one sent,   *)
(* in order and without repetition; nothing is delivered once an end has   *)
(* seen its stream finish; and a stream finishes only for a reason: an end *)
(* stopped sending or left, or the tunnel failed.                          *)
(*                                                                         *)
(* It is weaker than `copy_bidirectional`: a stream may finish because the *)
(* OTHER direction did, and what was still on its way is then lost.        *)
(***************************************************************************)
EXTENDS Naturals, Sequences

CONSTANT Ends              \* the two ends of the stream

VARIABLES
  sent,     \* sent[e]:  how many items e has handed over; they are 1, 2, ...
  shut,     \* the ends that will send no more
  got,      \* got[e]:   the items e has received, in order of receipt
  ended,    \* ended[e]: e will receive no more
  fault     \* the tunnel itself has failed

streamVars == <<sent, shut, got, ended, fault>>

Init ==
  /\ sent = [e \in Ends |-> 0]
  /\ shut = {}
  /\ got = [e \in Ends |-> <<>>]
  /\ ended = [e \in Ends |-> FALSE]
  /\ fault = FALSE

Peer(e) == CHOOSE o \in Ends : o # e

Send(e) ==
  /\ e \notin shut
  /\ sent' = [sent EXCEPT ![e] = @ + 1]
  /\ UNCHANGED <<shut, got, ended, fault>>

\* e half-closes: it goes on receiving.
Shut(e) ==
  /\ shut' = shut \cup {e}
  /\ UNCHANGED <<sent, got, ended, fault>>

\* e closes both directions.
Leave(e) ==
  /\ shut' = shut \cup {e}
  /\ ended' = [ended EXCEPT ![e] = TRUE]
  /\ UNCHANGED <<sent, got, fault>>

Deliver(e) ==
  /\ ~ended[e]
  /\ Len(got[e]) < sent[Peer(e)]
  /\ got' = [got EXCEPT ![e] = Append(@, Len(@) + 1)]
  /\ UNCHANGED <<sent, shut, ended, fault>>

End(e) ==
  /\ ~ended[e]
  /\ shut # {} \/ fault
  /\ ended' = [ended EXCEPT ![e] = TRUE]
  /\ UNCHANGED <<sent, shut, got, fault>>

\* The tunnel fails; an end it never opened learns nothing more.
Break ==
  /\ fault' = TRUE
  /\ \E dead \in SUBSET Ends : ended' = [e \in Ends |-> ended[e] \/ e \in dead]
  /\ UNCHANGED <<sent, shut, got>>

Next ==
  \/ Break
  \/ \E e \in Ends : Send(e) \/ Shut(e) \/ Leave(e) \/ Deliver(e) \/ End(e)

SafeSpec == Init /\ [][Next]_streamVars

\* What has been sent is delivered unless the stream ends, and a stream that
\* has a reason to end does end.
Progress == \A e \in Ends : WF_streamVars(Deliver(e) \/ End(e))

FairSpec == SafeSpec /\ Progress
================================================================================
