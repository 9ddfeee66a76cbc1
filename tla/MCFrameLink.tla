------------------------------ MODULE MCFrameLink ------------------------------
(* FrameLink with octets of eight values, so that lengths need both of theirs. *)
EXTENDS FrameLink
MCUserId == <<5>>
MCHosts ==
  {[type |-> 1, host |-> <<1, 0, 0, 1>>, port |-> <<0, 3>>],
   [type |-> 3, host |-> Repeat(3, 7), port |-> <<1, 0>>],
   [type |-> 4, host |-> Repeat(0, 16), port |-> <<0, 3>>]}
================================================================================
