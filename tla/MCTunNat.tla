-------------------------------- MODULE MCTunNat --------------------------------
(* TunNat on one flow key; keys never interact but through the queues.      *)
EXTENDS TunNat
MCKeys == {"k"}
Both == {"ok", "fail"}
================================================================================
