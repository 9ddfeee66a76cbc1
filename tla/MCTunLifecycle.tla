----------------------------- MODULE MCTunLifecycle -----------------------------
(* TunLifecycle with the numbers that are free when the VPN starts.         *)
EXTENDS TunLifecycle
MCNumbers == 1 .. 2
================================================================================
