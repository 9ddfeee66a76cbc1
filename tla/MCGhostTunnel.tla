----------------------------- MODULE MCGhostTunnel -----------------------------
EXTENDS GhostTunnel

CONSTANTS MaxApp, MaxTarget

MCMaxSent == [e \in Ends |-> IF e = "app" THEN MaxApp ELSE MaxTarget]
================================================================================
