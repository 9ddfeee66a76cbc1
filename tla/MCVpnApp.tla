-------------------------------- MODULE MCVpnApp --------------------------------
(* VpnApp with its two flows as the callers of the bridge.                  *)
EXTENDS VpnApp
Flows == {"connect", "disconnect"}
================================================================================
