----------------------------- MODULE MCProxyBridge -----------------------------
(* ProxyBridge for one thread, as the Dart service uses it, and for two.    *)
EXTENDS ProxyBridge
One == {"c"}
Two == {"c", "d"}
================================================================================
