--------------------------- MODULE ProxiedConnection ---------------------------
(***************************************************************************)
(* A connection of a program from its SOCKS5 greeting to the handler of    *)
(* the server: handle_socks5_client (Socks5Handshake) grants the CONNECT   *)
(* and only then goes to the server (ServerDoor, as its visitor `Proxied`) *)
(* through plain TCP or the TLS of the mask.                               *)
(***************************************************************************)
EXTENDS Socks5Handshake, ServerDoor

CONSTANTS
  Proxied,     \* the proxy's connection to the server
  Scene(_, _)  \* bound on the combinations: of what is asked and how visitors are set up

ASSUME ProxiedAssumption == Clients = {Proxied}

connVars == <<vars, doorVars>>

ConnInit == Init /\ DoorInit /\ Scene(ask, [v \in Visitors |-> visit[v].setup])

\* proxy_through_ghost, called with the grant written.
GoToServer == proxy.pc = "tunnel" /\ Dial(Proxied) /\ UNCHANGED vars

\* Mutant: an answer that is no grant leaves the stream open.
TunnelFailsByItself ==
  TunnelEnds /\ visit[Proxied].at \in {"idle", "failed"} /\ UNCHANGED doorVars

\* The way to the server failed, perhaps before it began (parse_user_id, a server out of
\* reach): handle_socks5_client returns the error, and the program's stream is dropped,
\* although its CONNECT was granted.
TunnelFails ==
  TunnelEnds /\ visit[Proxied].at \in {"idle", "turned", "failed"} /\ UNCHANGED doorVars

ConnNext ==
  \/ Next /\ UNCHANGED doorVars
  \/ GoToServer \/ TunnelFails
  \/ DoorStep /\ UNCHANGED vars

ConnSpec == ConnInit /\ [][ConnNext]_connVars

\* The two sides of the handshake run, the runtime polls what the server has
\* accepted and accepts what it is sent.  No outsider has to do anything, nor has
\* the server to be started again.
ConnFairness ==
  /\ WF_connVars(Program /\ UNCHANGED doorVars) /\ WF_connVars(Proxy /\ UNCHANGED doorVars)
  /\ WF_connVars(GoToServer) /\ WF_connVars(TunnelFails)
  /\ WF_connVars(VisitorStep(Proxied) /\ UNCHANGED vars)
  /\ WF_connVars((Accept(Proxied) \/ TaskStep(Proxied)) /\ UNCHANGED vars)

ConnFairSpec == ConnSpec /\ ConnFairness

\* The inductive invariant: types, and what handshake, key and probe need.
ConnInv == HandInv /\ DoorTypeOK /\ OnlyTheKeyInv /\ ProbeInv

\* Whatever the program asks for, however client and server are set up, whoever
\* else is at the server's door and keeps silent there, and also when the server
\* dies: the program is refused by the proxy and knows it, or the server's handler
\* takes over, or the proxy's way to the server fails and the program, granted or
\* not yet told so, sees its connection end (lib.rs:185).  Nobody waits for ever.
ConnectionSettles ==
  <>[](\/ prog \in {"failed", "gone"} /\ Closed
       \/ prog \in {"failed", "gone", "cut"} /\ proxy.pc = "ended"
       \/ visit[Proxied].task = "served")
================================================================================
