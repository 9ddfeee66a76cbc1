-------------------------- MODULE MCProxiedConnection --------------------------
(* One program and one other visitor of the server, which dies once; names   *)
(* at both ends of what the length byte and the buffer allow.                *)
EXTENDS ProxiedConnection
Everybody == {"app", "tun"}
OnlyTun == {"tun"}
Lengths == {1, 254, 255}
TheProxied == {Proxied}
AllModes == {"plain", "reality", "library"}
OnlyPlain == {"plain"}
OnlyReality == {"reality"}

\* Any program over a client without TLS, any client next to a scanner, and any
\* outsider next to a program that does not get as far as the server.
Ordinary(a) == a.ver = 5 /\ a.methods = <<0>> /\ a.cmd = 1 /\ a.addr.type = V4 /\ ~a.eager
Scanner(s) == s.tls /\ s.token = "none" /\ ~s.split /\ ~s.eager
OneOfAKind(a, s) ==
  \/ ~s["o"].tls /\ (~s["p"].tls \/ Ordinary(a))
  \/ Scanner(s["o"]) /\ Ordinary(a)
  \/ a.ver = 4 /\ ~a.eager /\ ~s["p"].tls
AnyScene(a, s) == TRUE
================================================================================
