------------------------------- MODULE ServerDoor -------------------------------
(***************************************************************************)
(* The way into ghost-server, from the TCP connect of a visitor until      *)
(* handle_connection has its user id (GhostTunnel goes on from there): the *)
(* accept loop with one task per connection and, in Reality mode, the TLS  *)
(* handshake, the one read of the HTTP request and the answer to it.       *)
(*                                                                         *)
(*     visitor --- in --->  task of the server                             *)
(*             <-- out ---                                                 *)
(*                                                                         *)
(* Visitors are connections of ghost-client (proxy_through_ghost and       *)
(* connect_reality) and of others: browsers, scanners, whoever knows the   *)
(* key, and the client of the ghost-reality library.  An element of `in`   *)
(* is a record of TLS, or what one write puts into a plain connection.     *)
(* The process makes a new certificate at every start; they are numbered   *)
(* by their starts.                                                        *)
(***************************************************************************)
EXTENDS Naturals, Sequences

CONSTANTS
  Clients,    \* the connections of ghost-client
  Outsiders,  \* the other ones
  Modes,      \* the servers looked at: a subset of {"plain", "reality", "library"}
  MaxStarts   \* bound on the starts of the server's process; the last one does not fail

ASSUME DoorAssumption ==
  /\ Clients \cap Outsiders = {}
  /\ Modes \subseteq {"plain", "reality", "library"}
  /\ MaxStarts \in Nat \ {0}

Visitors == Clients \cup Outsiders

VARIABLES
  server,  \* its mode, whether the process runs, how often it has started
  visit    \* each visitor: how it is set up, where it and its task are, in and out

doorVars == <<server, visit>>

\* reality_auth_key of a client: the server's key, text that is not 64 digits, or
\* else the fingerprint of the certificate with that number.
ServersKey == 0
Malformed == MaxStarts + 1

\* `tls` is a mask_domain other than "none".  A ghost-client sends a fixed token, of
\* 36 digits; "other" has 64, like the key.  An outsider may send its request in two
\* records, and with it what would follow the answer.
Of(who, tls, keys, tokens, habits) ==
  [who : {who}, tls : {tls}, key : keys, token : tokens, split : habits, eager : habits]

Setups(v) ==
  IF v \in Clients
  THEN Of("client", FALSE, {ServersKey}, {"none"}, {FALSE})
    \cup Of("client", TRUE, ServersKey .. Malformed, {"fixed"}, {FALSE})
  ELSE Of("outsider", FALSE, {Malformed}, {"none"}, {FALSE})
    \cup Of("outsider", TRUE, {Malformed}, {"none", "other", "key"}, BOOLEAN)
    \cup Of("library", TRUE, {Malformed}, {"key"}, {FALSE})

Visit(s) == [setup |-> s, at |-> "idle", task |-> "none", cert |-> 0, in |-> <<>>, out |-> <<>>]

InWire == {"hello", "finished", "req", "req1", "req2", "uid", "junk"}
OutWire == {"cert", "101", "200", "301"}

VisitRecord ==
  [setup : UNION {Setups(v) : v \in Visitors},
   at : {"idle", "silent", "hello", "request", "answer", "inside", "turned", "failed", "left"},
   task : {"none", "backlog", "tls", "finish", "request", "grant", "turn", "handler",
           "served", "ended"},
   cert : 0 .. MaxStarts, in : Seq(InWire), out : Seq(OutWire)]

DoorTypeOK ==
  /\ server \in [mode : Modes, up : BOOLEAN, starts : 1 .. MaxStarts]
  /\ visit \in [Visitors -> VisitRecord]
  /\ \A v \in Visitors : visit[v].setup \in Setups(v) /\ visit[v].cert <= server.starts

DoorInit ==
  /\ server \in [mode : Modes, up : {TRUE}, starts : {1}]
  /\ visit \in [Visitors -> UNION {{Visit(s) : s \in Setups(v)} : v \in Visitors}]
  /\ \A v \in Visitors : visit[v].setup \in Setups(v)

Becomes(v, x) == visit' = [visit EXCEPT ![v] = x] /\ UNCHANGED server

--------------------------------------------------------------------------------
(* The visitor.                                                            *)

Opening(s) == <<IF s.tls THEN "hello" ELSE IF s.who = "client" THEN "uid" ELSE "junk">>

\* A client without TLS goes straight on to the tunnel, whose first bytes are the
\* user id; a malformed key is found out after the connect.
Dial(v) ==
  LET x == visit[v] IN
    /\ x.at = "idle"
    /\ \/ ~server.up /\ Becomes(v, [x EXCEPT !.at = "failed"])
       \/ /\ server.up /\ v \in Clients /\ x.setup.tls /\ x.setup.key = Malformed
          /\ Becomes(v, [x EXCEPT !.at = "failed", !.task = "backlog"])
       \/ /\ server.up /\ (v \in Clients /\ x.setup.tls => x.setup.key # Malformed)
          /\ Becomes(v, [x EXCEPT !.task = "backlog", !.in = Opening(x.setup),
               !.at = IF x.setup.tls THEN "hello" ELSE IF v \in Clients THEN "inside" ELSE "answer"])
       \/ /\ server.up /\ v \in Outsiders
          /\ Becomes(v, [x EXCEPT !.at = "silent", !.task = "backlog"])

\* FingerprintVerifier; outsiders take any certificate.
Trusts(s, cert) == s.who = "client" => s.key = cert

CheckCert(v) ==
  LET x == visit[v] IN
    /\ x.at = "hello" /\ x.out # <<>> /\ x.setup.who # "library"
    /\ Becomes(v, IF Trusts(x.setup, x.cert)
                  THEN [x EXCEPT !.at = "request", !.out = Tail(@), !.in = Append(@, "finished")]
                  ELSE [x EXCEPT !.at = "failed"])

\* The library's client asks the roots of the web, which no self-signed certificate has.
LibraryRefuses(v) ==
  /\ visit[v].at = "hello" /\ visit[v].out # <<>> /\ visit[v].setup.who = "library"
  /\ Becomes(v, [visit[v] EXCEPT !.at = "failed"])

Upgrade(s) ==
  (IF s.split THEN <<"req1", "req2">> ELSE <<"req">>) \o (IF s.eager THEN <<"uid">> ELSE <<>>)

SendRequest(v) ==
  LET x == visit[v] IN
    /\ x.at = "request"
    /\ Becomes(v, [x EXCEPT !.at = "answer", !.in = @ \o Upgrade(x.setup)])

Accepts(answer) == answer \in {"101", "200"}

ReadAnswer(v) ==
  LET x == visit[v] IN
    /\ x.at = "answer" /\ x.out # <<>>
    /\ Becomes(v, IF ~Accepts(Head(x.out)) THEN [x EXCEPT !.at = "turned", !.out = Tail(@)]
                  ELSE [x EXCEPT !.at = "inside", !.out = Tail(@),
                                 !.in = IF x.setup.eager THEN @ ELSE Append(@, "uid")])

\* End of stream, once what came before is read, or a reset: a socket that is
\* closed with unread bytes resets the connection, and the answer may be lost.
SeesEnd(v) ==
  LET x == visit[v] IN
    /\ x.task = "ended" /\ x.at \in {"hello", "request", "answer", "inside"}
    /\ x.out = <<>> \/ x.in # <<>>
    /\ Becomes(v, [x EXCEPT !.at = "failed", !.in = <<>>, !.out = <<>>])

Leaves(v) ==
  /\ v \in Outsiders /\ visit[v].at \in {"silent", "hello", "request", "answer", "inside"}
  /\ Becomes(v, [visit[v] EXCEPT !.at = "left"])

--------------------------------------------------------------------------------
(* The server: its process, its accept loop and the task of a connection.  *)

\* Mutant: the loop does the handshake itself.
AcceptInTurn(v) ==
  /\ server.up /\ visit[v].task = "backlog"
  /\ \A w \in Visitors : visit[w].task \notin {"tls", "finish"}
  /\ Becomes(v, [visit[v] EXCEPT !.task = IF server.mode = "plain" THEN "handler" ELSE "tls"])

Accept(v) ==
  /\ server.up /\ visit[v].task = "backlog"
  /\ Becomes(v, [visit[v] EXCEPT !.task = IF server.mode = "plain" THEN "handler" ELSE "tls"])

\* `accept().await?` leaves the loop and main; the runtime drops all the tasks.
AcceptFails ==
  /\ server.up /\ server.starts < MaxStarts
  /\ server' = [server EXCEPT !.up = FALSE]
  /\ visit' = [v \in Visitors |->
       IF visit[v].task = "none" THEN visit[v] ELSE [visit[v] EXCEPT !.task = "ended"]]

\* systemd starts it again, with a new key pair and certificate.
Restart ==
  /\ ~server.up
  /\ server' = [server EXCEPT !.up = TRUE, !.starts = @ + 1]
  /\ UNCHANGED visit

\* acceptor.accept: the certificate of this start for a ClientHello, or an error.
TlsAccept(v) ==
  LET x == visit[v] IN
    /\ x.task = "tls" /\ x.in # <<>>
    /\ Becomes(v, IF Head(x.in) = "hello"
                  THEN [x EXCEPT !.task = "finish", !.in = Tail(@), !.cert = server.starts,
                                 !.out = <<"cert">>]
                  ELSE [x EXCEPT !.task = "ended"])

TlsAccepted(v) ==
  LET x == visit[v] IN
    /\ x.task = "finish" /\ x.in # <<>>
    /\ Becomes(v, [x EXCEPT !.task = "request", !.in = Tail(@)])

\* Mutant: looks at no more than the length.
DetectLength(b, token) ==
  ("req" \in b \/ {"req1", "req2"} \subseteq b) /\ token \in {"other", "key"}

\* b holds the records that were read.
detect_ghost_auth(b, token) == ("req" \in b \/ {"req1", "req2"} \subseteq b) /\ token = "key"

\* One read: what has arrived, if it is only a part of the request, is all it sees.
ReadUpgrade(v) ==
  LET x == visit[v] IN
    /\ x.task = "request"
    /\ \E n \in 1 .. Len(x.in) :
         Becomes(v, [x EXCEPT
           !.task = IF detect_ghost_auth({x.in[i] : i \in 1 .. n}, x.setup.token)
                    THEN "grant" ELSE "turn",
           !.in = SubSeq(@, n + 1, Len(@))])

\* Mutant: the task of a visitor without the token just ends.
TurnAwaySilently(v) ==
  visit[v].task = "turn" /\ Becomes(v, [visit[v] EXCEPT !.task = "ended"])

TurnAway(v) ==
  /\ visit[v].task = "turn"
  /\ Becomes(v, [visit[v] EXCEPT !.task = "ended", !.out = Append(@, "301")])

Grant(v) ==
  /\ server.mode = "reality" /\ visit[v].task = "grant"
  /\ Becomes(v, [visit[v] EXCEPT !.task = "handler", !.out = Append(@, "101")])

\* The library's server has no handler: its task ends with the answer.
LibraryGrants(v) ==
  /\ server.mode = "library" /\ visit[v].task = "grant"
  /\ Becomes(v, [visit[v] EXCEPT !.task = "ended", !.out = Append(@, "200")])

\* 16 bytes are read and looked up.
ReadUserId(v) ==
  LET x == visit[v] IN
    /\ x.task = "handler" /\ x.in # <<>>
    /\ Becomes(v, [x EXCEPT !.in = Tail(@), !.task = IF Head(x.in) = "uid" THEN "served" ELSE "ended"])

\* The visitor has closed: a read finds the end, or a write fails.
TaskSeesEnd(v) ==
  /\ visit[v].at \in {"failed", "turned", "left"}
  /\ visit[v].task \in {"tls", "finish", "request", "grant", "turn", "handler", "served"}
  /\ Becomes(v, [visit[v] EXCEPT !.task = "ended", !.in = <<>>, !.out = <<>>])

--------------------------------------------------------------------------------
VisitorStep(v) ==
  CheckCert(v) \/ LibraryRefuses(v) \/ SendRequest(v) \/ ReadAnswer(v) \/ SeesEnd(v)

TaskStep(v) ==
  \/ TlsAccept(v) \/ TlsAccepted(v) \/ ReadUpgrade(v) \/ TurnAway(v)
  \/ Grant(v) \/ LibraryGrants(v) \/ ReadUserId(v) \/ TaskSeesEnd(v)

\* All but the connect of a client.
DoorStep ==
  \/ \E v \in Visitors : VisitorStep(v) \/ Accept(v) \/ TaskStep(v)
  \/ \E v \in Outsiders : Dial(v) \/ Leaves(v)
  \/ AcceptFails \/ Restart

--------------------------------------------------------------------------------
(* Properties.                                                             *)

\* Behind the mask nobody is let in, nor made to believe so, without the key
\* (README.md:26): not by another token, not by the half of a request, and not
\* by what a client takes for a grant.
OnlyTheKeyOpens ==
  server.mode # "plain" => \A v \in Visitors :
    \/ visit[v].task \in {"grant", "handler", "served"}
    \/ visit[v].setup.tls /\ visit[v].at = "inside"
    => visit[v].setup.token = "key"

\* What makes OnlyTheKeyOpens inductive: a grant on its way is for the key as well.
\* The process that is down starts again.
OnlyTheKeyInv ==
  /\ server.up \/ server.starts < MaxStarts
  /\ server.mode # "plain" => \A v \in Visitors :
       \/ visit[v].task \in {"grant", "handler", "served"}
       \/ visit[v].setup.tls /\ visit[v].at = "inside"
       \/ \E i \in 1 .. Len(visit[v].out) : Accepts(visit[v].out[i])
       => visit[v].setup.token = "key"

\* A prober that completes TLS, sends its request in one piece, waits and stays gets
\* the redirect of the mask unless the process died (README.md:26).  One in two
\* records may be reset instead, since the rest of it is never read.
ProbeIsAnswered ==
  server.mode # "plain" => \A v \in Outsiders :
    LET x == visit[v] IN
      /\ x.at = "failed" /\ x.setup.tls /\ x.setup.token # "key"
      /\ ~x.setup.split /\ ~x.setup.eager
      =>
        ~server.up \/ server.starts > 1

\* The prober and its task, step by step.
Probing(x) ==
  \/ x.at \in {"left", "turned"}
  \/ x.at = "idle" /\ x.task = "none" /\ x.in = <<>> /\ x.out = <<>>
  \/ x.at = "silent" /\ x.task \in {"backlog", "tls"} /\ x.in = <<>> /\ x.out = <<>>
  \/ x.at = "hello" /\ x.task \in {"backlog", "tls"} /\ x.in = <<"hello">> /\ x.out = <<>>
  \/ x.at = "hello" /\ x.task = "finish" /\ x.in = <<>> /\ x.out = <<"cert">>
  \/ x.at = "request" /\ x.task = "finish" /\ x.in = <<"finished">> /\ x.out = <<>>
  \/ x.at = "answer" /\ x.task = "finish" /\ x.in = <<"finished", "req">> /\ x.out = <<>>
  \/ x.at = "request" /\ x.task = "request" /\ x.in = <<>> /\ x.out = <<>>
  \/ x.at = "answer" /\ x.task = "request" /\ x.in = <<"req">> /\ x.out = <<>>
  \/ x.at = "answer" /\ x.task = "turn" /\ x.in = <<>> /\ x.out = <<>>
  \/ x.at = "answer" /\ x.task = "ended" /\ x.in = <<>> /\ x.out = <<"301">>

Prober(v) ==
  LET s == visit[v].setup IN
    v \in Outsiders /\ s.tls /\ s.token # "key" /\ ~s.split /\ ~s.eager

\* What makes ProbeIsAnswered inductive.
ProbeInv ==
  server.mode # "plain" /\ server.up /\ server.starts = 1 =>
    \A v \in Visitors : Prober(v) => Probing(visit[v])

\* A client set up as the README says, with the server's key as its own
\* (README.md:137), is not turned away by a server that runs.
KeyedClientIsLetIn ==
  server.mode = "reality" /\ server.up /\ server.starts = 1 => \A v \in Clients :
    LET x == visit[v] IN
      x.setup.who = "client" /\ x.setup.tls /\ x.setup.key = ServersKey =>
        x.at \notin {"turned", "failed"}
================================================================================
