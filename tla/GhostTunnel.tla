------------------------------ MODULE GhostTunnel ------------------------------
(***************************************************************************)
(* One tunnel of the Ghost protocol, from the moment the SOCKS5 handshake  *)
(* is over:                                                                *)
(*                                                                         *)
(*     app <--ac--> client <---cs---> server <--st--> target               *)
(*                                                                         *)
(* `client` is proxy_through_ghost (ghost-client/src/tunnel.rs), `server`  *)
(* is handle_connection (ghost-server/src/handler.rs).  Both relays run    *)
(* the same two loops under one `select!`: the SEAL loop reads plain bytes *)
(* and writes a length header and an encrypted frame, the OPEN loop reads  *)
(* header and frame and writes the payload.  The first loop to end drops   *)
(* the other one at whatever await it is in, and closes both sockets.      *)
(*                                                                         *)
(* The three TCP connections are six bounded FIFO channels.  A token of a  *)
(* plain channel is what one `read` returns; a token of the wire is one    *)
(* `write_all`: the user id, a length header or an encrypted frame.        *)
(***************************************************************************)
EXTENDS Naturals, Sequences

CONSTANTS
  Users,          \* user ids a client can be configured with
  AllowedUsers,   \* the server's allowed_users
  MaxSent,        \* MaxSent[e]: bound on the items that end e sends
  Cap             \* bound on the tokens buffered in one channel

Relays == {"client", "server"}
Ends == {"app", "target"}
Wire == {"client_server", "server_client"}
Plain == {"app_client", "client_app", "server_target", "target_server"}
Channels == Wire \cup Plain
Conns == {"ac", "cs", "st"}

ASSUME ConfigAssumption ==
  /\ AllowedUsers \subseteq Users
  /\ MaxSent \in [Ends -> Nat]
  /\ Cap \in Nat \ {0}

\* The sockets: which channel a relay or an end reads or writes.
PlainIn(r) == IF r = "client" THEN "app_client" ELSE "target_server"
PlainOut(r) == IF r = "client" THEN "client_app" ELSE "server_target"
WireIn(r) == IF r = "client" THEN "server_client" ELSE "client_server"
WireOut(r) == IF r = "client" THEN "client_server" ELSE "server_client"
In(e) == IF e = "app" THEN "client_app" ELSE "server_target"
Out(e) == IF e = "app" THEN "app_client" ELSE "target_server"
Other(e) == IF e = "app" THEN "target" ELSE "app"

Conn(c) ==
  IF c \in Wire THEN "cs" ELSE IF c \in {"app_client", "client_app"} THEN "ac" ELSE "st"

Reverse(c) ==
  CASE c = "app_client" -> "client_app"
    [] c = "client_app" -> "app_client"
    [] c = "client_server" -> "server_client"
    [] c = "server_client" -> "client_server"
    [] c = "server_target" -> "target_server"
    [] c = "target_server" -> "server_target"

\* Item 0 is the init frame, which carries the target and no payload.
Token == [kind : {"data", "uid", "hdr", "body"}, item : Nat]
Tok(k, n) == [kind |-> k, item |-> n]

VARIABLES
  q,        \* q[c]:    tokens written to channel c and not read yet
  rd, wr,   \* rd[c], wr[c]: how many tokens were ever read from, written to c
  fin,      \* fin[c]:  the writer of c has shut it down or closed the socket
  gone,     \* gone[c]: the reader of c has closed the socket
  rst,      \* rst[k]:  connection k was reset
  phase,    \* phase[r]: how far relay r has come
  seal,     \* seal[r]: where the plain-to-wire loop of r is, and the item it holds
  opn,      \* opn[r]:  where the wire-to-plain loop of r is, and the item it holds
  peer,     \* peer[e]: what end e knows of its connection
  got,      \* got[e]:  the items end e has received
  user,     \* the user id this client sends
  fault     \* history: the tunnel failed by itself (refused, unreachable, crashed)

tcp == <<q, rd, wr, fin, gone, rst>>
vars == <<q, rd, wr, fin, gone, rst, phase, seal, opn, peer, got, user, fault>>

SealPcs == {"read", "hdr", "body"}
OpenPcs == {"len", "frame", "write", "bad"}
ClientPhases == {"connect", "uid", "init", "relay", "closed"}
ServerPhases == {"none", "uid", "refuse", "init", "dial", "relay", "closed"}

TypeOK ==
  /\ q \in [Channels -> Seq(Token)]
  /\ rd \in [Channels -> Nat]
  /\ wr \in [Channels -> Nat]
  /\ fin \in [Channels -> BOOLEAN]
  /\ gone \in [Channels -> BOOLEAN]
  /\ rst \in [Conns -> BOOLEAN]
  /\ phase \in [Relays -> ClientPhases \cup ServerPhases]
  /\ phase["client"] \in ClientPhases /\ phase["server"] \in ServerPhases
  /\ seal \in [Relays -> [pc : SealPcs, item : Nat]]
  /\ opn \in [Relays -> [pc : OpenPcs, item : Nat]]
  /\ peer \in [Ends -> {"none", "open", "eof", "err", "closed"}]
  /\ got \in [Ends -> Seq(Nat)]
  /\ user \in Users
  /\ fault \in BOOLEAN

\* The SOCKS5 success reply has been sent (client lib.rs:181), so the app may
\* already talk; the client is about to connect; its seal loop starts with the
\* init frame in hand.
Init ==
  /\ q = [c \in Channels |-> <<>>]
  /\ rd = [c \in Channels |-> 0]
  /\ wr = [c \in Channels |-> 0]
  /\ fin = [c \in Channels |-> FALSE]
  /\ gone = [c \in Channels |-> FALSE]
  /\ rst = [k \in Conns |-> FALSE]
  /\ phase = [r \in Relays |-> IF r = "client" THEN "connect" ELSE "none"]
  /\ seal = [r \in Relays |-> [pc |-> IF r = "client" THEN "hdr" ELSE "read", item |-> 0]]
  /\ opn = [r \in Relays |-> [pc |-> "len", item |-> 0]]
  /\ peer = [e \in Ends |-> IF e = "app" THEN "open" ELSE "none"]
  /\ got = [e \in Ends |-> <<>>]
  /\ user \in Users
  /\ fault = FALSE

--------------------------------------------------------------------------------
(* TCP: what the kernel does for the sockets.                              *)

CanTake(c) == q[c] # <<>>

Take(c) ==
  /\ q' = [q EXCEPT ![c] = Tail(@)]
  /\ rd' = [rd EXCEPT ![c] = @ + 1]
  /\ UNCHANGED <<wr, fin, gone, rst>>

\* A write blocks while the channel is full and fails once it was reset.  The
\* kernel accepts data for a peer that has already closed.
CanPut(c) == ~rst[Conn(c)] /\ Len(q[c]) < Cap

Put(c, t) ==
  /\ q' = [q EXCEPT ![c] = Append(@, t)]
  /\ wr' = [wr EXCEPT ![c] = @ + 1]
  /\ UNCHANGED <<rd, fin, gone, rst>>

\* A read finds the stream at its end, or the connection reset.
Ended(c) == q[c] = <<>> /\ (fin[c] \/ rst[Conn(c)])

\* Data that reaches, or lies unread at, a closed socket resets the connection.
\* What was on its way in the other direction may be cut short.
Reset(c) ==
  /\ gone[c] /\ q[c] # <<>> /\ ~rst[Conn(c)]
  /\ rst' = [rst EXCEPT ![Conn(c)] = TRUE]
  /\ \E n \in 0 .. Len(q[Reverse(c)]) :
       q' = [q EXCEPT ![c] = <<>>, ![Reverse(c)] = SubSeq(@, 1, n)]
  /\ UNCHANGED <<rd, wr, fin, gone, phase, seal, opn, peer, got, user, fault>>

--------------------------------------------------------------------------------
(* A relay: setting up, sealing, opening, and ending.                      *)

\* The relay function returns and both its sockets are dropped.
Close(r) ==
  /\ phase' = [phase EXCEPT ![r] = "closed"]
  /\ fin' = [c \in Channels |-> fin[c] \/ c \in {PlainOut(r), WireOut(r)}]
  /\ gone' = [c \in Channels |-> gone[c] \/ c \in {PlainIn(r), WireIn(r)}]
  /\ UNCHANGED <<q, rd, wr, rst, seal, opn, peer, got, user>>

\* proxy_through_ghost connects; the server's accept loop spawns a handler.
ClientConnect ==
  /\ phase["client"] = "connect"
  /\ phase' = [phase EXCEPT !["client"] = "uid", !["server"] = "uid"]
  /\ UNCHANGED <<tcp, seal, opn, peer, got, user, fault>>

ClientConnectFails ==
  /\ phase["client"] = "connect"
  /\ Close("client") /\ fault' = TRUE

ClientSendUser ==
  /\ phase["client"] = "uid" /\ CanPut("client_server")
  /\ Put("client_server", Tok("uid", 0))
  /\ phase' = [phase EXCEPT !["client"] = "init"]
  /\ UNCHANGED <<seal, opn, peer, got, user, fault>>

\* Variant: the user id is read and not looked up.
ServerReadUserUnchecked ==
  /\ phase["server"] = "uid" /\ CanTake("client_server")
  /\ Take("client_server")
  /\ phase' = [phase EXCEPT !["server"] = "init"]
  /\ UNCHANGED <<seal, opn, peer, got, user, fault>>

\* handle_connection reads the user id and looks it up before decrypting.
ServerReadUser ==
  /\ phase["server"] = "uid" /\ CanTake("client_server")
  /\ Take("client_server")
  /\ phase' = [phase EXCEPT !["server"] =
       IF Head(q["client_server"]).kind = "uid" /\ user \in AllowedUsers
       THEN "init" ELSE "refuse"]
  /\ UNCHANGED <<seal, opn, peer, got, user, fault>>

ServerRefuse ==
  /\ phase["server"] = "refuse"
  /\ Close("server") /\ fault' = TRUE

ServerDial ==
  /\ phase["server"] = "dial"
  /\ phase' = [phase EXCEPT !["server"] = "relay"]
  /\ peer' = [peer EXCEPT !["target"] = "open"]
  /\ UNCHANGED <<tcp, seal, opn, got, user, fault>>

ServerDialFails ==
  /\ phase["server"] = "dial"
  /\ Close("server") /\ fault' = TRUE

\* `write_all(&user_id).await?` and `read_exact(&mut user_id).await?` fail.
UserIdFails(r) ==
  /\ phase[r] = "uid"
  /\ IF r = "client" THEN rst["cs"] ELSE Ended("client_server")
  /\ Close(r) /\ UNCHANGED fault

Setup ==
  \/ ClientConnect \/ ClientConnectFails \/ ClientSendUser
  \/ ServerReadUser \/ ServerRefuse \/ ServerDial \/ ServerDialFails
  \/ \E r \in Relays : UserIdFails(r)

--------------------------------------------------------------------------------
(* The seal loop: upload of the client, download of the server.            *)

SealRead(r) ==
  /\ phase[r] = "relay" /\ seal[r].pc = "read" /\ CanTake(PlainIn(r))
  /\ Take(PlainIn(r))
  /\ seal' = [seal EXCEPT ![r] = [pc |-> "hdr", item |-> Head(q[PlainIn(r)]).item]]
  /\ UNCHANGED <<phase, opn, peer, got, user, fault>>

SealHeader(r) ==
  /\ phase[r] \in {"init", "relay"} /\ seal[r].pc = "hdr" /\ CanPut(WireOut(r))
  /\ Put(WireOut(r), Tok("hdr", seal[r].item))
  /\ seal' = [seal EXCEPT ![r].pc = "body"]
  /\ UNCHANGED <<phase, opn, peer, got, user, fault>>

\* Variant: `write` where the code has `write_all`; a full buffer drops the frame.
SealBodyShort(r) ==
  /\ phase[r] \in {"init", "relay"} /\ seal[r].pc = "body" /\ ~rst["cs"]
  /\ IF CanPut(WireOut(r)) THEN Put(WireOut(r), Tok("body", seal[r].item))
                           ELSE UNCHANGED tcp
  /\ seal' = [seal EXCEPT ![r].pc = "read"]
  /\ phase' = [phase EXCEPT ![r] = "relay"]
  /\ UNCHANGED <<opn, peer, got, user, fault>>

\* The init frame written, the client starts both loops.
SealBody(r) ==
  /\ phase[r] \in {"init", "relay"} /\ seal[r].pc = "body" /\ CanPut(WireOut(r))
  /\ Put(WireOut(r), Tok("body", seal[r].item))
  /\ seal' = [seal EXCEPT ![r].pc = "read"]
  /\ phase' = [phase EXCEPT ![r] = "relay"]
  /\ UNCHANGED <<opn, peer, got, user, fault>>

\* Variant: the loop ends at the FIN, before it has read what precedes it.
SealEndsEarly(r) ==
  \/ phase[r] = "relay" /\ seal[r].pc = "read" /\ fin[PlainIn(r)]
  \/ phase[r] \in {"init", "relay"} /\ seal[r].pc \in {"hdr", "body"} /\ rst["cs"]

\* Variant: `Ok(0)` does not break the loop.
SealEndsNotAtEof(r) ==
  phase[r] \in {"init", "relay"} /\ seal[r].pc \in {"hdr", "body"} /\ rst["cs"]

\* End of stream or read error; write error.
SealEnds(r) ==
  \/ phase[r] = "relay" /\ seal[r].pc = "read" /\ Ended(PlainIn(r))
  \/ phase[r] \in {"init", "relay"} /\ seal[r].pc \in {"hdr", "body"} /\ rst["cs"]

SealEnd(r) == SealEnds(r) /\ Close(r) /\ UNCHANGED fault

--------------------------------------------------------------------------------
(* The open loop: download of the client, upload of the server.            *)

\* The server reads the init frame with the same three steps, before it dials.
Opening(r) == phase[r] = "relay" \/ (r = "server" /\ phase[r] = "init")

\* The two bytes read are a length only if the stream is at a frame boundary.
OpenLength(r) ==
  /\ Opening(r) /\ opn[r].pc = "len" /\ CanTake(WireIn(r))
  /\ Take(WireIn(r))
  /\ LET t == Head(q[WireIn(r)]) IN
       opn' = [opn EXCEPT ![r] =
                 [pc |-> IF t.kind = "hdr" THEN "frame" ELSE "bad", item |-> t.item]]
  /\ UNCHANGED <<phase, seal, peer, got, user, fault>>

\* read_exact, decrypt, decode.  The bytes decrypt only if they are the frame
\* whose length was read.  The init frame makes the server dial the target.
OpenFrame(r) ==
  /\ Opening(r) /\ opn[r].pc = "frame" /\ CanTake(WireIn(r))
  /\ Take(WireIn(r))
  /\ LET valid == Head(q[WireIn(r)]) = Tok("body", opn[r].item) IN
       /\ opn' = [opn EXCEPT ![r].pc =
                    IF ~valid THEN "bad" ELSE IF phase[r] = "init" THEN "len" ELSE "write"]
       /\ phase' = [phase EXCEPT ![r] = IF valid /\ @ = "init" THEN "dial" ELSE @]
  /\ UNCHANGED <<seal, peer, got, user, fault>>

\* Variant: after the write the loop does not go back to the next length.
OpenWriteTwice(r) ==
  /\ phase[r] = "relay" /\ opn[r].pc = "write" /\ CanPut(PlainOut(r))
  /\ Put(PlainOut(r), Tok("data", opn[r].item))
  /\ UNCHANGED <<phase, seal, opn, peer, got, user, fault>>

\* Variant: a payload that does not fit the socket buffer is dropped.
OpenWriteLossy(r) ==
  /\ phase[r] = "relay" /\ opn[r].pc = "write" /\ ~rst[Conn(PlainOut(r))]
  /\ IF CanPut(PlainOut(r)) THEN Put(PlainOut(r), Tok("data", opn[r].item))
                            ELSE UNCHANGED tcp
  /\ opn' = [opn EXCEPT ![r].pc = "len"]
  /\ UNCHANGED <<phase, seal, peer, got, user, fault>>

OpenWrite(r) ==
  /\ phase[r] = "relay" /\ opn[r].pc = "write" /\ CanPut(PlainOut(r))
  /\ Put(PlainOut(r), Tok("data", opn[r].item))
  /\ opn' = [opn EXCEPT ![r].pc = "len"]
  /\ UNCHANGED <<phase, seal, peer, got, user, fault>>

\* Variant: UnexpectedEof does not break the loop.
OpenEndsNotAtEof(r) ==
  \/ Opening(r) /\ opn[r].pc = "bad"
  \/ phase[r] = "relay" /\ opn[r].pc = "write" /\ rst[Conn(PlainOut(r))]

\* End of stream, possibly inside a frame; decode error; write error.
OpenEnds(r) ==
  \/ Opening(r) /\ opn[r].pc \in {"len", "frame"} /\ Ended(WireIn(r))
  \/ Opening(r) /\ opn[r].pc = "bad"
  \/ phase[r] = "relay" /\ opn[r].pc = "write" /\ rst[Conn(PlainOut(r))]

OpenEnd(r) == OpenEnds(r) /\ Close(r) /\ UNCHANGED fault

SealLoop(r) == SealRead(r) \/ SealHeader(r) \/ SealBody(r) \/ SealEnd(r)
OpenLoop(r) == OpenLength(r) \/ OpenFrame(r) \/ OpenWrite(r) \/ OpenEnd(r)

\* The four loops by the names they have in the code.
ClientUpload == SealLoop("client")
ClientDownload == OpenLoop("client")
ServerUpload == OpenLoop("server")
ServerDownload == SealLoop("server")

\* The process dies; its kernel closes its sockets.
Crash(r) ==
  /\ phase[r] \notin {"none", "closed"}
  /\ Close(r) /\ fault' = TRUE

--------------------------------------------------------------------------------
(* The two ends: any program that uses a TCP socket.                       *)

Up(e) == peer[e] \in {"open", "eof"}

PeerSend(e) ==
  /\ Up(e) /\ ~fin[Out(e)] /\ wr[Out(e)] < MaxSent[e] /\ CanPut(Out(e))
  /\ Put(Out(e), Tok("data", wr[Out(e)] + 1))
  /\ UNCHANGED <<phase, seal, opn, peer, got, user, fault>>

\* shutdown(SHUT_WR): the end goes on reading.
PeerShut(e) ==
  /\ Up(e) /\ ~fin[Out(e)]
  /\ fin' = [fin EXCEPT ![Out(e)] = TRUE]
  /\ UNCHANGED <<q, rd, wr, gone, rst, phase, seal, opn, peer, got, user, fault>>

PeerReceive(e) ==
  /\ peer[e] = "open" /\ CanTake(In(e))
  /\ Take(In(e))
  /\ got' = [got EXCEPT ![e] = Append(@, Head(q[In(e)]).item)]
  /\ UNCHANGED <<phase, seal, opn, peer, user, fault>>

PeerSeeEnd(e) ==
  /\ peer[e] = "open" /\ Ended(In(e))
  /\ peer' = [peer EXCEPT ![e] = IF rst[Conn(In(e))] THEN "err" ELSE "eof"]
  /\ UNCHANGED <<tcp, phase, seal, opn, got, user, fault>>

PeerClose(e) ==
  /\ peer[e] \in {"open", "eof", "err"}
  /\ peer' = [peer EXCEPT ![e] = "closed"]
  /\ fin' = [fin EXCEPT ![Out(e)] = TRUE]
  /\ gone' = [gone EXCEPT ![In(e)] = TRUE]
  /\ UNCHANGED <<q, rd, wr, rst, phase, seal, opn, got, user, fault>>

--------------------------------------------------------------------------------
Next ==
  \/ Setup
  \/ ClientUpload \/ ClientDownload \/ ServerUpload \/ ServerDownload
  \/ \E r \in Relays : Crash(r)
  \/ \E c \in Channels : Reset(c)
  \/ \E e \in Ends :
       PeerSend(e) \/ PeerShut(e) \/ PeerReceive(e) \/ PeerSeeEnd(e) \/ PeerClose(e)

Spec == Init /\ [][Next]_vars

\* Both futures of a select! are polled and no loop awaits while it could go
\* on; the kernel delivers; the two ends read what arrives.  Nobody has to
\* send, to shut down, to close or to crash.
Fairness ==
  /\ WF_vars(Setup)
  /\ WF_vars(ClientUpload) /\ WF_vars(ClientDownload)
  /\ WF_vars(ServerUpload) /\ WF_vars(ServerDownload)
  /\ \A c \in Channels : WF_vars(Reset(c))
  /\ \A e \in Ends : WF_vars(PeerReceive(e) \/ PeerSeeEnd(e))

FairSpec == Spec /\ Fairness

--------------------------------------------------------------------------------
(* The inductive invariant behind in-order delivery: what a token is       *)
(* follows from its position in its stream.  In a plain channel item n is  *)
(* the n-th token.  On the wire header and frame of item n follow Lead     *)
(* tokens of preamble and the frames of the items before.                  *)

\* Client to server: the user id and the two tokens of the init frame.
Lead(c) == IF c = "client_server" THEN 3 ELSE 0

IsAt(c, t, n) ==
  IF c \in Plain THEN t.kind = "data" /\ t.item = n
  ELSE \/ t.kind = "uid" /\ c = "client_server" /\ n = 1
       \/ t.kind = "hdr" /\ n + 1 = Lead(c) + 2 * t.item
       \/ t.kind = "body" /\ n = Lead(c) + 2 * t.item

\* A channel holds consecutive positions from rd + 1 on, up to wr until a
\* reset cuts it short.
ChannelInv ==
  \A c \in Channels :
    /\ rd[c] + Len(q[c]) <= wr[c]
    /\ rst[Conn(c)] \/ rd[c] + Len(q[c]) = wr[c]
    /\ \A i \in 1 .. Len(q[c]) : IsAt(c, q[c][i], rd[c] + i)

\* The seal loop s has written n tokens, l of them preamble: all of the items it
\* has read, but for what it still owes of the one it holds.
SealInStep(s, n, l) ==
  \/ s.pc = "read" /\ n = l + 2 * s.item
  \/ s.pc = "hdr" /\ n + 2 = l + 2 * s.item
  \/ s.pc = "body" /\ n + 1 = l + 2 * s.item

SealInv ==
  /\ \A r \in Relays : seal[r].item = rd[PlainIn(r)]
  /\ phase["client"] \in {"connect", "uid"} =>
       wr["client_server"] = 0 /\ seal["client"] = [pc |-> "hdr", item |-> 0]
  /\ phase["client"] = "init" => seal["client"].item = 0 /\ seal["client"].pc # "read"
  /\ wr["client_server"] = 0 \/ SealInStep(seal["client"], wr["client_server"], 3)
  /\ phase["client"] \in {"init", "relay"} => wr["client_server"] # 0
  /\ SealInStep(seal["server"], wr["server_client"], 0)
  /\ phase["server"] \notin {"relay", "closed"} => seal["server"].pc = "read"

\* The open loop has consumed the frames of all items it wrote, and is in step
\* with the frame it is in.
OpenInStep(o, n, w, l) ==
  \/ o.pc = "len" /\ n = l + 2 * w
  \/ o.pc = "frame" /\ o.item = w + 1 /\ n = l + 2 * w + 1
  \/ o.pc = "write" /\ o.item = w + 1 /\ n = l + 2 * w + 2

OpenInv ==
  /\ \A r \in Relays : opn[r].pc # "bad"
  /\ 2 * wr["client_app"] <= rd["server_client"]
  /\ wr["server_target"] = 0 \/ 3 + 2 * wr["server_target"] <= rd["client_server"]
  /\ phase["client"] = "relay" =>
       OpenInStep(opn["client"], rd["server_client"], wr["client_app"], 0)
  /\ phase["server"] = "relay" =>
       OpenInStep(opn["server"], rd["client_server"], wr["server_target"], 3)
  /\ phase["client"] \in {"connect", "uid", "init"} =>
       rd["server_client"] = 0 /\ opn["client"].pc = "len" /\ wr["client_app"] = 0
  /\ phase["client"] = "connect" => phase["server"] = "none"
  /\ phase["server"] \in {"none", "uid", "refuse", "init", "dial"} => wr["server_target"] = 0
  /\ phase["server"] \in {"none", "uid"} => rd["client_server"] = 0 /\ opn["server"].pc = "len"
  /\ phase["server"] = "init" =>
       \/ opn["server"].pc = "len" /\ rd["client_server"] = 1
       \/ opn["server"].pc = "frame" /\ opn["server"].item = 0 /\ rd["client_server"] = 2
  /\ phase["server"] = "dial" => opn["server"].pc = "len" /\ rd["client_server"] = 3

EndInv ==
  \A e \in Ends :
    /\ Len(got[e]) = rd[In(e)]
    /\ \A i \in 1 .. Len(got[e]) : got[e][i] = i

FlowInv == TypeOK /\ ChannelInv /\ SealInv /\ OpenInv /\ EndInv

--------------------------------------------------------------------------------
(* The inductive invariant behind the ends of the streams: who may be      *)
(* joined, why a relay has returned, and what it had read before.          *)

NoReset == \A k \in Conns : ~rst[k]

\* The relay that encrypts what end e sends, and the one that decrypts it.
Sealer(e) == IF e = "app" THEN "client" ELSE "server"
Opener(e) == IF e = "app" THEN "server" ELSE "client"

\* A stream may finish for a reason only: an end stopped sending, or a failure.
Reason == fault \/ \E e \in Ends : fin[Out(e)]

\* Past the lookup of its user id, a connection is one of an allowed user.
AllowedInv ==
  phase["server"] \in {"init", "dial", "relay"} \/ peer["target"] # "none" =>
    user \in AllowedUsers

\* Sockets are closed by their owner only, and reset only after a close.
ClosedInv ==
  /\ \A r \in Relays :
       fin[PlainOut(r)] \/ fin[WireOut(r)] \/ gone[PlainIn(r)] \/ gone[WireIn(r)] =>
         phase[r] = "closed"
  /\ \A e \in Ends : gone[In(e)] => fin[Out(e)]
  /\ \A k \in Conns : rst[k] => \E c \in Channels : gone[c]
  /\ phase["server"] = "none" => phase["client"] \in {"connect", "closed"}
  /\ phase["server"] = "refuse" => rd["client_server"] = 1
  /\ peer["target"] # "none" => phase["server"] \in {"relay", "closed"}

CauseInv == (\E r \in Relays : phase[r] = "closed") => Reason

\* As long as nothing failed and end Other(e) goes on sending, a relay has
\* returned only because the stream of e came to its end, and not before it had
\* forwarded all of it.
DrainInv ==
  \A e \in Ends :
    ~fault /\ NoReset /\ ~fin[Out(Other(e))] =>
      LET s == Sealer(e)  o == Opener(e) IN
        /\ phase[s] = "closed" =>
             /\ fin[PlainIn(s)] /\ rd[PlainIn(s)] = wr[PlainIn(s)]
             /\ wr[WireOut(s)] = Lead(WireOut(s)) + 2 * rd[PlainIn(s)]
        /\ phase[o] = "closed" =>
             /\ phase[s] = "closed" /\ rd[WireIn(o)] = wr[WireIn(o)]
             /\ rd[WireIn(o)] = Lead(WireIn(o)) + 2 * wr[PlainOut(o)]
        /\ peer[Other(e)] = "eof" =>
             phase[o] = "closed" /\ rd[PlainOut(o)] = wr[PlainOut(o)]

TunnelInv == FlowInv /\ AllowedInv /\ ClosedInv /\ CauseInv /\ DrainInv

--------------------------------------------------------------------------------
(* Properties.                                                             *)

UpTo(n) == [i \in 1 .. n |-> i]

\* Whatever closes, resets or crashes, and wherever a select! drops a loop,
\* each end has received a prefix of what the other end sent: nothing is
\* repeated, reordered, skipped or invented by framing and unframing.
DeliveredInOrder ==
  \A e \in Ends :
    Len(got[e]) <= wr[Out(Other(e))] /\ got[e] = UpTo(Len(got[e]))

\* The two relays never lose the frame boundary: a length is read only where
\* a length was written, and the frame that follows is the one it measures
\* (handler.rs:122, 128 and tunnel.rs:189, 195 are not reached).
FramesAligned == \A r \in Relays : opn[r].pc # "bad"

\* The items that left end e and are somewhere between the two ends: in a
\* socket buffer, in the hands of a loop, or in an encrypted frame.
Buffered(c, k) == {q[c][i].item : i \in {j \in 1 .. Len(q[c]) : q[c][j].kind = k}}

InFlight(e) ==
  LET s == Sealer(e)  o == Opener(e) IN
    Buffered(PlainIn(s), "data")
      \cup (IF seal[s].pc = "read" THEN {} ELSE {seal[s].item})
      \cup Buffered(WireOut(s), "body")
      \cup (IF opn[o].pc = "write" THEN {opn[o].item} ELSE {})
      \cup Buffered(PlainOut(o), "data")

\* While both relays live and no connection is reset, each item sent has been
\* received or is in flight: a loop that is suspended at an await keeps what
\* it has read.
NothingLost ==
  NoReset /\ (\A r \in Relays : phase[r] # "closed") =>
    \A e \in Ends :
      1 .. wr[Out(e)] \subseteq 1 .. Len(got[Other(e)]) \cup InFlight(e)

\* An end that still has its own direction open and sees a clean end of stream,
\* in a tunnel that neither failed nor was reset, holds all that the other end
\* ever sent, and the other end has finished sending.
CleanEndIsComplete ==
  \A e \in Ends :
    peer[e] = "eof" /\ ~fin[Out(e)] /\ ~fault /\ NoReset =>
      fin[Out(Other(e))] /\ got[e] = UpTo(wr[Out(Other(e))])

\* The target is dialled only for a user of allowed_users, and only one byte
\* stream reaches it: what it got comes from that user's app.
OnlyAllowedUsersReachTarget ==
  peer["target"] # "none" => user \in AllowedUsers

\* e receives no more; for a target that was never dialled, nobody is left to
\* dial it.
Finished(e) ==
  \/ peer[e] \in {"eof", "err", "closed"}
  \/ /\ e = "target" /\ peer[e] = "none"
     /\ \/ phase["server"] = "closed"
        \/ phase["server"] = "none" /\ phase["client"] = "closed"

Stream == INSTANCE DuplexStream WITH
  Ends <- Ends,
  sent <- [e \in Ends |-> wr[Out(e)]],
  shut <- {e \in Ends : fin[Out(e)]},
  got <- got,
  ended <- [e \in Ends |-> Finished(e)],
  fault <- fault

\* The tunnel is a pair of byte streams: in-order delivery, nothing after the
\* end, no end without a reason; and under Fairness its items are delivered and
\* its ends come.
ImplementsFairStream == Stream!FairSpec

\* Once an end stops sending or the tunnel fails, both relays come to return:
\* no task, socket or half of a connection is held for ever.
RelaysReleased ==
  (fault \/ \E e \in Ends : fin[Out(e)])
    ~> \A r \in Relays : phase[r] \in {"none", "closed"}
================================================================================
