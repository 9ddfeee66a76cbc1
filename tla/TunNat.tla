--------------------------------- MODULE TunNat ---------------------------------
(***************************************************************************)
(* ghost-tun: TCP connections of the Android kernel, read as IP packets    *)
(* from the TUN device, become SOCKS5 streams.                             *)
(*                                                                         *)
(*     kernel --up--> handle_tcp --nat/chan--> session --out--> SOCKS5     *)
(*     kernel <----------- down (tun_tx) <---- session <------- SOCKS5     *)
(*                                                                         *)
(* One loop reads packets and keeps the NAT table; each session has a task *)
(* per direction.  The two tasks are spawned, so the select! at the end of *)
(* run_tcp_session detaches the one that is left, it does not stop it.     *)
(*                                                                         *)
(* The kernel is external.  `gen` numbers the connections it opens on one  *)
(* flow key and stands for their initial sequence number: a packet from    *)
(* the kernel carries it as seq, one to the kernel as ack.  Payload is     *)
(* counted in segments.                                                    *)
(***************************************************************************)
EXTENDS Naturals, Sequences

CONSTANTS
  Keys,        \* flow keys: source and destination address and port
  Outcomes,    \* what socks5_connect may return, a subset of {"ok", "fail"}
  MaxGen,      \* bound on the connections the kernel opens on one key
  MaxSession,  \* bound on the sessions ever spawned
  MaxUp,       \* bound on the segments a connection sends
  MaxDown,     \* bound on the reads that return data in a session
  MaxResend,   \* bound on the kernel's retransmissions
  MaxLost      \* bound on the failed writes to the TUN device

ASSUME NatAssumption ==
  /\ Outcomes \subseteq {"ok", "fail"}
  /\ {MaxGen, MaxSession, MaxUp, MaxDown, MaxResend, MaxLost} \subseteq Nat

Sessions == 1 .. MaxSession
None == 0

VARIABLES
  conn,    \* the kernel's sockets: conn[k] = state, gen, segments sent, received, eof
  up,      \* packets the kernel has routed to the TUN device
  down,    \* packets in the tun_tx channel
  nat,     \* nat[k]: the session whose data_tx the table holds for k
  sess,    \* the spawned sessions
  resent,  \* how many segments the kernel has sent again
  lost     \* how many packets a failed TUN write has dropped

vars == <<conn, up, down, nat, sess, resent, lost>>

Socket(st, g) == [st |-> st, gen |-> g, snd |-> 0, rcv |-> <<>>, eof |-> FALSE]
Unborn == [pc |-> "unborn"]

UpPacket == [kind : {"syn", "data", "fin", "rst"}, key : Keys, gen : 1 .. MaxGen, item : Nat]
DownPacket ==
  [kind : {"synack", "rst", "data", "finack"}, key : Keys, gen : 1 .. MaxGen,
   seq : Nat, sid : Sessions]

\* A session: `chan` is data_rx, `out` what SOCKS5 was given, `seq`
\* next_server_seq, `a` the task socks_to_tun and `b` the task data_to_socks.
Session ==
  [pc : {"connect", "failed", "open"}, key : Keys, gen : 1 .. MaxGen,
   chan : Seq([gen : 1 .. MaxGen, item : Nat]), out : Seq([gen : 1 .. MaxGen, item : Nat]),
   seq : Nat, a : {"idle", "run", "done"}, b : {"idle", "run", "done", "broken"}]

TypeOK ==
  /\ conn \in [Keys -> [st : {"closed", "synsent", "estab", "finwait"}, gen : 0 .. MaxGen,
                        snd : Nat, rcv : Seq(Sessions \X Nat), eof : BOOLEAN]]
  /\ up \in Seq(UpPacket)
  /\ down \in Seq(DownPacket)
  /\ nat \in [Keys -> Sessions \cup {None}]
  /\ sess \in [Sessions -> Session \cup {Unborn}]
  /\ resent \in 0 .. MaxResend /\ lost \in 0 .. MaxLost

Init ==
  /\ conn = [k \in Keys |-> Socket("closed", 0)]
  /\ up = <<>> /\ down = <<>>
  /\ nat = [k \in Keys |-> None]
  /\ sess = [s \in Sessions |-> Unborn]
  /\ resent = 0 /\ lost = 0

--------------------------------------------------------------------------------
(* The kernel's side of a connection.                                      *)

Up(kind, k, g, n) == up' = Append(up, [kind |-> kind, key |-> k, gen |-> g, item |-> n])

KConnect(k) ==
  /\ conn[k].st = "closed" /\ conn[k].gen < MaxGen
  /\ conn' = [conn EXCEPT ![k] = Socket("synsent", conn[k].gen + 1)]
  /\ Up("syn", k, conn[k].gen + 1, 0)
  /\ UNCHANGED <<down, nat, sess, resent, lost>>

KSend(k) ==
  /\ conn[k].st = "estab" /\ conn[k].snd < MaxUp
  /\ conn' = [conn EXCEPT ![k].snd = @ + 1]
  /\ Up("data", k, conn[k].gen, conn[k].snd + 1)
  /\ UNCHANGED <<down, nat, sess, resent, lost>>

\* Retransmission timer: whatever was not acknowledged, which is the SYN before
\* the SYN-ACK, every segment and the FIN after it.
KResend(k) ==
  /\ resent < MaxResend /\ resent' = resent + 1
  /\ \/ conn[k].st = "synsent" /\ Up("syn", k, conn[k].gen, 0)
     \/ /\ conn[k].st \in {"estab", "finwait"}
        /\ \E n \in 1 .. conn[k].snd : Up("data", k, conn[k].gen, n)
     \/ conn[k].st = "finwait" /\ Up("fin", k, conn[k].gen, 0)
  /\ UNCHANGED <<conn, down, nat, sess, lost>>

\* The FIN leaves alone or on the last segment.
KClose(k) ==
  /\ conn[k].st = "estab"
  /\ \E n \in {conn[k].snd, conn[k].snd + 1} :
       /\ n <= MaxUp
       /\ conn' = [conn EXCEPT ![k].st = "finwait", ![k].snd = n]
       /\ Up("fin", k, conn[k].gen, IF n = conn[k].snd THEN 0 ELSE n)
  /\ UNCHANGED <<down, nat, sess, resent, lost>>

KAbort(k) ==
  /\ conn[k].st \in {"estab", "finwait"}
  /\ conn' = [conn EXCEPT ![k].st = "closed"]
  /\ Up("rst", k, conn[k].gen, 0)
  /\ UNCHANGED <<down, nat, sess, resent, lost>>

\* The connection times out; nothing is sent.
KGiveUp(k) ==
  /\ conn[k].st # "closed"
  /\ conn' = [conn EXCEPT ![k].st = "closed"]
  /\ UNCHANGED <<up, down, nat, sess, resent, lost>>

\* A packet reaches the kernel: RFC 793 by state, acknowledgement and sequence.
KReceive(p) ==
  LET k == p.key
      c == conn[k]
      own == p.gen = c.gen /\ c.st # "closed" IN
    \/ /\ ~own /\ c.st \in {"closed", "synsent"} /\ p.kind # "rst"
       /\ Up("rst", k, p.gen, 0) /\ UNCHANGED conn
    \/ /\ own /\ c.st = "synsent" /\ p.kind = "synack"
       /\ conn' = [conn EXCEPT ![k].st = "estab"] /\ UNCHANGED up
    \/ /\ own /\ c.st = "synsent" /\ p.kind = "rst"
       /\ conn' = [conn EXCEPT ![k].st = "closed"] /\ UNCHANGED up
    \/ /\ own /\ c.st \in {"estab", "finwait"} /\ ~c.eof
       /\ p.kind = "data" /\ p.seq = Len(c.rcv) + 1
       /\ conn' = [conn EXCEPT ![k].rcv = Append(@, <<p.sid, p.seq>>)] /\ UNCHANGED up
    \/ /\ own /\ c.st \in {"estab", "finwait"} /\ ~c.eof
       /\ p.kind = "finack" /\ p.seq = Len(c.rcv) + 1
       /\ conn' = [conn EXCEPT ![k].eof = TRUE] /\ UNCHANGED up
    \/ /\ ~ \/ ~own /\ c.st \in {"closed", "synsent"} /\ p.kind # "rst"
            \/ own /\ c.st = "synsent" /\ p.kind \in {"synack", "rst"}
            \/ /\ own /\ c.st \in {"estab", "finwait"} /\ ~c.eof
               /\ p.kind \in {"data", "finack"} /\ p.seq = Len(c.rcv) + 1
       /\ UNCHANGED <<conn, up>>

--------------------------------------------------------------------------------
(* handle_tcp: one packet of the main loop.                                *)

Packet(kind) == up # <<>> /\ Head(up).kind = kind /\ up' = Tail(up)

OnRst ==
  /\ Packet("rst")
  /\ nat' = [nat EXCEPT ![Head(up).key] = None]
  /\ UNCHANGED <<conn, down, sess, resent, lost>>

Fresh == {s \in Sessions : sess[s] = Unborn}

\* A task of its own for session s of the SYN p.
Spawn(s, p) ==
  sess' = [sess EXCEPT ![s] =
    [pc |-> "connect", key |-> p.key, gen |-> p.gen, chan |-> <<>>, out |-> <<>>,
     seq |-> 0, a |-> "idle", b |-> "idle"]]

\* Mutants of OnSyn: no look at the table, and a look that only keeps the entry.
OnSynReplaces ==
  /\ Packet("syn")
  /\ \E s \in Fresh :
       /\ \A t \in Fresh : s <= t
       /\ nat' = [nat EXCEPT ![Head(up).key] = s]
       /\ Spawn(s, Head(up))
  /\ UNCHANGED <<conn, down, resent, lost>>

OnSynKeepsEntry ==
  /\ Packet("syn")
  /\ \E s \in Fresh :
       /\ \A t \in Fresh : s <= t
       /\ nat' = [nat EXCEPT ![Head(up).key] = IF @ = None THEN s ELSE @]
       /\ Spawn(s, Head(up))
  /\ UNCHANGED <<conn, down, resent, lost>>

\* A SYN for a key the table holds is ignored.
OnSyn ==
  /\ Packet("syn")
  /\ LET k == Head(up).key IN
       \/ nat[k] # None /\ UNCHANGED <<nat, sess>>
       \/ /\ nat[k] = None
          /\ \E s \in Fresh :
               /\ \A t \in Fresh : s <= t
               /\ nat' = [nat EXCEPT ![k] = s]
               /\ Spawn(s, Head(up))
  /\ UNCHANGED <<conn, down, resent, lost>>

\* data_rx is dropped when the connect fails and when data_to_socks ends; a
\* send to it fails and nobody looks.
Listening(s) == sess[s].pc # "failed" /\ sess[s].b \notin {"done", "broken"}

\* The entry goes.  What is sent is the empty message, which DataToSocks skips:
\* a payload on the FIN is not forwarded.
OnFin ==
  /\ Packet("fin")
  /\ nat' = [nat EXCEPT ![Head(up).key] = None]
  /\ UNCHANGED <<conn, down, sess, resent, lost>>

OnData ==
  /\ Packet("data")
  /\ LET p == Head(up)  s == nat[p.key] IN
       sess' = IF s # None /\ Listening(s)
               THEN [sess EXCEPT ![s].chan = Append(@, [gen |-> p.gen, item |-> p.item])]
               ELSE sess
  /\ UNCHANGED <<conn, down, nat, resent, lost>>

HandleTcp == OnRst \/ OnSyn \/ OnFin \/ OnData

--------------------------------------------------------------------------------
(* run_tcp_session and its two tasks.                                      *)

\* Mutant: acknowledges the SYN's own number, not the one after it.
DownAckShort(kind, s, n) ==
  down' = Append(down, [kind |-> kind, key |-> sess[s].key, gen |-> sess[s].gen - 1,
                        seq |-> n, sid |-> s])

Down(kind, s, n) ==
  down' = Append(down, [kind |-> kind, key |-> sess[s].key, gen |-> sess[s].gen,
                        seq |-> n, sid |-> s])

\* Mutant: returns without a RST.
ConnectFailsSilently(s) ==
  /\ sess[s].pc = "connect" /\ "fail" \in Outcomes
  /\ sess' = [sess EXCEPT ![s].pc = "failed", ![s].chan = <<>>]
  /\ UNCHANGED <<conn, up, down, nat, resent, lost>>

\* socks5_connect fails: the kernel gets a RST, the table keeps the entry.
ConnectFails(s) ==
  /\ sess[s].pc = "connect" /\ "fail" \in Outcomes
  /\ sess' = [sess EXCEPT ![s].pc = "failed", ![s].chan = <<>>]
  /\ Down("rst", s, 0)
  /\ UNCHANGED <<conn, up, nat, resent, lost>>

ConnectSucceeds(s) ==
  /\ sess[s].pc = "connect" /\ "ok" \in Outcomes
  /\ sess' = [sess EXCEPT ![s].pc = "open", ![s].seq = 1, ![s].a = "run", ![s].b = "run"]
  /\ Down("synack", s, 0)
  /\ UNCHANGED <<conn, up, nat, resent, lost>>

SocksToTun(s) ==
  /\ sess[s].pc = "open" /\ sess[s].a = "run"
  /\ \/ /\ sess[s].seq <= MaxDown
        /\ Down("data", s, sess[s].seq)
        /\ sess' = [sess EXCEPT ![s].seq = @ + 1]
     \/ /\ Down("finack", s, sess[s].seq)           \* end of stream, or read error
        /\ sess' = [sess EXCEPT ![s].a = "done"]
  /\ UNCHANGED <<conn, up, nat, resent, lost>>

\* Mutant: logs a write error and takes the next payload.
DataToSocksGoesOn(s) ==
  /\ sess[s].pc = "open" /\ sess[s].b = "run"
  /\ \/ /\ sess[s].chan # <<>>
        /\ sess' = [sess EXCEPT ![s].chan = Tail(@), ![s].out = Append(@, Head(sess[s].chan))]
     \/ /\ sess[s].chan # <<>>
        /\ sess' = [sess EXCEPT ![s].chan = Tail(@)]
     \/ /\ sess[s].chan = <<>> /\ nat[sess[s].key] # s
        /\ sess' = [sess EXCEPT ![s].b = "done"]
  /\ UNCHANGED <<conn, up, down, nat, resent, lost>>

\* recv() returns None once the table has let go of the sender.
DataToSocks(s) ==
  /\ sess[s].pc = "open" /\ sess[s].b = "run"
  /\ \/ /\ sess[s].chan # <<>>
        /\ sess' = [sess EXCEPT ![s].chan = Tail(@), ![s].out = Append(@, Head(sess[s].chan))]
     \/ /\ sess[s].chan # <<>>                      \* write error
        /\ sess' = [sess EXCEPT ![s].chan = <<>>, ![s].b = "broken"]
     \/ /\ sess[s].chan = <<>> /\ nat[sess[s].key] # s
        /\ sess' = [sess EXCEPT ![s].b = "done"]
  /\ UNCHANGED <<conn, up, down, nat, resent, lost>>

\* The writer task; a packet whose write fails is gone.
TunWrite ==
  /\ down # <<>> /\ down' = Tail(down)
  /\ KReceive(Head(down))
  /\ UNCHANGED <<nat, sess, resent, lost>>

TunWriteFails ==
  /\ down # <<>> /\ down' = Tail(down)
  /\ lost < MaxLost /\ lost' = lost + 1
  /\ UNCHANGED <<conn, up, nat, sess, resent>>

--------------------------------------------------------------------------------
Kernel(k) == KConnect(k) \/ KSend(k) \/ KResend(k) \/ KClose(k) \/ KAbort(k) \/ KGiveUp(k)

RunSession(s) == ConnectFails(s) \/ ConnectSucceeds(s) \/ SocksToTun(s) \/ DataToSocks(s)

Next ==
  \/ \E k \in Keys : Kernel(k)
  \/ HandleTcp
  \/ \E s \in Sessions : RunSession(s)
  \/ TunWrite \/ TunWriteFails

Spec == Init /\ [][Next]_vars

\* The two loops of TunProcessor::run and the tasks they spawn are polled;
\* socks5_connect returns.  The SOCKS5 side need not send, nor the kernel act.
Fairness ==
  /\ WF_vars(HandleTcp) /\ WF_vars(TunWrite)
  /\ \A s \in Sessions :
       /\ WF_vars(ConnectFails(s) \/ ConnectSucceeds(s))
       /\ WF_vars(DataToSocks(s))

FairSpec == Spec /\ Fairness

--------------------------------------------------------------------------------
(* Properties.                                                             *)

Born(s) == sess[s] # Unborn

\* The table never points back to an older session of the key: a packet is
\* handed to the session of the last SYN that opened one.
NatIsNewest ==
  \A k \in Keys : nat[k] # None =>
    /\ Born(nat[k]) /\ sess[nat[k]].key = k
    /\ \A s \in Sessions : Born(s) /\ sess[s].key = k => s <= nat[k]

\* What makes it so.  The queue to handle_tcp is first in first out, so packets
\* arrive in the order of their connections, resets apart; a connection sends
\* nothing but SYNs before a session of its own has answered; and that session,
\* or one of a later connection, is the one the table then points at.

Established(k) == conn[k].st \in {"estab", "finwait"}

\* A session of connection g of key k has been spawned.
Served(k, g) == \E s \in Sessions : Born(s) /\ sess[s].key = k /\ sess[s].gen = g

ConnInv ==
  \A k \in Keys : /\ conn[k].st # "closed" => conn[k].gen >= 1
                  /\ Established(k) => Served(k, conn[k].gen)

SessInv ==
  \A s \in Sessions : Born(s) =>
    /\ sess[s].gen <= conn[sess[s].key].gen
    /\ \A t \in Sessions : t < s =>
         /\ Born(t)
         /\ sess[t].key = sess[s].key => sess[t].gen <= sess[s].gen

UpInv ==
  \A i \in 1 .. Len(up) : up[i].kind # "rst" =>
    /\ up[i].gen <= conn[up[i].key].gen
    /\ up[i].kind # "syn" => Served(up[i].key, up[i].gen)
    /\ \A s \in Sessions : Born(s) /\ sess[s].key = up[i].key => sess[s].gen <= up[i].gen
    /\ \A j \in 1 .. i : up[j].kind # "rst" /\ up[j].key = up[i].key => up[j].gen <= up[i].gen

DownInv ==
  \A i \in 1 .. Len(down) :
    /\ Born(down[i].sid)
    /\ sess[down[i].sid].key = down[i].key /\ sess[down[i].sid].gen = down[i].gen

QueueIsOwn ==
  \A s \in Sessions : Born(s) =>
    \A i \in 1 .. Len(sess[s].chan) : sess[s].chan[i].gen = sess[s].gen

\* No byte of one connection reaches the SOCKS5 stream of another one, however
\* a key is reused, retransmitted on, reset or abandoned in between.
UpstreamIsOwn ==
  \A s \in Sessions : Born(s) =>
    \A i \in 1 .. Len(sess[s].out) : sess[s].out[i].gen = sess[s].gen

NatInv ==
  /\ ConnInv /\ SessInv /\ UpInv /\ DownInv
  /\ NatIsNewest /\ QueueIsOwn /\ UpstreamIsOwn

\* Up to repetitions, a SOCKS5 stream is a prefix of what the connection sent:
\* a segment comes after all those before it.
UpstreamHasNoGap ==
  \A s \in Sessions : Born(s) =>
    \A i \in 1 .. Len(sess[s].out) : \A n \in 1 .. sess[s].out[i].item - 1 :
      \E j \in 1 .. i - 1 : sess[s].out[j].item = n

\* What makes it so: a packet that a SYN can still overtake, or that the table will
\* hand to a session, comes after the segments before its own, and no SYN of a
\* connection comes after its data.

IsData(p, k, g) == p.kind = "data" /\ p.key = k /\ p.gen = g

\* Segment n of connection g of k is among the first m packets to handle_tcp.
OnTheWay(k, g, n, m) == \E j \in 1 .. m : IsData(up[j], k, g) /\ up[j].item = n

\* The segments a session has.
Held(s) ==
  {sess[s].out[i].item : i \in 1 .. Len(sess[s].out)}
    \cup {sess[s].chan[i].item : i \in 1 .. Len(sess[s].chan)}

\* The segments a connection has sent as data: the last one may be on the FIN.
Sent(k) == {n \in 1 .. conn[k].snd : conn[k].st = "finwait" => n < conn[k].snd}

\* Who has the segments H gets the rest of connection g of k in order.
InOrder(k, g, H) ==
  /\ \A i \in 1 .. Len(up) : IsData(up[i], k, g) =>
       \A n \in 1 .. up[i].item - 1 : n \in H \/ OnTheWay(k, g, n, i - 1)
  /\ Established(k) /\ conn[k].gen = g =>
       \A n \in Sent(k) : n \in H \/ OnTheWay(k, g, n, Len(up))

SynInv ==
  \A i \in 1 .. Len(up) : up[i].kind = "syn" =>
    /\ InOrder(up[i].key, up[i].gen, {})
    /\ \A j \in 1 .. i : ~IsData(up[j], up[i].key, up[i].gen)

ConnectingInv ==
  \A k \in Keys : conn[k].st = "synsent" =>
    /\ conn[k].snd = 0
    /\ \A i \in 1 .. Len(up) : ~IsData(up[i], k, conn[k].gen)

TableInv ==
  \A k \in Keys : nat[k] # None /\ Listening(nat[k]) =>
    InOrder(k, sess[nat[k]].gen, Held(nat[k]))

QueueHasNoGap ==
  \A s \in Sessions : Born(s) =>
    \A i \in 1 .. Len(sess[s].chan) : \A n \in 1 .. sess[s].chan[i].item - 1 :
      \/ \E j \in 1 .. Len(sess[s].out) : sess[s].out[j].item = n
      \/ \E j \in 1 .. i - 1 : sess[s].chan[j].item = n

\* No task runs before SOCKS5 has answered.
WaitingInv == \A s \in Sessions : Born(s) /\ sess[s].pc = "connect" => sess[s].b = "idle"

GapInv ==
  SynInv /\ ConnectingInv /\ TableInv /\ WaitingInv /\ QueueHasNoGap /\ UpstreamHasNoGap

\* A key on which the kernel has opened one connection only is served by one
\* session, as long as nothing but SYNs precedes a SYN in the queue.

\* The sessions of a key.
Of(k) == {s \in Sessions : Born(s) /\ sess[s].key = k}

\* Packets of these kinds are on their way to handle_tcp.
Queued(k, kinds) == \E i \in 1 .. Len(up) : up[i].key = k /\ up[i].kind \in kinds

OneSession(k) ==
  /\ \A s, t \in Of(k) : s = t
  /\ \A i \in 1 .. Len(up) : up[i].key = k /\ up[i].kind = "syn" =>
       \A j \in 1 .. i : up[j].key = k => up[j].kind = "syn"
  /\ conn[k].st = "synsent" => ~Queued(k, {"data", "fin", "rst"})
  /\ nat[k] = None /\ (conn[k].st = "synsent" \/ Queued(k, {"syn"})) => Of(k) = {}
  /\ conn[k].gen = 0 => ~Queued(k, {"syn", "data", "fin", "rst"})
  /\ Established(k) => ~Queued(k, {"rst"})
  /\ conn[k].st = "estab" => nat[k] # None /\ ~Queued(k, {"fin"})
  /\ \A i \in 1 .. Len(conn[k].rcv) : conn[k].rcv[i][1] \in Of(k) /\ conn[k].rcv[i][2] = i

\* A session that has failed or whose write has failed keeps nothing.
Keeps(s) == sess[s].pc # "failed" /\ sess[s].b # "broken"

\* A FIN comes after the segments before it, so that the session has them when the
\* table lets go of it.
AllBeforeFin(k) ==
  conn[k].st = "finwait" => \A s \in Of(k) : Keeps(s) =>
    /\ \A i \in 1 .. Len(up) : up[i].key = k /\ up[i].kind = "fin" =>
         \A n \in 1 .. conn[k].snd - 1 : n \in Held(s) \/ OnTheWay(k, conn[k].gen, n, i - 1)
    /\ nat[k] = None => 1 .. conn[k].snd - 1 \subseteq Held(s)

\* data_to_socks ends when the table has let go and all was forwarded.
DoneInv ==
  \A s \in Sessions : Born(s) /\ sess[s].b = "done" =>
    sess[s].pc = "open" /\ sess[s].chan = <<>> /\ nat[sess[s].key] # s

SingleInv ==
  DoneInv /\ \A k \in Keys : conn[k].gen <= 1 => OneSession(k) /\ AllBeforeFin(k)

\* The whole of what is inductive, types apart.
StreamInv == NatInv /\ GapInv /\ SingleInv

\* The bytes a connection receives are those of one SOCKS5 stream, from its
\* start: `key` identifies the flow (tcp_session.rs:83).  With a second connection on
\* the key that is not so: a RST of the first one removes its table entry (lib.rs:136).
DownstreamIsOneStream ==
  \A k \in Keys : conn[k].gen <= 1 => \A i \in 1 .. Len(conn[k].rcv) :
    /\ conn[k].rcv[i] = <<conn[k].rcv[1][1], i>>
    /\ sess[conn[k].rcv[i][1]].gen = conn[k].gen

\* The session of a connection that is closing in good order, once
\* data_to_socks has shut the stream down without an error.
Finished(s) ==
  /\ Born(s) /\ sess[s].b = "done"
  /\ conn[sess[s].key].st = "finwait" /\ conn[sess[s].key].gen = sess[s].gen

Forwarded(s) == {sess[s].out[i].item : i \in 1 .. Len(sess[s].out)}

\* A stream that was closed in good order holds every segment the connection
\* sent, whatever was queued before SOCKS5 had answered, but for one: a payload on
\* the FIN is dropped (lib.rs:165-169).  Again for the first connection of a key.
UpstreamButLast ==
  \A s \in Sessions : Finished(s) /\ conn[sess[s].key].gen <= 1 =>
    1 .. conn[sess[s].key].snd - 1 \subseteq Forwarded(s)

\* The session of k has answered, and the write of its answer to the TUN has failed.
AnswerLost(k) ==
  /\ lost > 0 /\ nat[k] # None /\ sess[nat[k]].pc # "connect"
  /\ \A i \in 1 .. Len(down) : down[i].sid = nat[k] => down[i].kind \notin {"synack", "rst"}

\* A connection attempt is answered, by SYN-ACK or RST (lib.rs:6), and only a failed
\* write to the TUN (lib.rs:49-51) loses the answer.  Then it is lost for good: the
\* session does not send it again, and the SYN the kernel repeats is ignored
\* because the entry stays (lib.rs:143).
SynAnswered ==
  \A k \in Keys : conn[k].st = "synsent" ~> conn[k].st # "synsent" \/ AnswerLost(k)
================================================================================
