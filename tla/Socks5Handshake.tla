---------------------------- MODULE Socks5Handshake ----------------------------
(***************************************************************************)
(* The SOCKS5 handshake between a program and the proxy of ghost-client    *)
(* (handle_socks5_client), up to the point where the connection becomes    *)
(* the tunnel's plain side.  The program is an application or ghost-tun    *)
(* (socks5_connect), whose sessions TunNat models.                         *)
(*                                                                         *)
(*      program --- up --->  proxy                                         *)
(*              <-- down ---                                               *)
(*                                                                         *)
(* Bytes are numbers; read_exact(n) waits for n of them.  What matters is  *)
(* that both sides agree where each message ends.  The octet NoText stands *)
(* for whatever no UTF-8 text contains.                                    *)
(***************************************************************************)
EXTENDS Naturals, Sequences

CONSTANTS
  Programs,    \* which programs connect: a subset of {"app", "tun"}
  NameLengths  \* lengths of the domain names an application asks for

ASSUME HandshakeAssumption ==
  /\ Programs \subseteq {"app", "tun"}
  /\ NameLengths \subseteq 1 .. 255

VARIABLES
  ask,    \* who connects and what for: constant
  prog,   \* where the program is
  proxy,  \* where the proxy is, and the address type and target it has read
  up,     \* bytes the proxy has not read yet
  down    \* bytes the program has not read yet

vars == <<ask, prog, proxy, up, down>>

BufLen == 256       \* buf: [u8; 256]

NoText == 255
Port == <<1, 187>>
Data == <<22, 3>>   \* what the program sends through the tunnel

V4 == 1  Domain == 3  V6 == 4

AddrLen(addr) == CASE addr.type = V4 -> 4 [] addr.type = V6 -> 16 [] OTHER -> addr.len

Host(addr) ==
  [i \in 1 .. AddrLen(addr) |-> IF i = 1 /\ ~addr.text THEN NoText ELSE 100 + (i % 2)]

Target(addr) == [type |-> addr.type, host |-> Host(addr), port |-> Port]

Greeting(a) == <<a.ver, Len(a.methods)>> \o a.methods

\* encode_addr, and what an application does for a name.
Request(a) ==
  <<5, a.cmd, 0, a.addr.type>>
    \o (IF a.addr.type = Domain THEN <<a.addr.len>> ELSE <<>>)
    \o Host(a.addr) \o Port

\* socks5_reply with 0.0.0.0:0, and with the name "0.0.0.0".
Granted == <<5, 0, 0, V4, 0, 0, 0, 0, 0, 0>>
Unsupported == <<5, 7, 0, Domain, 7, 48, 46, 48, 46, 48, 46, 48, 0, 0>>

Addresses ==
  [type : {V4, V6}, len : {0}, text : {TRUE}]
    \cup [type : {Domain}, len : NameLengths, text : BOOLEAN]

\* An application may be a SOCKS4 one, may want a login or a command other than
\* CONNECT, and may be eager: it does not wait for answers before it sends.
\* What follows a message that ends the handshake is the same for all.
AppAsks ==
  {a \in [who : {"app"}, ver : {4, 5}, methods : {<<>>, <<0>>, <<2>>, <<2, 0>>},
          cmd : {1, 2, 3}, addr : Addresses, eager : BOOLEAN] :
     /\ a.ver = 4 => a.methods = <<0>>
     /\ a.ver = 4 \/ a.methods \in {<<>>, <<2>>} => a.cmd = 1
     /\ a.ver = 4 \/ a.methods \in {<<>>, <<2>>} \/ a.cmd # 1 => a.addr.type = V4}

TunAsks ==
  [who : {"tun"}, ver : {5}, methods : {<<0>>}, cmd : {1},
   addr : [type : {V4, V6}, len : {0}, text : {TRUE}], eager : {FALSE}]

TypeOK ==
  /\ ask \in AppAsks \cup TunAsks
  /\ prog \in {"greet", "method", "request", "reply", "skip", "skip4", "connected",
               "failed", "gone", "cut"}
  /\ proxy \in [pc : {"greeting", "methods", "request", "length", "addr", "tunnel",
                      "ended", "closed", "panicked"},
                need : 0 .. BufLen, type : 0 .. 255, target : {Target(ask.addr)} \cup {<<>>}]
  /\ up \in Seq(0 .. 255) /\ down \in Seq(0 .. 255)

Init ==
  /\ ask \in {a \in AppAsks \cup TunAsks : a.who \in Programs}
  /\ prog = "greet"
  /\ proxy = [pc |-> "greeting", need |-> 2, type |-> 0, target |-> <<>>]
  /\ up = <<>> /\ down = <<>>

\* The connection ends within the handshake; the CONNECT has been granted.
Closed == proxy.pc \in {"closed", "panicked"}
HasGranted == proxy.pc \in {"tunnel", "ended"}

--------------------------------------------------------------------------------
(* The program.                                                            *)

ProgramGreets ==
  /\ prog = "greet" /\ prog' = "method"
  /\ up' = up \o Greeting(ask)
              \o (IF ask.eager THEN Request(ask) \o Data ELSE <<>>)
  /\ UNCHANGED <<ask, proxy, down>>

\* read_exact of n bytes on the program's side; F is where it goes from there.
ProgramReads(at, n, F(_)) ==
  /\ prog = at /\ Len(down) >= n
  /\ prog' = F(SubSeq(down, 1, n)) /\ down' = SubSeq(down, n + 1, Len(down))
  /\ UNCHANGED <<ask, proxy, up>>

ProgramReadsMethod ==
  ProgramReads("method", 2, LAMBDA b :
    IF b # <<5, 0>> THEN "failed" ELSE IF ask.eager THEN "reply" ELSE "request")

ProgramAsks ==
  /\ prog = "request" /\ prog' = "reply"
  /\ up' = up \o Request(ask)
  /\ UNCHANGED <<ask, proxy, down>>

\* An application reads the address after the type it has just read ...
AppReadsReply ==
  /\ ask.who = "app"
  /\ ProgramReads("reply", 4, LAMBDA b : IF b[2] = 0 THEN "skip4" ELSE "failed")

\* ... and ghost-tun reads a type of its own first (skip_socks5_addr).
TunReadsReply ==
  /\ ask.who = "tun"
  /\ ProgramReads("reply", 4, LAMBDA b : IF b[1] = 5 /\ b[2] = 0 THEN "skip" ELSE "failed")

\* The other two types are not told apart: the proxy answers with 0.0.0.0.
TunReadsType ==
  ProgramReads("skip", 1, LAMBDA b : IF b[1] = V4 THEN "skip4" ELSE "failed")

ProgramReadsBound == ProgramReads("skip4", 6, LAMBDA b : "connected")

ProgramSends ==
  /\ prog = "connected" /\ ~ask.eager /\ proxy.pc = "tunnel" /\ up = <<>>
  /\ up' = Data
  /\ UNCHANGED <<ask, prog, proxy, down>>

\* The stream ends, or is reset, before the answer is there.
ProgramSeesEnd ==
  /\ Closed /\ prog \notin {"greet", "connected", "failed", "gone", "cut"}
  /\ prog' = "failed"
  /\ UNCHANGED <<ask, proxy, up, down>>

\* The stream that was granted ends, after what is left of the answer; or it is reset,
\* because the proxy had not read all.
ProgramIsCut ==
  /\ proxy.pc = "ended" /\ prog \notin {"greet", "failed", "gone", "cut"}
  /\ down = <<>> \/ up # <<>>
  /\ prog' = "cut"
  /\ UNCHANGED <<ask, proxy, up, down>>

ProgramLeaves ==
  /\ prog \notin {"connected", "failed", "gone", "cut"} /\ prog' = "gone"
  /\ UNCHANGED <<ask, proxy, up, down>>

--------------------------------------------------------------------------------
(* The proxy.                                                              *)

\* read_exact of the bytes it needs next; G is the proxy afterwards and w what
\* it writes.
ProxyReads(at, G(_), w(_)) ==
  /\ proxy.pc = at /\ Len(up) >= proxy.need
  /\ LET b == SubSeq(up, 1, proxy.need) IN
       /\ proxy' = G(b)
       /\ down' = down \o w(b)
  /\ up' = SubSeq(up, proxy.need + 1, Len(up))
  /\ UNCHANGED <<ask, prog>>

Turn(pc, need) == [pc |-> pc, need |-> need, type |-> proxy.type, target |-> proxy.target]
Nothing(b) == <<>>

ReadGreeting ==
  ProxyReads("greeting",
    LAMBDA b : IF b[1] = 5 THEN Turn("methods", b[2]) ELSE Turn("closed", 0),
    Nothing)

\* Mutant: looks at the first method only.
NoAuthFirst(methods) == methods # <<>> /\ methods[1] = 0

NoAuth(methods) == \E i \in 1 .. Len(methods) : methods[i] = 0

ReadMethods ==
  ProxyReads("methods",
    LAMBDA b : IF NoAuth(b) THEN Turn("request", 4) ELSE Turn("closed", 0),
    LAMBDA b : IF NoAuth(b) THEN <<5, 0>> ELSE <<5, 255>>)

\* Mutant: the port is taken for part of the payload.
AfterTypePortless(type) ==
  CASE type = V4 -> Turn("addr", 4)
    [] type = V6 -> Turn("addr", 16)
    [] type = Domain -> Turn("length", 1)
    [] OTHER -> Turn("closed", 0)

AfterType(type) ==
  CASE type = V4 -> Turn("addr", 6)
    [] type = V6 -> Turn("addr", 18)
    [] type = Domain -> Turn("length", 1)
    [] OTHER -> Turn("closed", 0)

\* Mutant: grants before it has read the address.
ReadRequestGrants ==
  ProxyReads("request",
    LAMBDA b : IF b[1] = 5 /\ b[2] = 1 THEN [AfterType(b[4]) EXCEPT !.type = b[4]]
                                       ELSE Turn("closed", 0),
    LAMBDA b : IF b[1] = 5 /\ b[2] # 1 THEN Unsupported ELSE Granted)

ReadRequest ==
  ProxyReads("request",
    LAMBDA b : IF b[1] = 5 /\ b[2] = 1 THEN [AfterType(b[4]) EXCEPT !.type = b[4]]
                                       ELSE Turn("closed", 0),
    LAMBDA b : IF b[1] = 5 /\ b[2] # 1 THEN Unsupported ELSE <<>>)

\* Mutant: trusts the length byte.
ReadLengthUnchecked ==
  ProxyReads("length",
    LAMBDA b : IF b[1] = 0 THEN Turn("closed", 0) ELSE Turn("addr", b[1] + 2),
    Nothing)

\* The slice for a name of 255 bytes and its port is longer than buf: it panics.
ReadLength ==
  ProxyReads("length",
    LAMBDA b : IF b[1] = 0 THEN Turn("closed", 0)
               ELSE IF b[1] + 2 > BufLen THEN Turn("panicked", 0)
               ELSE Turn("addr", b[1] + 2),
    Nothing)

\* A name that String::from_utf8 refuses.
NotUtf8(b) == proxy.type = Domain /\ \E i \in 1 .. Len(b) - 2 : b[i] = NoText

\* Granted, or closed without a reply.
ReadAddr ==
  ProxyReads("addr",
    LAMBDA b : IF NotUtf8(b) THEN Turn("closed", 0)
               ELSE [Turn("tunnel", 0) EXCEPT
                 !.target = [type |-> proxy.type, host |-> SubSeq(b, 1, Len(b) - 2),
                             port |-> SubSeq(b, Len(b) - 1, Len(b))]],
    LAMBDA b : IF NotUtf8(b) THEN <<>> ELSE Granted)

\* proxy_through_ghost has returned, and the stream is dropped; ProxiedConnection says
\* when.
TunnelEnds ==
  /\ proxy.pc = "tunnel" /\ proxy' = Turn("ended", 0)
  /\ UNCHANGED <<ask, prog, up, down>>

\* The program left: a read ends early, or a write fails.
ProxySeesEnd ==
  /\ prog \in {"failed", "gone"} /\ ~Closed /\ ~HasGranted
  /\ proxy' = Turn("closed", 0)
  /\ UNCHANGED <<ask, prog, up, down>>

--------------------------------------------------------------------------------
Program ==
  \/ ProgramGreets \/ ProgramReadsMethod \/ ProgramAsks
  \/ AppReadsReply \/ TunReadsReply \/ TunReadsType \/ ProgramReadsBound
  \/ ProgramSeesEnd \/ ProgramIsCut

Proxy ==
  \/ ReadGreeting \/ ReadMethods \/ ReadRequest \/ ReadLength \/ ReadAddr
  \/ ProxySeesEnd

Next == Program \/ ProgramSends \/ ProgramLeaves \/ Proxy

Spec == Init /\ [][Next]_vars

--------------------------------------------------------------------------------
(* Properties.                                                             *)

\* The tunnel is opened for the target that was asked for, by somebody who asked
\* for a CONNECT, and its first byte is the first one after the request, also
\* when the program did not wait for the answers.
TunnelIsAsked ==
  proxy.pc = "tunnel" =>
    /\ ask.cmd = 1 /\ proxy.target = Target(ask.addr)
    /\ up \in {<<>>, Data} /\ (ask.eager => up = Data)

\* A program that was told Granted has a tunnel, or had one and has yet to see its
\* end, and has read all of the answer: what it reads next comes from the target.
ConnectedIsTunnel == prog = "connected" => HasGranted /\ down = <<>>

\* An application that stays loses its CONNECT in the handshake only when it was
\* refused, or asked for a name of 255 bytes, at which the task panics, or for one
\* that is not UTF-8, at which it returns (lib.rs:152); both without a reply.
AppIsServed ==
  prog = "failed" /\ ask.who = "app" =>
    \/ ask.ver # 5 \/ ask.cmd # 1
    \/ \A i \in 1 .. Len(ask.methods) : ask.methods[i] # 0
    \/ ask.addr.len = 255 \/ ~ask.addr.text

\* The proxy's grant is understood: ghost-tun skips BND.ADDR and BND.PORT
\* (socks5.rs:56) and is then connected.
GrantIsUnderstood == proxy.pc = "tunnel" => prog # "failed"
--------------------------------------------------------------------------------
(* The inductive invariant: what each side has said and how much of it the *)
(* other one has read.                                                     *)

\* All the program says when nothing stops it; where its parts end in it.
Speech == Greeting(ask) \o Request(ask) \o Data
Methods == Len(ask.methods)
Greeted == 2 + Methods
Asked == Greeted + Len(Request(ask))

\* How much of it the proxy has read, and how much it reads next.
Position ==
  CASE proxy.pc = "greeting" -> 0
    [] proxy.pc = "methods" -> 2
    [] proxy.pc = "request" -> Greeted
    [] proxy.pc = "length" -> Greeted + 4
    [] proxy.pc = "addr" -> Asked - AddrLen(ask.addr) - 2
    [] OTHER -> Asked

Expects ==
  CASE proxy.pc = "greeting" -> 2
    [] proxy.pc = "methods" -> Methods
    [] proxy.pc = "request" -> 4
    [] proxy.pc = "length" -> 1
    [] proxy.pc = "addr" -> AddrLen(ask.addr) + 2
    [] OTHER -> 0

\* How much of it the program may have said.
Uttered ==
  CASE prog = "greet" -> {0}
    [] prog \in {"method", "request"} -> {IF ask.eager THEN Asked + 2 ELSE Greeted}
    [] prog \in {"reply", "skip", "skip4"} -> {IF ask.eager THEN Asked + 2 ELSE Asked}
    [] prog = "connected" -> IF ask.eager THEN {Asked + 2} ELSE {Asked, Asked + 2}
    [] prog = "cut" -> IF ask.eager THEN {Asked + 2} ELSE {Greeted, Asked, Asked + 2}
    [] OTHER -> IF ask.eager THEN {0, Asked + 2} ELSE {0, Greeted, Asked}

\* The next byte the proxy reads is the one at its position.
SpeechInv ==
  /\ prog = "request" => ~ask.eager
  /\ ~Closed => \E n \in Uttered : Position <= n /\ up = SubSeq(Speech, Position + 1, n)

\* What the proxy knows of the program is so.
ProxyInv ==
  /\ proxy.need = Expects
  /\ proxy.pc \in {"methods", "request", "length", "addr", "tunnel", "ended", "panicked"} =>
       ask.ver = 5
  /\ proxy.pc \in {"request", "length", "addr", "tunnel", "ended", "panicked"} =>
       NoAuth(ask.methods)
  /\ proxy.pc \in {"length", "addr", "tunnel", "ended", "panicked"} =>
       ask.cmd = 1 /\ proxy.type = ask.addr.type
  /\ proxy.pc = "length" => ask.addr.type = Domain
  /\ proxy.pc = "panicked" => ask.addr.len = 255
  /\ proxy.target = IF HasGranted THEN Target(ask.addr) ELSE <<>>

Refused ==
  \/ ask.ver # 5 /\ down = <<>> /\ prog = "method"
  \/ ~NoAuth(ask.methods) /\ down = <<5, 255>> /\ prog = "method"
  \/ /\ ask.cmd # 1
     /\ \/ prog = "method" /\ ask.eager /\ down = <<5, 0>> \o Unsupported
        \/ prog = "reply" /\ down = Unsupported
  \/ /\ ~ask.addr.text
     /\ \/ prog = "method" /\ ask.eager /\ down = <<5, 0>>
        \/ prog = "reply" /\ down = <<>>

\* What the program has not read of the answers, as long as it reads them.
AnswerInv ==
  prog \notin {"failed", "gone", "cut"} =>
    CASE proxy.pc \in {"greeting", "methods"} -> prog \in {"greet", "method"} /\ down = <<>>
      [] proxy.pc \in {"request", "length", "addr", "panicked"} ->
           \/ prog = "method" /\ down = <<5, 0>>
           \/ prog \in {"request", "reply"} /\ down = <<>>
      [] HasGranted ->
           \/ prog = "method" /\ down = <<5, 0>> \o Granted
           \/ prog = "reply" /\ down = Granted
           \/ prog = "skip" /\ ask.who = "tun" /\ down = SubSeq(Granted, 5, 10)
           \/ prog = "skip4" /\ down = SubSeq(Granted, 5, 10)
           \/ prog = "connected" /\ down = <<>>
      [] OTHER -> Refused

HandInv == TypeOK /\ SpeechInv /\ ProxyInv /\ AnswerInv /\ AppIsServed
================================================================================
