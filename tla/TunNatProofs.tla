------------------------------ MODULE TunNatProofs ------------------------------
(***************************************************************************)
(* Proofs about the NAT table, for every set of keys and every bound: the  *)
(* table points at the newest session of a key, no payload of one          *)
(* connection enters the SOCKS5 stream of another, and what enters it has  *)
(* no gap.                                                                 *)
(***************************************************************************)
EXTENDS TunNat, SequenceTheorems, TLAPS

LEMMA Consts ==
  /\ MaxGen \in Nat /\ MaxSession \in Nat /\ MaxUp \in Nat /\ MaxDown \in Nat
  /\ MaxResend \in Nat /\ MaxLost \in Nat
  BY NatAssumption DEF NatAssumption

LEMMA BornIsSession ==
  ASSUME TypeOK, NEW s \in Sessions
  PROVE  /\ Born(s) => sess[s] \in Session
         /\ sess[s] \in Session => Born(s)
  <1>1. sess[s] \in Session => sess[s].pc # Unborn.pc
    BY DEF Session, Unborn
  <1> QED
    BY <1>1 DEF TypeOK, Born

--------------------------------------------------------------------------------
(* What every action but a SYN that spawns a session does to the parts of  *)
(* the state that the invariant relates.                                   *)

\* The same sessions, each still of its connection, and their queues too.
SessKept ==
  /\ \A s \in Sessions :
       /\ Born(s)' <=> Born(s)
       /\ Born(s) => sess'[s].key = sess[s].key /\ sess'[s].gen = sess[s].gen
  /\ QueueIsOwn' /\ UpstreamIsOwn'

NatKept == \A k \in Keys : nat'[k] \in {nat[k], None}

ConnKept ==
  \A k \in Keys :
    /\ conn'[k].gen >= conn[k].gen
    /\ conn'[k].st # "closed" => conn'[k].gen >= 1
    /\ Established(k)' => Served(k, conn'[k].gen)

UpKept ==
  \/ up' = up
  \/ up # <<>> /\ up' = Tail(up)
  \/ \E p \in UpPacket :
       /\ up' = Append(up, p)
       /\ p.kind # "rst" => p.gen = conn'[p.key].gen
       /\ p.kind \notin {"rst", "syn"} => Served(p.key, p.gen)

DownKept ==
  \/ down' = down
  \/ down # <<>> /\ down' = Tail(down)
  \/ \E p \in DownPacket :
       /\ down' = Append(down, p) /\ Born(p.sid)
       /\ sess[p.sid].key = p.key /\ sess[p.sid].gen = p.gen

LEMMA ServedKept ==
  ASSUME SessKept, NEW k, NEW g, Served(k, g)
  PROVE  Served(k, g)'
  BY DEF SessKept, Served

LEMMA TailFacts ==
  ASSUME NEW S, NEW q \in Seq(S), q # <<>>
  PROVE  /\ Len(q) \in Nat /\ Len(q) >= 1 /\ Head(q) = q[1] /\ Head(q) \in S
         /\ Tail(q) \in Seq(S) /\ Len(Tail(q)) = Len(q) - 1
         /\ \A i \in 1 .. Len(Tail(q)) : Tail(q)[i] = q[i + 1] /\ i + 1 \in 1 .. Len(q)
  BY EmptySeq, LenProperties, HeadTailProperties

LEMMA AppendFacts ==
  ASSUME NEW S, NEW q \in Seq(S), NEW x \in S
  PROVE  /\ Len(q) \in Nat /\ Append(q, x) \in Seq(S) /\ Len(Append(q, x)) = Len(q) + 1
         /\ \A i \in 1 .. Len(q) : Append(q, x)[i] = q[i] /\ q[i] \in S
         /\ Append(q, x)[Len(q) + 1] = x
  BY AppendProperties, LenProperties, ElementOfSeq

LEMMA KeepsConn ==
  ASSUME NatInv, ConnKept, SessKept
  PROVE  ConnInv'
  BY ServedKept DEF ConnInv, ConnKept, Established

LEMMA KeepsSess ==
  ASSUME TypeOK, TypeOK', NatInv, ConnKept, SessKept
  PROVE  SessInv'
  <1> SUFFICES ASSUME NEW s \in Sessions, Born(s)'
               PROVE  /\ sess'[s].gen <= conn'[sess'[s].key].gen
                      /\ \A t \in Sessions : t < s =>
                           /\ Born(t)'
                           /\ sess'[t].key = sess'[s].key => sess'[t].gen <= sess'[s].gen
    BY DEF SessInv
  <1>1. Born(s) /\ sess'[s].key = sess[s].key /\ sess'[s].gen = sess[s].gen
    BY DEF SessKept
  <1>2. sess[s].key \in Keys /\ sess[s].gen \in Nat
    BY <1>1, BornIsSession, Consts DEF Session
  <1>3. conn[sess[s].key].gen \in Nat /\ conn'[sess[s].key].gen \in Nat
    BY <1>2, Consts DEF TypeOK
  <1>4. sess[s].gen <= conn[sess[s].key].gen
    BY <1>1 DEF NatInv, SessInv
  <1>5. conn'[sess[s].key].gen >= conn[sess[s].key].gen
    BY <1>2 DEF ConnKept
  <1>6. ASSUME NEW t \in Sessions, t < s
        PROVE  /\ Born(t)'
               /\ sess'[t].key = sess'[s].key => sess'[t].gen <= sess'[s].gen
    BY <1>1, <1>6 DEF NatInv, SessInv, SessKept
  <1> QED
    BY <1>1, <1>2, <1>3, <1>4, <1>5, <1>6

LEMMA KeepsNat ==
  ASSUME TypeOK, NatInv, SessKept, NatKept
  PROVE  NatIsNewest'
  BY DEF NatInv, NatIsNewest, SessKept, NatKept, TypeOK, None

LEMMA KeepsDown ==
  ASSUME TypeOK, TypeOK', NatInv, SessKept, DownKept
  PROVE  DownInv'
  <1> DEFINE OK(p) == Born(p.sid) /\ sess[p.sid].key = p.key /\ sess[p.sid].gen = p.gen
  <1>1. \A i \in 1 .. Len(down) : OK(down[i])
    BY DEF NatInv, DownInv
  <1>2. down \in Seq(DownPacket) /\ down' \in Seq(DownPacket)
    BY DEF TypeOK
  <1>3. \A i \in 1 .. Len(down') : OK(down'[i])
    <2>1. CASE down' = down
      BY <1>1, <2>1
    <2>2. CASE down # <<>> /\ down' = Tail(down)
      <3> HIDE DEF OK
      <3> QED
        BY <1>1, <1>2, <2>2, TailFacts
    <2>3. CASE \E p \in DownPacket : down' = Append(down, p) /\ OK(p)
      <3>1. PICK p \in DownPacket : down' = Append(down, p) /\ OK(p)
        BY <2>3
      <3> HIDE DEF OK
      <3>2. /\ Len(down) \in Nat /\ Len(down') = Len(down) + 1 /\ down'[Len(down) + 1] = p
            /\ \A i \in 1 .. Len(down) : down'[i] = down[i]
        BY <1>2, <3>1, AppendFacts
      <3> QED
        BY <1>1, <3>1, <3>2
    <2> QED
      BY <2>1, <2>2, <2>3 DEF DownKept
  <1>4. \A i \in 1 .. Len(down') : down'[i] \in DownPacket
    BY <1>2, ElementOfSeq
  <1>5. \A p \in DownPacket : p.sid \in Sessions
    BY DEF DownPacket
  <1> QED
    BY <1>3, <1>4, <1>5 DEF DownInv, SessKept

\* UpInv, packet by packet.
UpOK(i) ==
  up[i].kind # "rst" =>
    /\ up[i].gen <= conn[up[i].key].gen
    /\ up[i].kind # "syn" => Served(up[i].key, up[i].gen)
    /\ \A s \in Sessions : Born(s) /\ sess[s].key = up[i].key => sess[s].gen <= up[i].gen
    /\ \A j \in 1 .. i : up[j].kind # "rst" /\ up[j].key = up[i].key => up[j].gen <= up[i].gen

LEMMA UpInvByPacket ==
  /\ UpInv <=> \A i \in 1 .. Len(up) : UpOK(i)
  /\ UpInv' <=> \A i \in 1 .. Len(up') : UpOK(i)'
  BY DEF UpInv, UpOK

LEMMA UpElement ==
  ASSUME NEW u \in Seq(UpPacket), NEW i \in 1 .. Len(u)
  PROVE  u[i] \in UpPacket /\ u[i].key \in Keys /\ u[i].gen \in 1 .. MaxGen
  <1>1. u[i] \in UpPacket
    BY ElementOfSeq
  <1> QED
    BY <1>1 DEF UpPacket

LEMMA ConnGen ==
  /\ TypeOK => \A k \in Keys : conn[k].gen \in 0 .. MaxGen
  /\ TypeOK' => \A k \in Keys : conn'[k].gen \in 0 .. MaxGen
  BY DEF TypeOK

\* A packet that was in the queue, now n places nearer to its head.
LEMMA KeepsPacket ==
  ASSUME TypeOK, TypeOK', NatInv, SessKept, ConnKept,
         NEW n \in {0, 1}, NEW i \in 1 .. Len(up'),
         i + n \in 1 .. Len(up), \A j \in 1 .. i : up'[j] = up[j + n]
  PROVE  UpOK(i)'
  <1>1. up \in Seq(UpPacket) /\ Len(up) \in Nat
    BY LenProperties DEF TypeOK
  <1>2. PICK p \in UpPacket : p = up[i + n] /\ p.key \in Keys /\ p.gen \in 1 .. MaxGen
    BY <1>1, UpElement
  <1>3. conn[p.key].gen \in Nat /\ conn'[p.key].gen \in Nat /\ p.gen \in Nat
    BY <1>2, ConnGen, Consts
  <1>4. conn'[p.key].gen >= conn[p.key].gen
    BY <1>2 DEF ConnKept
  <1>5. UpOK(i + n)
    BY UpInvByPacket DEF NatInv
  <1>10. i \in 1 .. i /\ up'[i] = p
    BY <1>1, <1>2
  <1> SUFFICES ASSUME p.kind # "rst"
               PROVE  UpOK(i)'
    BY <1>10 DEF UpOK
  <1>6. p.gen <= conn'[p.key].gen
    BY <1>2, <1>3, <1>4, <1>5 DEF UpOK
  <1>7. p.kind # "syn" => Served(p.key, p.gen)'
    BY <1>2, <1>5, ServedKept DEF UpOK
  <1>8. \A s \in Sessions : Born(s)' /\ sess'[s].key = p.key => sess'[s].gen <= p.gen
    BY <1>2, <1>5 DEF UpOK, SessKept
  <1>9. \A j \in 1 .. i : up'[j].kind # "rst" /\ up'[j].key = p.key => up'[j].gen <= p.gen
    <2> SUFFICES ASSUME NEW j \in 1 .. i, up'[j].kind # "rst", up'[j].key = p.key
                 PROVE  up'[j].gen <= p.gen
      OBVIOUS
    <2>1. j + n \in 1 .. i + n /\ up'[j] = up[j + n]
      OBVIOUS
    <2> QED
      BY <1>2, <1>5, <2>1 DEF UpOK
  <1> QED
    BY <1>6, <1>7, <1>8, <1>9, <1>10 DEF UpOK

LEMMA KeepsUp ==
  ASSUME TypeOK, TypeOK', NatInv, SessKept, ConnKept, UpKept
  PROVE  UpInv'
  <1>0. up \in Seq(UpPacket) /\ Len(up) \in Nat
    BY LenProperties DEF TypeOK
  <1> SUFFICES ASSUME NEW i \in 1 .. Len(up')
               PROVE  UpOK(i)'
    BY UpInvByPacket
  <1>1. CASE up' = up
    <2>1. i + 0 \in 1 .. Len(up) /\ \A j \in 1 .. i : up'[j] = up[j + 0]
      BY <1>0, <1>1
    <2> QED
      BY <2>1, KeepsPacket
  <1>2. CASE up # <<>> /\ up' = Tail(up)
    <2>1. i + 1 \in 1 .. Len(up) /\ \A j \in 1 .. i : up'[j] = up[j + 1]
      BY <1>0, <1>2, TailFacts
    <2> QED
      BY <2>1, KeepsPacket
  <1>3. ASSUME NEW p \in UpPacket, up' = Append(up, p),
               p.kind # "rst" => p.gen = conn'[p.key].gen,
               p.kind \notin {"rst", "syn"} => Served(p.key, p.gen)
        PROVE  UpOK(i)'
    <2>1. /\ Len(up') = Len(up) + 1 /\ up'[Len(up) + 1] = p
          /\ \A j \in 1 .. Len(up) : up'[j] = up[j]
      BY <1>0, <1>3, AppendFacts
    <2>2. CASE i <= Len(up)
      <3>1. i + 0 \in 1 .. Len(up) /\ \A j \in 1 .. i : up'[j] = up[j + 0]
        BY <1>0, <2>1, <2>2
      <3> QED
        BY <3>1, KeepsPacket
    <2>3. CASE i = Len(up) + 1 /\ p.kind # "rst"
      <3>1. p.key \in Keys /\ p.gen \in Nat /\ p.gen = conn'[p.key].gen /\ conn[p.key].gen \in Nat
        BY <1>3, <2>3, Consts DEF UpPacket, TypeOK
      <3>2. p.gen >= conn[p.key].gen
        BY <3>1 DEF ConnKept
      <3>3. p.kind # "syn" => Served(p.key, p.gen)'
        BY <1>3, <2>3, ServedKept
      <3>4. \A s \in Sessions : Born(s)' /\ sess'[s].key = p.key => sess'[s].gen <= p.gen
        <4> SUFFICES ASSUME NEW s \in Sessions, Born(s), sess[s].key = p.key
                     PROVE  sess[s].gen <= p.gen
          BY DEF SessKept
        <4>1. sess[s].gen \in Nat
          BY BornIsSession, Consts DEF Session
        <4>2. sess[s].gen <= conn[p.key].gen
          BY DEF NatInv, SessInv
        <4> QED
          BY <3>1, <3>2, <4>1, <4>2
      <3>5. \A j \in 1 .. i : up'[j].kind # "rst" /\ up'[j].key = p.key => up'[j].gen <= p.gen
        <4> SUFFICES ASSUME NEW j \in 1 .. i, up'[j].kind # "rst", up'[j].key = p.key
                     PROVE  up'[j].gen <= p.gen
          OBVIOUS
        <4>1. CASE j = i
          BY <2>1, <2>3, <3>1, <4>1
        <4>2. CASE j \in 1 .. Len(up)
          <5>1. up'[j] = up[j] /\ up[j].gen \in 1 .. MaxGen
            BY <1>0, <2>1, <4>2, UpElement
          <5>2. UpOK(j)
            BY <4>2, UpInvByPacket DEF NatInv
          <5>3. up[j].gen <= conn[p.key].gen
            BY <5>1, <5>2 DEF UpOK
          <5> QED
            BY <3>1, <3>2, <5>1, <5>3, Consts
        <4> QED
          BY <1>0, <2>3, <4>1, <4>2
      <3>6. p.gen <= conn'[p.key].gen /\ up'[i] = p
        BY <2>1, <2>3, <3>1
      <3> QED
        BY <3>3, <3>4, <3>5, <3>6 DEF UpOK
    <2>4. CASE i = Len(up) + 1 /\ p.kind = "rst"
      BY <2>1, <2>4 DEF UpOK
    <2> QED
      BY <1>0, <2>1, <2>2, <2>3, <2>4
  <1> QED
    BY <1>1, <1>2, <1>3 DEF UpKept

LEMMA KeepsInv ==
  ASSUME TypeOK, TypeOK', NatInv, SessKept, NatKept, ConnKept, UpKept, DownKept
  PROVE  NatInv'
  BY KeepsConn, KeepsSess, KeepsNat, KeepsDown, KeepsUp DEF NatInv, SessKept

--------------------------------------------------------------------------------
(* The kernel.                                                             *)

LEMMA UpType ==
  ASSUME TypeOK, NEW kind \in {"syn", "data", "fin", "rst"}, NEW k \in Keys,
         NEW g \in 1 .. MaxGen, NEW n \in Nat, Up(kind, k, g, n)
  PROVE  /\ up' \in Seq(UpPacket)
         /\ \E p \in UpPacket :
              up' = Append(up, p) /\ p.kind = kind /\ p.key = k /\ p.gen = g
  <1> DEFINE p == [kind |-> kind, key |-> k, gen |-> g, item |-> n]
  <1>1. p \in UpPacket /\ p.kind = kind /\ p.key = k /\ p.gen = g
    BY DEF UpPacket
  <1>2. up \in Seq(UpPacket) /\ up' = Append(up, p)
    BY DEF TypeOK, Up
  <1> HIDE DEF p
  <1> QED
    BY <1>1, <1>2, AppendFacts

Conn == [st : {"closed", "synsent", "estab", "finwait"}, gen : 0 .. MaxGen,
         snd : Nat, rcv : Seq(Sessions \X Nat), eof : BOOLEAN]

LEMMA ConnType ==
  ASSUME TypeOK, NEW k \in Keys
  PROVE  /\ conn \in [Keys -> Conn] /\ conn[k] \in Conn /\ conn[k].gen \in 0 .. MaxGen
         /\ conn[k].snd \in Nat /\ conn[k].rcv \in Seq(Sessions \X Nat)
  BY DEF TypeOK, Conn

\* Only a new connection changes the generation, and it has sent a SYN.
ConnStep(k, c) ==
  /\ conn' = [conn EXCEPT ![k] = c] /\ c \in Conn
  /\ c.gen >= conn[k].gen
  /\ c.st # "closed" => c.gen >= 1
  /\ c.st \in {"estab", "finwait"} => Served(k, c.gen)

LEMMA ConnStepKept ==
  ASSUME TypeOK, NatInv, NEW k \in Keys, NEW c, ConnStep(k, c)
  PROVE  conn' \in [Keys -> Conn] /\ ConnKept
  <1>1. conn' \in [Keys -> Conn]
    BY ConnType DEF ConnStep
  <1>2. \A j \in Keys : conn'[j] = IF j = k THEN c ELSE conn[j]
    BY ConnType DEF ConnStep
  <1>3. \A j \in Keys : conn[j].gen >= conn[j].gen
    BY ConnType, Consts
  <1> QED
    BY <1>1, <1>2, <1>3 DEF ConnStep, ConnKept, NatInv, ConnInv, Established

LEMMA ConnSame ==
  ASSUME TypeOK, NatInv, conn' = conn
  PROVE  conn' \in [Keys -> Conn] /\ ConnKept
  <1>1. \A j \in Keys : conn[j].gen >= conn[j].gen /\ conn \in [Keys -> Conn]
    BY ConnType, Consts
  <1>2. conn \in [Keys -> Conn]
    BY DEF TypeOK, Conn
  <1> QED
    BY <1>1, <1>2 DEF ConnKept, NatInv, ConnInv, Established

LEMMA SameSess ==
  ASSUME NatInv, sess' = sess
  PROVE  SessKept
  BY DEF SessKept, NatInv, Born, QueueIsOwn, UpstreamIsOwn

LEMMA TypeFrom ==
  ASSUME TypeOK, conn' \in [Keys -> Conn], up' \in Seq(UpPacket), down' \in Seq(DownPacket),
         nat' \in [Keys -> Sessions \cup {None}], sess' \in [Sessions -> Session \cup {Unborn}],
         resent' \in 0 .. MaxResend, lost' \in 0 .. MaxLost
  PROVE  TypeOK'
  BY DEF TypeOK, Conn

\* A step of the kernel that leaves sessions and table alone.
LEMMA KernelStep ==
  ASSUME TypeOK, NatInv, conn' \in [Keys -> Conn], ConnKept, up' \in Seq(UpPacket), UpKept,
         down' \in Seq(DownPacket), DownKept,
         nat' = nat, sess' = sess, resent' \in 0 .. MaxResend, lost' \in 0 .. MaxLost
  PROVE  TypeOK' /\ NatInv'
  <1>1. TypeOK'
    <2>1. nat' \in [Keys -> Sessions \cup {None}] /\ sess' \in [Sessions -> Session \cup {Unborn}]
      BY DEF TypeOK
    <2> QED
      BY <2>1, TypeFrom
  <1>2. NatKept
    BY DEF NatKept
  <1> QED
    BY <1>1, <1>2, SameSess, KeepsInv

LEMMA SameRest ==
  ASSUME TypeOK
  PROVE  /\ up' = up => up' \in Seq(UpPacket) /\ UpKept
         /\ down' = down => down' \in Seq(DownPacket) /\ DownKept
         /\ resent' = resent => resent' \in 0 .. MaxResend
         /\ lost' = lost => lost' \in 0 .. MaxLost
  BY DEF TypeOK, UpKept, DownKept

LEMMA SocketType ==
  ASSUME NEW st \in {"closed", "synsent"}, NEW g \in 0 .. MaxGen
  PROVE  Socket(st, g) \in Conn /\ Socket(st, g).gen = g /\ Socket(st, g).st = st
  <1>1. <<>> \in Seq(Sessions \X Nat)
    BY EmptySeq
  <1> QED
    BY <1>1 DEF Socket, Conn

LEMMA KConnectKeeps ==
  ASSUME TypeOK, NatInv, NEW k \in Keys, KConnect(k)
  PROVE  TypeOK' /\ NatInv'
  <1> DEFINE g == conn[k].gen + 1
             c == Socket("synsent", g)
  <1>1. g \in 1 .. MaxGen /\ 0 \in Nat
    BY ConnType, Consts DEF KConnect
  <1>4. c \in Conn /\ c.gen = g /\ c.st = "synsent"
    <2> HIDE DEF g
    <2> QED
      BY <1>1, SocketType, Consts
  <1>5. g >= conn[k].gen /\ g >= 1
    BY <1>1, ConnType, Consts
  <1>6. conn' = [conn EXCEPT ![k] = c] /\ Up("syn", k, g, 0)
    BY DEF KConnect
  <1> HIDE DEF c, g
  <1>7. ConnStep(k, c)
    BY <1>4, <1>5, <1>6 DEF ConnStep
  <1>8. conn' \in [Keys -> Conn] /\ ConnKept
    BY <1>7, ConnStepKept
  <1>9. PICK p \in UpPacket : up' = Append(up, p) /\ p.kind = "syn" /\ p.key = k /\ p.gen = g
    BY <1>1, <1>6, UpType
  <1>10. up' \in Seq(UpPacket)
    BY <1>1, <1>6, UpType
  <1>11. conn'[k].gen = g
    BY <1>4, <1>6, ConnType
  <1>12. UpKept
    BY <1>9, <1>11 DEF UpKept
  <1> QED
    BY <1>8, <1>10, <1>12, SameRest, KernelStep DEF KConnect

\* The fields of a socket one by one, under the identity of the connection.
LEMMA ConnFields ==
  ASSUME NEW c \in Conn
  PROVE  /\ \A n \in Nat : /\ [c EXCEPT !.snd = n] \in Conn
                           /\ [c EXCEPT !.snd = n].gen = c.gen /\ [c EXCEPT !.snd = n].st = c.st
         /\ \A st \in {"closed", "synsent", "estab", "finwait"} :
              /\ [c EXCEPT !.st = st] \in Conn
              /\ [c EXCEPT !.st = st].gen = c.gen /\ [c EXCEPT !.st = st].st = st
         /\ \A r \in Seq(Sessions \X Nat) :
              /\ [c EXCEPT !.rcv = r] \in Conn
              /\ [c EXCEPT !.rcv = r].gen = c.gen /\ [c EXCEPT !.rcv = r].st = c.st
         /\ /\ [c EXCEPT !.eof = TRUE] \in Conn
            /\ [c EXCEPT !.eof = TRUE].gen = c.gen /\ [c EXCEPT !.eof = TRUE].st = c.st
  BY DEF Conn

\* The socket of k becomes c, of the same connection.
LEMMA SameGen ==
  ASSUME TypeOK, NatInv, NEW k \in Keys, NEW c \in Conn,
         conn' = [conn EXCEPT ![k] = c], c.gen = conn[k].gen,
         c.st # "closed" => conn[k].st # "closed",
         c.st \in {"closed", conn[k].st} \/ Served(k, c.gen)
  PROVE  conn' \in [Keys -> Conn] /\ ConnKept /\ conn'[k].gen = conn[k].gen
  <1>1. c.gen >= conn[k].gen
    BY ConnType, Consts
  <1>2. ConnStep(k, c)
    BY <1>1 DEF ConnStep, NatInv, ConnInv, Established
  <1>3. conn'[k].gen = conn[k].gen
    BY ConnType
  <1> QED
    BY <1>2, <1>3, ConnStepKept

\* An open socket sends a packet of its connection.
LEMMA OwnPacket ==
  ASSUME TypeOK, NatInv, NEW k \in Keys, NEW n \in Nat,
         NEW kind \in {"syn", "data", "fin", "rst"}, Up(kind, k, conn[k].gen, n),
         conn[k].st # "closed", kind \in {"data", "fin"} => Established(k),
         conn'[k].gen = conn[k].gen
  PROVE  up' \in Seq(UpPacket) /\ UpKept
  <1>1. conn[k].gen \in 1 .. MaxGen
    BY ConnType, Consts DEF NatInv, ConnInv
  <1>2. PICK p \in UpPacket :
          up' = Append(up, p) /\ p.kind = kind /\ p.key = k /\ p.gen = conn[k].gen
    BY <1>1, UpType
  <1>3. kind \in {"data", "fin"} => Served(k, conn[k].gen)
    BY DEF NatInv, ConnInv
  <1>4. UpKept
    BY <1>2, <1>3 DEF UpKept
  <1> QED
    BY <1>1, <1>4, UpType

LEMMA KSendKeeps ==
  ASSUME TypeOK, NatInv, NEW k \in Keys, KSend(k)
  PROVE  TypeOK' /\ NatInv'
  <1> DEFINE c == [conn[k] EXCEPT !.snd = conn[k].snd + 1]
  <1>1. c \in Conn /\ c.gen = conn[k].gen /\ c.st = conn[k].st
    <2>1. conn[k] \in Conn /\ conn[k].snd + 1 \in Nat
      BY ConnType
    <2> QED
      BY <2>1, ConnFields
  <1>2. conn' = [conn EXCEPT ![k] = c]
    BY ConnType DEF KSend
  <1> HIDE DEF c
  <1>3. conn' \in [Keys -> Conn] /\ ConnKept /\ conn'[k].gen = conn[k].gen
    BY <1>1, <1>2, SameGen DEF KSend
  <1>4. up' \in Seq(UpPacket) /\ UpKept
    <2>1. conn[k].snd + 1 \in Nat
      BY ConnType
    <2> QED
      BY <1>3, <2>1, OwnPacket DEF KSend, Established
  <1> QED
    BY <1>3, <1>4, SameRest, KernelStep DEF KSend

LEMMA KResendKeeps ==
  ASSUME TypeOK, NatInv, NEW k \in Keys, KResend(k)
  PROVE  TypeOK' /\ NatInv'
  <1>1. conn' \in [Keys -> Conn] /\ ConnKept /\ conn'[k].gen = conn[k].gen
    BY ConnSame DEF KResend
  <1>2. up' \in Seq(UpPacket) /\ UpKept
    <2>1. CASE conn[k].st = "synsent" /\ Up("syn", k, conn[k].gen, 0)
      BY <1>1, <2>1, OwnPacket
    <2>2. ASSUME NEW n \in 1 .. conn[k].snd, conn[k].st \in {"estab", "finwait"},
                 Up("data", k, conn[k].gen, n)
          PROVE  up' \in Seq(UpPacket) /\ UpKept
      <3>1. n \in Nat
        BY ConnType
      <3> QED
        BY <1>1, <2>2, <3>1, OwnPacket DEF Established
    <2>3. CASE conn[k].st = "finwait" /\ Up("fin", k, conn[k].gen, 0)
      BY <1>1, <2>3, OwnPacket DEF Established
    <2> QED
      BY <2>1, <2>2, <2>3 DEF KResend
  <1>3. resent' \in 0 .. MaxResend
    BY Consts DEF TypeOK, KResend
  <1> QED
    BY <1>1, <1>2, <1>3, SameRest, KernelStep DEF KResend

LEMMA KCloseKeeps ==
  ASSUME TypeOK, NatInv, NEW k \in Keys, KClose(k)
  PROVE  TypeOK' /\ NatInv'
  <1>1. PICK n \in {conn[k].snd, conn[k].snd + 1} :
          /\ conn' = [conn EXCEPT ![k].st = "finwait", ![k].snd = n]
          /\ Up("fin", k, conn[k].gen, IF n = conn[k].snd THEN 0 ELSE n)
    BY DEF KClose
  <1>2. n \in Nat /\ (IF n = conn[k].snd THEN 0 ELSE n) \in Nat /\ conn[k] \in Conn
    BY <1>1, ConnType
  <1> DEFINE c == [conn[k] EXCEPT !.st = "finwait", !.snd = n]
  <1>3. c \in Conn /\ c.gen = conn[k].gen /\ c.st = "finwait"
    BY <1>2 DEF Conn
  <1>4. conn' = [conn EXCEPT ![k] = c]
    BY <1>1, ConnType
  <1> HIDE DEF c
  <1>5. conn' \in [Keys -> Conn] /\ ConnKept /\ conn'[k].gen = conn[k].gen
    BY <1>3, <1>4, SameGen DEF KClose, NatInv, ConnInv, Established
  <1>6. up' \in Seq(UpPacket) /\ UpKept
    BY <1>1, <1>2, <1>5, OwnPacket DEF KClose, Established
  <1> QED
    BY <1>5, <1>6, SameRest, KernelStep DEF KClose

\* KAbort and KGiveUp.
LEMMA CloseSocket ==
  ASSUME TypeOK, NatInv, NEW k \in Keys, conn' = [conn EXCEPT ![k].st = "closed"]
  PROVE  conn' \in [Keys -> Conn] /\ ConnKept /\ conn'[k].gen = conn[k].gen
  <1> DEFINE c == [conn[k] EXCEPT !.st = "closed"]
  <1>1. c \in Conn /\ c.gen = conn[k].gen /\ c.st = "closed"
    BY ConnType, ConnFields
  <1>2. conn' = [conn EXCEPT ![k] = c]
    BY ConnType
  <1> HIDE DEF c
  <1> QED
    BY <1>1, <1>2, SameGen

LEMMA KAbortKeeps ==
  ASSUME TypeOK, NatInv, NEW k \in Keys, KAbort(k)
  PROVE  TypeOK' /\ NatInv'
  <1>1. conn' \in [Keys -> Conn] /\ ConnKept /\ conn'[k].gen = conn[k].gen
    BY CloseSocket DEF KAbort
  <1>2. up' \in Seq(UpPacket) /\ UpKept
    BY <1>1, OwnPacket DEF KAbort
  <1> QED
    BY <1>1, <1>2, SameRest, KernelStep DEF KAbort

LEMMA KGiveUpKeeps ==
  ASSUME TypeOK, NatInv, NEW k \in Keys, KGiveUp(k)
  PROVE  TypeOK' /\ NatInv'
  BY CloseSocket, SameRest, KernelStep DEF KGiveUp

LEMMA DownElement ==
  ASSUME TypeOK, NatInv, down # <<>>
  PROVE  /\ Head(down) \in DownPacket /\ Tail(down) \in Seq(DownPacket)
         /\ Served(Head(down).key, Head(down).gen)
  <1>1. down \in Seq(DownPacket)
    BY DEF TypeOK
  <1>2. /\ Head(down) \in DownPacket /\ Tail(down) \in Seq(DownPacket)
        /\ 1 \in 1 .. Len(down) /\ Head(down) = down[1]
    BY <1>1, TailFacts
  <1>3. Head(down).sid \in Sessions
    BY <1>2 DEF DownPacket
  <1>4. /\ Born(down[1].sid) /\ sess[down[1].sid].key = down[1].key
        /\ sess[down[1].sid].gen = down[1].gen
    BY <1>2 DEF NatInv, DownInv
  <1> QED
    BY <1>2, <1>3, <1>4 DEF Served

LEMMA TunWriteKeeps ==
  ASSUME TypeOK, NatInv, TunWrite
  PROVE  TypeOK' /\ NatInv'
  <1> DEFINE p == Head(down)  k == p.key
  <1>1. p \in DownPacket /\ k \in Keys /\ p.gen \in 1 .. MaxGen /\ p.sid \in Sessions /\ p.seq \in Nat
    BY DownElement DEF TunWrite, DownPacket
  <1>2. Served(k, p.gen)
    BY DownElement DEF TunWrite
  <1>3. down' \in Seq(DownPacket) /\ DownKept
    BY DownElement DEF TunWrite, DownKept
  <1> HIDE DEF p
  <1>4. /\ conn' \in [Keys -> Conn] /\ ConnKept
        /\ up' \in Seq(UpPacket) /\ UpKept
    <2>1. CASE Up("rst", k, p.gen, 0) /\ conn' = conn
      <3>1. PICK r \in UpPacket :
              up' = Append(up, r) /\ r.kind = "rst" /\ r.key = k /\ r.gen = p.gen
        BY <1>1, <2>1, UpType
      <3>2. up' \in Seq(UpPacket)
        BY <1>1, <2>1, UpType
      <3>3. UpKept
        BY <3>1 DEF UpKept
      <3> QED
        BY <2>1, <3>2, <3>3, ConnSame
    <2>2. CASE UNCHANGED <<conn, up>>
      BY <2>2, ConnSame, SameRest
    <2>3. CASE /\ p.gen = conn[k].gen /\ conn[k].st = "synsent"
               /\ conn' = [conn EXCEPT ![k].st = "estab"] /\ UNCHANGED up
      <3> DEFINE c == [conn[k] EXCEPT !.st = "estab"]
      <3>1. c \in Conn /\ c.gen = conn[k].gen /\ c.st = "estab"
        BY <1>1, ConnType, ConnFields
      <3>2. conn' = [conn EXCEPT ![k] = c]
        BY <1>1, <2>3, ConnType
      <3> HIDE DEF c
      <3> QED
        BY <1>1, <1>2, <2>3, <3>1, <3>2, SameGen, SameRest
    <2>4. CASE /\ conn[k].st = "synsent"
               /\ conn' = [conn EXCEPT ![k].st = "closed"] /\ UNCHANGED up
      BY <1>1, <2>4, CloseSocket, SameRest
    <2>5. CASE conn' = [conn EXCEPT ![k].rcv = Append(@, <<p.sid, p.seq>>)] /\ UNCHANGED up
      <3> DEFINE r == Append(conn[k].rcv, <<p.sid, p.seq>>)
                 c == [conn[k] EXCEPT !.rcv = r]
      <3>1. r \in Seq(Sessions \X Nat)
        BY <1>1, ConnType, AppendProperties
      <3>2. c \in Conn /\ c.gen = conn[k].gen /\ c.st = conn[k].st
        <4> HIDE DEF r
        <4> QED
          BY <1>1, <3>1, ConnType, ConnFields
      <3>3. conn' = [conn EXCEPT ![k] = c]
        BY <1>1, <2>5, ConnType
      <3> HIDE DEF c
      <3> QED
        BY <1>1, <2>5, <3>2, <3>3, SameGen, SameRest
    <2>6. CASE conn' = [conn EXCEPT ![k].eof = TRUE] /\ UNCHANGED up
      <3> DEFINE c == [conn[k] EXCEPT !.eof = TRUE]
      <3>1. c \in Conn /\ c.gen = conn[k].gen /\ c.st = conn[k].st
        BY <1>1, ConnType, ConnFields
      <3>2. conn' = [conn EXCEPT ![k] = c]
        BY <1>1, <2>6, ConnType
      <3> HIDE DEF c
      <3> QED
        BY <1>1, <2>6, <3>1, <3>2, SameGen, SameRest
    <2> QED
      BY <2>1, <2>2, <2>3, <2>4, <2>5, <2>6 DEF TunWrite, KReceive, p
  <1> QED
    BY <1>3, <1>4, SameRest, KernelStep DEF TunWrite

LEMMA TunWriteFailsKeeps ==
  ASSUME TypeOK, NatInv, TunWriteFails
  PROVE  TypeOK' /\ NatInv'
  <1>1. down' \in Seq(DownPacket) /\ DownKept
    BY DownElement DEF TunWriteFails, DownKept
  <1>2. lost' \in 0 .. MaxLost
    BY Consts DEF TypeOK, TunWriteFails
  <1> QED
    BY <1>1, <1>2, ConnSame, SameRest, KernelStep DEF TunWriteFails

--------------------------------------------------------------------------------
(* The sessions.                                                           *)

Payload == [gen : 1 .. MaxGen, item : Nat]

LEMMA SessionFields ==
  ASSUME TypeOK, NatInv, NEW s \in Sessions, Born(s)
  PROVE  /\ sess[s] \in Session /\ sess[s].key \in Keys /\ sess[s].gen \in 1 .. MaxGen
         /\ sess[s].chan \in Seq(Payload) /\ sess[s].out \in Seq(Payload) /\ sess[s].seq \in Nat
         /\ \A i \in 1 .. Len(sess[s].chan) : sess[s].chan[i].gen = sess[s].gen
         /\ \A i \in 1 .. Len(sess[s].out) : sess[s].out[i].gen = sess[s].gen
  <1>1. sess[s] \in Session
    BY BornIsSession
  <1> QED
    BY <1>1 DEF Session, Payload, NatInv, QueueIsOwn, UpstreamIsOwn

\* Session s becomes x, of the same connection and with its payload only.
LEMMA SessionStep ==
  ASSUME TypeOK, NatInv, NEW s \in Sessions, Born(s), NEW x \in Session,
         sess' = [sess EXCEPT ![s] = x], x.key = sess[s].key, x.gen = sess[s].gen,
         \A i \in 1 .. Len(x.chan) : x.chan[i].gen = x.gen,
         \A i \in 1 .. Len(x.out) : x.out[i].gen = x.gen
  PROVE  sess' \in [Sessions -> Session \cup {Unborn}] /\ SessKept
  <1>1. x # Unborn
    BY DEF Session, Unborn
  <1>2. sess' \in [Sessions -> Session \cup {Unborn}]
    BY DEF TypeOK
  <1>3. \A t \in Sessions : sess'[t] = IF t = s THEN x ELSE sess[t]
    BY DEF TypeOK
  <1>4. \A t \in Sessions :
          /\ Born(t)' <=> Born(t)
          /\ Born(t) => sess'[t].key = sess[t].key /\ sess'[t].gen = sess[t].gen
    BY <1>1, <1>3 DEF Born
  <1>5. QueueIsOwn'
    BY <1>1, <1>3 DEF NatInv, QueueIsOwn, Born
  <1>6. UpstreamIsOwn'
    BY <1>1, <1>3 DEF NatInv, UpstreamIsOwn, Born
  <1> QED
    BY <1>2, <1>4, <1>5, <1>6 DEF SessKept

\* What a session writes to the TUN channel is of its connection.
LEMMA DownType ==
  ASSUME TypeOK, NatInv, NEW s \in Sessions, Born(s), NEW n \in Nat,
         NEW kind \in {"synack", "rst", "data", "finack"}, Down(kind, s, n)
  PROVE  down' \in Seq(DownPacket) /\ DownKept
  <1> DEFINE p == [kind |-> kind, key |-> sess[s].key, gen |-> sess[s].gen, seq |-> n, sid |-> s]
  <1>1. /\ p \in DownPacket /\ p.sid = s
        /\ p.key = sess[s].key /\ p.gen = sess[s].gen
    BY SessionFields DEF DownPacket
  <1>2. down' = Append(down, p) /\ down \in Seq(DownPacket)
    BY DEF Down, TypeOK
  <1> HIDE DEF p
  <1>3. down' \in Seq(DownPacket)
    BY <1>1, <1>2, AppendFacts
  <1> QED
    BY <1>1, <1>2, <1>3 DEF DownKept

\* A step of a session that has its packets and its table in order.
LEMMA RunStep ==
  ASSUME TypeOK, NatInv, sess' \in [Sessions -> Session \cup {Unborn}], SessKept,
         down' \in Seq(DownPacket), DownKept,
         UNCHANGED <<conn, up, nat, resent, lost>>
  PROVE  TypeOK' /\ NatInv'
  <1>1. /\ conn' \in [Keys -> Conn] /\ ConnKept
        /\ up' \in Seq(UpPacket) /\ UpKept
        /\ resent' \in 0 .. MaxResend /\ lost' \in 0 .. MaxLost
    BY ConnSame, SameRest
  <1>2. nat' \in [Keys -> Sessions \cup {None}] /\ NatKept
    BY DEF TypeOK, NatKept
  <1>3. TypeOK'
    BY <1>1, <1>2, TypeFrom
  <1> QED
    BY <1>1, <1>2, <1>3, KeepsInv

LEMMA ConnectFailsKeeps ==
  ASSUME TypeOK, NatInv, NEW s \in Sessions, ConnectFails(s)
  PROVE  TypeOK' /\ NatInv'
  <1> DEFINE x == [sess[s] EXCEPT !.pc = "failed", !.chan = <<>>]
  <1>1. Born(s)
    BY DEF ConnectFails, Born, Unborn
  <1>2. <<>> \in Seq(Payload) /\ Len(<<>>) = 0
    BY EmptySeq
  <1>3. /\ x \in Session /\ x.key = sess[s].key /\ x.gen = sess[s].gen
        /\ x.chan = <<>> /\ x.out = sess[s].out
    BY <1>1, <1>2, SessionFields DEF Session, Payload
  <1>4. sess' = [sess EXCEPT ![s] = x]
    BY <1>1, SessionFields DEF ConnectFails, TypeOK
  <1> HIDE DEF x
  <1>7. \A i \in 1 .. Len(x.chan) : x.chan[i].gen = x.gen
    BY <1>2, <1>3
  <1>8. \A i \in 1 .. Len(x.out) : x.out[i].gen = x.gen
    BY <1>1, <1>3, SessionFields
  <1>5. sess' \in [Sessions -> Session \cup {Unborn}] /\ SessKept
    BY <1>1, <1>3, <1>4, <1>7, <1>8, SessionStep
  <1>6. down' \in Seq(DownPacket) /\ DownKept
    BY <1>1, DownType DEF ConnectFails
  <1> QED
    BY <1>5, <1>6, RunStep DEF ConnectFails

LEMMA ConnectSucceedsKeeps ==
  ASSUME TypeOK, NatInv, NEW s \in Sessions, ConnectSucceeds(s)
  PROVE  TypeOK' /\ NatInv'
  <1> DEFINE x == [sess[s] EXCEPT !.pc = "open", !.seq = 1, !.a = "run", !.b = "run"]
  <1>1. Born(s)
    BY DEF ConnectSucceeds, Born, Unborn
  <1>3. /\ x \in Session /\ x.key = sess[s].key /\ x.gen = sess[s].gen
        /\ x.chan = sess[s].chan /\ x.out = sess[s].out
    BY <1>1, SessionFields DEF Session
  <1>4. sess' = [sess EXCEPT ![s] = x]
    BY <1>1, SessionFields DEF ConnectSucceeds, TypeOK
  <1> HIDE DEF x
  <1>5. sess' \in [Sessions -> Session \cup {Unborn}] /\ SessKept
    BY <1>1, <1>3, <1>4, SessionStep, SessionFields
  <1>6. down' \in Seq(DownPacket) /\ DownKept
    BY <1>1, DownType DEF ConnectSucceeds
  <1> QED
    BY <1>5, <1>6, RunStep DEF ConnectSucceeds

LEMMA SocksToTunKeeps ==
  ASSUME TypeOK, NatInv, NEW s \in Sessions, SocksToTun(s)
  PROVE  TypeOK' /\ NatInv'
  <1>1. Born(s)
    BY DEF SocksToTun, Born, Unborn
  <1>2. down' \in Seq(DownPacket) /\ DownKept
    BY <1>1, DownType, SessionFields DEF SocksToTun
  <1>3. ASSUME NEW x, x \in {[sess[s] EXCEPT !.seq = sess[s].seq + 1], [sess[s] EXCEPT !.a = "done"]},
               sess' = [sess EXCEPT ![s] = x]
        PROVE  sess' \in [Sessions -> Session \cup {Unborn}] /\ SessKept
    <2>1. sess[s].seq + 1 \in Nat
      BY <1>1, SessionFields
    <2>2. /\ x \in Session /\ x.key = sess[s].key /\ x.gen = sess[s].gen
          /\ x.chan = sess[s].chan /\ x.out = sess[s].out
      BY <1>1, <1>3, <2>1, SessionFields DEF Session
    <2>3. /\ \A i \in 1 .. Len(x.chan) : x.chan[i].gen = x.gen
          /\ \A i \in 1 .. Len(x.out) : x.out[i].gen = x.gen
      BY <1>1, <2>2, SessionFields
    <2> QED
      BY <1>1, <1>3, <2>2, <2>3, SessionStep
  <1>4. sess' \in [Sessions -> Session \cup {Unborn}] /\ SessKept
    BY <1>3 DEF SocksToTun
  <1> QED
    BY <1>2, <1>4, RunStep DEF SocksToTun

LEMMA DataToSocksKeeps ==
  ASSUME TypeOK, NatInv, NEW s \in Sessions, DataToSocks(s)
  PROVE  TypeOK' /\ NatInv'
  <1>1. Born(s)
    BY DEF DataToSocks, Born, Unborn
  <1> DEFINE c == sess[s].chan  o == sess[s].out
  <1>2. /\ c \in Seq(Payload) /\ o \in Seq(Payload) /\ <<>> \in Seq(Payload) /\ Len(<<>>) = 0
        /\ \A i \in 1 .. Len(c) : c[i].gen = sess[s].gen
        /\ \A i \in 1 .. Len(o) : o[i].gen = sess[s].gen
    BY <1>1, SessionFields, EmptySeq
  <1>3. CASE c # <<>> /\ sess' = [sess EXCEPT ![s].chan = Tail(@), ![s].out = Append(@, Head(c))]
    <2> DEFINE y == Tail(c)  z == Append(o, Head(c))
               x == [sess[s] EXCEPT !.chan = y, !.out = z]
    <2>1. y \in Seq(Payload) /\ \A i \in 1 .. Len(y) : y[i].gen = sess[s].gen
      BY <1>2, <1>3, TailFacts
    <2>2. Head(c) \in Payload /\ Head(c).gen = sess[s].gen
      BY <1>2, <1>3, TailFacts
    <2>3. z \in Seq(Payload) /\ \A i \in 1 .. Len(z) : z[i].gen = sess[s].gen
      BY <1>2, <2>2, AppendFacts
    <2>4. sess' = [sess EXCEPT ![s] = x]
      BY <1>1, <1>3, SessionFields DEF TypeOK
    <2> HIDE DEF y, z
    <2>5. /\ x \in Session /\ x.key = sess[s].key /\ x.gen = sess[s].gen /\ x.chan = y /\ x.out = z
      BY <1>1, <2>1, <2>3, SessionFields DEF Session, Payload
    <2> HIDE DEF x
    <2>6. sess' \in [Sessions -> Session \cup {Unborn}] /\ SessKept
      BY <1>1, <2>1, <2>3, <2>4, <2>5, SessionStep
    <2> QED
      BY <2>6, SameRest, RunStep DEF DataToSocks
  <1>4. CASE sess' = [sess EXCEPT ![s].chan = <<>>, ![s].b = "broken"]
    <2> DEFINE x == [sess[s] EXCEPT !.chan = <<>>, !.b = "broken"]
    <2>1. /\ x \in Session /\ x.key = sess[s].key /\ x.gen = sess[s].gen
          /\ x.chan = <<>> /\ x.out = o
      BY <1>1, <1>2, SessionFields DEF Session, Payload
    <2>2. sess' = [sess EXCEPT ![s] = x]
      BY <1>1, <1>4, SessionFields DEF TypeOK
    <2> HIDE DEF x
    <2>4. \A i \in 1 .. Len(x.chan) : x.chan[i].gen = x.gen
      BY <1>2, <2>1
    <2>5. \A i \in 1 .. Len(x.out) : x.out[i].gen = x.gen
      BY <1>2, <2>1
    <2>3. sess' \in [Sessions -> Session \cup {Unborn}] /\ SessKept
      BY <1>1, <2>1, <2>2, <2>4, <2>5, SessionStep
    <2> QED
      BY <2>3, SameRest, RunStep DEF DataToSocks
  <1>5. CASE sess' = [sess EXCEPT ![s].b = "done"]
    <2> DEFINE x == [sess[s] EXCEPT !.b = "done"]
    <2>1. /\ x \in Session /\ x.key = sess[s].key /\ x.gen = sess[s].gen
          /\ x.chan = c /\ x.out = o
      BY <1>1, SessionFields DEF Session
    <2>2. sess' = [sess EXCEPT ![s] = x]
      BY <1>1, <1>5, SessionFields DEF TypeOK
    <2> HIDE DEF x
    <2>4. \A i \in 1 .. Len(x.chan) : x.chan[i].gen = x.gen
      BY <1>2, <2>1
    <2>5. \A i \in 1 .. Len(x.out) : x.out[i].gen = x.gen
      BY <1>2, <2>1
    <2>3. sess' \in [Sessions -> Session \cup {Unborn}] /\ SessKept
      BY <1>1, <2>1, <2>2, <2>4, <2>5, SessionStep
    <2> QED
      BY <2>3, SameRest, RunStep DEF DataToSocks
  <1> QED
    BY <1>3, <1>4, <1>5 DEF DataToSocks

--------------------------------------------------------------------------------
(* handle_tcp.                                                             *)

LEMMA PacketTaken ==
  ASSUME TypeOK, NatInv, NEW kind, Packet(kind)
  PROVE  /\ up # <<>> /\ up' = Tail(up) /\ up' \in Seq(UpPacket) /\ UpKept
         /\ Head(up) = up[1] /\ 1 \in 1 .. Len(up) /\ UpOK(1)
         /\ Head(up).kind = kind /\ Head(up).key \in Keys
         /\ Head(up).gen \in 1 .. MaxGen /\ Head(up).item \in Nat
  <1>1. up # <<>> /\ up \in Seq(UpPacket) /\ up' = Tail(up)
    BY DEF Packet, TypeOK
  <1>2. /\ Head(up) \in UpPacket /\ Head(up) = up[1] /\ 1 \in 1 .. Len(up)
        /\ up' \in Seq(UpPacket)
    BY <1>1, TailFacts
  <1>3. UpOK(1)
    BY <1>2, UpInvByPacket DEF NatInv
  <1> QED
    BY <1>1, <1>2, <1>3 DEF Packet, UpPacket, UpKept

\* A packet taken, and the table perhaps told to forget its key.
LEMMA PacketStep ==
  ASSUME TypeOK, NatInv, NEW kind, Packet(kind),
         nat' \in [Keys -> Sessions \cup {None}], NatKept,
         sess' \in [Sessions -> Session \cup {Unborn}], SessKept,
         UNCHANGED <<conn, down, resent, lost>>
  PROVE  TypeOK' /\ NatInv'
  <1>1. /\ conn' \in [Keys -> Conn] /\ ConnKept
        /\ down' \in Seq(DownPacket) /\ DownKept
        /\ resent' \in 0 .. MaxResend /\ lost' \in 0 .. MaxLost
    BY ConnSame, SameRest
  <1>2. up' \in Seq(UpPacket) /\ UpKept
    BY PacketTaken
  <1>3. TypeOK'
    BY <1>1, <1>2, TypeFrom
  <1> QED
    BY <1>1, <1>2, <1>3, KeepsInv

LEMMA Forget ==
  ASSUME TypeOK, NEW k \in Keys, nat' = nat \/ nat' = [nat EXCEPT ![k] = None]
  PROVE  nat' \in [Keys -> Sessions \cup {None}] /\ NatKept
  BY DEF TypeOK, NatKept

LEMMA SameSessions ==
  ASSUME TypeOK, NatInv, sess' = sess
  PROVE  sess' \in [Sessions -> Session \cup {Unborn}] /\ SessKept
  BY SameSess DEF TypeOK

LEMMA OnRstKeeps ==
  ASSUME TypeOK, NatInv, OnRst
  PROVE  TypeOK' /\ NatInv'
  BY PacketTaken, Forget, SameSessions, PacketStep DEF OnRst

LEMMA OnFinKeeps ==
  ASSUME TypeOK, NatInv, OnFin
  PROVE  TypeOK' /\ NatInv'
  BY PacketTaken, Forget, SameSessions, PacketStep DEF OnFin

\* The session the table points at belongs to the connection a payload is of.
LEMMA PayloadIsOwn ==
  ASSUME TypeOK, NatInv, Packet("data"), nat[Head(up).key] # None
  PROVE  /\ nat[Head(up).key] \in Sessions /\ Born(nat[Head(up).key])
         /\ sess[nat[Head(up).key]].gen = Head(up).gen
  <1>1. PICK p \in UpPacket : p = Head(up) /\ p = up[1] /\ p.key \in Keys /\ p.gen \in Nat
    <2>1. Head(up) \in UpPacket
      BY TailFacts DEF Packet, TypeOK
    <2> QED
      BY <2>1, PacketTaken, Consts
  <1>2. /\ UpOK(1) /\ p.kind = "data"
    BY <1>1, PacketTaken
  <1>3. PICK s \in Sessions : s = nat[p.key]
    BY <1>1 DEF TypeOK
  <1>4. /\ Born(s) /\ sess[s].key = p.key
        /\ \A t \in Sessions : Born(t) /\ sess[t].key = p.key => t <= s
    BY <1>1, <1>3 DEF NatInv, NatIsNewest
  <1>5. sess[s].gen <= p.gen
    BY <1>1, <1>2, <1>4 DEF UpOK
  <1>6. PICK t \in Sessions : Born(t) /\ sess[t].key = p.key /\ sess[t].gen = p.gen
    BY <1>1, <1>2 DEF UpOK, Served
  <1>7. t <= s /\ s \in Nat /\ t \in Nat
    BY <1>4, <1>6, Consts DEF Sessions
  <1>8. sess[t].gen <= sess[s].gen
    <2>1. CASE t = s
      BY <1>1, <1>6, <2>1
    <2>2. CASE t < s
      BY <1>4, <1>6, <2>2 DEF NatInv, SessInv
    <2> QED
      BY <1>7, <2>1, <2>2
  <1>9. sess[s].gen \in Nat
    BY <1>4, SessionFields, Consts
  <1> QED
    BY <1>1, <1>3, <1>4, <1>5, <1>6, <1>8, <1>9

LEMMA OnDataKeeps ==
  ASSUME TypeOK, NatInv, OnData
  PROVE  TypeOK' /\ NatInv'
  <1> DEFINE p == Head(up)  s == nat[p.key]  load == [gen |-> p.gen, item |-> p.item]
  <1>1. Packet("data")
    BY DEF OnData
  <1>2. p.key \in Keys /\ p.gen \in 1 .. MaxGen /\ p.item \in Nat
    BY <1>1, PacketTaken
  <1>3. sess' \in [Sessions -> Session \cup {Unborn}] /\ SessKept
    <2>1. CASE sess' = sess
      BY <2>1, SameSessions
    <2>2. CASE s # None /\ sess' = [sess EXCEPT ![s].chan = Append(@, load)]
      <3>1. s \in Sessions /\ Born(s) /\ sess[s].gen = p.gen
        BY <1>1, <2>2, PayloadIsOwn
      <3>2. load \in Payload /\ load.gen = p.gen
        BY <1>2 DEF Payload
      <3> DEFINE y == Append(sess[s].chan, load)
                 x == [sess[s] EXCEPT !.chan = y]
      <3>3. y \in Seq(Payload) /\ \A i \in 1 .. Len(y) : y[i].gen = sess[s].gen
        <4>1. /\ sess[s].chan \in Seq(Payload)
              /\ \A i \in 1 .. Len(sess[s].chan) : sess[s].chan[i].gen = sess[s].gen
          BY <3>1, SessionFields
        <4> HIDE DEF s, load, p
        <4> QED
          BY <3>1, <3>2, <4>1, AppendFacts
      <3>4. sess' = [sess EXCEPT ![s] = x]
        BY <2>2, <3>1, SessionFields DEF TypeOK
      <3> HIDE DEF y
      <3>5. x \in Session /\ x.key = sess[s].key /\ x.gen = sess[s].gen
            /\ x.chan = y /\ x.out = sess[s].out
        BY <3>1, <3>3, SessionFields DEF Session, Payload
      <3> HIDE DEF x, s
      <3>6. /\ \A i \in 1 .. Len(x.chan) : x.chan[i].gen = x.gen
            /\ \A i \in 1 .. Len(x.out) : x.out[i].gen = x.gen
        BY <3>1, <3>3, <3>5, SessionFields
      <3> QED
        BY <3>1, <3>4, <3>5, <3>6, SessionStep
    <2> QED
      BY <2>1, <2>2 DEF OnData
  <1>4. nat' \in [Keys -> Sessions \cup {None}] /\ NatKept
    BY <1>2, Forget DEF OnData
  <1> QED
    BY <1>1, <1>3, <1>4, PacketStep DEF OnData

\* The first free session comes after every one that was spawned.
LEMMA FreshIsLast ==
  ASSUME TypeOK, NatInv, NEW s \in Fresh, \A t \in Fresh : s <= t
  PROVE  /\ s \in Sessions /\ ~Born(s)
         /\ \A t \in Sessions : Born(t) <=> t < s
  <1>1. s \in Sessions /\ s \in Nat /\ ~Born(s)
    BY Consts DEF Fresh, Born, Sessions
  <1> SUFFICES ASSUME NEW t \in Sessions
               PROVE  Born(t) <=> t < s
    BY <1>1
  <1>2. t \in Nat
    BY Consts DEF Sessions
  <1>3. ~Born(t) => s <= t
    BY DEF Fresh, Born
  <1>4. Born(t) => ~(s < t) /\ t # s
    BY <1>1 DEF NatInv, SessInv
  <1> QED
    BY <1>1, <1>2, <1>3, <1>4

LEMMA SpawnKeeps ==
  ASSUME TypeOK, NatInv, Packet("syn"), nat[Head(up).key] = None,
         NEW s \in Fresh, \A t \in Fresh : s <= t,
         nat' = [nat EXCEPT ![Head(up).key] = s], Spawn(s, Head(up)),
         UNCHANGED <<conn, down, resent, lost>>
  PROVE  TypeOK' /\ NatInv'
  <1>1. PICK p \in UpPacket : /\ p = Head(up) /\ p = up[1] /\ p.kind = "syn"
                             /\ p.key \in Keys /\ p.gen \in 1 .. MaxGen
    <2>1. Head(up) \in UpPacket
      BY TailFacts DEF Packet, TypeOK
    <2> QED
      BY <2>1, PacketTaken
  <1>2. s \in Sessions /\ ~Born(s) /\ \A t \in Sessions : Born(t) <=> t < s
    BY FreshIsLast
  <1> DEFINE x == [pc |-> "connect", key |-> p.key, gen |-> p.gen, chan |-> <<>>,
                   out |-> <<>>, seq |-> 0, a |-> "idle", b |-> "idle"]
  <1>3. sess' = [sess EXCEPT ![s] = x]
    BY <1>1 DEF Spawn
  <1>4. /\ x \in Session /\ x.key = p.key /\ x.gen = p.gen
        /\ Len(x.chan) = 0 /\ Len(x.out) = 0 /\ x # Unborn
    <2>1. <<>> \in Seq([gen : 1 .. MaxGen, item : Nat]) /\ Len(<<>>) = 0
      BY EmptySeq
    <2>2. x \in Session /\ x.pc # Unborn.pc
      BY <1>1, <2>1 DEF Session, Unborn
    <2> QED
      BY <2>1, <2>2
  <1> HIDE DEF x
  <1>5. \A t \in Sessions : sess'[t] = IF t = s THEN x ELSE sess[t]
    BY <1>3 DEF TypeOK
  <1>6. \A t \in Sessions : Born(t)' <=> Born(t) \/ t = s
    BY <1>4, <1>5 DEF Born
  <1>7. \A t \in Sessions : t # s => sess'[t] = sess[t]
    BY <1>5
  <1>8. sess'[s].key = p.key /\ sess'[s].gen = p.gen
    BY <1>2, <1>4, <1>5
  <1>9. /\ UpOK(1) /\ up \in Seq(UpPacket) /\ up # <<>> /\ up' = Tail(up)
        /\ up' \in Seq(UpPacket)
    BY PacketTaken DEF TypeOK
  <1>10. TypeOK'
    <2>1. /\ conn' \in [Keys -> Conn] /\ down' \in Seq(DownPacket)
          /\ resent' \in 0 .. MaxResend /\ lost' \in 0 .. MaxLost
      BY ConnSame, SameRest
    <2>2. nat' \in [Keys -> Sessions \cup {None}]
      BY <1>1, <1>2 DEF TypeOK
    <2>3. sess' \in [Sessions -> Session \cup {Unborn}]
      BY <1>3, <1>4 DEF TypeOK
    <2> QED
      BY <1>9, <2>1, <2>2, <2>3, TypeFrom
  <1>11. \A k, g : Served(k, g) => Served(k, g)'
    BY <1>2, <1>6, <1>7 DEF Served
  <1>12. ConnInv'
    BY <1>11 DEF NatInv, ConnInv, Established
  <1>13. SessInv'
    <2> SUFFICES ASSUME NEW u \in Sessions, Born(u)'
                 PROVE  /\ sess'[u].gen <= conn[sess'[u].key].gen
                        /\ \A t \in Sessions : t < u =>
                             /\ Born(t)'
                             /\ sess'[t].key = sess'[u].key => sess'[t].gen <= sess'[u].gen
      BY DEF SessInv
    <2>1. CASE u = s
      <3>1. p.gen <= conn[p.key].gen
        BY <1>1, <1>9 DEF UpOK
      <3>2. \A t \in Sessions : t < s =>
              Born(t) /\ t # s /\ (sess[t].key = p.key => sess[t].gen <= p.gen)
        BY <1>1, <1>2, <1>9 DEF UpOK
      <3> QED
        BY <1>6, <1>7, <1>8, <2>1, <3>1, <3>2
    <2>2. CASE u # s
      <3>1. Born(u) /\ u < s /\ sess'[u] = sess[u]
        BY <1>2, <1>6, <1>7, <2>2
      <3>2. \A t \in Sessions : t < u => t # s
        BY <1>2, <3>1, Consts DEF Sessions
      <3> QED
        BY <1>6, <1>7, <3>1, <3>2 DEF NatInv, SessInv
    <2> QED
      BY <2>1, <2>2
  <1>14. UpInv'
    <2> SUFFICES ASSUME NEW i \in 1 .. Len(up')
                 PROVE  UpOK(i)'
      BY UpInvByPacket
    <2>1. /\ i + 1 \in 1 .. Len(up) /\ up'[i] = up[i + 1]
          /\ \A j \in 1 .. i : up'[j] = up[j + 1] /\ j + 1 \in 1 .. i + 1
          /\ 1 \in 1 .. i + 1
      BY <1>9, TailFacts
    <2>2. PICK r \in UpPacket : r = up[i + 1]
      BY <1>9, <2>1, UpElement
    <2>3. UpOK(i + 1)
      BY <2>1, UpInvByPacket DEF NatInv
    <2>4. r.kind # "rst" /\ r.key = p.key => p.gen <= r.gen
      BY <1>1, <2>1, <2>2, <2>3 DEF UpOK
    <2> SUFFICES ASSUME r.kind # "rst"
                 PROVE  UpOK(i)'
      BY <2>1, <2>2 DEF UpOK
    <2>5. r.gen <= conn'[r.key].gen
      BY <2>2, <2>3 DEF UpOK
    <2>6. r.kind # "syn" => Served(r.key, r.gen)'
      BY <1>11, <2>2, <2>3 DEF UpOK
    <2>7. \A t \in Sessions : Born(t)' /\ sess'[t].key = r.key => sess'[t].gen <= r.gen
      <3> SUFFICES ASSUME NEW t \in Sessions, Born(t)', sess'[t].key = r.key
                   PROVE  sess'[t].gen <= r.gen
        OBVIOUS
      <3>1. CASE t = s
        BY <1>8, <2>4, <3>1
      <3>2. CASE t # s
        BY <1>6, <1>7, <2>2, <2>3, <3>2 DEF UpOK
      <3> QED
        BY <3>1, <3>2
    <2>8. \A j \in 1 .. i : up'[j].kind # "rst" /\ up'[j].key = r.key => up'[j].gen <= r.gen
      BY <2>1, <2>2, <2>3 DEF UpOK
    <2>9. up'[i] = r
      BY <2>1, <2>2
    <2> QED
      BY <2>5, <2>6, <2>7, <2>8, <2>9 DEF UpOK
  <1>15. DownInv'
    <2>1. \A i \in 1 .. Len(down) : down[i] \in DownPacket
      BY ElementOfSeq DEF TypeOK
    <2>2. \A d \in DownPacket : d.sid \in Sessions
      BY DEF DownPacket
    <2> QED
      BY <1>2, <1>6, <1>7, <2>1, <2>2 DEF NatInv, DownInv
  <1>16. NatIsNewest'
    <2> SUFFICES ASSUME NEW k \in Keys, nat'[k] # None
                 PROVE  /\ Born(nat[k])' /\ sess'[nat'[k]].key = k
                        /\ \A t \in Sessions : Born(t)' /\ sess'[t].key = k => t <= nat'[k]
      BY DEF NatIsNewest
    <2>1. CASE k = p.key
      <3>1. nat'[k] = s
        BY <1>1, <2>1 DEF TypeOK
      <3>2. \A t \in Sessions : Born(t)' => t <= s
        BY <1>2, <1>6, Consts DEF Sessions
      <3> QED
        BY <1>2, <1>6, <1>8, <2>1, <3>1, <3>2
    <2>2. CASE k # p.key
      <3>1. nat'[k] = nat[k] /\ nat[k] \in Sessions
        BY <1>1, <2>2 DEF TypeOK
      <3>2. Born(nat[k]) /\ nat[k] # s
        BY <1>2, <3>1 DEF NatInv, NatIsNewest
      <3> QED
        BY <1>6, <1>7, <1>8, <2>2, <3>1, <3>2 DEF NatInv, NatIsNewest
    <2> QED
      BY <2>1, <2>2
  <1>17. QueueIsOwn' /\ UpstreamIsOwn'
    BY <1>2, <1>4, <1>5, <1>6 DEF NatInv, QueueIsOwn, UpstreamIsOwn
  <1> QED
    BY <1>10, <1>12, <1>13, <1>14, <1>15, <1>16, <1>17 DEF NatInv

LEMMA OnSynKeeps ==
  ASSUME TypeOK, NatInv, OnSyn
  PROVE  TypeOK' /\ NatInv'
  <1>1. CASE UNCHANGED <<nat, sess>>
    BY <1>1, PacketTaken, Forget, SameSessions, PacketStep DEF OnSyn
  <1>2. CASE /\ nat[Head(up).key] = None
             /\ \E s \in Fresh : /\ \A t \in Fresh : s <= t
                                 /\ nat' = [nat EXCEPT ![Head(up).key] = s]
                                 /\ Spawn(s, Head(up))
    BY <1>2, SpawnKeeps DEF OnSyn
  <1> QED
    BY <1>1, <1>2 DEF OnSyn

--------------------------------------------------------------------------------
LEMMA InitHolds ==
  ASSUME Init
  PROVE  TypeOK /\ NatInv
  <1>1. Len(up) = 0 /\ Len(down) = 0 /\ up \in Seq(UpPacket) /\ down \in Seq(DownPacket)
    BY EmptySeq DEF Init
  <1>2. \A s \in Sessions : ~Born(s)
    BY DEF Init, Born
  <1>3. conn \in [Keys -> Conn] /\ \A k \in Keys : conn[k].st = "closed"
    <2>1. 0 \in 0 .. MaxGen
      BY Consts
    <2> QED
      BY <2>1, SocketType DEF Init
  <1>4. TypeOK
    BY <1>1, <1>3, Consts DEF TypeOK, Init, Conn
  <1>5. ConnInv /\ SessInv /\ UpInv /\ DownInv
    BY <1>1, <1>2, <1>3 DEF ConnInv, SessInv, UpInv, DownInv, Established
  <1>6. NatIsNewest /\ QueueIsOwn /\ UpstreamIsOwn
    BY <1>2 DEF Init, NatIsNewest, QueueIsOwn, UpstreamIsOwn
  <1> QED
    BY <1>4, <1>5, <1>6 DEF NatInv

LEMMA StutterKeeps ==
  ASSUME TypeOK, NatInv, UNCHANGED vars
  PROVE  TypeOK' /\ NatInv'
  BY ConnSame, SameRest, KernelStep DEF vars

LEMMA StepKeeps ==
  ASSUME TypeOK, NatInv, [Next]_vars
  PROVE  TypeOK' /\ NatInv'
  <1>1. ASSUME NEW k \in Keys, Kernel(k)
        PROVE  TypeOK' /\ NatInv'
    BY <1>1, KConnectKeeps, KSendKeeps, KResendKeeps, KCloseKeeps, KAbortKeeps,
       KGiveUpKeeps DEF Kernel
  <1>2. CASE HandleTcp
    BY <1>2, OnRstKeeps, OnSynKeeps, OnFinKeeps, OnDataKeeps DEF HandleTcp
  <1>3. ASSUME NEW s \in Sessions, RunSession(s)
        PROVE  TypeOK' /\ NatInv'
    BY <1>3, ConnectFailsKeeps, ConnectSucceedsKeeps, SocksToTunKeeps, DataToSocksKeeps
       DEF RunSession
  <1>4. CASE TunWrite
    BY <1>4, TunWriteKeeps
  <1>5. CASE TunWriteFails
    BY <1>5, TunWriteFailsKeeps
  <1>6. CASE UNCHANGED vars
    BY <1>6, StutterKeeps
  <1> QED
    BY <1>1, <1>2, <1>3, <1>4, <1>5, <1>6 DEF Next

--------------------------------------------------------------------------------
(* No gap: the packets on the way to handle_tcp, as a queue and a socket.  *)

\* OnTheWay, Sent and InOrder of any queue q and socket c.
Brings(q, k, g, n, m) == \E j \in 1 .. m : IsData(q[j], k, g) /\ q[j].item = n

Emitted(c) == {n \in 1 .. c.snd : c.st = "finwait" => n < c.snd}

Opened(c) == c.st \in {"estab", "finwait"}

Orderly(q, c, k, g, H) ==
  /\ \A i \in 1 .. Len(q) : IsData(q[i], k, g) =>
       \A n \in 1 .. q[i].item - 1 : n \in H \/ Brings(q, k, g, n, i - 1)
  /\ Opened(c) /\ c.gen = g =>
       \A n \in Emitted(c) : n \in H \/ Brings(q, k, g, n, Len(q))

LEMMA InOrderIsOrderly ==
  ASSUME NEW k, NEW g, NEW H
  PROVE  /\ InOrder(k, g, H) <=> Orderly(up, conn[k], k, g, H)
         /\ InOrder(k, g, H)' <=> Orderly(up', conn'[k], k, g, H)
  BY DEF InOrder, Orderly, OnTheWay, Brings, Sent, Emitted, Established, Opened, IsData

\* The same packets of the connection, the same or fewer segments sent.
LEMMA OrderlyOther ==
  ASSUME NEW q \in Seq(UpPacket), NEW c, NEW d, NEW k, NEW g, NEW H, Orderly(q, c, k, g, H),
         Opened(d) /\ d.gen = g =>
           Emitted(d) = {} \/ (Opened(c) /\ c.gen = g /\ Emitted(d) \subseteq Emitted(c)),
         NEW r, r = q \/ \E p \in UpPacket : r = Append(q, p) /\ ~IsData(p, k, g)
  PROVE  Orderly(r, d, k, g, H)
  <1>0. Len(q) \in Nat
    BY LenProperties
  <1>1. CASE r = q
    BY <1>1 DEF Orderly
  <1>2. ASSUME NEW p \in UpPacket, r = Append(q, p), ~IsData(p, k, g)
        PROVE  Orderly(r, d, k, g, H)
    <2>1. /\ Len(r) = Len(q) + 1 /\ r[Len(q) + 1] = p /\ \A i \in 1 .. Len(q) : r[i] = q[i]
      BY <1>2, AppendFacts
    <2> DEFINE m == Len(q)
    <2>2. m \in Nat /\ Len(r) = m + 1 /\ r[m + 1] = p /\ \A i \in 1 .. m : r[i] = q[i]
      BY <1>0, <2>1
    <2>3. ASSUME NEW i \in 0 .. m, NEW n, Brings(q, k, g, n, i)
          PROVE  Brings(r, k, g, n, i) /\ Brings(r, k, g, n, m + 1)
      <3>1. PICK j \in 1 .. i : IsData(q[j], k, g) /\ q[j].item = n
        BY <2>3 DEF Brings
      <3>2. r[j] = q[j] /\ j \in 1 .. m + 1
        BY <2>2
      <3> QED
        BY <3>1, <3>2 DEF Brings
    <2>4. ASSUME NEW i \in 1 .. Len(r), IsData(r[i], k, g), NEW n \in 1 .. r[i].item - 1
          PROVE  n \in H \/ Brings(r, k, g, n, i - 1)
      <3>1. i \in 1 .. m /\ r[i] = q[i]
        BY <1>2, <2>2, <2>4
      <3>2. n \in H \/ Brings(q, k, g, n, i - 1)
        BY <2>4, <3>1 DEF Orderly
      <3>3. i - 1 \in 0 .. m
        BY <2>2, <3>1
      <3> QED
        BY <2>3, <3>2, <3>3
    <2>5. ASSUME Opened(d), d.gen = g, NEW n \in Emitted(d)
          PROVE  n \in H \/ Brings(r, k, g, n, Len(r))
      <3>1. n \in H \/ Brings(q, k, g, n, m)
        BY <2>5 DEF Orderly
      <3>2. m \in 0 .. m
        BY <2>2
      <3> QED
        BY <2>2, <2>3, <3>1, <3>2
    <2> QED
      BY <2>4, <2>5 DEF Orderly
  <1> QED
    BY <1>1, <1>2

\* A segment sent, or sent again.
LEMMA OrderlySend ==
  ASSUME NEW q \in Seq(UpPacket), NEW c, NEW d, NEW k, NEW H, Orderly(q, c, k, c.gen, H),
         Opened(c), d.gen = c.gen, NEW p \in UpPacket, IsData(p, k, c.gen),
         \A n \in 1 .. p.item - 1 : n \in Emitted(c),
         Emitted(d) \subseteq Emitted(c) \cup {p.item}
  PROVE  Orderly(Append(q, p), d, k, c.gen, H)
  <1> DEFINE m == Len(q)  r == Append(q, p)  g == c.gen
  <1>1. m \in Nat /\ Len(r) = m + 1 /\ r[m + 1] = p /\ \A i \in 1 .. m : r[i] = q[i]
    BY AppendFacts
  <1> HIDE DEF m, r
  <1>3. ASSUME NEW i \in 0 .. m, NEW n, Brings(q, k, g, n, i)
        PROVE  Brings(r, k, g, n, i) /\ Brings(r, k, g, n, m + 1)
    <2>1. PICK j \in 1 .. i : IsData(q[j], k, g) /\ q[j].item = n
      BY <1>3 DEF Brings
    <2>2. r[j] = q[j] /\ j \in 1 .. m + 1
      BY <1>1
    <2> QED
      BY <2>1, <2>2 DEF Brings
  <1>4. ASSUME NEW n \in Emitted(c)
        PROVE  n \in H \/ (Brings(r, k, g, n, m) /\ Brings(r, k, g, n, m + 1))
    <2>1. n \in H \/ Brings(q, k, g, n, m)
      BY DEF Orderly, m
    <2>2. m \in 0 .. m
      BY <1>1
    <2> QED
      BY <1>3, <2>1, <2>2
  <1>5. ASSUME NEW i \in 1 .. Len(r), IsData(r[i], k, g), NEW n \in 1 .. r[i].item - 1
        PROVE  n \in H \/ Brings(r, k, g, n, i - 1)
    <2>1. CASE i = m + 1
      <3>1. n \in Emitted(c) /\ i - 1 = m
        BY <1>1, <1>5, <2>1
      <3> QED
        BY <1>4, <3>1
    <2>2. CASE i \in 1 .. m
      <3>1. n \in H \/ Brings(q, k, g, n, i - 1)
        BY <1>1, <1>5, <2>2 DEF Orderly, m
      <3>2. i - 1 \in 0 .. m
        BY <1>1, <2>2
      <3> QED
        BY <1>3, <3>1, <3>2
    <2> QED
      BY <1>1, <2>1, <2>2
  <1>6. ASSUME NEW n \in Emitted(d)
        PROVE  n \in H \/ Brings(r, k, g, n, Len(r))
    <2>1. CASE n = p.item
      <3>1. IsData(r[m + 1], k, g) /\ r[m + 1].item = n /\ m + 1 \in 1 .. Len(r)
        BY <1>1, <2>1
      <3> QED
        BY <3>1 DEF Brings
    <2>2. CASE n \in Emitted(c)
      BY <1>1, <1>4, <2>2
    <2> QED
      BY <2>1, <2>2
  <1> QED
    BY <1>5, <1>6 DEF Orderly, r

\* The first packet leaves for those who are to have it.
LEMMA OrderlyTail ==
  ASSUME NEW q \in Seq(UpPacket), q # <<>>, NEW c, NEW k, NEW g, NEW H, Orderly(q, c, k, g, H),
         NEW I, H \subseteq I, IsData(q[1], k, g) => q[1].item \in I
  PROVE  Orderly(Tail(q), c, k, g, I)
  <1> DEFINE m == Len(q)  r == Tail(q)
  <1>1. m \in Nat /\ m >= 1 /\ Len(r) = m - 1 /\ \A i \in 1 .. m - 1 : r[i] = q[i + 1]
    BY TailFacts
  <1> HIDE DEF m, r
  <1>2. ASSUME NEW i \in 0 .. m - 1, NEW n, Brings(q, k, g, n, i + 1)
        PROVE  n \in I \/ Brings(r, k, g, n, i)
    <2>1. PICK j \in 1 .. i + 1 : IsData(q[j], k, g) /\ q[j].item = n
      BY <1>2 DEF Brings
    <2>2. CASE j = 1
      BY <2>1, <2>2
    <2>3. CASE j # 1
      <3>1. j - 1 \in 1 .. i /\ j - 1 \in 1 .. m - 1 /\ (j - 1) + 1 = j
        BY <1>1, <2>3
      <3>2. r[j - 1] = q[j]
        BY <1>1, <3>1
      <3> QED
        BY <2>1, <3>1, <3>2 DEF Brings
    <2> QED
      BY <2>2, <2>3
  <1>3. ASSUME NEW i \in 1 .. Len(r), IsData(r[i], k, g), NEW n \in 1 .. r[i].item - 1
        PROVE  n \in I \/ Brings(r, k, g, n, i - 1)
    <2>1. i + 1 \in 1 .. m /\ r[i] = q[i + 1] /\ (i + 1) - 1 = i /\ i - 1 \in 0 .. m - 1
          /\ (i - 1) + 1 = i
      BY <1>1
    <2>2. n \in H \/ Brings(q, k, g, n, (i + 1) - 1)
      BY <1>3, <2>1 DEF Orderly, m
    <2>3. n \in H \/ Brings(q, k, g, n, (i - 1) + 1)
      BY <2>1, <2>2
    <2> QED
      BY <1>2, <2>1, <2>3
  <1>4. ASSUME Opened(c), c.gen = g, NEW n \in Emitted(c)
        PROVE  n \in I \/ Brings(r, k, g, n, Len(r))
    <2>1. n \in H \/ Brings(q, k, g, n, m)
      BY <1>4 DEF Orderly, m
    <2>2. m - 1 \in 0 .. m - 1 /\ (m - 1) + 1 = m
      BY <1>1
    <2> QED
      BY <1>1, <1>2, <2>1, <2>2
  <1> QED
    BY <1>3, <1>4 DEF Orderly, r

--------------------------------------------------------------------------------
(* No gap: the kernel's steps.                                             *)

\* GapInv on queues and sockets.
SynsOK(q, cs) ==
  \A i \in 1 .. Len(q) : q[i].kind = "syn" =>
    /\ Orderly(q, cs[q[i].key], q[i].key, q[i].gen, {})
    /\ \A j \in 1 .. i : ~IsData(q[j], q[i].key, q[i].gen)

NoData(q, k, g) == \A i \in 1 .. Len(q) : ~IsData(q[i], k, g)

LEMMA GapParts ==
  /\ SynInv <=> SynsOK(up, conn)
  /\ SynInv' <=> SynsOK(up', conn')
  /\ ConnectingInv <=>
       \A k \in Keys : conn[k].st = "synsent" => conn[k].snd = 0 /\ NoData(up, k, conn[k].gen)
  /\ ConnectingInv' <=>
       \A k \in Keys : conn'[k].st = "synsent" => conn'[k].snd = 0 /\ NoData(up', k, conn'[k].gen)
  BY DEF SynInv, ConnectingInv, SynsOK, NoData, IsData, InOrder, Orderly, OnTheWay, Brings, Sent,
         Emitted, Established, Opened

\* The table sees packets and sockets only through Orderly.
LEMMA TableParts ==
  /\ TableInv <=> \A k \in Keys : nat[k] # None /\ Listening(nat[k]) =>
       Orderly(up, conn[k], k, sess[nat[k]].gen, Held(nat[k]))
  /\ TableInv' <=> \A k \in Keys : nat'[k] # None /\ Listening(nat[k])' =>
       Orderly(up', conn'[k], k, sess'[nat'[k]].gen, Held(nat[k])')
  BY DEF TableInv, InOrder, Orderly, OnTheWay, Brings, Sent, Emitted, Established, Opened, IsData

\* The kernel moves the socket of k and may send a packet of it.
LEMMA KernelGap ==
  ASSUME TypeOK, TypeOK', NatInv, GapInv, nat' = nat, sess' = sess, NEW k \in Keys,
         \A j \in Keys \ {k} : conn'[j] = conn[j],
         up' = up \/ \E p \in UpPacket :
           /\ up' = Append(up, p) /\ p.key = k
           /\ p.kind = "syn" => conn'[k].st = "synsent" /\ p.gen = conn'[k].gen,
         \A g, H : Orderly(up, conn[k], k, g, H) => Orderly(up', conn'[k], k, g, H),
         conn'[k].st = "synsent" => conn'[k].snd = 0 /\ NoData(up', k, conn'[k].gen)
  PROVE  GapInv'
  <1>1. up \in Seq(UpPacket) /\ up' \in Seq(UpPacket)
    BY DEF TypeOK
  <1>2. ASSUME NEW j \in Keys, NEW g, NEW H, Orderly(up, conn[j], j, g, H)
        PROVE  Orderly(up', conn'[j], j, g, H)
    <2>1. CASE j = k
      BY <1>2, <2>1
    <2>2. CASE j # k
      <3>1. conn'[j] = conn[j]
        BY <2>2
      <3>2. up' = up \/ \E p \in UpPacket : up' = Append(up, p) /\ ~IsData(p, j, g)
        BY <2>2 DEF IsData
      <3> QED
        BY <1>1, <1>2, <3>1, <3>2, OrderlyOther
    <2> QED
      BY <2>1, <2>2
  <1>3. SynInv'
    <2>1. SynsOK(up, conn)
      BY GapParts DEF GapInv
    <2>2. ASSUME NEW i \in 1 .. Len(up), up'[i] = up[i], \A j \in 1 .. i : up'[j] = up[j],
                 up[i].kind = "syn"
          PROVE  /\ Orderly(up', conn'[up'[i].key], up'[i].key, up'[i].gen, {})
                 /\ \A j \in 1 .. i : ~IsData(up'[j], up'[i].key, up'[i].gen)
      <3>1. up[i].key \in Keys
        BY <1>1, UpElement
      <3> QED
        BY <1>2, <2>1, <2>2, <3>1 DEF SynsOK
    <2>3. CASE up' = up
      <3>1. \A i \in 1 .. Len(up') : up'[i] = up[i] /\ i \in 1 .. Len(up)
                                       /\ \A j \in 1 .. i : up'[j] = up[j]
        BY <2>3
      <3>2. SynsOK(up', conn')
        BY <2>2, <3>1 DEF SynsOK
      <3> QED
        BY <3>2, GapParts
    <2>4. ASSUME NEW p \in UpPacket, up' = Append(up, p), p.key = k,
                 p.kind = "syn" => conn'[k].st = "synsent" /\ p.gen = conn'[k].gen
          PROVE  SynInv'
      <3> DEFINE m == Len(up)
      <3>1. m \in Nat /\ Len(up') = m + 1 /\ up'[m + 1] = p /\ \A i \in 1 .. m : up'[i] = up[i]
        BY <1>1, <2>4, AppendFacts
      <3>2. ASSUME NEW i \in 1 .. m, up'[i].kind = "syn"
            PROVE  /\ Orderly(up', conn'[up'[i].key], up'[i].key, up'[i].gen, {})
                   /\ \A j \in 1 .. i : ~IsData(up'[j], up'[i].key, up'[i].gen)
        <4>1. up'[i] = up[i] /\ \A j \in 1 .. i : up'[j] = up[j]
          BY <3>1
        <4> QED
          BY <2>2, <3>2, <4>1
      <3>3. ASSUME p.kind = "syn"
            PROVE  /\ Orderly(up', conn'[p.key], p.key, p.gen, {})
                   /\ \A j \in 1 .. m + 1 : ~IsData(up'[j], p.key, p.gen)
        <4>1. NoData(up', k, p.gen) /\ ~Opened(conn'[k])
          BY <2>4, <3>3 DEF Opened
        <4> QED
          BY <2>4, <3>1, <4>1 DEF NoData, Orderly
      <3>4. SynsOK(up', conn')
        <4> SUFFICES ASSUME NEW i \in 1 .. Len(up'), up'[i].kind = "syn"
                     PROVE  /\ Orderly(up', conn'[up'[i].key], up'[i].key, up'[i].gen, {})
                            /\ \A j \in 1 .. i : ~IsData(up'[j], up'[i].key, up'[i].gen)
          BY DEF SynsOK
        <4>1. i \in 1 .. m \/ i = m + 1
          BY <3>1
        <4> QED
          BY <3>1, <3>2, <3>3, <4>1
      <3> QED
        BY <3>4, GapParts
    <2> QED
      BY <2>3, <2>4
  <1>4. ConnectingInv'
    <2> SUFFICES ASSUME NEW j \in Keys, conn'[j].st = "synsent"
                 PROVE  conn'[j].snd = 0 /\ NoData(up', j, conn'[j].gen)
      BY GapParts
    <2>1. CASE j = k
      BY <2>1
    <2>2. CASE j # k
      <3>1. conn'[j] = conn[j]
        BY <2>2
      <3>2. conn[j].snd = 0 /\ NoData(up, j, conn[j].gen)
        BY <3>1, GapParts DEF GapInv
      <3>3. NoData(up', j, conn[j].gen)
        <4>1. CASE up' = up
          BY <3>2, <4>1
        <4>2. ASSUME NEW p \in UpPacket, up' = Append(up, p), p.key = k
              PROVE  NoData(up', j, conn[j].gen)
          <5> DEFINE m == Len(up)
          <5>1. m \in Nat /\ Len(up') = m + 1 /\ up'[m + 1] = p /\ \A i \in 1 .. m : up'[i] = up[i]
            BY <1>1, <4>2, AppendFacts
          <5>2. ~IsData(p, j, conn[j].gen)
            BY <2>2, <4>2 DEF IsData
          <5>3. \A i \in 1 .. m : ~IsData(up[i], j, conn[j].gen)
            BY <3>2 DEF NoData
          <5> HIDE DEF m
          <5>4. \A i \in 1 .. Len(up') : i \in 1 .. m \/ i = m + 1
            BY <5>1
          <5> QED
            BY <5>1, <5>2, <5>3, <5>4 DEF NoData
        <4> QED
          BY <4>1, <4>2
      <3> QED
        BY <3>1, <3>2, <3>3
    <2> QED
      BY <2>1, <2>2
  <1>5. TableInv'
    <2>1. /\ \A s : (Listening(s)' <=> Listening(s)) /\ Held(s)' = Held(s)
      BY DEF Listening, Held
    <2> QED
      BY <1>2, <2>1, TableParts DEF GapInv
  <1>6. WaitingInv' /\ QueueHasNoGap' /\ UpstreamHasNoGap'
    BY DEF GapInv, WaitingInv, QueueHasNoGap, UpstreamHasNoGap, Born
  <1> QED
    BY <1>3, <1>4, <1>5, <1>6 DEF GapInv

LEMMA UpIs ==
  ASSUME TypeOK, NEW kind \in {"syn", "data", "fin", "rst"}, NEW k \in Keys,
         NEW g \in 1 .. MaxGen, NEW n \in Nat, Up(kind, k, g, n)
  PROVE  \E p \in UpPacket :
           up' = Append(up, p) /\ p.kind = kind /\ p.key = k /\ p.gen = g /\ p.item = n
  BY DEF UpPacket, Up

LEMMA NoDataMore ==
  ASSUME NEW q \in Seq(UpPacket), NEW p \in UpPacket, NEW k, NEW g, NoData(q, k, g),
         ~IsData(p, k, g)
  PROVE  NoData(Append(q, p), k, g)
  <1> DEFINE m == Len(q)  r == Append(q, p)
  <1>1. m \in Nat /\ Len(r) = m + 1 /\ r[m + 1] = p /\ \A i \in 1 .. m : r[i] = q[i]
    BY AppendFacts
  <1>2. \A i \in 1 .. m : ~IsData(q[i], k, g)
    BY DEF NoData
  <1> HIDE DEF m, r
  <1>3. \A i \in 1 .. Len(r) : ~IsData(r[i], k, g)
    <2> TAKE i \in 1 .. Len(r)
    <2>1. i \in 1 .. m \/ i = m + 1
      BY <1>1
    <2> QED
      BY <1>1, <1>2, <2>1
  <1> QED
    BY <1>3 DEF NoData, r

\* The socket of k becomes d, which has sent nothing more, and perhaps sends a RST
\* or a FIN.
LEMMA KernelOther ==
  ASSUME TypeOK, TypeOK', NatInv, GapInv, nat' = nat, sess' = sess, NEW k \in Keys, NEW d,
         conn' = [conn EXCEPT ![k] = d],
         Opened(d) => Emitted(d) = {}
                        \/ (Opened(conn[k]) /\ d.gen = conn[k].gen /\ Emitted(d) \subseteq Emitted(conn[k])),
         d.st = "synsent" =>
           conn[k].st = "synsent" /\ d.gen = conn[k].gen /\ d.snd = conn[k].snd,
         up' = up \/ \E p \in UpPacket :
           up' = Append(up, p) /\ p.key = k /\ p.kind \in {"rst", "fin"}
  PROVE  GapInv'
  <1>1. conn'[k] = d /\ \A j \in Keys \ {k} : conn'[j] = conn[j]
    BY DEF TypeOK
  <1>2. up \in Seq(UpPacket)
    BY DEF TypeOK
  <1>3. \A g : up' = up \/ \E p \in UpPacket : up' = Append(up, p) /\ ~IsData(p, k, g)
    BY DEF IsData
  <1>4. ASSUME NEW g, NEW H, Orderly(up, conn[k], k, g, H)
        PROVE  Orderly(up', d, k, g, H)
    <2>1. Opened(d) /\ d.gen = g => Emitted(d) = {}
             \/ (Opened(conn[k]) /\ conn[k].gen = g /\ Emitted(d) \subseteq Emitted(conn[k]))
      OBVIOUS
    <2>2. up' = up \/ \E p \in UpPacket : up' = Append(up, p) /\ ~IsData(p, k, g)
      BY <1>3
    <2> QED
      BY <1>2, <1>4, <2>1, <2>2, OrderlyOther
  <1>5. ASSUME d.st = "synsent"
        PROVE  d.snd = 0 /\ NoData(up', k, d.gen)
    <2>1. d.snd = 0 /\ NoData(up, k, d.gen)
      BY <1>5, GapParts DEF GapInv
    <2> QED
      BY <1>2, <1>3, <2>1, NoDataMore
  <1>6. up' = up \/ \E p \in UpPacket :
          /\ up' = Append(up, p) /\ p.key = k
          /\ p.kind = "syn" => conn'[k].st = "synsent" /\ p.gen = conn'[k].gen
    OBVIOUS
  <1> QED
    BY <1>1, <1>4, <1>5, <1>6, KernelGap

\* A first SYN, or the same again.
LEMMA KernelSyn ==
  ASSUME TypeOK, TypeOK', NatInv, GapInv, nat' = nat, sess' = sess, NEW k \in Keys, NEW d,
         conn' = [conn EXCEPT ![k] = d], d.st = "synsent", d.snd = 0, NoData(up, k, d.gen),
         NEW p \in UpPacket, up' = Append(up, p), p.kind = "syn", p.key = k, p.gen = d.gen
  PROVE  GapInv'
  <1>1. conn'[k] = d /\ \A j \in Keys \ {k} : conn'[j] = conn[j]
    BY DEF TypeOK
  <1>2. up \in Seq(UpPacket) /\ \A g : ~IsData(p, k, g)
    BY DEF TypeOK, IsData
  <1>3. ~Opened(d)
    BY DEF Opened
  <1>4. \A g, H : Orderly(up, conn[k], k, g, H) => Orderly(up', d, k, g, H)
    BY <1>2, <1>3, OrderlyOther
  <1>5. NoData(up', k, d.gen)
    BY <1>2, NoDataMore
  <1> QED
    BY <1>1, <1>4, <1>5, KernelGap

\* A segment, for the first time or again.
LEMMA KernelData ==
  ASSUME TypeOK, TypeOK', NatInv, GapInv, nat' = nat, sess' = sess, NEW k \in Keys, NEW d,
         conn' = [conn EXCEPT ![k] = d], Opened(conn[k]), Opened(d), d.gen = conn[k].gen,
         NEW p \in UpPacket, up' = Append(up, p), IsData(p, k, d.gen),
         \A n \in 1 .. p.item - 1 : n \in Emitted(conn[k]),
         Emitted(d) \subseteq Emitted(conn[k]) \cup {p.item}
  PROVE  GapInv'
  <1> DEFINE c == conn[k]
  <1>1. conn'[k] = d /\ \A j \in Keys \ {k} : conn'[j] = conn[j]
    BY DEF TypeOK
  <1>2. up \in Seq(UpPacket) /\ p.key = k /\ p.kind = "data" /\ p.gen = c.gen
    BY DEF TypeOK, IsData
  <1> HIDE DEF c
  <1>3. ASSUME NEW g, NEW H, Orderly(up, c, k, g, H)
        PROVE  Orderly(up', d, k, g, H)
    <2>1. CASE g = c.gen
      BY <1>2, <1>3, <2>1, OrderlySend DEF c
    <2>2. CASE g # c.gen
      <3>1. ~IsData(p, k, g) /\ ~(Opened(d) /\ d.gen = g)
        BY <1>2, <2>2 DEF IsData, c
      <3> QED
        BY <1>2, <1>3, <3>1, OrderlyOther
    <2> QED
      BY <2>1, <2>2
  <1>4. d.st # "synsent"
    BY DEF Opened
  <1> QED
    BY <1>1, <1>2, <1>3, <1>4, KernelGap DEF c

LEMMA KConnectGap ==
  ASSUME TypeOK, NatInv, GapInv, NEW k \in Keys, KConnect(k)
  PROVE  GapInv'
  <1> DEFINE g == conn[k].gen + 1
             d == Socket("synsent", g)
  <1>1. g \in 1 .. MaxGen /\ 0 \in Nat
    BY ConnType, Consts DEF KConnect
  <1>2. d.st = "synsent" /\ d.snd = 0 /\ d.gen = g
    BY DEF Socket
  <1>3. conn' = [conn EXCEPT ![k] = d] /\ Up("syn", k, g, 0) /\ nat' = nat /\ sess' = sess
    BY DEF KConnect
  <1>4. PICK p \in UpPacket : up' = Append(up, p) /\ p.kind = "syn" /\ p.key = k /\ p.gen = g
    BY <1>1, <1>3, UpIs
  <1>5. NoData(up, k, g)
    <2> SUFFICES ASSUME NEW i \in 1 .. Len(up), IsData(up[i], k, g) PROVE FALSE
      BY DEF NoData
    <2>1. up[i].gen <= conn[up[i].key].gen /\ up[i].key = k /\ up[i].gen = g
      BY UpInvByPacket DEF NatInv, IsData, UpOK
    <2>2. conn[k].gen \in Nat
      BY ConnType, Consts
    <2> QED
      BY <2>1, <2>2
  <1> HIDE DEF d, g
  <1> QED
    BY <1>2, <1>3, <1>4, <1>5, KConnectKeeps, KernelSyn

LEMMA KSendGap ==
  ASSUME TypeOK, NatInv, GapInv, NEW k \in Keys, KSend(k)
  PROVE  GapInv'
  <1> DEFINE c == conn[k]
             n == c.snd + 1
             d == [c EXCEPT !.snd = n]
  <1>1. c \in Conn /\ c.snd \in Nat /\ c.gen \in 1 .. MaxGen /\ c.st = "estab"
    BY ConnType, Consts DEF KSend, NatInv, ConnInv
  <1>2. d.gen = c.gen /\ d.st = "estab" /\ d.snd = n /\ n \in Nat
    BY <1>1 DEF Conn
  <1>3. conn' = [conn EXCEPT ![k] = d] /\ Up("data", k, c.gen, n) /\ nat' = nat /\ sess' = sess
    BY ConnType DEF KSend
  <1>4. PICK p \in UpPacket :
          up' = Append(up, p) /\ p.kind = "data" /\ p.key = k /\ p.gen = c.gen /\ p.item = n
    BY <1>1, <1>2, <1>3, UpIs
  <1>5. Emitted(c) = 1 .. c.snd /\ Emitted(d) = 1 .. n
    BY <1>1, <1>2 DEF Emitted
  <1>6. 1 .. n \subseteq 1 .. c.snd \cup {n} /\ n - 1 = c.snd
    BY <1>1
  <1>7. Opened(c) /\ Opened(d) /\ IsData(p, k, d.gen)
    BY <1>1, <1>2, <1>4 DEF Opened, IsData
  <1> HIDE DEF d, n
  <1>8. (\A i \in 1 .. p.item - 1 : i \in Emitted(c)) /\ Emitted(d) \subseteq Emitted(c) \cup {p.item}
    BY <1>4, <1>5, <1>6
  <1> QED
    BY <1>2, <1>3, <1>4, <1>7, <1>8, KSendKeeps, KernelData

LEMMA KResendGap ==
  ASSUME TypeOK, NatInv, GapInv, NEW k \in Keys, KResend(k)
  PROVE  GapInv'
  <1> DEFINE c == conn[k]
  <1>1. c \in Conn /\ c.snd \in Nat /\ (c.st # "closed" => c.gen \in 1 .. MaxGen)
    BY ConnType, Consts DEF NatInv, ConnInv
  <1>2. conn' = [conn EXCEPT ![k] = c] /\ nat' = nat /\ sess' = sess
    BY DEF KResend, TypeOK
  <1>3. TypeOK'
    BY KResendKeeps
  <1>4. CASE c.st = "synsent" /\ Up("syn", k, c.gen, 0)
    <2>1. PICK p \in UpPacket : up' = Append(up, p) /\ p.kind = "syn" /\ p.key = k /\ p.gen = c.gen
      BY <1>1, <1>4, UpIs
    <2>2. c.snd = 0 /\ NoData(up, k, c.gen)
      BY <1>4, GapParts DEF GapInv
    <2> QED
      BY <1>2, <1>3, <1>4, <2>1, <2>2, KernelSyn
  <1>5. ASSUME NEW n \in 1 .. c.snd, c.st \in {"estab", "finwait"}, Up("data", k, c.gen, n)
        PROVE  GapInv'
    <2>1. n \in Nat
      BY <1>1
    <2>2. PICK p \in UpPacket :
            up' = Append(up, p) /\ p.kind = "data" /\ p.key = k /\ p.gen = c.gen /\ p.item = n
      BY <1>1, <1>5, <2>1, UpIs
    <2>3. \A i \in 1 .. n - 1 : i \in Emitted(c)
      BY <1>1 DEF Emitted
    <2>4. Opened(c) /\ IsData(p, k, c.gen)
      BY <1>5, <2>2 DEF Opened, IsData
    <2> HIDE DEF c
    <2> QED
      BY <1>2, <1>3, <2>2, <2>3, <2>4, KernelData DEF c
  <1>6. CASE c.st = "finwait" /\ Up("fin", k, c.gen, 0)
    <2>1. PICK p \in UpPacket : up' = Append(up, p) /\ p.kind = "fin" /\ p.key = k /\ p.gen = c.gen
      BY <1>1, <1>6, UpIs
    <2>2. Opened(c) => Emitted(c) = {} \/ (Opened(conn[k]) /\ c.gen = conn[k].gen /\ Emitted(c) \subseteq Emitted(conn[k]))
      OBVIOUS
    <2> QED
      BY <1>2, <1>3, <1>6, <2>1, <2>2, KernelOther
  <1> QED
    BY <1>4, <1>5, <1>6 DEF KResend

LEMMA KCloseGap ==
  ASSUME TypeOK, NatInv, GapInv, NEW k \in Keys, KClose(k)
  PROVE  GapInv'
  <1> DEFINE c == conn[k]
  <1>1. PICK n \in {c.snd, c.snd + 1} :
          /\ conn' = [conn EXCEPT ![k].st = "finwait", ![k].snd = n]
          /\ Up("fin", k, c.gen, IF n = c.snd THEN 0 ELSE n)
    BY DEF KClose
  <1> DEFINE d == [c EXCEPT !.st = "finwait", !.snd = n]
  <1>2. c \in Conn /\ c.snd \in Nat /\ c.gen \in 1 .. MaxGen /\ c.st = "estab"
        /\ n \in Nat /\ (IF n = c.snd THEN 0 ELSE n) \in Nat
    BY <1>1, ConnType, Consts DEF KClose, NatInv, ConnInv
  <1>3. d.gen = c.gen /\ d.st = "finwait" /\ d.snd = n
    BY <1>2 DEF Conn
  <1>4. conn' = [conn EXCEPT ![k] = d] /\ nat' = nat /\ sess' = sess
    BY <1>1, ConnType DEF KClose
  <1>5. PICK p \in UpPacket : up' = Append(up, p) /\ p.kind = "fin" /\ p.key = k
    BY <1>1, <1>2, UpIs
  <1>6. Emitted(d) \subseteq Emitted(c) /\ Opened(c)
    BY <1>1, <1>2, <1>3 DEF Emitted, Opened
  <1>7. TypeOK'
    BY KCloseKeeps
  <1> HIDE DEF d
  <1> QED
    BY <1>3, <1>4, <1>5, <1>6, <1>7, KernelOther

\* KAbort and KGiveUp.
LEMMA CloseGap ==
  ASSUME TypeOK, NatInv, GapInv, NEW k \in Keys, KAbort(k) \/ KGiveUp(k)
  PROVE  GapInv'
  <1> DEFINE c == conn[k]
             d == [c EXCEPT !.st = "closed"]
  <1>1. c \in Conn /\ c.st # "closed" /\ c.gen \in 1 .. MaxGen
    BY ConnType, Consts DEF KAbort, KGiveUp, NatInv, ConnInv
  <1>2. d.st = "closed" /\ conn' = [conn EXCEPT ![k] = d] /\ nat' = nat /\ sess' = sess
    BY <1>1, ConnType DEF KAbort, KGiveUp, Conn
  <1>3. up' = up \/ \E p \in UpPacket :
          up' = Append(up, p) /\ p.key = k /\ p.kind \in {"rst", "fin"}
    BY <1>1, UpIs DEF KAbort, KGiveUp
  <1>4. TypeOK'
    BY KAbortKeeps, KGiveUpKeeps
  <1>5. ~Opened(d)
    BY <1>2 DEF Opened
  <1> HIDE DEF d
  <1> QED
    BY <1>2, <1>3, <1>4, <1>5, KernelOther

\* A packet that arrives may open or close the socket, and may be answered by a RST.
LEMMA TunWriteGap ==
  ASSUME TypeOK, NatInv, GapInv, TunWrite
  PROVE  GapInv'
  <1> DEFINE p == Head(down)
             k == p.key
             c == conn[k]
  <1>1. p \in DownPacket /\ k \in Keys /\ p.gen \in 1 .. MaxGen /\ p.sid \in Sessions /\ p.seq \in Nat
    BY DownElement DEF TunWrite, DownPacket
  <1>2. TypeOK' /\ nat' = nat /\ sess' = sess /\ c \in Conn /\ KReceive(p)
    BY <1>1, TunWriteKeeps, ConnType DEF TunWrite
  <1> HIDE DEF p
  <1>3. ASSUME NEW d, conn' = [conn EXCEPT ![k] = d], d.gen = c.gen, d.snd = c.snd,
               d.st = c.st, up' = up \/ Up("rst", k, p.gen, 0)
        PROVE  GapInv'
    <2>1. up' = up \/ \E r \in UpPacket :
            up' = Append(up, r) /\ r.key = k /\ r.kind \in {"rst", "fin"}
      BY <1>1, <1>3, UpIs
    <2>2. (Opened(d) <=> Opened(c)) /\ Emitted(d) = Emitted(c)
      BY <1>3 DEF Opened, Emitted
    <2> QED
      BY <1>1, <1>2, <1>3, <2>1, <2>2, KernelOther
  <1>4. CASE Up("rst", k, p.gen, 0) /\ conn' = conn
    <2>1. conn' = [conn EXCEPT ![k] = c]
      BY <1>4 DEF TypeOK
    <2> QED
      BY <1>3, <1>4, <2>1
  <1>5. CASE UNCHANGED <<conn, up>>
    <2>1. conn' = [conn EXCEPT ![k] = c]
      BY <1>5 DEF TypeOK
    <2> QED
      BY <1>3, <1>5, <2>1
  <1>6. CASE c.st = "synsent" /\ conn' = [conn EXCEPT ![k].st = "estab"] /\ UNCHANGED up
    <2> DEFINE d == [c EXCEPT !.st = "estab"]
    <2>1. d.st = "estab" /\ d.snd = c.snd /\ conn' = [conn EXCEPT ![k] = d]
      BY <1>1, <1>2, <1>6, ConnType DEF Conn
    <2>2. c.snd = 0
      BY <1>1, <1>6, GapParts DEF GapInv
    <2>3. Emitted(d) = {}
      BY <2>1, <2>2 DEF Emitted
    <2> HIDE DEF d
    <2> QED
      BY <1>1, <1>2, <1>6, <2>1, <2>3, KernelOther
  <1>7. CASE conn' = [conn EXCEPT ![k].st = "closed"] /\ UNCHANGED up
    <2> DEFINE d == [c EXCEPT !.st = "closed"]
    <2>1. d.st = "closed" /\ conn' = [conn EXCEPT ![k] = d]
      BY <1>1, <1>2, <1>7, ConnType DEF Conn
    <2>2. ~Opened(d)
      BY <2>1 DEF Opened
    <2> HIDE DEF d
    <2> QED
      BY <1>1, <1>2, <1>7, <2>1, <2>2, KernelOther
  <1>8. CASE conn' = [conn EXCEPT ![k].rcv = Append(@, <<p.sid, p.seq>>)] /\ UNCHANGED up
    <2> DEFINE r == Append(c.rcv, <<p.sid, p.seq>>)
               d == [c EXCEPT !.rcv = r]
    <2>1. conn' = [conn EXCEPT ![k] = d]
      BY <1>1, <1>8, ConnType
    <2>2. d.st = c.st /\ d.snd = c.snd /\ d.gen = c.gen
      BY <1>2 DEF Conn
    <2> HIDE DEF d
    <2> QED
      BY <1>3, <1>8, <2>1, <2>2
  <1>9. CASE conn' = [conn EXCEPT ![k].eof = TRUE] /\ UNCHANGED up
    <2> DEFINE d == [c EXCEPT !.eof = TRUE]
    <2>1. conn' = [conn EXCEPT ![k] = d] /\ d.st = c.st /\ d.snd = c.snd /\ d.gen = c.gen
      BY <1>1, <1>2, <1>9, ConnType DEF Conn
    <2> HIDE DEF d
    <2> QED
      BY <1>3, <1>9, <2>1
  <1> QED
    BY <1>2, <1>4, <1>5, <1>6, <1>7, <1>8, <1>9 DEF KReceive


--------------------------------------------------------------------------------
(* No gap: the two queues of a session.                                    *)

NoGapIn(o) ==
  \A i \in 1 .. Len(o) : \A n \in 1 .. o[i].item - 1 : \E j \in 1 .. i - 1 : o[j].item = n

NoGapAfter(o, c) ==
  \A i \in 1 .. Len(c) : \A n \in 1 .. c[i].item - 1 :
    \/ \E j \in 1 .. Len(o) : o[j].item = n
    \/ \E j \in 1 .. i - 1 : c[j].item = n

Items(o, c) == {o[i].item : i \in 1 .. Len(o)} \cup {c[i].item : i \in 1 .. Len(c)}

\* A payload is written to SOCKS5.
LEMMA PayloadMoves ==
  ASSUME NEW o \in Seq(Payload), NEW c \in Seq(Payload), c # <<>>,
         NoGapIn(o), NoGapAfter(o, c)
  PROVE  /\ NoGapIn(Append(o, Head(c))) /\ NoGapAfter(Append(o, Head(c)), Tail(c))
         /\ Items(o, c) \subseteq Items(Append(o, Head(c)), Tail(c))
  <1> DEFINE l == Len(o)  m == Len(c)  y == Tail(c)  z == Append(o, Head(c))
  <1>1. /\ m \in Nat /\ m >= 1 /\ Len(y) = m - 1 /\ Head(c) = c[1] /\ Head(c) \in Payload
        /\ \A i \in 1 .. m - 1 : y[i] = c[i + 1]
    BY TailFacts
  <1>2. l \in Nat /\ Len(z) = l + 1 /\ z[l + 1] = c[1] /\ \A i \in 1 .. l : z[i] = o[i]
    BY <1>1, AppendFacts
  <1>3. /\ \A i \in 1 .. l : \A n \in 1 .. o[i].item - 1 : \E j \in 1 .. i - 1 : o[j].item = n
        /\ \A i \in 1 .. m : \A n \in 1 .. c[i].item - 1 :
             \/ \E j \in 1 .. l : o[j].item = n
             \/ \E j \in 1 .. i - 1 : c[j].item = n
    BY DEF NoGapIn, NoGapAfter
  <1>4. Items(o, c) = {o[i].item : i \in 1 .. l} \cup {c[i].item : i \in 1 .. m}
    BY DEF Items
  <1> HIDE DEF l, m, y, z
  <1>5. \A j \in 1 .. l : j \in 1 .. l + 1 /\ z[j] = o[j]
    BY <1>2
  <1>6. l + 1 \in 1 .. l + 1
    BY <1>2
  <1>7. NoGapIn(z)
    <2> SUFFICES ASSUME NEW i \in 1 .. Len(z), NEW n \in 1 .. z[i].item - 1
                 PROVE  \E j \in 1 .. i - 1 : z[j].item = n
      BY DEF NoGapIn
    <2>1. CASE i \in 1 .. l
      <3>1. PICK j \in 1 .. i - 1 : o[j].item = n
        BY <1>3, <1>5, <2>1
      <3>2. j \in 1 .. l
        BY <1>2, <2>1
      <3> QED
        BY <1>5, <3>1, <3>2
    <2>2. CASE i = l + 1
      <3>1. n \in 1 .. c[1].item - 1 /\ i - 1 = l /\ 1 \in 1 .. m
        BY <1>1, <1>2, <2>2
      <3>2. \E j \in 1 .. l : o[j].item = n
        BY <1>3, <3>1
      <3> QED
        BY <1>5, <3>1, <3>2
    <2> QED
      BY <1>2, <2>1, <2>2
  <1>8. NoGapAfter(z, y)
    <2> SUFFICES ASSUME NEW i \in 1 .. Len(y), NEW n \in 1 .. y[i].item - 1
                 PROVE  \/ \E j \in 1 .. Len(z) : z[j].item = n
                        \/ \E j \in 1 .. i - 1 : y[j].item = n
      BY DEF NoGapAfter
    <2>1. i + 1 \in 1 .. m /\ y[i] = c[i + 1] /\ (i + 1) - 1 = i
      BY <1>1
    <2>2. CASE \E j \in 1 .. l : o[j].item = n
      BY <1>2, <1>5, <2>2
    <2>3. ASSUME NEW j \in 1 .. i, c[j].item = n
          PROVE  \/ \E h \in 1 .. Len(z) : z[h].item = n
                 \/ \E h \in 1 .. i - 1 : y[h].item = n
      <3>1. CASE j = 1
        BY <1>2, <1>6, <2>3, <3>1
      <3>2. CASE j # 1
        <4>1. j - 1 \in 1 .. i - 1 /\ j - 1 \in 1 .. m - 1 /\ (j - 1) + 1 = j
          BY <1>1, <2>1, <3>2
        <4>2. y[j - 1] = c[j]
          BY <1>1, <4>1
        <4> QED
          BY <2>3, <4>1, <4>2
      <3> QED
        BY <3>1, <3>2
    <2> QED
      BY <1>3, <2>1, <2>2, <2>3
  <1>9. ASSUME NEW n \in Items(o, c)
        PROVE  n \in Items(z, y)
    <2>1. CASE \E i \in 1 .. l : n = o[i].item
      BY <1>2, <1>5, <2>1 DEF Items
    <2>2. ASSUME NEW i \in 1 .. m, n = c[i].item
          PROVE  n \in Items(z, y)
      <3>1. CASE i = 1
        BY <1>2, <1>6, <2>2, <3>1 DEF Items
      <3>2. CASE i # 1
        <4>1. i - 1 \in 1 .. m - 1 /\ (i - 1) + 1 = i
          BY <1>1, <3>2
        <4>2. y[i - 1].item = n /\ i - 1 \in 1 .. Len(y)
          BY <1>1, <2>2, <4>1
        <4> QED
          BY <4>2 DEF Items
      <3> QED
        BY <3>1, <3>2
    <2> QED
      BY <1>4, <2>1, <2>2
  <1> QED
    BY <1>7, <1>8, <1>9 DEF y, z

\* A payload is queued whose predecessors the session has.
LEMMA PayloadQueued ==
  ASSUME NEW o \in Seq(Payload), NEW c \in Seq(Payload), NEW p \in Payload,
         NoGapAfter(o, c), \A n \in 1 .. p.item - 1 : n \in Items(o, c)
  PROVE  /\ NoGapAfter(o, Append(c, p))
         /\ Items(o, c) \subseteq Items(o, Append(c, p)) /\ p.item \in Items(o, Append(c, p))
  <1> DEFINE l == Len(o)  m == Len(c)  y == Append(c, p)
  <1>1. m \in Nat /\ Len(y) = m + 1 /\ y[m + 1] = p /\ \A i \in 1 .. m : y[i] = c[i]
    BY AppendFacts
  <1>2. \A i \in 1 .. m : \A n \in 1 .. c[i].item - 1 :
             \/ \E j \in 1 .. l : o[j].item = n
             \/ \E j \in 1 .. i - 1 : c[j].item = n
    BY DEF NoGapAfter
  <1>3. Items(o, c) = {o[i].item : i \in 1 .. l} \cup {c[i].item : i \in 1 .. m}
    BY DEF Items
  <1>4. Items(o, y) = {o[i].item : i \in 1 .. l} \cup {y[i].item : i \in 1 .. Len(y)}
    BY DEF Items
  <1> HIDE DEF m, y
  <1>5. (\A j \in 1 .. m : j \in 1 .. m + 1 /\ y[j] = c[j]) /\ m + 1 \in 1 .. m + 1
    BY <1>1
  <1>6. NoGapAfter(o, y)
    <2> SUFFICES ASSUME NEW i \in 1 .. Len(y), NEW n \in 1 .. y[i].item - 1
                 PROVE  \/ \E j \in 1 .. l : o[j].item = n
                        \/ \E j \in 1 .. i - 1 : y[j].item = n
      BY DEF NoGapAfter
    <2>1. CASE i \in 1 .. m
      <3>1. \A j \in 1 .. i - 1 : y[j] = c[j]
        BY <1>1, <2>1
      <3> QED
        BY <1>2, <1>5, <2>1, <3>1
    <2>2. CASE i = m + 1
      <3>1. n \in Items(o, c) /\ i - 1 = m
        BY <1>1, <2>2
      <3> QED
        BY <1>3, <1>5, <3>1
    <2> QED
      BY <1>1, <2>1, <2>2
  <1> QED
    BY <1>1, <1>3, <1>4, <1>5, <1>6 DEF y


--------------------------------------------------------------------------------
(* No gap: the sessions and handle_tcp.                                    *)

Open(x) == x.pc # "failed" /\ x.b \notin {"done", "broken"}

LEMMA SessionParts ==
  /\ \A s : Listening(s) <=> Open(sess[s])
  /\ \A s : Listening(s)' <=> Open(sess'[s])
  /\ \A s : Held(s) = Items(sess[s].out, sess[s].chan)
  /\ \A s : Held(s)' = Items(sess'[s].out, sess'[s].chan)
  /\ QueueHasNoGap <=> \A s \in Sessions : Born(s) => NoGapAfter(sess[s].out, sess[s].chan)
  /\ QueueHasNoGap' <=> \A s \in Sessions : Born(s)' => NoGapAfter(sess'[s].out, sess'[s].chan)
  /\ UpstreamHasNoGap <=> \A s \in Sessions : Born(s) => NoGapIn(sess[s].out)
  /\ UpstreamHasNoGap' <=> \A s \in Sessions : Born(s)' => NoGapIn(sess'[s].out)
  BY DEF Listening, Open, Held, Items, QueueHasNoGap, UpstreamHasNoGap, NoGapAfter, NoGapIn

\* Session s becomes x.
LEMMA OwnQueues ==
  ASSUME TypeOK, GapInv, NEW s \in Sessions, NEW x, sess' = [sess EXCEPT ![s] = x],
         x.pc = "connect" => x.b = "idle", NoGapIn(x.out), NoGapAfter(x.out, x.chan)
  PROVE  WaitingInv' /\ QueueHasNoGap' /\ UpstreamHasNoGap'
  <1>1. \A t \in Sessions : sess'[t] = IF t = s THEN x ELSE sess[t]
    BY DEF TypeOK
  <1>2. \A t \in Sessions : t # s => sess'[t] = sess[t] /\ (Born(t)' <=> Born(t))
    BY <1>1 DEF Born
  <1>3. sess'[s] = x
    BY <1>1
  <1>4. WaitingInv'
    BY <1>2, <1>3 DEF GapInv, WaitingInv
  <1>5. QueueHasNoGap' /\ UpstreamHasNoGap'
    BY <1>2, <1>3, SessionParts DEF GapInv
  <1> QED
    BY <1>4, <1>5

LEMMA OrderlyMore ==
  ASSUME NEW q, NEW c, NEW k, NEW g, NEW H, NEW I, Orderly(q, c, k, g, H), H \subseteq I
  PROVE  Orderly(q, c, k, g, I)
  BY DEF Orderly

\* A session takes a step of its own, and has what it had.
LEMMA SessionGap ==
  ASSUME TypeOK, NatInv, GapInv, NEW s \in Sessions, Born(s), NEW x,
         sess' = [sess EXCEPT ![s] = x], UNCHANGED <<conn, up, nat>>, x.gen = sess[s].gen,
         Open(x) => Listening(s) /\ Held(s) \subseteq Items(x.out, x.chan),
         x.pc = "connect" => x.b = "idle", NoGapIn(x.out), NoGapAfter(x.out, x.chan)
  PROVE  GapInv'
  <1>1. \A t \in Sessions : sess'[t] = IF t = s THEN x ELSE sess[t]
    BY DEF TypeOK
  <1>2. SynInv' /\ ConnectingInv'
    BY GapParts DEF GapInv
  <1>3. TableInv'
    <2> SUFFICES ASSUME NEW k \in Keys, nat[k] # None, Open(sess'[nat[k]])
                 PROVE  Orderly(up, conn[k], k, sess'[nat[k]].gen,
                                Items(sess'[nat[k]].out, sess'[nat[k]].chan))
      BY TableParts, SessionParts
    <2>1. nat[k] \in Sessions
      BY DEF TypeOK
    <2>2. CASE nat[k] = s
      <3>1. sess'[nat[k]] = x
        BY <1>1, <2>2
      <3>2. Orderly(up, conn[k], k, x.gen, Held(s))
        BY <2>2, <3>1, TableParts DEF GapInv
      <3> QED
        BY <3>1, <3>2, OrderlyMore
    <2>3. CASE nat[k] # s
      <3>1. sess'[nat[k]] = sess[nat[k]]
        BY <1>1, <2>1, <2>3
      <3> QED
        BY <3>1, TableParts, SessionParts DEF GapInv
    <2> QED
      BY <2>2, <2>3
  <1> QED
    BY <1>2, <1>3, OwnQueues DEF GapInv

LEMMA SessionQueues ==
  ASSUME TypeOK, NatInv, GapInv, NEW s \in Sessions, Born(s)
  PROVE  /\ NoGapIn(sess[s].out) /\ NoGapAfter(sess[s].out, sess[s].chan)
         /\ sess[s].pc = "connect" => sess[s].b = "idle"
         /\ Held(s) = Items(sess[s].out, sess[s].chan)
         /\ Listening(s) <=> Open(sess[s])
  BY SessionParts DEF GapInv, WaitingInv

LEMMA ConnectFailsGap ==
  ASSUME TypeOK, NatInv, GapInv, NEW s \in Sessions, ConnectFails(s)
  PROVE  GapInv'
  <1> DEFINE x == [sess[s] EXCEPT !.pc = "failed", !.chan = <<>>]
  <1>1. Born(s)
    BY DEF ConnectFails, Born, Unborn
  <1>2. <<>> \in Seq(Payload) /\ Len(<<>>) = 0
    BY EmptySeq
  <1>3. /\ x.gen = sess[s].gen /\ x.pc = "failed" /\ x.chan = <<>> /\ x.out = sess[s].out
    BY <1>1, <1>2, SessionFields DEF Session, Payload
  <1>4. sess' = [sess EXCEPT ![s] = x] /\ UNCHANGED <<conn, up, nat>>
    BY <1>1, SessionFields DEF ConnectFails, TypeOK
  <1> HIDE DEF x
  <1>5. NoGapIn(x.out) /\ NoGapAfter(x.out, x.chan) /\ ~Open(x)
    BY <1>1, <1>2, <1>3, SessionQueues DEF NoGapAfter, Open
  <1> QED
    BY <1>1, <1>3, <1>4, <1>5, SessionGap

LEMMA ConnectSucceedsGap ==
  ASSUME TypeOK, NatInv, GapInv, NEW s \in Sessions, ConnectSucceeds(s)
  PROVE  GapInv'
  <1> DEFINE x == [sess[s] EXCEPT !.pc = "open", !.seq = 1, !.a = "run", !.b = "run"]
  <1>1. Born(s) /\ sess[s].pc = "connect"
    BY DEF ConnectSucceeds, Born, Unborn
  <1>2. /\ x.gen = sess[s].gen /\ x.pc = "open" /\ x.b = "run"
        /\ x.chan = sess[s].chan /\ x.out = sess[s].out
    BY <1>1, SessionFields DEF Session
  <1>3. sess' = [sess EXCEPT ![s] = x] /\ UNCHANGED <<conn, up, nat>>
    BY <1>1, SessionFields DEF ConnectSucceeds, TypeOK
  <1> HIDE DEF x
  <1>4. Listening(s)
    BY <1>1, SessionQueues DEF Open
  <1> QED
    BY <1>1, <1>2, <1>3, <1>4, SessionQueues, SessionGap

LEMMA SocksToTunGap ==
  ASSUME TypeOK, NatInv, GapInv, NEW s \in Sessions, SocksToTun(s)
  PROVE  GapInv'
  <1>1. Born(s)
    BY DEF SocksToTun, Born, Unborn
  <1>2. ASSUME NEW x, x \in {[sess[s] EXCEPT !.seq = sess[s].seq + 1], [sess[s] EXCEPT !.a = "done"]},
               sess' = [sess EXCEPT ![s] = x]
        PROVE  GapInv'
    <2>1. /\ x.gen = sess[s].gen /\ x.pc = sess[s].pc /\ x.b = sess[s].b
          /\ x.chan = sess[s].chan /\ x.out = sess[s].out
      BY <1>1, <1>2, SessionFields DEF Session
    <2>2. Open(x) <=> Open(sess[s])
      BY <2>1 DEF Open
    <2>3. UNCHANGED <<conn, up, nat>>
      BY DEF SocksToTun
    <2>4. /\ Open(x) => Listening(s) /\ Held(s) \subseteq Items(x.out, x.chan)
          /\ x.pc = "connect" => x.b = "idle"
      BY <1>1, <2>1, <2>2, SessionQueues
    <2>5. NoGapIn(x.out) /\ NoGapAfter(x.out, x.chan)
      BY <1>1, <2>1, SessionQueues
    <2>6. sess' = [sess EXCEPT ![s] = x] /\ x.gen = sess[s].gen
      BY <1>2, <2>1
    <2> QED
      BY <1>1, <2>3, <2>4, <2>5, <2>6, SessionGap
  <1> QED
    BY <1>2 DEF SocksToTun

LEMMA DataToSocksGap ==
  ASSUME TypeOK, NatInv, GapInv, NEW s \in Sessions, DataToSocks(s)
  PROVE  GapInv'
  <1> DEFINE c == sess[s].chan  o == sess[s].out
  <1>1. /\ Born(s) /\ sess[s].pc = "open" /\ sess[s].b = "run" /\ UNCHANGED <<conn, up, nat>>
    BY DEF DataToSocks, Born, Unborn
  <1>2. /\ c \in Seq(Payload) /\ o \in Seq(Payload) /\ <<>> \in Seq(Payload) /\ Len(<<>>) = 0
        /\ NoGapIn(o) /\ NoGapAfter(o, c) /\ Held(s) = Items(o, c) /\ Listening(s)
    BY <1>1, SessionFields, SessionQueues, EmptySeq DEF Open
  <1>3. CASE c # <<>> /\ sess' = [sess EXCEPT ![s].chan = Tail(@), ![s].out = Append(@, Head(c))]
    <2> DEFINE y == Tail(c)  z == Append(o, Head(c))
               x == [sess[s] EXCEPT !.chan = y, !.out = z]
    <2>1. NoGapIn(z) /\ NoGapAfter(z, y) /\ Items(o, c) \subseteq Items(z, y)
      BY <1>2, <1>3, PayloadMoves
    <2>2. sess' = [sess EXCEPT ![s] = x]
      BY <1>1, <1>3, SessionFields DEF TypeOK
    <2> HIDE DEF y, z
    <2>3. x.gen = sess[s].gen /\ x.chan = y /\ x.out = z /\ x.pc = "open"
      BY <1>1, SessionFields DEF Session, Payload
    <2> HIDE DEF x, c, o
    <2> QED
      BY <1>1, <1>2, <2>1, <2>2, <2>3, SessionGap
  <1>4. CASE sess' = [sess EXCEPT ![s].chan = <<>>, ![s].b = "broken"]
    <2> DEFINE x == [sess[s] EXCEPT !.chan = <<>>, !.b = "broken"]
    <2>1. x.gen = sess[s].gen /\ x.chan = <<>> /\ x.out = o /\ x.b = "broken" /\ x.pc = "open"
      BY <1>1, SessionFields DEF Session, Payload
    <2>2. sess' = [sess EXCEPT ![s] = x]
      BY <1>1, <1>4, SessionFields DEF TypeOK
    <2> HIDE DEF x
    <2>3. ~Open(x) /\ NoGapAfter(x.out, x.chan)
      BY <1>2, <2>1 DEF Open, NoGapAfter
    <2> QED
      BY <1>1, <1>2, <2>1, <2>2, <2>3, SessionGap
  <1>5. CASE sess' = [sess EXCEPT ![s].b = "done"]
    <2> DEFINE x == [sess[s] EXCEPT !.b = "done"]
    <2>1. x.gen = sess[s].gen /\ x.chan = c /\ x.out = o /\ x.b = "done" /\ x.pc = "open"
      BY <1>1, SessionFields DEF Session
    <2>2. sess' = [sess EXCEPT ![s] = x]
      BY <1>1, <1>5, SessionFields DEF TypeOK
    <2> HIDE DEF x
    <2>3. ~Open(x)
      BY <2>1 DEF Open
    <2> QED
      BY <1>1, <1>2, <2>1, <2>2, <2>3, SessionGap
  <1> QED
    BY <1>3, <1>4, <1>5 DEF DataToSocks

\* A packet leaves the queue, and the table may then hand it to a session.
LEMMA PacketGap ==
  ASSUME TypeOK, NatInv, GapInv, NEW kind, Packet(kind), conn' = conn
  PROVE  /\ SynInv' /\ ConnectingInv'
         /\ \A k \in Keys : \A g, H, I :
              /\ Orderly(up, conn[k], k, g, H) /\ H \subseteq I
              /\ IsData(up[1], k, g) => up[1].item \in I
              => Orderly(up', conn'[k], k, g, I)
  <1>1. up \in Seq(UpPacket) /\ up # <<>> /\ up' = Tail(up) /\ up' \in Seq(UpPacket)
    BY PacketTaken DEF TypeOK
  <1>2. \A i \in 1 .. Len(up') : up'[i] = up[i + 1] /\ i + 1 \in 1 .. Len(up)
    BY <1>1, TailFacts
  <1>3. ASSUME NEW k \in Keys, NEW g, NEW H, NEW I, Orderly(up, conn[k], k, g, H), H \subseteq I,
               IsData(up[1], k, g) => up[1].item \in I
        PROVE  Orderly(up', conn'[k], k, g, I)
    BY <1>1, <1>3, OrderlyTail
  <1>4. SynsOK(up', conn')
    <2> SUFFICES ASSUME NEW i \in 1 .. Len(up'), up'[i].kind = "syn"
                 PROVE  /\ Orderly(up', conn'[up'[i].key], up'[i].key, up'[i].gen, {})
                        /\ \A j \in 1 .. i : ~IsData(up'[j], up'[i].key, up'[i].gen)
      BY DEF SynsOK
    <2> DEFINE r == up'[i]
    <2>1. r = up[i + 1] /\ i + 1 \in 1 .. Len(up) /\ r.key \in Keys
      BY <1>1, <1>2, UpElement
    <2>2. /\ Orderly(up, conn[r.key], r.key, r.gen, {})
          /\ \A j \in 1 .. i + 1 : ~IsData(up[j], r.key, r.gen)
      BY <2>1, GapParts DEF GapInv, SynsOK
    <2>3. 1 \in 1 .. i + 1 /\ \A j \in 1 .. i : j + 1 \in 1 .. i + 1 /\ j \in 1 .. Len(up')
      BY <1>1, LenProperties
    <2>4. \A j \in 1 .. i : ~IsData(up'[j], r.key, r.gen)
      BY <1>2, <2>2, <2>3
    <2>5. Orderly(up', conn'[r.key], r.key, r.gen, {})
      BY <1>3, <2>1, <2>2, <2>3
    <2> QED
      BY <2>4, <2>5
  <1>5. ASSUME NEW k \in Keys, conn'[k].st = "synsent"
        PROVE  conn'[k].snd = 0 /\ NoData(up', k, conn'[k].gen)
    <2>1. conn[k].snd = 0 /\ NoData(up, k, conn[k].gen)
      BY <1>5, GapParts DEF GapInv
    <2> QED
      BY <1>2, <2>1 DEF NoData
  <1> QED
    BY <1>3, <1>4, <1>5, GapParts

\* A packet no session gets.
LEMMA PacketIgnored ==
  ASSUME TypeOK, NatInv, GapInv, NEW kind, Packet(kind), conn' = conn, sess' = sess,
         \A k \in Keys : nat'[k] # None =>
           nat'[k] = nat[k] /\ (Listening(nat[k]) => ~IsData(up[1], k, sess[nat[k]].gen))
  PROVE  GapInv'
  <1>1. WaitingInv' /\ QueueHasNoGap' /\ UpstreamHasNoGap'
    BY DEF GapInv, WaitingInv, QueueHasNoGap, UpstreamHasNoGap, Born
  <1>2. TableInv'
    <2> SUFFICES ASSUME NEW k \in Keys, nat'[k] # None, Open(sess[nat[k]])
                 PROVE  Orderly(up', conn'[k], k, sess[nat[k]].gen,
                                Items(sess[nat[k]].out, sess[nat[k]].chan))
      BY TableParts, SessionParts
    <2>1. /\ Orderly(up, conn[k], k, sess[nat[k]].gen, Items(sess[nat[k]].out, sess[nat[k]].chan))
          /\ ~IsData(up[1], k, sess[nat[k]].gen)
      BY TableParts, SessionParts DEF GapInv
    <2> QED
      BY <2>1, PacketGap
  <1> QED
    BY <1>1, <1>2, PacketGap DEF GapInv

LEMMA ForgetGap ==
  ASSUME TypeOK, NatInv, GapInv, OnRst \/ OnFin
  PROVE  GapInv'
  <1>1. PICK kind \in {"rst", "fin"} : Packet(kind)
    BY DEF OnRst, OnFin
  <1>2. /\ conn' = conn /\ sess' = sess
        /\ \A k \in Keys : nat'[k] # None => nat'[k] = nat[k]
    BY DEF OnRst, OnFin, TypeOK
  <1>3. \A k, g : ~IsData(up[1], k, g)
    BY <1>1, PacketTaken DEF IsData
  <1> QED
    BY <1>1, <1>2, <1>3, PacketIgnored

LEMMA SpawnGap ==
  ASSUME TypeOK, NatInv, GapInv, Packet("syn"), NEW s \in Fresh, \A t \in Fresh : s <= t,
         nat' = [nat EXCEPT ![Head(up).key] = s], Spawn(s, Head(up)), conn' = conn
  PROVE  GapInv'
  <1> DEFINE p == Head(up)
  <1>1. /\ p = up[1] /\ p.kind = "syn" /\ p.key \in Keys /\ 1 \in 1 .. Len(up)
    BY PacketTaken
  <1>2. s \in Sessions /\ ~Born(s)
    BY FreshIsLast
  <1> DEFINE x == [pc |-> "connect", key |-> p.key, gen |-> p.gen, chan |-> <<>>,
                   out |-> <<>>, seq |-> 0, a |-> "idle", b |-> "idle"]
  <1>3. sess' = [sess EXCEPT ![s] = x]
    BY DEF Spawn
  <1>4. x.gen = p.gen /\ x.chan = <<>> /\ x.out = <<>> /\ x.b = "idle"
    OBVIOUS
  <1> HIDE DEF x
  <1>5. Len(<<>>) = 0 /\ NoGapIn(x.out) /\ NoGapAfter(x.out, x.chan)
    BY <1>4, EmptySeq DEF NoGapIn, NoGapAfter
  <1>6. \A t \in Sessions : sess'[t] = IF t = s THEN x ELSE sess[t]
    BY <1>3 DEF TypeOK
  <1>7. \A k, g : ~IsData(up[1], k, g)
    BY <1>1 DEF IsData
  <1>8. TableInv'
    <2> SUFFICES ASSUME NEW k \in Keys, nat'[k] # None, Open(sess'[nat'[k]])
                 PROVE  Orderly(up', conn'[k], k, sess'[nat'[k]].gen,
                                Items(sess'[nat'[k]].out, sess'[nat'[k]].chan))
      BY TableParts, SessionParts
    <2>1. CASE k = p.key
      <3>1. nat'[k] = s /\ sess'[nat'[k]] = x
        BY <1>2, <1>6, <2>1 DEF TypeOK
      <3>2. Orderly(up, conn[k], k, x.gen, {})
        BY <1>1, <1>4, <2>1, GapParts DEF GapInv, SynsOK
      <3>3. Orderly(up', conn'[k], k, x.gen, Items(x.out, x.chan))
        BY <1>7, <3>2, PacketGap
      <3> QED
        BY <3>1, <3>3
    <2>2. CASE k # p.key
      <3>1. nat'[k] = nat[k] /\ nat[k] \in Sessions
        BY <1>1, <2>2 DEF TypeOK
      <3>2. nat[k] # s
        BY <1>2, <3>1 DEF NatInv, NatIsNewest
      <3>3. sess'[nat'[k]] = sess[nat[k]]
        BY <1>6, <3>1, <3>2
      <3>4. Orderly(up, conn[k], k, sess[nat[k]].gen, Items(sess[nat[k]].out, sess[nat[k]].chan))
        BY <3>1, <3>3, TableParts, SessionParts DEF GapInv
      <3>5. Orderly(up', conn'[k], k, sess[nat[k]].gen, Items(sess[nat[k]].out, sess[nat[k]].chan))
        BY <1>7, <3>4, PacketGap
      <3> QED
        BY <3>3, <3>5
    <2> QED
      BY <2>1, <2>2
  <1>9. WaitingInv' /\ QueueHasNoGap' /\ UpstreamHasNoGap'
    BY <1>2, <1>3, <1>4, <1>5, OwnQueues
  <1> QED
    BY <1>8, <1>9, PacketGap DEF GapInv

LEMMA OnSynGap ==
  ASSUME TypeOK, NatInv, GapInv, OnSyn
  PROVE  GapInv'
  <1>1. Packet("syn") /\ conn' = conn
    BY DEF OnSyn
  <1>2. \A k, g : ~IsData(up[1], k, g)
    BY <1>1, PacketTaken DEF IsData
  <1>3. CASE UNCHANGED <<nat, sess>>
    BY <1>1, <1>2, <1>3, PacketIgnored
  <1>4. CASE \E s \in Fresh : /\ \A t \in Fresh : s <= t
                              /\ nat' = [nat EXCEPT ![Head(up).key] = s]
                              /\ Spawn(s, Head(up))
    BY <1>1, <1>4, SpawnGap
  <1> QED
    BY <1>3, <1>4 DEF OnSyn

LEMMA OnDataGap ==
  ASSUME TypeOK, NatInv, GapInv, OnData
  PROVE  GapInv'
  <1> DEFINE p == Head(up)  h == p.key  s == nat[h]  load == [gen |-> p.gen, item |-> p.item]
  <1>1. Packet("data") /\ conn' = conn /\ nat' = nat
    BY DEF OnData
  <1>2. /\ p = up[1] /\ p.kind = "data" /\ h \in Keys /\ p.gen \in 1 .. MaxGen /\ p.item \in Nat
        /\ 1 \in 1 .. Len(up)
    BY <1>1, PacketTaken
  <1>3. \A k \in Keys : k # h => \A g : ~IsData(up[1], k, g)
    BY <1>2 DEF IsData
  <1>4. CASE ~(s # None /\ Listening(s)) /\ sess' = sess
    BY <1>1, <1>3, <1>4, PacketIgnored
  <1>5. CASE s # None /\ Listening(s) /\ sess' = [sess EXCEPT ![s].chan = Append(@, load)]
    <2>1. s \in Sessions /\ Born(s) /\ sess[s].gen = p.gen /\ sess[s].key = h
      BY <1>1, <1>2, <1>5, PayloadIsOwn DEF NatInv, NatIsNewest
    <2>2. load \in Payload /\ load.item = p.item
      BY <1>2 DEF Payload
    <2> DEFINE c == sess[s].chan  o == sess[s].out  y == Append(c, load)
               x == [sess[s] EXCEPT !.chan = y]
    <2>3. /\ c \in Seq(Payload) /\ o \in Seq(Payload) /\ NoGapIn(o) /\ NoGapAfter(o, c)
          /\ Held(s) = Items(o, c) /\ (sess[s].pc = "connect" => sess[s].b = "idle")
      BY <2>1, SessionFields, SessionQueues
    <2>4. Orderly(up, conn[h], h, p.gen, Items(o, c))
      BY <1>2, <1>5, <2>1, <2>3, TableParts DEF GapInv
    <2>5. \A n \in 1 .. load.item - 1 : n \in Items(o, c)
      <3> SUFFICES ASSUME NEW n \in 1 .. p.item - 1
                   PROVE  n \in Items(o, c)
        BY <2>2
      <3>1. IsData(up[1], h, p.gen)
        BY <1>2 DEF IsData
      <3>2. n \in Items(o, c) \/ Brings(up, h, p.gen, n, 1 - 1)
        BY <1>2, <2>4, <3>1 DEF Orderly
      <3> QED
        BY <3>2 DEF Brings
    <2>6. sess' = [sess EXCEPT ![s] = x]
      BY <1>5, <2>1, SessionFields DEF TypeOK
    <2> HIDE DEF s, load, p, h, c, o
    <2>7. NoGapAfter(o, y) /\ Items(o, c) \subseteq Items(o, y) /\ load.item \in Items(o, y)
      BY <2>2, <2>3, <2>5, PayloadQueued
    <2> HIDE DEF y
    <2>8. x.gen = sess[s].gen /\ x.chan = y /\ x.out = o /\ x.pc = sess[s].pc /\ x.b = sess[s].b
      BY <2>1, SessionFields DEF Session, Payload, o
    <2> HIDE DEF x
    <2>9. \A t \in Sessions : sess'[t] = IF t = s THEN x ELSE sess[t]
      BY <2>6 DEF TypeOK
    <2>10. TableInv'
      <3> SUFFICES ASSUME NEW k \in Keys, nat[k] # None, Open(sess'[nat[k]])
                   PROVE  Orderly(up', conn'[k], k, sess'[nat[k]].gen,
                                  Items(sess'[nat[k]].out, sess'[nat[k]].chan))
        BY <1>1, TableParts, SessionParts
      <3>1. CASE k = h
        <4>1. nat[k] = s /\ sess'[nat[k]] = x
          BY <2>1, <2>9, <3>1 DEF s
        <4>2. up[1].item \in Items(o, y)
          BY <1>2, <2>2, <2>7
        <4>3. Orderly(up', conn'[k], k, p.gen, Items(o, y))
          BY <1>1, <1>2, <2>4, <2>7, <3>1, <4>2, PacketGap
        <4> QED
          BY <2>1, <2>8, <4>1, <4>3
      <3>2. CASE k # h
        <4>1. nat[k] \in Sessions /\ sess[nat[k]].key = k
          BY DEF TypeOK, NatInv, NatIsNewest
        <4>2. sess'[nat[k]] = sess[nat[k]]
          BY <2>1, <2>9, <3>2, <4>1
        <4>3. Orderly(up, conn[k], k, sess[nat[k]].gen, Items(sess[nat[k]].out, sess[nat[k]].chan))
          BY <4>2, TableParts, SessionParts DEF GapInv
        <4> QED
          BY <1>1, <1>3, <3>2, <4>2, <4>3, PacketGap
      <3> QED
        BY <3>1, <3>2
    <2>11. WaitingInv' /\ QueueHasNoGap' /\ UpstreamHasNoGap'
      BY <2>1, <2>3, <2>6, <2>7, <2>8, OwnQueues
    <2> QED
      BY <1>1, <2>10, <2>11, PacketGap DEF GapInv
  <1> QED
    BY <1>4, <1>5 DEF OnData

LEMMA SameGap ==
  ASSUME GapInv, UNCHANGED <<conn, up, nat, sess>>
  PROVE  GapInv'
  BY DEF GapInv, SynInv, ConnectingInv, TableInv, WaitingInv, QueueHasNoGap, UpstreamHasNoGap,
         InOrder, OnTheWay, Held, Sent, IsData, Established, Listening, Born

--------------------------------------------------------------------------------
LEMMA InitGap ==
  ASSUME Init
  PROVE  GapInv
  <1>1. Len(up) = 0 /\ \A s \in Sessions : ~Born(s)
    BY EmptySeq DEF Init, Born
  <1>2. \A k \in Keys : conn[k].st = "closed"
    BY DEF Init, Socket
  <1>3. \A k \in Keys : nat[k] = None
    BY DEF Init
  <1> QED
    BY <1>1, <1>2, <1>3 DEF GapInv, SynInv, ConnectingInv, TableInv, WaitingInv, QueueHasNoGap,
       UpstreamHasNoGap

LEMMA StepHasNoGap ==
  ASSUME TypeOK, NatInv, GapInv, [Next]_vars
  PROVE  GapInv'
  <1>1. ASSUME NEW k \in Keys, Kernel(k)
        PROVE  GapInv'
    BY <1>1, KConnectGap, KSendGap, KResendGap, KCloseGap, CloseGap DEF Kernel
  <1>2. CASE HandleTcp
    BY <1>2, ForgetGap, OnSynGap, OnDataGap DEF HandleTcp
  <1>3. ASSUME NEW s \in Sessions, RunSession(s)
        PROVE  GapInv'
    BY <1>3, ConnectFailsGap, ConnectSucceedsGap, SocksToTunGap, DataToSocksGap DEF RunSession
  <1>4. CASE TunWrite
    BY <1>4, TunWriteGap
  <1>5. CASE TunWriteFails
    BY <1>5, SameGap DEF TunWriteFails
  <1>6. CASE UNCHANGED vars
    BY <1>6, SameGap DEF vars
  <1> QED
    BY <1>1, <1>2, <1>3, <1>4, <1>5, <1>6 DEF Next

--------------------------------------------------------------------------------
(***************************************************************************)
(* One connection on a key: OneSession and AllBeforeFin of any queue q,    *)
(* socket c, table entry e and sessions B of the key.                      *)
(***************************************************************************)

NoneOf(q, k, kinds) == \A i \in 1 .. Len(q) : ~(q[i].key = k /\ q[i].kind \in kinds)

Kinds == {"syn", "data", "fin", "rst"}

Lined(q, c, e, B, k) ==
  /\ \A s, t \in B : s = t
  /\ \A i \in 1 .. Len(q) : q[i].key = k /\ q[i].kind = "syn" =>
       \A j \in 1 .. i : q[j].key = k => q[j].kind = "syn"
  /\ c.st = "synsent" => NoneOf(q, k, {"data", "fin", "rst"})
  /\ e = None /\ (c.st = "synsent" \/ ~NoneOf(q, k, {"syn"})) => B = {}
  /\ c.gen = 0 => NoneOf(q, k, Kinds)
  /\ Opened(c) => NoneOf(q, k, {"rst"})
  /\ c.st = "estab" => e # None /\ NoneOf(q, k, {"fin"})
  /\ \A i \in 1 .. Len(c.rcv) : c.rcv[i][1] \in B /\ c.rcv[i][2] = i

Finned(q, c, e, H, k) ==
  c.st = "finwait" =>
    /\ \A i \in 1 .. Len(q) : q[i].key = k /\ q[i].kind = "fin" =>
         \A n \in 1 .. c.snd - 1 : n \in H \/ Brings(q, k, c.gen, n, i - 1)
    /\ e = None => 1 .. c.snd - 1 \subseteq H

Kept(x) == x.pc # "failed" /\ x.b # "broken"

Done(x) == x.b = "done" => x.pc = "open" /\ x.chan = <<>>

LEMMA SingleParts ==
  /\ \A k : OneSession(k) <=> Lined(up, conn[k], nat[k], Of(k), k)
  /\ \A k : OneSession(k)' <=> Lined(up', conn'[k], nat'[k], Of(k)', k)
  /\ \A k : AllBeforeFin(k) <=>
       \A s \in Of(k) : Kept(sess[s]) => Finned(up, conn[k], nat[k], Held(s), k)
  /\ \A k : AllBeforeFin(k)' <=>
       \A s \in Of(k)' : Kept(sess'[s]) => Finned(up', conn'[k], nat'[k], Held(s)', k)
  /\ DoneInv <=> \A s \in Sessions : Born(s) => Done(sess[s])
                   /\ (sess[s].b = "done" => nat[sess[s].key] # s)
  /\ DoneInv' <=> \A s \in Sessions : Born(s)' => Done(sess'[s])
                   /\ (sess'[s].b = "done" => nat'[sess'[s].key] # s)
  <1>1. \A k : OneSession(k) <=> Lined(up, conn[k], nat[k], Of(k), k)
    BY DEF OneSession, Lined, Queued, NoneOf, Kinds, Established, Opened
  <1>2. \A k : OneSession(k)' <=> Lined(up', conn'[k], nat'[k], Of(k)', k)
    BY DEF OneSession, Lined, Queued, NoneOf, Kinds, Established, Opened
  <1>3. \A k : AllBeforeFin(k) <=>
          \A s \in Of(k) : Kept(sess[s]) => Finned(up, conn[k], nat[k], Held(s), k)
    BY DEF AllBeforeFin, Finned, Keeps, Kept, OnTheWay, Brings, IsData
  <1>4. \A k : AllBeforeFin(k)' <=>
          \A s \in Of(k)' : Kept(sess'[s]) => Finned(up', conn'[k], nat'[k], Held(s)', k)
    BY DEF AllBeforeFin, Finned, Keeps, Kept, OnTheWay, Brings, IsData
  <1>5. DoneInv <=> \A s \in Sessions : Born(s) => Done(sess[s])
                      /\ (sess[s].b = "done" => nat[sess[s].key] # s)
    BY DEF DoneInv, Done
  <1>6. DoneInv' <=> \A s \in Sessions : Born(s)' => Done(sess'[s])
                       /\ (sess'[s].b = "done" => nat'[sess'[s].key] # s)
    BY DEF DoneInv, Done
  <1> QED
    BY <1>1, <1>2, <1>3, <1>4, <1>5, <1>6

\* A packet joins the queue.
LEMMA NoneMore ==
  ASSUME NEW q \in Seq(UpPacket), NEW p \in UpPacket, NEW k, NEW kinds
  PROVE  /\ NoneOf(q, k, kinds) /\ ~(p.key = k /\ p.kind \in kinds) => NoneOf(Append(q, p), k, kinds)
         /\ NoneOf(Append(q, p), k, kinds) => NoneOf(q, k, kinds) /\ ~(p.key = k /\ p.kind \in kinds)
  <1> DEFINE m == Len(q)  r == Append(q, p)
  <1>1. m \in Nat /\ Len(r) = m + 1 /\ r[m + 1] = p /\ \A i \in 1 .. m : r[i] = q[i]
    BY AppendFacts
  <1> HIDE DEF r
  <1>2. \A i : i \in 1 .. Len(r) <=> i \in 1 .. m \/ i = m + 1
    BY <1>1
  <1> HIDE DEF m
  <1>3. NoneOf(q, k, kinds) <=> \A i \in 1 .. m : ~(q[i].key = k /\ q[i].kind \in kinds)
    BY DEF NoneOf, m
  <1>4. NoneOf(r, k, kinds) <=> \A i \in 1 .. Len(r) : ~(r[i].key = k /\ r[i].kind \in kinds)
    BY DEF NoneOf
  <1> QED
    BY <1>1, <1>2, <1>3, <1>4 DEF r

Welcome(p, c, k) ==
  p.key = k =>
    /\ c.gen # 0
    /\ p.kind = "syn" => c.st = "synsent"
    /\ p.kind = "data" => Opened(c)
    /\ p.kind = "fin" => c.st \in {"finwait", "closed"}
    /\ p.kind = "rst" => c.st = "closed"

LEMMA LinedAppend ==
  ASSUME NEW q \in Seq(UpPacket), NEW p \in UpPacket, NEW c, NEW e, NEW B, NEW k,
         Lined(q, c, e, B, k), Welcome(p, c, k)
  PROVE  Lined(Append(q, p), c, e, B, k)
  <1> DEFINE m == Len(q)  r == Append(q, p)
  <1>1. m \in Nat /\ Len(r) = m + 1 /\ r[m + 1] = p /\ \A i \in 1 .. m : r[i] = q[i]
    BY AppendFacts
  <1>2. \A i : i \in 1 .. Len(r) <=> i \in 1 .. m \/ i = m + 1
    BY <1>1
  <1>3. p.kind \in Kinds
    BY DEF UpPacket, Kinds
  <1>4. \A i \in 1 .. m : q[i].kind \in Kinds
    <2> TAKE i \in 1 .. m
    <2>1. q[i] \in UpPacket
      BY UpElement
    <2> QED
      BY <2>1 DEF UpPacket, Kinds
  <1> HIDE DEF r
  <1>5. ASSUME NEW i \in 1 .. Len(r), r[i].key = k, r[i].kind = "syn", NEW j \in 1 .. i, r[j].key = k
        PROVE  r[j].kind = "syn"
    <2>1. CASE i \in 1 .. m
      <3>1. j \in 1 .. m /\ r[i] = q[i] /\ r[j] = q[j]
        BY <1>1, <2>1
      <3> QED
        BY <1>5, <2>1, <3>1 DEF Lined
    <2>2. CASE i = m + 1
      <3>1. p.key = k /\ c.st = "synsent"
        BY <1>1, <1>5, <2>2 DEF Welcome
      <3>2. CASE j = m + 1
        BY <1>1, <1>5, <2>2, <3>2
      <3>3. CASE j \in 1 .. m
        <4>1. r[j] = q[j] /\ q[j].kind \in Kinds
          BY <1>1, <1>4, <3>3
        <4>2. q[j].kind \notin {"data", "fin", "rst"}
          BY <1>5, <3>1, <3>3, <4>1 DEF Lined, NoneOf, m
        <4> QED
          BY <4>1, <4>2 DEF Kinds
      <3>4. j \in 1 .. m \/ j = m + 1
        BY <1>1, <2>2
      <3> QED
        BY <3>2, <3>3, <3>4
    <2> QED
      BY <1>2, <2>1, <2>2
  <1>6. c.st = "synsent" => NoneOf(r, k, {"data", "fin", "rst"})
    BY NoneMore DEF Lined, Welcome, Opened, r
  <1>7. e = None /\ (c.st = "synsent" \/ ~NoneOf(r, k, {"syn"})) => B = {}
    BY NoneMore DEF Lined, Welcome, r
  <1>8. c.gen = 0 => NoneOf(r, k, Kinds)
    BY NoneMore DEF Lined, Welcome, r
  <1>9. Opened(c) => NoneOf(r, k, {"rst"})
    BY NoneMore DEF Lined, Welcome, Opened, r
  <1>10. c.st = "estab" => e # None /\ NoneOf(r, k, {"fin"})
    BY NoneMore DEF Lined, Welcome, r
  <1>11. /\ \A s, t \in B : s = t
         /\ \A i \in 1 .. Len(c.rcv) : c.rcv[i][1] \in B /\ c.rcv[i][2] = i
    BY DEF Lined
  <1>12. Lined(r, c, e, B, k)
    BY <1>5, <1>6, <1>7, <1>8, <1>9, <1>10, <1>11 DEF Lined
  <1> QED
    BY <1>12 DEF r

LEMMA FinnedAppend ==
  ASSUME NEW q \in Seq(UpPacket), NEW p \in UpPacket, NEW c, NEW e, NEW H, NEW k,
         Finned(q, c, e, H, k),
         p.key = k /\ p.kind = "fin" /\ c.st = "finwait" =>
           \A n \in 1 .. c.snd - 1 : n \in H \/ Brings(q, k, c.gen, n, Len(q))
  PROVE  Finned(Append(q, p), c, e, H, k)
  <1> DEFINE m == Len(q)  r == Append(q, p)
  <1>1. m \in Nat /\ Len(r) = m + 1 /\ r[m + 1] = p /\ \A i \in 1 .. m : r[i] = q[i]
    BY AppendFacts
  <1>2. \A i \in 1 .. Len(r) : i \in 1 .. m \/ i = m + 1
    BY <1>1
  <1> HIDE DEF r
  <1>3. ASSUME NEW i \in 0 .. m, NEW n, Brings(q, k, c.gen, n, i)
        PROVE  Brings(r, k, c.gen, n, i)
    <2>1. PICK j \in 1 .. i : IsData(q[j], k, c.gen) /\ q[j].item = n
      BY <1>3 DEF Brings
    <2>2. r[j] = q[j]
      BY <1>1
    <2> QED
      BY <2>1, <2>2 DEF Brings
  <1>4. ASSUME c.st = "finwait", NEW i \in 1 .. Len(r), r[i].key = k, r[i].kind = "fin",
               NEW n \in 1 .. c.snd - 1
        PROVE  n \in H \/ Brings(r, k, c.gen, n, i - 1)
    <2>1. CASE i \in 1 .. m
      <3>1. i - 1 \in 0 .. m /\ r[i] = q[i]
        BY <1>1, <2>1
      <3>2. n \in H \/ Brings(q, k, c.gen, n, i - 1)
        BY <1>4, <2>1, <3>1 DEF Finned
      <3> QED
        BY <1>3, <3>1, <3>2
    <2>2. CASE i = m + 1
      <3>1. m \in 0 .. m /\ i - 1 = m /\ r[i] = p
        BY <1>1, <2>2
      <3>2. n \in H \/ Brings(q, k, c.gen, n, m)
        BY <1>4, <3>1
      <3> QED
        BY <1>3, <3>1, <3>2
    <2> QED
      BY <1>2, <2>1, <2>2
  <1>5. Finned(r, c, e, H, k)
    BY <1>4 DEF Finned
  <1> QED
    BY <1>5 DEF r

\* A packet leaves the queue.
LEMMA NoneLess ==
  ASSUME NEW q \in Seq(UpPacket), q # <<>>, NEW k, NEW kinds, NoneOf(q, k, kinds)
  PROVE  NoneOf(Tail(q), k, kinds)
  BY TailFacts DEF NoneOf

LEMMA LinedTail ==
  ASSUME NEW q \in Seq(UpPacket), q # <<>>, NEW c, NEW e, NEW B, NEW k, Lined(q, c, e, B, k)
  PROVE  Lined(Tail(q), c, e, B, k)
  <1> DEFINE r == Tail(q)
  <1>1. Len(q) \in Nat /\ \A i \in 1 .. Len(r) : r[i] = q[i + 1] /\ i + 1 \in 1 .. Len(q)
    BY TailFacts
  <1>2. Len(r) \in Nat
    BY TailFacts, LenProperties
  <1> HIDE DEF r
  <1>3. ASSUME NEW i \in 1 .. Len(r), r[i].key = k, r[i].kind = "syn", NEW j \in 1 .. i, r[j].key = k
        PROVE  r[j].kind = "syn"
    <2>1. j + 1 \in 1 .. i + 1 /\ j \in 1 .. Len(r)
      BY <1>2
    <2>2. r[i] = q[i + 1] /\ r[j] = q[j + 1] /\ i + 1 \in 1 .. Len(q)
      BY <1>1, <2>1
    <2> QED
      BY <1>3, <2>1, <2>2 DEF Lined
  <1>4. \A kinds : NoneOf(q, k, kinds) => NoneOf(r, k, kinds)
    BY NoneLess DEF r
  <1>5. Lined(r, c, e, B, k)
    BY <1>3, <1>4, Zenon DEF Lined
  <1> QED
    BY <1>5 DEF r

LEMMA FinnedTail ==
  ASSUME NEW q \in Seq(UpPacket), q # <<>>, NEW c, NEW e, NEW H, NEW k, Finned(q, c, e, H, k),
         NEW I, H \subseteq I, IsData(q[1], k, c.gen) => q[1].item \in I
  PROVE  Finned(Tail(q), c, e, I, k)
  <1> DEFINE r == Tail(q)
  <1>1. Len(q) \in Nat /\ Len(r) \in Nat
        /\ \A i \in 1 .. Len(r) : r[i] = q[i + 1] /\ i + 1 \in 1 .. Len(q)
    BY TailFacts, LenProperties
  <1> HIDE DEF r
  <1>2. ASSUME c.st = "finwait", NEW i \in 1 .. Len(r), r[i].key = k, r[i].kind = "fin",
               NEW n \in 1 .. c.snd - 1
        PROVE  n \in I \/ Brings(r, k, c.gen, n, i - 1)
    <2>1. i + 1 \in 1 .. Len(q) /\ r[i] = q[i + 1] /\ (i + 1) - 1 = i
      BY <1>1
    <2>2. n \in H \/ Brings(q, k, c.gen, n, i)
      BY <1>2, <2>1 DEF Finned
    <2>3. ASSUME NEW j \in 1 .. i, IsData(q[j], k, c.gen), q[j].item = n
          PROVE  n \in I \/ Brings(r, k, c.gen, n, i - 1)
      <3>1. CASE j = 1
        BY <2>3, <3>1
      <3>2. CASE j # 1
        <4>1. j - 1 \in 1 .. i - 1 /\ j - 1 \in 1 .. Len(r) /\ (j - 1) + 1 = j
          BY <1>1, <3>2
        <4>2. r[j - 1] = q[j]
          BY <1>1, <4>1
        <4> QED
          BY <2>3, <4>1, <4>2 DEF Brings
      <3> QED
        BY <3>1, <3>2
    <2> QED
      BY <2>2, <2>3 DEF Brings
  <1>3. Finned(r, c, e, I, k)
    BY <1>2 DEF Finned
  <1> QED
    BY <1>3 DEF r

\* Who has all of it needs nothing from the queue.
LEMMA FinnedAll ==
  ASSUME NEW q, NEW c, NEW e, NEW H, NEW k, c.st = "finwait" => 1 .. c.snd - 1 \subseteq H
  PROVE  Finned(q, c, e, H, k)
  BY DEF Finned

\* With e = None, that is so.
LEMMA FinnedNone ==
  ASSUME NEW q, NEW c, NEW H, NEW k, NEW I, Finned(q, c, None, H, k), H \subseteq I
  PROVE  c.st = "finwait" => 1 .. c.snd - 1 \subseteq I
  BY DEF Finned

\* The table lets go of a session at a FIN, or at a RST.
LEMMA LetGo ==
  ASSUME NEW q \in Seq(UpPacket), q # <<>>, NEW c, NEW e, NEW B, NEW k, Lined(q, c, e, B, k),
         q[1].key = k, q[1].kind \in {"fin", "rst"}
  PROVE  /\ Lined(Tail(q), c, None, B, k)
         /\ \A H : Finned(q, c, e, H, k) => Finned(Tail(q), c, None, H, k)
  <1> DEFINE r == Tail(q)
  <1>1. /\ Len(q) \in Nat /\ 1 \in 1 .. Len(q)
        /\ \A i \in 1 .. Len(r) : r[i] = q[i + 1] /\ i + 1 \in 1 .. Len(q) /\ 1 \in 1 .. i + 1
    BY TailFacts
  <1>2. NoneOf(r, k, {"syn"})
    BY <1>1 DEF Lined, NoneOf
  <1>3. c.st \notin {"synsent", "estab"} /\ (q[1].kind = "rst" => ~Opened(c))
    BY <1>1 DEF Lined, NoneOf, Opened
  <1>4. Lined(r, c, e, B, k)
    BY LinedTail
  <1>5. Lined(r, c, None, B, k)
    BY <1>2, <1>3, <1>4 DEF Lined
  <1>6. ASSUME NEW H, Finned(q, c, e, H, k)
        PROVE  Finned(r, c, None, H, k)
    <2>1. CASE c.st # "finwait"
      BY <2>1, FinnedAll
    <2>2. CASE c.st = "finwait"
      <3>1. q[1].kind = "fin"
        BY <1>3, <2>2 DEF Opened
      <3>2. \A n \in 1 .. c.snd - 1 : n \in H \/ Brings(q, k, c.gen, n, 1 - 1)
        BY <1>1, <1>6, <2>2, <3>1 DEF Finned
      <3>3. \A n \in 1 .. c.snd - 1 : n \in H
        BY <3>2 DEF Brings
      <3> QED
        BY <3>3, FinnedAll
    <2> QED
      BY <2>1, <2>2
  <1> QED
    BY <1>5, <1>6 DEF r

LEMMA LetGoFinned ==
  ASSUME NEW q \in Seq(UpPacket), q # <<>>, NEW c, NEW e, NEW B, NEW k, Lined(q, c, e, B, k),
         q[1].key = k, q[1].kind \in {"fin", "rst"}, NEW H, Finned(q, c, e, H, k)
  PROVE  Finned(Tail(q), c, None, H, k)
  BY LetGo, Zenon

\* A SYN opens the session of the key.
LEMMA LinedSpawn ==
  ASSUME NEW q \in Seq(UpPacket), q # <<>>, NEW c, NEW B, NEW k, Lined(q, c, None, B, k),
         q[1].key = k, q[1].kind = "syn", NEW s, s # None
  PROVE  B = {} /\ Lined(Tail(q), c, s, {s}, k)
  <1>1. ~NoneOf(q, k, {"syn"})
    BY TailFacts DEF NoneOf
  <1>2. B = {}
    BY <1>1 DEF Lined
  <1>3. Lined(Tail(q), c, None, B, k)
    BY LinedTail
  <1> QED
    BY <1>2, <1>3 DEF Lined

--------------------------------------------------------------------------------
(* One connection on a key: the steps.                                     *)

LEMMA FinnedMore ==
  ASSUME NEW q, NEW c, NEW e, NEW H, NEW k, Finned(q, c, e, H, k), NEW I, H \subseteq I
  PROVE  Finned(q, c, e, I, k)
  BY DEF Finned

\* What the invariant says of a socket that has not moved.
LEMMA SocketSame ==
  ASSUME NEW q, NEW c, NEW d, NEW e, NEW B, NEW k, d.st = c.st, d.gen = c.gen
  PROVE  /\ Lined(q, c, e, B, k) /\ d.rcv = c.rcv => Lined(q, d, e, B, k)
         /\ \A H : Finned(q, c, e, H, k) /\ d.snd = c.snd => Finned(q, d, e, H, k)
  BY DEF Lined, Finned, Opened

LEMMA SocketCloses ==
  ASSUME NEW q, NEW c, NEW d, NEW e, NEW B, NEW k, d.st = "closed", d.gen = c.gen, d.rcv = c.rcv
  PROVE  /\ Lined(q, c, e, B, k) => Lined(q, d, e, B, k)
         /\ \A H : Finned(q, d, e, H, k)
  BY DEF Lined, Finned, Opened

\* A session of a key is of its connection, if there was one connection only.
LEMMA OfKey ==
  ASSUME TypeOK, NatInv, NEW k \in Keys, NEW s \in Of(k)
  PROVE  /\ s \in Sessions /\ Born(s) /\ sess[s].key = k /\ sess[s] \in Session
         /\ sess[s].gen >= 1 /\ sess[s].gen <= conn[k].gen
         /\ conn[k].gen <= 1 => sess[s].gen = conn[k].gen
  <1>1. s \in Sessions /\ Born(s) /\ sess[s].key = k
    BY DEF Of
  <1>2. sess[s] \in Session /\ sess[s].gen \in 1 .. MaxGen
    BY <1>1, SessionFields
  <1>3. sess[s].gen <= conn[k].gen
    BY <1>1 DEF NatInv, SessInv
  <1> QED
    BY <1>1, <1>2, <1>3, ConnType, Consts

LEMMA SingleKey ==
  ASSUME SingleInv, NEW k \in Keys, conn[k].gen <= 1
  PROVE  /\ Lined(up, conn[k], nat[k], Of(k), k)
         /\ \A s \in Of(k) : Kept(sess[s]) => Finned(up, conn[k], nat[k], Held(s), k)
  BY SingleParts DEF SingleInv

\* The session of the key is the one in the table, and it listens.
LEMMA OnlySession ==
  ASSUME TypeOK, NatInv, SingleInv, NEW k \in Keys, conn[k].gen <= 1, NEW s \in Of(k), nat[k] # None
  PROVE  nat[k] = s /\ (Kept(sess[s]) => Listening(s))
  <1>1. nat[k] \in Of(k)
    BY DEF TypeOK, NatInv, NatIsNewest, Of
  <1>2. nat[k] = s
    BY <1>1, SingleKey DEF Lined
  <1>3. sess[s].b # "done"
    BY <1>2, OfKey, SingleParts DEF SingleInv
  <1> QED
    BY <1>2, <1>3 DEF Kept, Listening

LEMMA HasRest ==
  ASSUME TypeOK, NatInv, GapInv, SingleInv, NEW k \in Keys, conn[k].gen <= 1, Opened(conn[k]),
         NEW s \in Of(k), Kept(sess[s]), nat[k] # None, NEW n \in Emitted(conn[k])
  PROVE  n \in Held(s) \/ Brings(up, k, conn[k].gen, n, Len(up))
  <1>1. nat[k] = s /\ Listening(s)
    BY OnlySession
  <1>2. Orderly(up, conn[k], k, sess[s].gen, Held(s))
    BY <1>1, TableParts DEF GapInv
  <1>3. sess[s].gen = conn[k].gen
    BY OfKey
  <1> QED
    BY <1>2, <1>3 DEF Orderly

\* The socket of k becomes d, and the kernel may send a packet of it.
LEMMA KernelSingle ==
  ASSUME TypeOK, NatInv, SingleInv, nat' = nat, sess' = sess, NEW k \in Keys, NEW d,
         conn' = [conn EXCEPT ![k] = d],
         d.gen <= 1 =>
           /\ Lined(up, d, nat[k], Of(k), k)
           /\ \A s \in Of(k) : Kept(sess[s]) => Finned(up, d, nat[k], Held(s), k),
         up' = up \/ \E p \in UpPacket :
           /\ up' = Append(up, p) /\ p.key = k
           /\ d.gen <= 1 =>
                /\ Welcome(p, d, k)
                /\ p.kind = "fin" /\ d.st = "finwait" =>
                     \A s \in Of(k) : Kept(sess[s]) => \A n \in 1 .. d.snd - 1 :
                       n \in Held(s) \/ Brings(up, k, d.gen, n, Len(up))
  PROVE  SingleInv'
  <1>1. up \in Seq(UpPacket) /\ \A j \in Keys : conn'[j] = IF j = k THEN d ELSE conn[j]
    BY DEF TypeOK
  <1>2. (\A j : Of(j)' = Of(j)) /\ (\A s : Held(s)' = Held(s))
    BY DEF Of, Born, Held
  <1>3. DoneInv'
    BY DEF SingleInv, DoneInv, Born
  <1>4. ASSUME NEW j \in Keys, conn'[j].gen <= 1
        PROVE  /\ Lined(up', conn'[j], nat[j], Of(j), j)
               /\ \A s \in Of(j) : Kept(sess[s]) => Finned(up', conn'[j], nat[j], Held(s), j)
    <2>1. CASE j = k
      <3>1. conn'[j] = d /\ d.gen <= 1
        BY <1>1, <1>4, <2>1
      <3>2. CASE up' = up
        BY <2>1, <3>1, <3>2
      <3>3. ASSUME NEW p \in UpPacket, up' = Append(up, p), p.key = k, Welcome(p, d, k),
                   p.kind = "fin" /\ d.st = "finwait" =>
                     \A s \in Of(k) : Kept(sess[s]) => \A n \in 1 .. d.snd - 1 :
                       n \in Held(s) \/ Brings(up, k, d.gen, n, Len(up))
            PROVE  /\ Lined(up', d, nat[k], Of(k), k)
                   /\ \A s \in Of(k) : Kept(sess[s]) => Finned(up', d, nat[k], Held(s), k)
        <4>1. Lined(up', d, nat[k], Of(k), k)
          BY <1>1, <3>1, <3>3, LinedAppend
        <4>2. ASSUME NEW s \in Of(k), Kept(sess[s])
              PROVE  Finned(up', d, nat[k], Held(s), k)
          <5>1. Finned(up, d, nat[k], Held(s), k)
            BY <3>1, <4>2
          <5> QED
            BY <1>1, <3>3, <4>2, <5>1, FinnedAppend
        <4> QED
          BY <4>1, <4>2
      <3> QED
        BY <2>1, <3>1, <3>2, <3>3
    <2>2. CASE j # k
      <3>1. conn'[j] = conn[j]
        BY <1>1, <2>2
      <3>2. /\ Lined(up, conn[j], nat[j], Of(j), j)
            /\ \A s \in Of(j) : Kept(sess[s]) => Finned(up, conn[j], nat[j], Held(s), j)
        BY <1>4, <3>1, SingleKey
      <3>3. ASSUME NEW p \in UpPacket, up' = Append(up, p), p.key = k
            PROVE  /\ Lined(up', conn[j], nat[j], Of(j), j)
                   /\ \A s \in Of(j) : Kept(sess[s]) => Finned(up', conn[j], nat[j], Held(s), j)
        <4>1. Welcome(p, conn[j], j)
          BY <2>2, <3>3 DEF Welcome
        <4> QED
          BY <1>1, <2>2, <3>2, <3>3, <4>1, LinedAppend, FinnedAppend
      <3> QED
        BY <3>1, <3>2, <3>3
    <2> QED
      BY <2>1, <2>2
  <1>5. \A j \in Keys : conn'[j].gen <= 1 => OneSession(j)' /\ AllBeforeFin(j)'
    BY <1>2, <1>4, SingleParts
  <1> QED
    BY <1>3, <1>5 DEF SingleInv

LEMMA KConnectSingle ==
  ASSUME TypeOK, NatInv, GapInv, SingleInv, NEW k \in Keys, KConnect(k)
  PROVE  SingleInv'
  <1> DEFINE g == conn[k].gen + 1
             d == Socket("synsent", g)
  <1>1. g \in 1 .. MaxGen /\ 0 \in Nat /\ conn[k].gen \in Nat
    BY ConnType, Consts DEF KConnect
  <1>2. d.st = "synsent" /\ d.gen = g /\ d.rcv = <<>>
    BY DEF Socket
  <1>3. conn' = [conn EXCEPT ![k] = d] /\ Up("syn", k, g, 0) /\ nat' = nat /\ sess' = sess
    BY DEF KConnect
  <1>4. PICK p \in UpPacket : up' = Append(up, p) /\ p.kind = "syn" /\ p.key = k
    BY <1>1, <1>3, UpIs
  <1> HIDE DEF d
  <1>5. ASSUME d.gen <= 1
        PROVE  Lined(up, d, nat[k], Of(k), k) /\ Welcome(p, d, k)
    <2>1. conn[k].gen = 0 /\ d.gen # 0
      BY <1>1, <1>2, <1>5
    <2>2. Of(k) = {}
      BY <2>1, OfKey
    <2>3. NoneOf(up, k, Kinds)
      BY <2>1, SingleKey DEF Lined
    <2>4. Len(<<>>) = 0
      BY EmptySeq
    <2>5. /\ NoneOf(up, k, {"syn"}) /\ NoneOf(up, k, {"data", "fin", "rst"})
          /\ NoneOf(up, k, {"rst"}) /\ NoneOf(up, k, {"fin"})
      BY <2>3 DEF NoneOf, Kinds
    <2>6. \A i \in 1 .. Len(up) : ~(up[i].key = k /\ up[i].kind = "syn")
      BY <2>5 DEF NoneOf
    <2>7. \A i \in 1 .. Len(d.rcv) : d.rcv[i][1] \in Of(k) /\ d.rcv[i][2] = i
      BY <1>2, <2>4
    <2>8. Lined(up, d, nat[k], Of(k), k)
      BY <1>2, <2>1, <2>2, <2>5, <2>6, <2>7 DEF Lined, Opened
    <2> QED
      BY <1>2, <1>4, <2>1, <2>8 DEF Welcome
  <1>6. \A s \in Of(k) : Finned(up, d, nat[k], Held(s), k)
    BY <1>2, FinnedAll
  <1>7. p.kind # "fin"
    BY <1>4
  <1> QED
    BY <1>3, <1>4, <1>5, <1>6, <1>7, KernelSingle

LEMMA KSendSingle ==
  ASSUME TypeOK, NatInv, GapInv, SingleInv, NEW k \in Keys, KSend(k)
  PROVE  SingleInv'
  <1> DEFINE c == conn[k]
             n == c.snd + 1
             d == [c EXCEPT !.snd = n]
  <1>1. c \in Conn /\ c.snd \in Nat /\ c.gen \in 1 .. MaxGen /\ c.st = "estab" /\ n \in Nat
    BY ConnType, Consts DEF KSend, NatInv, ConnInv
  <1>2. d.gen = c.gen /\ d.st = c.st /\ d.rcv = c.rcv
    BY <1>1 DEF Conn
  <1>3. conn' = [conn EXCEPT ![k] = d] /\ Up("data", k, c.gen, n) /\ nat' = nat /\ sess' = sess
    BY ConnType DEF KSend
  <1>4. PICK p \in UpPacket : up' = Append(up, p) /\ p.kind = "data" /\ p.key = k
    BY <1>1, <1>3, UpIs
  <1> HIDE DEF d, n
  <1>5. d.gen <= 1 => Lined(up, d, nat[k], Of(k), k)
    BY <1>2, SingleKey, SocketSame
  <1>6. \A s \in Of(k) : Finned(up, d, nat[k], Held(s), k)
    BY <1>1, <1>2, FinnedAll
  <1>7. Welcome(p, d, k) /\ p.kind # "fin"
    BY <1>1, <1>2, <1>4 DEF Welcome, Opened
  <1> HIDE DEF c
  <1> QED
    BY <1>3, <1>4, <1>5, <1>6, <1>7, KernelSingle

LEMMA KResendSingle ==
  ASSUME TypeOK, NatInv, GapInv, SingleInv, NEW k \in Keys, KResend(k)
  PROVE  SingleInv'
  <1> DEFINE c == conn[k]
  <1>1. c \in Conn /\ c.snd \in Nat /\ (c.st # "closed" => c.gen \in 1 .. MaxGen)
    BY ConnType, Consts DEF NatInv, ConnInv
  <1>2. conn' = [conn EXCEPT ![k] = c] /\ nat' = nat /\ sess' = sess
    BY DEF KResend, TypeOK
  <1>3. PICK p \in UpPacket :
          /\ up' = Append(up, p) /\ p.key = k /\ c.gen \in 1 .. MaxGen
          /\ \/ p.kind = "syn" /\ c.st = "synsent"
             \/ p.kind = "data" /\ Opened(c)
             \/ p.kind = "fin" /\ c.st = "finwait"
    <2>1. CASE c.st = "synsent" /\ Up("syn", k, c.gen, 0)
      BY <1>1, <2>1, UpIs
    <2>2. ASSUME NEW n \in 1 .. c.snd, c.st \in {"estab", "finwait"}, Up("data", k, c.gen, n)
          PROVE  \E p \in UpPacket : up' = Append(up, p) /\ p.key = k /\ p.kind = "data"
      BY <1>1, <2>2, UpIs
    <2>3. CASE c.st = "finwait" /\ Up("fin", k, c.gen, 0)
      BY <1>1, <2>3, UpIs
    <2> QED
      BY <1>1, <2>1, <2>2, <2>3 DEF KResend, Opened
  <1>4. c.gen <= 1 => /\ Lined(up, c, nat[k], Of(k), k)
                      /\ \A s \in Of(k) : Kept(sess[s]) => Finned(up, c, nat[k], Held(s), k)
    BY SingleKey
  <1>5. c.gen # 0
    BY <1>3
  <1>6. Welcome(p, c, k)
    BY <1>3, <1>5 DEF Welcome
  <1>7. ASSUME c.gen <= 1, c.st = "finwait", NEW s \in Of(k), Kept(sess[s]), NEW n \in 1 .. c.snd - 1
        PROVE  n \in Held(s) \/ Brings(up, k, c.gen, n, Len(up))
    <2>1. CASE nat[k] = None
      BY <1>4, <1>7, <2>1 DEF Finned
    <2>2. CASE nat[k] # None
      <3>1. n \in 1 .. c.snd /\ n < c.snd
        BY <1>1
      <3>2. n \in Emitted(c) /\ Opened(c)
        BY <1>7, <3>1 DEF Emitted, Opened
      <3> QED
        BY <1>7, <2>2, <3>2, HasRest
    <2> QED
      BY <2>1, <2>2
  <1> HIDE DEF c
  <1> QED
    BY <1>2, <1>3, <1>4, <1>6, <1>7, KernelSingle

LEMMA KCloseSingle ==
  ASSUME TypeOK, NatInv, GapInv, SingleInv, NEW k \in Keys, KClose(k)
  PROVE  SingleInv'
  <1> DEFINE c == conn[k]
  <1>1. PICK n \in {c.snd, c.snd + 1} :
          /\ conn' = [conn EXCEPT ![k].st = "finwait", ![k].snd = n]
          /\ Up("fin", k, c.gen, IF n = c.snd THEN 0 ELSE n)
    BY DEF KClose
  <1> DEFINE d == [c EXCEPT !.st = "finwait", !.snd = n]
  <1>2. c \in Conn /\ c.snd \in Nat /\ c.gen \in 1 .. MaxGen /\ c.st = "estab"
        /\ n \in Nat /\ (IF n = c.snd THEN 0 ELSE n) \in Nat
    BY <1>1, ConnType, Consts DEF KClose, NatInv, ConnInv
  <1>3. d.gen = c.gen /\ d.st = "finwait" /\ d.snd = n /\ d.rcv = c.rcv
    BY <1>2 DEF Conn
  <1>4. conn' = [conn EXCEPT ![k] = d] /\ nat' = nat /\ sess' = sess
    BY <1>1, ConnType DEF KClose
  <1>5. PICK p \in UpPacket : up' = Append(up, p) /\ p.kind = "fin" /\ p.key = k
    BY <1>1, <1>2, UpIs
  <1>6. \A i \in 1 .. n - 1 : i \in 1 .. c.snd
    BY <1>1, <1>2
  <1>7. Opened(c) /\ Emitted(c) = 1 .. c.snd /\ c.gen # 0
    BY <1>2 DEF Opened, Emitted
  <1> HIDE DEF d
  <1>8. ASSUME c.gen <= 1
        PROVE  /\ Lined(up, d, nat[k], Of(k), k) /\ nat[k] # None
               /\ \A H : Finned(up, d, nat[k], H, k)
    <2>1. Lined(up, c, nat[k], Of(k), k)
      BY <1>8, SingleKey
    <2>2. nat[k] # None /\ NoneOf(up, k, {"fin"})
      BY <1>2, <2>1 DEF Lined
    <2>3. Lined(up, d, nat[k], Of(k), k)
      BY <1>3, <1>7, <2>1, <2>2 DEF Lined
    <2> QED
      BY <1>3, <2>2, <2>3 DEF Finned, NoneOf
  <1>9. Welcome(p, d, k)
    BY <1>3, <1>5, <1>7 DEF Welcome
  <1>10. ASSUME c.gen <= 1, NEW s \in Of(k), Kept(sess[s]), NEW i \in 1 .. n - 1
         PROVE  i \in Held(s) \/ Brings(up, k, c.gen, i, Len(up))
    BY <1>6, <1>7, <1>8, <1>10, HasRest
  <1> HIDE DEF c
  <1> QED
    BY <1>3, <1>4, <1>5, <1>8, <1>9, <1>10, KernelSingle

LEMMA CloseSingle ==
  ASSUME TypeOK, NatInv, GapInv, SingleInv, NEW k \in Keys, KAbort(k) \/ KGiveUp(k)
  PROVE  SingleInv'
  <1> DEFINE c == conn[k]
             d == [c EXCEPT !.st = "closed"]
  <1>1. c \in Conn /\ c.st # "closed" /\ c.gen \in 1 .. MaxGen
    BY ConnType, Consts DEF KAbort, KGiveUp, NatInv, ConnInv
  <1>2. d.st = "closed" /\ d.gen = c.gen /\ d.rcv = c.rcv /\ d.gen # 0
        /\ conn' = [conn EXCEPT ![k] = d] /\ nat' = nat /\ sess' = sess
    BY <1>1, ConnType DEF KAbort, KGiveUp, Conn
  <1>3. up' = up \/ \E p \in UpPacket : up' = Append(up, p) /\ p.key = k /\ p.kind = "rst"
    BY <1>1, UpIs DEF KAbort, KGiveUp
  <1> HIDE DEF d
  <1>4. d.gen <= 1 => Lined(up, d, nat[k], Of(k), k)
    BY <1>2, SingleKey, SocketCloses
  <1>5. \A H : Finned(up, d, nat[k], H, k)
    BY <1>2, FinnedAll
  <1>6. \A p : p.key = k /\ p.kind = "rst" => Welcome(p, d, k)
    BY <1>2 DEF Welcome
  <1> HIDE DEF c
  <1>7. up' = up \/ \E p \in UpPacket :
          up' = Append(up, p) /\ p.key = k /\ Welcome(p, d, k) /\ p.kind # "fin"
    BY <1>3, <1>6
  <1> QED
    BY <1>2, <1>4, <1>5, <1>7, KernelSingle

\* A packet that arrives moves the socket of its key, and a RST answers it only
\* where there is no connection.
LEMMA TunWriteSingle ==
  ASSUME TypeOK, NatInv, GapInv, SingleInv, TunWrite
  PROVE  SingleInv'
  <1> DEFINE p == Head(down)
             k == p.key
             c == conn[k]
  <1>1. p \in DownPacket /\ k \in Keys /\ p.gen \in 1 .. MaxGen /\ p.sid \in Sessions /\ p.seq \in Nat
    BY DownElement DEF TunWrite, DownPacket
  <1>2. nat' = nat /\ sess' = sess /\ c \in Conn /\ KReceive(p)
    BY <1>1, ConnType DEF TunWrite
  <1>3. p.sid \in Of(k) /\ sess[p.sid].gen = p.gen
    <2>1. p = down[1] /\ 1 \in 1 .. Len(down)
      BY TailFacts DEF TypeOK, TunWrite
    <2> QED
      BY <1>1, <2>1 DEF NatInv, DownInv, Of
  <1>4. p.gen >= 1 /\ p.gen <= c.gen /\ (c.gen <= 1 => p.gen = c.gen) /\ c.gen # 0
    BY <1>1, <1>3, OfKey, ConnType, Consts
  <1> HIDE DEF p
  <1>5. ASSUME c.gen <= 1
        PROVE  /\ Lined(up, c, nat[k], Of(k), k)
               /\ \A s \in Of(k) : Kept(sess[s]) => Finned(up, c, nat[k], Held(s), k)
    BY <1>1, <1>5, SingleKey
  <1>6. ASSUME NEW d, conn' = [conn EXCEPT ![k] = d], d.gen = c.gen, up' = up,
               c.gen <= 1 =>
                 /\ Lined(up, d, nat[k], Of(k), k)
                 /\ \A s \in Of(k) : Kept(sess[s]) => Finned(up, d, nat[k], Held(s), k)
        PROVE  SingleInv'
    BY <1>1, <1>2, <1>6, KernelSingle
  <1>7. CASE /\ ~(p.gen = c.gen /\ c.st # "closed") /\ c.st \in {"closed", "synsent"}
             /\ Up("rst", k, p.gen, 0) /\ conn' = conn
    <2>1. conn' = [conn EXCEPT ![k] = c]
      BY <1>7 DEF TypeOK
    <2>2. PICK r \in UpPacket : up' = Append(up, r) /\ r.key = k /\ r.kind = "rst"
      BY <1>1, <1>7, UpIs
    <2>3. c.gen <= 1 => Welcome(r, c, k) /\ r.kind # "fin"
      BY <1>4, <1>7, <2>2 DEF Welcome
    <2> HIDE DEF c
    <2> QED
      BY <1>1, <1>2, <1>5, <2>1, <2>2, <2>3, KernelSingle
  <1>8. CASE UNCHANGED <<conn, up>>
    <2>1. conn' = [conn EXCEPT ![k] = c]
      BY <1>8 DEF TypeOK
    <2> QED
      BY <1>5, <1>6, <1>8, <2>1
  <1>9. CASE c.st = "synsent" /\ conn' = [conn EXCEPT ![k].st = "estab"] /\ UNCHANGED up
    <2> DEFINE d == [c EXCEPT !.st = "estab"]
    <2>1. /\ d.st = "estab" /\ d.gen = c.gen /\ d.rcv = c.rcv
          /\ conn' = [conn EXCEPT ![k] = d]
      BY <1>1, <1>2, <1>9, ConnType DEF Conn
    <2> HIDE DEF d
    <2>2. ASSUME c.gen <= 1 PROVE Lined(up, d, nat[k], Of(k), k)
      <3>1. Lined(up, c, nat[k], Of(k), k)
        BY <1>5, <2>2
      <3>2. nat[k] # None /\ NoneOf(up, k, {"rst"}) /\ NoneOf(up, k, {"fin"})
        BY <1>3, <1>9, <3>1 DEF Lined, NoneOf
      <3> QED
        BY <1>9, <2>1, <3>1, <3>2 DEF Lined, Opened
    <2>3. \A H : Finned(up, d, nat[k], H, k)
      BY <2>1, FinnedAll
    <2> QED
      BY <1>6, <1>9, <2>1, <2>2, <2>3
  <1>10. CASE conn' = [conn EXCEPT ![k].st = "closed"] /\ UNCHANGED up
    <2> DEFINE d == [c EXCEPT !.st = "closed"]
    <2>1. /\ d.st = "closed" /\ d.gen = c.gen /\ d.rcv = c.rcv
          /\ conn' = [conn EXCEPT ![k] = d]
      BY <1>1, <1>2, <1>10, ConnType DEF Conn
    <2> HIDE DEF d
    <2> QED
      BY <1>5, <1>6, <1>10, <2>1, SocketCloses
  <1>11. CASE /\ p.seq = Len(c.rcv) + 1
              /\ conn' = [conn EXCEPT ![k].rcv = Append(@, <<p.sid, p.seq>>)] /\ UNCHANGED up
    <2> DEFINE x == <<p.sid, p.seq>>
               r == Append(c.rcv, x)
               d == [c EXCEPT !.rcv = r]
    <2>1. conn' = [conn EXCEPT ![k] = d]
      BY <1>1, <1>11, ConnType
    <2>2. d.st = c.st /\ d.snd = c.snd /\ d.gen = c.gen /\ d.rcv = r
      BY <1>2 DEF Conn
    <2>3. c.rcv \in Seq(Sessions \X Nat) /\ x \in Sessions \X Nat
      BY <1>1, ConnType
    <2>4. /\ Len(c.rcv) \in Nat /\ Len(r) = Len(c.rcv) + 1 /\ r[Len(c.rcv) + 1] = x
          /\ \A i \in 1 .. Len(c.rcv) : r[i] = c.rcv[i]
      BY <2>3, AppendFacts
    <2>5. x[1] = p.sid /\ x[2] = p.seq
      OBVIOUS
    <2> DEFINE m == Len(c.rcv)
    <2>6. m \in Nat /\ Len(r) = m + 1 /\ r[m + 1] = x /\ (\A i \in 1 .. m : r[i] = c.rcv[i])
          /\ p.seq = m + 1
      BY <1>11, <2>4
    <2> HIDE DEF d, r, x, m
    <2>7. ASSUME c.gen <= 1 PROVE Lined(up, d, nat[k], Of(k), k)
      <3>1. Lined(up, c, nat[k], Of(k), k)
        BY <1>5, <2>7
      <3>2. \A i \in 1 .. m : c.rcv[i][1] \in Of(k) /\ c.rcv[i][2] = i
        BY <3>1 DEF Lined, m
      <3>3. \A i \in 1 .. Len(r) : r[i][1] \in Of(k) /\ r[i][2] = i
        <4> TAKE i \in 1 .. Len(r)
        <4>1. i \in 1 .. m \/ i = m + 1
          BY <2>6
        <4> QED
          BY <1>3, <2>5, <2>6, <3>2, <4>1
      <3> HIDE DEF c
      <3> QED
        BY <2>2, <3>1, <3>3 DEF Lined, Opened
    <2>8. ASSUME c.gen <= 1, NEW s \in Of(k), Kept(sess[s])
          PROVE  Finned(up, d, nat[k], Held(s), k)
      BY <1>5, <2>2, <2>8, SocketSame
    <2> QED
      BY <1>6, <1>11, <2>1, <2>2, <2>7, <2>8
  <1>12. CASE conn' = [conn EXCEPT ![k].eof = TRUE] /\ UNCHANGED up
    <2> DEFINE d == [c EXCEPT !.eof = TRUE]
    <2>1. /\ d.st = c.st /\ d.snd = c.snd /\ d.gen = c.gen /\ d.rcv = c.rcv
          /\ conn' = [conn EXCEPT ![k] = d]
      BY <1>1, <1>2, <1>12, ConnType DEF Conn
    <2> HIDE DEF d
    <2> QED
      BY <1>5, <1>6, <1>12, <2>1, SocketSame
  <1> QED
    BY <1>2, <1>7, <1>8, <1>9, <1>10, <1>11, <1>12 DEF KReceive

\* Session s becomes x, which has what s had.
LEMMA SessionSingle ==
  ASSUME TypeOK, NatInv, SingleInv, NEW s \in Sessions, Born(s), NEW x \in Session,
         sess' = [sess EXCEPT ![s] = x], UNCHANGED <<conn, up, nat>>, x.key = sess[s].key,
         Kept(x) => Kept(sess[s]) /\ Held(s) \subseteq Items(x.out, x.chan),
         Done(x), x.b = "done" => nat[x.key] # s
  PROVE  SingleInv'
  <1>1. \A t \in Sessions : sess'[t] = IF t = s THEN x ELSE sess[t]
    BY DEF TypeOK
  <1>2. x # Unborn
    BY DEF Session, Unborn
  <1>3. \A t \in Sessions : Born(t)' <=> Born(t)
    BY <1>1, <1>2 DEF Born
  <1>4. \A k : Of(k)' = Of(k)
    BY <1>1, <1>3 DEF Of
  <1>5. DoneInv'
    BY <1>1, <1>3, SingleParts DEF SingleInv
  <1>6. ASSUME NEW k \in Keys, conn[k].gen <= 1, NEW t \in Of(k), Kept(sess'[t])
        PROVE  Finned(up, conn[k], nat[k], Held(t)', k)
    <2>1. t \in Sessions
      BY DEF Of
    <2>2. Kept(sess[t]) /\ Held(t) \subseteq Held(t)'
      BY <1>1, <1>6, <2>1, SessionParts
    <2>3. Finned(up, conn[k], nat[k], Held(t), k)
      BY <1>6, <2>2, SingleKey
    <2> QED
      BY <2>2, <2>3, FinnedMore
  <1>7. ASSUME NEW k \in Keys, conn'[k].gen <= 1
        PROVE  OneSession(k)' /\ AllBeforeFin(k)'
    BY <1>4, <1>6, <1>7, SingleKey, SingleParts
  <1> QED
    BY <1>5, <1>7 DEF SingleInv

LEMMA RunSingle ==
  ASSUME TypeOK, NatInv, GapInv, SingleInv, NEW s \in Sessions, RunSession(s)
  PROVE  SingleInv'
  <1> DEFINE c == sess[s].chan  o == sess[s].out
  <1>1. Born(s)
    BY DEF RunSession, ConnectFails, ConnectSucceeds, SocksToTun, DataToSocks, Born, Unborn
  <1>2. /\ sess[s] \in Session /\ c \in Seq(Payload) /\ o \in Seq(Payload)
        /\ <<>> \in Seq(Payload) /\ Held(s) = Items(o, c) /\ NoGapIn(o) /\ NoGapAfter(o, c)
        /\ sess[s].seq \in Nat /\ (sess[s].pc = "connect" => sess[s].b = "idle")
        /\ Done(sess[s]) /\ (sess[s].b = "done" => nat[sess[s].key] # s)
    BY <1>1, SessionFields, SessionQueues, EmptySeq, SingleParts DEF SingleInv
  <1>3. UNCHANGED <<conn, up, nat>>
    BY DEF RunSession, ConnectFails, ConnectSucceeds, SocksToTun, DataToSocks
  <1>4. sess \in [Sessions -> Session \cup {Unborn}]
    BY DEF TypeOK
  <1>5. CASE ConnectFails(s)
    <2> DEFINE x == [sess[s] EXCEPT !.pc = "failed", !.chan = <<>>]
    <2>1. x \in Session /\ x.key = sess[s].key /\ x.pc = "failed" /\ x.b = sess[s].b
      BY <1>2 DEF Session, Payload
    <2>2. sess' = [sess EXCEPT ![s] = x] /\ sess[s].b = "idle"
      BY <1>2, <1>4, <1>5 DEF ConnectFails
    <2> HIDE DEF x
    <2>3. ~Kept(x) /\ Done(x) /\ x.b # "done"
      BY <2>1, <2>2 DEF Kept, Done
    <2> QED
      BY <1>1, <1>3, <2>1, <2>2, <2>3, SessionSingle
  <1>6. CASE ConnectSucceeds(s)
    <2> DEFINE x == [sess[s] EXCEPT !.pc = "open", !.seq = 1, !.a = "run", !.b = "run"]
    <2>1. x \in Session /\ x.key = sess[s].key /\ x.b = "run" /\ x.chan = c /\ x.out = o
      BY <1>2 DEF Session
    <2>2. sess' = [sess EXCEPT ![s] = x] /\ sess[s].b = "idle" /\ sess[s].pc = "connect"
      BY <1>2, <1>4, <1>6 DEF ConnectSucceeds
    <2> HIDE DEF x
    <2>3. Kept(sess[s]) /\ Done(x) /\ x.b # "done"
      BY <2>1, <2>2 DEF Kept, Done
    <2> QED
      BY <1>1, <1>2, <1>3, <2>1, <2>2, <2>3, SessionSingle
  <1>7. CASE SocksToTun(s)
    <2>1. PICK x \in {[sess[s] EXCEPT !.seq = sess[s].seq + 1], [sess[s] EXCEPT !.a = "done"]} :
            sess' = [sess EXCEPT ![s] = x]
      BY <1>7 DEF SocksToTun
    <2>2. /\ x \in Session /\ x.key = sess[s].key /\ x.pc = sess[s].pc /\ x.b = sess[s].b
          /\ x.chan = c /\ x.out = o
      <3>1. CASE x = [sess[s] EXCEPT !.seq = sess[s].seq + 1]
        <4>1. sess[s].seq + 1 \in Nat
          BY <1>2
        <4> QED
          BY <1>2, <3>1, <4>1 DEF Session
      <3>2. CASE x = [sess[s] EXCEPT !.a = "done"]
        BY <1>2, <3>2 DEF Session
      <3> QED
        BY <2>1, <3>1, <3>2
    <2>3. (Kept(x) => Kept(sess[s])) /\ Done(x)
      BY <1>2, <2>2 DEF Kept, Done
    <2> QED
      BY <1>1, <1>2, <1>3, <2>1, <2>2, <2>3, SessionSingle
  <1>8. CASE DataToSocks(s)
    <2>0. sess[s].pc = "open" /\ sess[s].b = "run" /\ Kept(sess[s])
      BY <1>8 DEF DataToSocks, Kept
    <2>1. CASE c # <<>> /\ sess' = [sess EXCEPT ![s].chan = Tail(@), ![s].out = Append(@, Head(c))]
      <3> DEFINE y == Tail(c)  z == Append(o, Head(c))
                 x == [sess[s] EXCEPT !.chan = y, !.out = z]
      <3>1. Items(o, c) \subseteq Items(z, y)
        BY <1>2, <2>1, PayloadMoves
      <3>2. y \in Seq(Payload) /\ Head(c) \in Payload
        BY <1>2, <2>1, TailFacts
      <3>3. z \in Seq(Payload)
        BY <1>2, <3>2, AppendFacts
      <3>4. sess' = [sess EXCEPT ![s] = x]
        BY <1>4, <2>1
      <3> HIDE DEF y, z
      <3>5. x \in Session /\ x.key = sess[s].key /\ x.chan = y /\ x.out = z /\ x.b = "run"
        BY <1>2, <2>0, <3>2, <3>3 DEF Session, Payload
      <3> HIDE DEF x, c, o
      <3>6. Done(x) /\ x.b # "done"
        BY <3>5 DEF Done
      <3> QED
        BY <1>1, <1>2, <1>3, <2>0, <3>1, <3>4, <3>5, <3>6, SessionSingle
    <2>2. CASE sess' = [sess EXCEPT ![s].chan = <<>>, ![s].b = "broken"]
      <3> DEFINE x == [sess[s] EXCEPT !.chan = <<>>, !.b = "broken"]
      <3>1. x \in Session /\ x.key = sess[s].key /\ x.b = "broken"
        BY <1>2 DEF Session, Payload
      <3>2. sess' = [sess EXCEPT ![s] = x]
        BY <1>4, <2>2
      <3> HIDE DEF x
      <3>3. ~Kept(x) /\ Done(x) /\ x.b # "done"
        BY <3>1 DEF Kept, Done
      <3> QED
        BY <1>1, <1>3, <3>1, <3>2, <3>3, SessionSingle
    <2>3. CASE c = <<>> /\ nat[sess[s].key] # s /\ sess' = [sess EXCEPT ![s].b = "done"]
      <3> DEFINE x == [sess[s] EXCEPT !.b = "done"]
      <3>1. /\ x \in Session /\ x.key = sess[s].key /\ x.b = "done" /\ x.pc = "open"
            /\ x.chan = c /\ x.out = o
        BY <1>2, <2>0 DEF Session
      <3>2. sess' = [sess EXCEPT ![s] = x]
        BY <1>4, <2>3
      <3> HIDE DEF x
      <3>3. Done(x) /\ nat[x.key] # s
        BY <2>3, <3>1 DEF Done
      <3>4. Kept(sess[s]) /\ Held(s) \subseteq Items(x.out, x.chan)
        BY <1>2, <2>0, <3>1
      <3> HIDE DEF c, o
      <3> QED
        BY <1>1, <1>3, <3>1, <3>2, <3>3, <3>4, SessionSingle
    <2> QED
      BY <1>8, <2>1, <2>2, <2>3 DEF DataToSocks
  <1> QED
    BY <1>5, <1>6, <1>7, <1>8 DEF RunSession

\* A packet leaves the queue, and a key is as it was but for what H has become.
LEMMA KeyTail ==
  ASSUME TypeOK, NatInv, SingleInv, NEW kind, Packet(kind), NEW k \in Keys, conn[k].gen <= 1
  PROVE  /\ up' = Tail(up) /\ up \in Seq(UpPacket) /\ up # <<>>
         /\ Lined(up', conn[k], nat[k], Of(k), k)
         /\ \A s \in Of(k) : \A I :
              /\ Kept(sess[s]) /\ Held(s) \subseteq I
              /\ IsData(up[1], k, conn[k].gen) => up[1].item \in I \/ nat[k] = None
              => Finned(up', conn[k], nat[k], I, k)
  <1>1. up' = Tail(up) /\ up \in Seq(UpPacket) /\ up # <<>>
    BY DEF Packet, TypeOK
  <1>2. Lined(up', conn[k], nat[k], Of(k), k)
    BY <1>1, SingleKey, LinedTail
  <1>3. ASSUME NEW s \in Of(k), NEW I, Kept(sess[s]), Held(s) \subseteq I,
               IsData(up[1], k, conn[k].gen) => up[1].item \in I \/ nat[k] = None
        PROVE  Finned(up', conn[k], nat[k], I, k)
    <2>1. Finned(up, conn[k], nat[k], Held(s), k)
      BY <1>3, SingleKey
    <2>2. CASE nat[k] = None
      BY <1>3, <2>1, <2>2, FinnedNone, FinnedAll
    <2>3. CASE nat[k] # None
      BY <1>1, <1>3, <2>1, <2>3, FinnedTail
    <2> QED
      BY <2>2, <2>3
  <1> QED
    BY <1>1, <1>2, <1>3

LEMMA IgnoredSingle ==
  ASSUME TypeOK, NatInv, SingleInv, NEW kind, Packet(kind), UNCHANGED <<conn, nat, sess>>,
         \A k, g : IsData(up[1], k, g) => ~(nat[k] # None /\ Listening(nat[k]))
  PROVE  SingleInv'
  <1>1. (\A k : Of(k)' = Of(k)) /\ (\A s : Held(s)' = Held(s))
    BY DEF Of, Born, Held
  <1>2. DoneInv'
    BY DEF SingleInv, DoneInv, Born
  <1>3. ASSUME NEW k \in Keys, conn[k].gen <= 1, NEW s \in Of(k), Kept(sess[s])
        PROVE  Finned(up', conn[k], nat[k], Held(s), k)
    <2>1. IsData(up[1], k, conn[k].gen) => nat[k] = None
      BY <1>3, OnlySession
    <2> QED
      BY <1>3, <2>1, KeyTail
  <1>4. \A k \in Keys : conn'[k].gen <= 1 => OneSession(k)' /\ AllBeforeFin(k)'
    BY <1>1, <1>3, KeyTail, SingleParts
  <1> QED
    BY <1>2, <1>4 DEF SingleInv

LEMMA ForgetSingle ==
  ASSUME TypeOK, NatInv, SingleInv, OnRst \/ OnFin
  PROVE  SingleInv'
  <1>1. PICK kind \in {"rst", "fin"} : Packet(kind)
    BY DEF OnRst, OnFin
  <1> DEFINE h == Head(up).key
  <1>2. /\ conn' = conn /\ sess' = sess /\ nat' = [nat EXCEPT ![h] = None]
        /\ h = up[1].key /\ up[1].kind = kind /\ h \in Keys
    BY <1>1, PacketTaken DEF OnRst, OnFin
  <1> HIDE DEF h
  <1>3. \A k \in Keys : nat'[k] = IF k = h THEN None ELSE nat[k]
    BY <1>2 DEF TypeOK
  <1>4. (\A k : Of(k)' = Of(k)) /\ (\A s : Held(s)' = Held(s))
    BY <1>2 DEF Of, Born, Held
  <1>5. DoneInv'
    <2> SUFFICES ASSUME NEW s \in Sessions, Born(s), sess[s].b = "done"
                 PROVE  Done(sess[s]) /\ nat'[sess[s].key] # s
      BY <1>2, SingleParts DEF Born, Done
    <2>1. Done(sess[s]) /\ nat[sess[s].key] # s /\ sess[s].key \in Keys
      BY SingleParts, SessionFields DEF SingleInv
    <2>2. s # None
      BY Consts DEF Sessions, None
    <2> QED
      BY <1>3, <2>1, <2>2
  <1>6. ASSUME NEW k \in Keys, conn[k].gen <= 1
        PROVE  /\ Lined(up', conn[k], nat'[k], Of(k), k)
               /\ \A s \in Of(k) : Kept(sess[s]) => Finned(up', conn[k], nat'[k], Held(s), k)
    <2>1. up' = Tail(up) /\ up \in Seq(UpPacket) /\ up # <<>>
      BY <1>1 DEF Packet, TypeOK
    <2>2. CASE k = h
      <3>1. nat'[k] = None
        BY <1>3, <2>2
      <3>2. up[1].key = k /\ up[1].kind \in {"fin", "rst"}
        BY <1>2, <2>2
      <3>3. Lined(up, conn[k], nat[k], Of(k), k)
        BY <1>6, SingleKey
      <3>4. Lined(up', conn[k], None, Of(k), k)
        BY <2>1, <3>2, <3>3, LetGo
      <3>5. ASSUME NEW s \in Of(k), Kept(sess[s])
            PROVE  Finned(up', conn[k], None, Held(s), k)
        <4>1. Finned(up, conn[k], nat[k], Held(s), k)
          BY <1>6, <3>5, SingleKey
        <4> QED
          BY <2>1, <3>2, <3>3, <4>1, LetGoFinned
      <3> QED
        BY <3>1, <3>4, <3>5
    <2>3. CASE k # h
      <3>1. nat'[k] = nat[k] /\ ~IsData(up[1], k, conn[k].gen)
        BY <1>2, <1>3, <2>3 DEF IsData
      <3> QED
        BY <1>1, <1>6, <3>1, KeyTail
    <2> QED
      BY <2>2, <2>3
  <1>7. \A k \in Keys : conn'[k].gen <= 1 => OneSession(k)' /\ AllBeforeFin(k)'
    BY <1>2, <1>4, <1>6, SingleParts
  <1> QED
    BY <1>5, <1>7 DEF SingleInv

LEMMA SpawnSingle ==
  ASSUME TypeOK, NatInv, SingleInv, Packet("syn"), NEW s \in Fresh, \A t \in Fresh : s <= t,
         nat[Head(up).key] = None,
         nat' = [nat EXCEPT ![Head(up).key] = s], Spawn(s, Head(up)), conn' = conn
  PROVE  SingleInv'
  <1> DEFINE p == Head(up)
             h == p.key
             x == [pc |-> "connect", key |-> p.key, gen |-> p.gen, chan |-> <<>>,
                   out |-> <<>>, seq |-> 0, a |-> "idle", b |-> "idle"]
  <1>1. /\ p = up[1] /\ h \in Keys /\ up[1].key = h /\ up[1].kind = "syn" /\ nat[h] = None
    BY PacketTaken
  <1>2. s \in Sessions /\ ~Born(s) /\ s # None
    BY FreshIsLast, Consts DEF Sessions, None
  <1>3. \A t \in Sessions : sess'[t] = IF t = s THEN x ELSE sess[t]
    BY DEF Spawn, TypeOK
  <1>4. x.key = h /\ x.b = "idle" /\ x # Unborn
    BY DEF Unborn
  <1> HIDE DEF x, p, h
  <1>5. \A t \in Sessions : Born(t)' <=> (t = s \/ Born(t))
    BY <1>3, <1>4 DEF Born
  <1>6. \A k \in Keys : nat'[k] = IF k = h THEN s ELSE nat[k]
    BY DEF TypeOK, h, p
  <1>7. \A k \in Keys : Of(k)' = IF k = h THEN Of(k) \cup {s} ELSE Of(k)
    BY <1>2, <1>3, <1>4, <1>5 DEF Of
  <1>8. DoneInv'
    <2> SUFFICES ASSUME NEW t \in Sessions, Born(t)', sess'[t].b = "done"
                 PROVE  Done(sess'[t]) /\ nat'[sess'[t].key] # t
      BY SingleParts DEF Done
    <2>1. t # s /\ sess'[t] = sess[t] /\ Born(t)
      BY <1>3, <1>4, <1>5
    <2>2. Done(sess[t]) /\ nat[sess[t].key] # t /\ sess[t].key \in Keys
      BY <2>1, SingleParts, SessionFields DEF SingleInv
    <2> QED
      BY <1>6, <2>1, <2>2
  <1>9. ASSUME NEW k \in Keys, conn[k].gen <= 1
        PROVE  /\ Lined(up', conn[k], nat'[k], Of(k)', k)
               /\ \A t \in Of(k)' : Kept(sess'[t]) => Finned(up', conn[k], nat'[k], Held(t)', k)
    <2>1. up' = Tail(up) /\ up \in Seq(UpPacket) /\ up # <<>>
      BY DEF Packet, TypeOK
    <2>2. CASE k = h
      <3>1. Lined(up, conn[k], None, Of(k), k)
        BY <1>1, <1>9, <2>2, SingleKey
      <3>0. up[1].key = k /\ up[1].kind = "syn"
        BY <1>1, <2>2
      <3>2. Of(k) = {} /\ Lined(Tail(up), conn[k], s, {s}, k)
        BY <1>2, <2>1, <3>0, <3>1, LinedSpawn
      <3>3. Of(k)' = {s} /\ nat'[k] = s
        BY <1>6, <1>7, <2>2, <3>2
      <3>4. conn[k].st # "finwait"
        <4>1. \A t \in Sessions : ~(Born(t) /\ sess[t].key = k)
          BY <3>2 DEF Of
        <4>2. ~Established(k)
          BY <4>1 DEF NatInv, ConnInv, Served
        <4> QED
          BY <4>2 DEF Established
      <3> QED
        BY <2>1, <3>2, <3>3, <3>4, FinnedAll
    <2>3. CASE k # h
      <3>1. nat'[k] = nat[k] /\ Of(k)' = Of(k) /\ ~IsData(up[1], k, conn[k].gen)
        BY <1>1, <1>6, <1>7, <2>3 DEF IsData
      <3>2. \A t \in Of(k) : sess'[t] = sess[t] /\ Held(t)' = Held(t)
        BY <1>2, <1>3 DEF Of, Held
      <3> QED
        BY <1>9, <3>1, <3>2, KeyTail
    <2> QED
      BY <2>2, <2>3
  <1>10. \A k \in Keys : conn'[k].gen <= 1 => OneSession(k)' /\ AllBeforeFin(k)'
    BY <1>9, SingleParts
  <1> QED
    BY <1>8, <1>10 DEF SingleInv

LEMMA OnSynSingle ==
  ASSUME TypeOK, NatInv, SingleInv, OnSyn
  PROVE  SingleInv'
  <1>1. Packet("syn") /\ conn' = conn
    BY DEF OnSyn
  <1>2. \A k, g : ~IsData(up[1], k, g)
    BY <1>1, PacketTaken DEF IsData
  <1>3. CASE UNCHANGED <<nat, sess>>
    BY <1>1, <1>2, <1>3, IgnoredSingle
  <1>4. CASE /\ nat[Head(up).key] = None
             /\ \E s \in Fresh : /\ \A t \in Fresh : s <= t
                                 /\ nat' = [nat EXCEPT ![Head(up).key] = s]
                                 /\ Spawn(s, Head(up))
    BY <1>1, <1>4, SpawnSingle
  <1> QED
    BY <1>3, <1>4 DEF OnSyn

LEMMA OnDataSingle ==
  ASSUME TypeOK, NatInv, SingleInv, OnData
  PROVE  SingleInv'
  <1> DEFINE p == Head(up)  h == p.key  s == nat[h]  load == [gen |-> p.gen, item |-> p.item]
  <1>1. Packet("data") /\ conn' = conn /\ nat' = nat
    BY DEF OnData
  <1>2. /\ p = up[1] /\ p.kind = "data" /\ h \in Keys /\ p.gen \in 1 .. MaxGen /\ p.item \in Nat
    BY <1>1, PacketTaken
  <1>3. CASE ~(s # None /\ Listening(s)) /\ sess' = sess
    <2>1. \A k, g : IsData(up[1], k, g) => k = h
      BY <1>2 DEF IsData
    <2> QED
      BY <1>1, <1>3, <2>1, IgnoredSingle
  <1>4. CASE s # None /\ Listening(s) /\ sess' = [sess EXCEPT ![s].chan = Append(@, load)]
    <2>1. s \in Sessions /\ Born(s) /\ sess[s].key = h
      BY <1>1, <1>2, <1>4, PayloadIsOwn DEF NatInv, NatIsNewest
    <2>2. load \in Payload /\ load.item = p.item
      BY <1>2 DEF Payload
    <2> DEFINE c == sess[s].chan  o == sess[s].out  y == Append(c, load)
               x == [sess[s] EXCEPT !.chan = y]
    <2>3. c \in Seq(Payload) /\ o \in Seq(Payload) /\ sess[s] \in Session /\ Held(s) = Items(o, c)
      BY <2>1, SessionFields, SessionParts
    <2>4. sess' = [sess EXCEPT ![s] = x]
      BY <1>4, <2>1, <2>3 DEF TypeOK
    <2>5. y \in Seq(Payload) /\ Items(o, c) \subseteq Items(o, y) /\ load.item \in Items(o, y)
      <3>1. /\ Len(c) \in Nat /\ y \in Seq(Payload) /\ Len(y) = Len(c) + 1 /\ y[Len(c) + 1] = load
            /\ \A i \in 1 .. Len(c) : y[i] = c[i]
        BY <2>2, <2>3, AppendFacts
      <3> DEFINE m == Len(c)
      <3>2. m \in Nat /\ Len(y) = m + 1 /\ y[m + 1] = load /\ \A i \in 1 .. m : y[i] = c[i]
        BY <3>1
      <3> HIDE DEF y, load, m
      <3>3. m + 1 \in 1 .. Len(y) /\ \A i \in 1 .. m : i \in 1 .. Len(y)
        BY <3>2
      <3>4. Items(o, c) = {o[i].item : i \in 1 .. Len(o)} \cup {c[i].item : i \in 1 .. m}
        BY DEF Items, m
      <3>5. Items(o, y) = {o[i].item : i \in 1 .. Len(o)} \cup {y[i].item : i \in 1 .. Len(y)}
        BY DEF Items
      <3> QED
        BY <3>1, <3>2, <3>3, <3>4, <3>5
    <2> HIDE DEF y
    <2>6. x.key = sess[s].key /\ x.chan = y /\ x.out = o /\ x.pc = sess[s].pc /\ x.b = sess[s].b
      BY <2>3 DEF Session, Payload
    <2>7. x # Unborn
      BY <2>3, <2>5 DEF Session, Payload, Unborn
    <2>8. sess[s].b # "done"
      BY <1>4 DEF Listening
    <2> HIDE DEF x, load, s, h, p, c, o
    <2>9. \A t \in Sessions : sess'[t] = IF t = s THEN x ELSE sess[t]
      BY <2>4 DEF TypeOK
    <2>10. \A t \in Sessions : (Born(t)' <=> Born(t)) /\ sess'[t].key = sess[t].key
                               /\ Kept(sess'[t]) = Kept(sess[t])
      BY <2>1, <2>6, <2>7, <2>9 DEF Born, Kept
    <2>11. \A k : Of(k)' = Of(k)
      BY <2>10 DEF Of
    <2>12. DoneInv'
      BY <1>1, <2>6, <2>8, <2>9, <2>10, SingleParts DEF SingleInv, Done
    <2>13. \A t \in Sessions : Held(t)' = IF t = s THEN Items(o, y) ELSE Held(t)
      BY <2>6, <2>9, SessionParts
    <2>14. ASSUME NEW k \in Keys, conn[k].gen <= 1, NEW t \in Of(k), Kept(sess[t])
           PROVE  Finned(up', conn[k], nat[k], Held(t)', k)
      <3>1. t \in Sessions
        BY DEF Of
      <3>2. Held(t) \subseteq Held(t)'
        BY <2>3, <2>5, <2>13, <3>1
      <3>3. ASSUME IsData(up[1], k, conn[k].gen), nat[k] # None
            PROVE  up[1].item \in Held(t)'
        <4>1. k = h /\ nat[k] = t
          BY <1>2, <2>14, <3>3, OnlySession DEF IsData, h
        <4>2. t = s
          BY <4>1 DEF s
        <4> QED
          BY <1>2, <2>2, <2>5, <2>13, <3>1, <4>2
      <3> QED
        BY <1>1, <2>14, <3>2, <3>3, KeyTail
    <2>15. ASSUME NEW k \in Keys, conn'[k].gen <= 1
           PROVE  OneSession(k)' /\ AllBeforeFin(k)'
      <3>1. Lined(up', conn[k], nat[k], Of(k), k)
        BY <1>1, <2>15, KeyTail
      <3>2. \A t \in Of(k) : t \in Sessions
        BY DEF Of
      <3> QED
        BY <1>1, <2>10, <2>11, <2>14, <2>15, <3>1, <3>2, SingleParts
    <2> QED
      BY <2>12, <2>15 DEF SingleInv
  <1> QED
    BY <1>3, <1>4 DEF OnData

LEMMA SameSingle ==
  ASSUME SingleInv, UNCHANGED <<conn, up, nat, sess>>
  PROVE  SingleInv'
  <1>1. (\A k : Of(k)' = Of(k)) /\ (\A s : Held(s)' = Held(s))
    BY DEF Of, Born, Held
  <1>2. DoneInv'
    BY DEF SingleInv, DoneInv, Born
  <1>3. \A k \in Keys : conn'[k].gen <= 1 => OneSession(k)' /\ AllBeforeFin(k)'
    BY <1>1, SingleParts DEF SingleInv
  <1> QED
    BY <1>2, <1>3 DEF SingleInv

LEMMA InitSingle ==
  ASSUME Init
  PROVE  SingleInv
  <1>1. \A s \in Sessions : ~Born(s)
    BY DEF Init, Born
  <1>2. \A k \in Keys : conn[k].st = "closed" /\ conn[k].rcv = <<>> /\ Of(k) = {}
    BY <1>1 DEF Init, Socket, Of
  <1>3. Len(up) = 0 /\ Len(<<>>) = 0
    BY EmptySeq DEF Init
  <1>4. \A k, kinds : NoneOf(up, k, kinds)
    BY <1>3 DEF NoneOf
  <1>5. \A k \in Keys : OneSession(k)
    <2> TAKE k \in Keys
    <2>1. \A i : ~(i \in 1 .. Len(up)) /\ ~(i \in 1 .. Len(conn[k].rcv))
      BY <1>2, <1>3
    <2>2. conn[k].st \notin {"synsent", "estab", "finwait"} /\ Of(k) = {}
      BY <1>2
    <2>3. Lined(up, conn[k], nat[k], Of(k), k)
      BY <1>4, <2>1, <2>2 DEF Lined, Opened
    <2> QED
      BY <2>3, SingleParts
  <1>6. \A k \in Keys : AllBeforeFin(k)
    BY <1>2 DEF AllBeforeFin
  <1> QED
    BY <1>1, <1>5, <1>6 DEF SingleInv, DoneInv

LEMMA StepIsSingle ==
  ASSUME TypeOK, NatInv, GapInv, SingleInv, [Next]_vars
  PROVE  SingleInv'
  <1>1. ASSUME NEW k \in Keys, Kernel(k)
        PROVE  SingleInv'
    BY <1>1, KConnectSingle, KSendSingle, KResendSingle, KCloseSingle, CloseSingle DEF Kernel
  <1>2. CASE HandleTcp
    BY <1>2, ForgetSingle, OnSynSingle, OnDataSingle DEF HandleTcp
  <1>3. ASSUME NEW s \in Sessions, RunSession(s)
        PROVE  SingleInv'
    BY <1>3, RunSingle
  <1>4. CASE TunWrite
    BY <1>4, TunWriteSingle
  <1>5. CASE TunWriteFails
    BY <1>5, SameSingle DEF TunWriteFails
  <1>6. CASE UNCHANGED vars
    BY <1>6, SameSingle DEF vars
  <1> QED
    BY <1>1, <1>2, <1>3, <1>4, <1>5, <1>6 DEF Next

\* With one connection on the key, what it received is of one session.
LEMMA FedByOne ==
  ASSUME TypeOK, NatInv, SingleInv, NEW k \in Keys, conn[k].gen <= 1,
         NEW i \in 1 .. Len(conn[k].rcv)
  PROVE  /\ conn[k].rcv[i] = <<conn[k].rcv[1][1], i>>
         /\ sess[conn[k].rcv[i][1]].gen = conn[k].gen
  <1> DEFINE r == conn[k].rcv
  <1>1. r \in Seq(Sessions \X Nat) /\ Len(r) \in Nat
    BY ConnType, LenProperties
  <1>2. 1 \in 1 .. Len(r) /\ r[i] \in Sessions \X Nat
    BY <1>1, ElementOfSeq
  <1>3. r[i][1] \in Of(k) /\ r[1][1] \in Of(k) /\ r[i][2] = i
    BY <1>2, SingleKey DEF Lined
  <1>4. r[i][1] = r[1][1]
    BY <1>3, SingleKey DEF Lined
  <1>5. r[i] = <<r[i][1], r[i][2]>>
    BY <1>2
  <1> QED
    BY <1>3, <1>4, <1>5, OfKey

\* And what it sent is forwarded.
LEMMA AllForwarded ==
  ASSUME TypeOK, NatInv, GapInv, SingleInv, NEW s \in Sessions, Finished(s),
         conn[sess[s].key].gen <= 1
  PROVE  1 .. conn[sess[s].key].snd - 1 \subseteq Forwarded(s)
  <1> DEFINE k == sess[s].key
  <1>1. /\ Born(s) /\ sess[s].b = "done" /\ conn[k].st = "finwait"
        /\ k \in Keys /\ s \in Of(k)
    BY SessionFields DEF Finished, Of
  <1>2. sess[s].pc = "open" /\ sess[s].chan = <<>> /\ nat[k] # s
    BY <1>1 DEF SingleInv, DoneInv
  <1>3. nat[k] = None
    BY <1>1, <1>2, OnlySession
  <1>4. Finned(up, conn[k], nat[k], Held(s), k)
    BY <1>1, <1>2, SingleKey DEF Kept
  <1>5. 1 .. conn[k].snd - 1 \subseteq Held(s)
    BY <1>1, <1>3, <1>4 DEF Finned
  <1>6. Len(<<>>) = 0
    BY EmptySeq
  <1>7. Held(s) = Forwarded(s)
    BY <1>2, <1>6 DEF Held, Forwarded
  <1> QED
    BY <1>5, <1>7

--------------------------------------------------------------------------------
(* The theorems.                                                           *)

\* The table, the sessions, the two queues and the kernel's sockets stay in
\* step, and every state is well typed: handle_tcp and run_tcp_session against
\* any kernel that retransmits, resets, gives up and reuses a flow key.
THEOREM NatInvariance == Spec => [](TypeOK /\ NatInv)
  <1>1. Init => TypeOK /\ NatInv
    BY InitHolds
  <1>2. TypeOK /\ NatInv /\ [Next]_vars => (TypeOK /\ NatInv)'
    BY StepKeeps
  <1> QED
    BY <1>1, <1>2, PTL DEF Spec

\* The table, its sessions and the two queues of the TUN keep their types.
THEOREM NatTypeCorrect == Spec => []TypeOK
  BY NatInvariance, PTL

\* TcpNatTable never points back to an older session of a key.
THEOREM TableIsNewest == Spec => []NatIsNewest
  <1>1. NatInv => NatIsNewest
    BY DEF NatInv
  <1> QED
    BY <1>1, NatInvariance, PTL

\* data_to_socks writes to SOCKS5 nothing but payload of the connection the
\* session was spawned for.
THEOREM NoCrossTalk == Spec => []UpstreamIsOwn
  <1>1. NatInv => UpstreamIsOwn
    BY DEF NatInv
  <1> QED
    BY <1>1, NatInvariance, PTL

\* Every state is in order, types, table and queues: what GapInv adds to NatInv
\* is that a SYN, a session the table points at, a queue or a stream that has a
\* segment has, or is about to be handed, all those before it; and SingleInv, that
\* the first connection of a key has one session, which the table keeps until its
\* FIN has been handled.
THEOREM StreamInvariance == Spec => []StreamInv
  <1>1. Init => TypeOK /\ StreamInv
    BY InitHolds, InitGap, InitSingle DEF StreamInv
  <1>2. TypeOK /\ StreamInv /\ [Next]_vars => (TypeOK /\ StreamInv)'
    BY StepKeeps, StepHasNoGap, StepIsSingle DEF StreamInv
  <1> QED
    BY <1>1, <1>2, PTL DEF Spec

\* data_to_socks writes the payload of a connection in order, from its first
\* segment and up to repetitions: none is skipped, whatever the kernel sent
\* before SOCKS5 had answered, and however often it resets and starts again.
THEOREM NoGap == Spec => []UpstreamHasNoGap
  <1>1. StreamInv => UpstreamHasNoGap
    BY DEF StreamInv, GapInv
  <1> QED
    BY <1>1, StreamInvariance, PTL

\* socks_to_tun of one session feeds the first connection of a key, without a
\* repetition or a hole: no SYN that the kernel repeats opens a second one.
THEOREM OneStreamDown == Spec => []DownstreamIsOneStream
  <1>1. TypeOK /\ StreamInv => DownstreamIsOneStream
    BY FedByOne DEF StreamInv, DownstreamIsOneStream
  <1> QED
    BY <1>1, StreamInvariance, NatTypeCorrect, PTL

\* When data_to_socks of the first connection of a key ends without an error, it has
\* written all that was sent before the FIN.
THEOREM AllButLast == Spec => []UpstreamButLast
  <1>1. TypeOK /\ StreamInv => UpstreamButLast
    BY AllForwarded DEF StreamInv, UpstreamButLast
  <1> QED
    BY <1>1, StreamInvariance, NatTypeCorrect, PTL
================================================================================
