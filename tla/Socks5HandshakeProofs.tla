-------------------------- MODULE Socks5HandshakeProofs --------------------------
(***************************************************************************)
(* Proofs about the SOCKS5 handshake, for all lengths of names and whatever*)
(* an application asks for.  Part one reads the messages byte by byte: the *)
(* speech of a program is its greeting, its request and its data, and a    *)
(* read_exact of the length the proxy computes ends where the part of the  *)
(* speech ends that it means.  Parts two and three show HandInv kept by    *)
(* each step of the proxy and of the program.                              *)
(***************************************************************************)
EXTENDS Socks5Handshake, SequenceTheorems, TLAPS

--------------------------------------------------------------------------------
(* Messages.                                                               *)

Byte == 0 .. 255

\* Part of TypeOK.
AskOK == ask \in AppAsks \cup TunAsks

\* The fields of what is asked.
LEMMA AskFacts ==
  ASSUME AskOK
  PROVE  /\ ask.ver \in {4, 5} /\ ask.methods \in {<<>>, <<0>>, <<2>>, <<2, 0>>}
         /\ ask.cmd \in {1, 2, 3} /\ ask.addr \in Addresses /\ ask.eager \in BOOLEAN
         /\ ask.who \in {"app", "tun"}
         /\ ask.who = "tun" => ask.ver = 5 /\ ask.methods = <<0>> /\ ask.cmd = 1 /\ ~ask.eager
  <1>1. CASE ask \in AppAsks
    BY <1>1 DEF AppAsks
  <1>2. CASE ask \in TunAsks
    BY <1>2 DEF TunAsks, Addresses
  <1> QED
    BY <1>1, <1>2 DEF AskOK

\* The length of an address on the wire; only a name has a length of its own.
LEMMA AddrFacts ==
  ASSUME AskOK
  PROVE  /\ ask.addr.type \in {V4, V6, Domain}
         /\ ask.addr.len \in 0 .. 255
         /\ ask.addr.type = Domain => ask.addr.len \in 1 .. 255
         /\ ask.addr.type # Domain => ask.addr.len = 0
         /\ ask.addr.text \in BOOLEAN /\ (ask.addr.type # Domain => ask.addr.text)
         /\ AddrLen(ask.addr) \in 1 .. 255
         /\ ask.addr.type = V4 => AddrLen(ask.addr) = 4
         /\ ask.addr.type = V6 => AddrLen(ask.addr) = 16
         /\ ask.addr.type = Domain => AddrLen(ask.addr) = ask.addr.len
  <1> DEFINE x == ask.addr
  <1>1. NameLengths \subseteq 1 .. 255
    BY HandshakeAssumption
  <1>2. \/ x \in [type : {V4, V6}, len : {0}, text : {TRUE}]
        \/ x \in [type : {Domain}, len : NameLengths, text : BOOLEAN]
    BY AskFacts DEF Addresses
  <1> SUFFICES ASSUME NEW y, y = x
               PROVE  /\ y.type \in {V4, V6, Domain} /\ y.len \in 0 .. 255
                      /\ y.type = Domain => y.len \in 1 .. 255
                      /\ y.type # Domain => y.len = 0
                      /\ y.text \in BOOLEAN /\ (y.type # Domain => y.text)
                      /\ AddrLen(y) \in 1 .. 255
                      /\ y.type = V4 => AddrLen(y) = 4
                      /\ y.type = V6 => AddrLen(y) = 16
                      /\ y.type = Domain => AddrLen(y) = y.len
    OBVIOUS
  <1> HIDE DEF x
  <1>3. CASE y \in [type : {V4, V6}, len : {0}, text : {TRUE}]
    <2>1. y.type \in {V4, V6} /\ y.len = 0 /\ y.text \in {TRUE}
      BY <1>3
    <2>2. y.text \in BOOLEAN /\ y.text
      BY <2>1, Zenon
    <2>3. AddrLen(y) = IF y.type = V4 THEN 4 ELSE 16
      BY <2>1 DEF AddrLen, V4, V6
    <2> QED
      BY <2>1, <2>2, <2>3 DEF V4, V6, Domain
  <1>4. CASE y \in [type : {Domain}, len : NameLengths, text : BOOLEAN]
    BY <1>1, <1>4 DEF V4, V6, Domain, AddrLen
  <1> QED
    BY <1>2, <1>3, <1>4

\* Concatenation, for bytes.
LEMMA Cat ==
  ASSUME NEW s \in Seq(Byte), NEW t \in Seq(Byte)
  PROVE  /\ s \o t \in Seq(Byte) /\ Len(s \o t) = Len(s) + Len(t)
         /\ Len(s) \in Nat /\ Len(t) \in Nat
         /\ \A i \in 1 .. Len(s) : (s \o t)[i] = s[i]
         /\ \A i \in 1 .. Len(t) : (s \o t)[Len(s) + i] = t[i]
  BY ConcatProperties, LenProperties

\* An address on the wire.
LEMMA HostFacts ==
  ASSUME AskOK
  PROVE  /\ Host(ask.addr) \in Seq(Byte) /\ Len(Host(ask.addr)) = AddrLen(ask.addr)
  <1> DEFINE l == AddrLen(ask.addr)
             h == Host(ask.addr)
  <1>1. l \in Nat
    BY AddrFacts
  <1>2. h = [i \in 1 .. l |-> IF i = 1 /\ ~ask.addr.text THEN NoText ELSE 100 + (i % 2)]
    BY DEF Host
  <1> HIDE DEF l, h
  <1>3. \A i \in 1 .. l : 100 + (i % 2) \in Byte /\ NoText \in Byte
    BY <1>1 DEF Byte, NoText
  <1>4. h \in [1 .. l -> Byte]
    BY <1>2, <1>3
  <1>5. h \in Seq(Byte)
    BY <1>1, <1>4, SeqDef
  <1>6. DOMAIN h = 1 .. l
    BY <1>2
  <1>7. Len(h) = l
    BY <1>1, <1>5, <1>6, LenProperties
  <1> QED
    BY <1>5, <1>7 DEF l, h

\* The request, byte by byte.
LEMMA RequestFacts ==
  ASSUME AskOK
  PROVE  LET r == Request(ask)
             l == AddrLen(ask.addr)
             d == IF ask.addr.type = Domain THEN 1 ELSE 0
         IN  /\ r \in Seq(Byte) /\ Len(r) = 6 + d + l
             /\ r[1] = 5 /\ r[2] = ask.cmd /\ r[4] = ask.addr.type
             /\ d = 1 => r[5] = ask.addr.len
             /\ \A i \in 1 .. l : r[4 + d + i] = Host(ask.addr)[i]
             /\ \A i \in 1 .. 2 : r[4 + d + l + i] = Port[i]
  <1> DEFINE l == AddrLen(ask.addr)
             h == <<5, ask.cmd, 0, ask.addr.type>>
             n == IF ask.addr.type = Domain THEN <<ask.addr.len>> ELSE <<>>
             a == h \o n
             b == a \o Host(ask.addr)
             d == IF ask.addr.type = Domain THEN 1 ELSE 0
  <1>1. Request(ask) = b \o Port
    BY DEF Request
  <1>a. ask.cmd \in Byte /\ ask.addr.type \in Byte /\ ask.addr.len \in Byte /\ 5 \in Byte /\ 0 \in Byte
    BY AskFacts, AddrFacts DEF Byte, V4, V6, Domain
  <1>b. /\ h \in Seq(Byte) /\ Len(h) = 4 /\ h[1] = 5 /\ h[2] = ask.cmd /\ h[4] = ask.addr.type
    BY <1>a
  <1>c. /\ n \in Seq(Byte) /\ Len(n) = d /\ (d = 1 => n[1] = ask.addr.len)
    BY <1>a
  <1>d. Port \in Seq(Byte) /\ Len(Port) = 2
    BY DEF Port, Byte
  <1>2. d \in {0, 1}
    OBVIOUS
  <1>3. /\ l \in Nat /\ Host(ask.addr) \in Seq(Byte) /\ Len(Host(ask.addr)) = l
    BY AddrFacts, HostFacts
  <1> HIDE DEF h, n, l, d
  <1>4. /\ a \in Seq(Byte) /\ Len(a) = 4 + d
        /\ \A i \in 1 .. 4 : a[i] = h[i]
        /\ d = 1 => a[5] = n[1]
    <2>1. /\ a \in Seq(Byte) /\ Len(a) = Len(h) + Len(n)
          /\ \A i \in 1 .. Len(h) : a[i] = h[i]
          /\ \A i \in 1 .. Len(n) : a[Len(h) + i] = n[i]
      BY <1>b, <1>c, Cat
    <2>2. d = 1 => a[4 + 1] = n[1]
      BY <2>1, <1>b, <1>c
    <2> QED
      BY <2>1, <2>2, <1>b, <1>c
  <1> HIDE DEF a
  <1>5. /\ b \in Seq(Byte) /\ Len(b) = 4 + d + l
        /\ \A i \in 1 .. 4 + d : b[i] = a[i]
        /\ \A i \in 1 .. l : b[4 + d + i] = Host(ask.addr)[i]
    <2>1. /\ b \in Seq(Byte) /\ Len(b) = Len(a) + Len(Host(ask.addr))
          /\ \A i \in 1 .. Len(a) : b[i] = a[i]
          /\ \A i \in 1 .. Len(Host(ask.addr)) : b[Len(a) + i] = Host(ask.addr)[i]
      BY <1>3, <1>4, Cat
    <2> QED
      BY <2>1, <1>2, <1>3, <1>4
  <1> HIDE DEF b
  <1>6. /\ b \o Port \in Seq(Byte) /\ Len(b \o Port) = 6 + d + l
        /\ \A i \in 1 .. 4 + d + l : (b \o Port)[i] = b[i]
        /\ \A i \in 1 .. 2 : (b \o Port)[4 + d + l + i] = Port[i]
    <2>1. /\ b \o Port \in Seq(Byte) /\ Len(b \o Port) = Len(b) + Len(Port)
          /\ \A i \in 1 .. Len(b) : (b \o Port)[i] = b[i]
          /\ \A i \in 1 .. Len(Port) : (b \o Port)[Len(b) + i] = Port[i]
      BY <1>d, <1>5, Cat
    <2>2. 4 + d + l + 2 = 6 + d + l
      BY <1>2, <1>3
    <2> QED
      BY <2>1, <2>2, <1>5, <1>d
  <1>7. /\ (b \o Port)[1] = 5 /\ (b \o Port)[2] = ask.cmd /\ (b \o Port)[4] = ask.addr.type
        /\ d = 1 => (b \o Port)[5] = ask.addr.len
        /\ \A i \in 1 .. l : (b \o Port)[4 + d + i] = Host(ask.addr)[i]
    <2>1. \A i \in 1 .. 4 : (b \o Port)[i] = h[i]
      <3> TAKE i \in 1 .. 4
      <3>1. i \in 1 .. 4 + d /\ i \in 1 .. 4 + d + l
        BY <1>2, <1>3
      <3>2. (b \o Port)[i] = b[i] /\ b[i] = a[i] /\ a[i] = h[i]
        BY <1>4, <1>5, <1>6, <3>1
      <3> QED
        BY <3>2
    <2>2. d = 1 => (b \o Port)[5] = n[1]
      BY <1>2, <1>3, <1>4, <1>5, <1>6
    <2>3. \A i \in 1 .. l : 4 + d + i \in 1 .. 4 + d + l
      BY <1>2, <1>3
    <2> QED
      BY <1>b, <1>c, <1>5, <1>6, <2>1, <2>2, <2>3, <1>2, <1>3
  <1> QED
    BY <1>1, <1>6, <1>7 DEF l, d

\* A sequence that agrees with a stretch of another one is that stretch.
LEMMA Part ==
  ASSUME NEW s \in Seq(Byte), NEW t \in Seq(Byte), NEW p \in Nat, p + Len(s) <= Len(t),
         \A i \in 1 .. Len(s) : t[p + i] = s[i]
  PROVE  s = SubSeq(t, p + 1, p + Len(s))
  <1>1. Len(s) \in Nat /\ Len(t) \in Nat /\ \A i \in 1 .. Len(t) : t[i] \in Byte
    BY LenProperties, ElementOfSeq
  <1> DEFINE u == SubSeq(t, p + 1, p + Len(s))
  <1>2. \A i \in p + 1 .. p + Len(s) : t[i] \in Byte
    BY <1>1
  <1>3. /\ u \in Seq(Byte)
        /\ Len(u) = IF p + 1 <= p + Len(s) THEN p + Len(s) - (p + 1) + 1 ELSE 0
        /\ \A i \in 1 .. p + Len(s) - (p + 1) + 1 : u[i] = t[p + 1 + i - 1]
    <2>1. p + 1 \in Int /\ p + Len(s) \in Int
      BY <1>1
    <2> QED
      BY <1>2, <2>1, SubSeqProperties
  <1> HIDE DEF u
  <1>4. Len(u) = Len(s)
    BY <1>1, <1>3
  <1>5. \A i \in 1 .. Len(s) : u[i] = s[i]
    BY <1>1, <1>3
  <1>6. u = s
    BY <1>3, <1>4, <1>5, SeqEqual
  <1> QED
    BY <1>6 DEF u

\* The speech and where its three parts lie in it.
LEMMA SpeechFacts ==
  ASSUME AskOK
  PROVE  /\ Speech \in Seq(Byte) /\ Len(Speech) = Asked + 2
         /\ Methods \in 0 .. 2
         /\ ask.addr.type = Domain => Asked = Greeted + 7 + AddrLen(ask.addr)
         /\ ask.addr.type # Domain => Asked = Greeted + 6 + AddrLen(ask.addr)
         /\ Greeting(ask) = SubSeq(Speech, 1, Greeted)
         /\ Request(ask) = SubSeq(Speech, Greeted + 1, Asked)
         /\ Data = SubSeq(Speech, Asked + 1, Asked + 2)
         /\ Speech[1] = ask.ver /\ Speech[2] = Methods
         /\ \A i \in 1 .. Methods : Speech[2 + i] = ask.methods[i]
         /\ \A i \in 1 .. Len(Request(ask)) : Speech[Greeted + i] = Request(ask)[i]
  <1> DEFINE m == ask.methods
             h == <<ask.ver, Len(m)>>
             g == h \o m
             r == Request(ask)
             s == g \o r
             t == s \o Data
  <1>1. /\ h \in Seq(Byte) /\ Len(h) = 2 /\ h[1] = ask.ver /\ h[2] = Len(m)
        /\ m \in Seq(Byte) /\ Len(m) \in 0 .. 2
        /\ Data \in Seq(Byte) /\ Len(Data) = 2
    <2>1. Len(m) \in 0 .. 2 /\ m \in Seq(Byte)
      <3>1. CASE m = <<>>
        BY <3>1
      <3>2. CASE m = <<0>>
        BY <3>2 DEF Byte
      <3>3. CASE m = <<2>>
        BY <3>3 DEF Byte
      <3>4. CASE m = <<2, 0>>
        BY <3>4 DEF Byte
      <3> QED
        BY <3>1, <3>2, <3>3, <3>4, AskFacts
    <2>2. ask.ver \in Byte /\ Len(m) \in Byte
      BY AskFacts, <2>1 DEF Byte
    <2> QED
      BY <2>1, <2>2 DEF Data, Byte
  <1>2. Greeting(ask) = g /\ Speech = t
    BY DEF Greeting, Speech
  <1>3. /\ r \in Seq(Byte) /\ Len(r) = 6 + (IF ask.addr.type = Domain THEN 1 ELSE 0) + AddrLen(ask.addr)
        /\ AddrLen(ask.addr) \in Nat
    <2>1. AddrLen(ask.addr) \in Nat
      BY AddrFacts
    <2>2. r \in Seq(Byte) /\ Len(r) = 6 + (IF ask.addr.type = Domain THEN 1 ELSE 0) + AddrLen(ask.addr)
      BY RequestFacts
    <2> QED
      BY <2>1, <2>2
  <1> HIDE DEF h, m, r
  <1>4. /\ g \in Seq(Byte) /\ Len(g) = Len(h) + Len(m)
        /\ \A i \in 1 .. Len(h) : g[i] = h[i]
        /\ \A i \in 1 .. Len(m) : g[Len(h) + i] = m[i]
    BY <1>1, Cat
  <1> HIDE DEF g
  <1>5. /\ s \in Seq(Byte) /\ Len(s) = Len(g) + Len(r)
        /\ \A i \in 1 .. Len(g) : s[i] = g[i]
        /\ \A i \in 1 .. Len(r) : s[Len(g) + i] = r[i]
    BY <1>3, <1>4, Cat
  <1> HIDE DEF s
  <1>6. /\ t \in Seq(Byte) /\ Len(t) = Len(s) + Len(Data)
        /\ \A i \in 1 .. Len(s) : t[i] = s[i]
        /\ \A i \in 1 .. Len(Data) : t[Len(s) + i] = Data[i]
    BY <1>1, <1>5, Cat
  <1> HIDE DEF t
  <1>7. Greeted = Len(g) /\ Asked = Len(s) /\ Len(g) \in Nat /\ Len(r) \in Nat /\ Greeted = 2 + Len(m)
    BY <1>1, <1>3, <1>4, <1>5 DEF Greeted, Methods, Asked, m, r
  <1>8. \A i \in 1 .. Len(g) : t[i] = g[i]
    BY <1>5, <1>6, <1>7
  <1>9. \A i \in 1 .. Len(r) : t[Len(g) + i] = r[i]
    <2>1. \A i \in 1 .. Len(r) : Len(g) + i \in 1 .. Len(s)
      BY <1>5, <1>7
    <2> QED
      BY <2>1, <1>5, <1>6
  <1>10. t[1] = ask.ver /\ t[2] = Len(m) /\ \A i \in 1 .. Len(m) : t[2 + i] = m[i]
    <2>1. \A i \in 1 .. Len(m) : 2 + i \in 1 .. Len(g)
      BY <1>1, <1>4
    <2>2. \A i \in 1 .. Len(m) : t[2 + i] = m[i]
      BY <2>1, <1>1, <1>4, <1>8
    <2> QED
      BY <2>2, <1>1, <1>4, <1>8
  <1>11. /\ g = SubSeq(t, 1, Len(g)) /\ r = SubSeq(t, Len(g) + 1, Len(s))
         /\ Data = SubSeq(t, Len(s) + 1, Len(s) + 2)
    <2>1. g = SubSeq(t, 1, Len(g))
      BY <1>4, <1>5, <1>6, <1>7, <1>8, Part
    <2>2. r = SubSeq(t, Len(g) + 1, Len(g) + Len(r))
      <3>1. Len(g) + Len(r) <= Len(t)
        BY <1>1, <1>5, <1>6, <1>7
      <3> QED
        BY <1>3, <1>6, <1>7, <1>9, <3>1, Part
    <2>3. Data = SubSeq(t, Len(s) + 1, Len(s) + Len(Data))
      <3>1. Len(s) \in Nat /\ Len(s) + Len(Data) <= Len(t)
        BY <1>1, <1>5, <1>6, <1>7
      <3> QED
        BY <1>1, <1>6, <3>1, Part
    <2> QED
      BY <2>1, <2>2, <2>3, <1>1, <1>5
  <1>12. ask.addr.type = Domain => Asked = Greeted + 7 + AddrLen(ask.addr)
    BY <1>3, <1>5, <1>7
  <1>13. ask.addr.type # Domain => Asked = Greeted + 6 + AddrLen(ask.addr)
    BY <1>3, <1>5, <1>7
  <1> QED
    BY <1>1, <1>2, <1>5, <1>6, <1>7, <1>9, <1>10, <1>11, <1>12, <1>13 DEF Methods, m, r

--------------------------------------------------------------------------------
\* The parts of the request within the speech.
LEMMA SpeechParts ==
  ASSUME AskOK
  PROVE  LET l == AddrLen(ask.addr) IN
         /\ Speech[Greeted + 1] = 5 /\ Speech[Greeted + 2] = ask.cmd
         /\ Speech[Greeted + 4] = ask.addr.type
         /\ ask.addr.type = Domain => Speech[Greeted + 5] = ask.addr.len
         /\ \A i \in 1 .. l : Speech[Asked - l - 2 + i] = Host(ask.addr)[i]
         /\ \A i \in 1 .. 2 : Speech[Asked - 2 + i] = Port[i]
  <1> DEFINE l == AddrLen(ask.addr)
             d == IF ask.addr.type = Domain THEN 1 ELSE 0
             r == Request(ask)
             k == Len(r)
  <1>1. l \in Nat
    BY AddrFacts
  <1>2. /\ k = 6 + d + l /\ r[1] = 5 /\ r[2] = ask.cmd /\ r[4] = ask.addr.type
        /\ d = 1 => r[5] = ask.addr.len
        /\ \A i \in 1 .. l : r[4 + d + i] = Host(ask.addr)[i]
        /\ \A i \in 1 .. 2 : r[4 + d + l + i] = Port[i]
    BY RequestFacts
  <1>3. \A i \in 1 .. k : Speech[Greeted + i] = r[i]
    BY SpeechFacts
  <1>4. d \in {0, 1} /\ (ask.addr.type = Domain => d = 1)
    OBVIOUS
  <1>5. Asked = Greeted + k /\ Greeted \in Nat
    BY SpeechFacts DEF Asked, Greeted
  <1> HIDE DEF l, d, r, k
  <1>6. k \in Nat /\ Asked - l - 2 = Greeted + (4 + d) /\ Asked - 2 = Greeted + (4 + d + l)
    BY <1>1, <1>2, <1>4, <1>5
  <1>7. \A i \in 1 .. l : Speech[Asked - l - 2 + i] = Host(ask.addr)[i]
    <2> TAKE i \in 1 .. l
    <2>1. 4 + d + i \in 1 .. k
      BY <1>1, <1>2, <1>4
    <2>2. Speech[Greeted + (4 + d + i)] = r[4 + d + i]
      BY <1>3, <2>1
    <2>3. Asked - l - 2 + i = Greeted + (4 + d + i)
      BY <1>1, <1>4, <1>5, <1>6
    <2> QED
      BY <1>2, <2>2, <2>3
  <1>8. \A i \in 1 .. 2 : Speech[Asked - 2 + i] = Port[i]
    <2> TAKE i \in 1 .. 2
    <2>1. 4 + d + l + i \in 1 .. k
      BY <1>1, <1>2, <1>4
    <2>2. Speech[Greeted + (4 + d + l + i)] = r[4 + d + l + i]
      BY <1>3, <2>1
    <2>3. Asked - 2 + i = Greeted + (4 + d + l + i)
      BY <1>1, <1>4, <1>5, <1>6
    <2> QED
      BY <1>2, <2>2, <2>3
  <1>9. 1 \in 1 .. k /\ 2 \in 1 .. k /\ 4 \in 1 .. k /\ (d = 1 => 5 \in 1 .. k)
    BY <1>1, <1>2, <1>4
  <1> QED
    BY <1>2, <1>3, <1>4, <1>7, <1>8, <1>9 DEF l

\* What is read of a stretch of t, and what stays.
LEMMA ReadPart ==
  ASSUME NEW t \in Seq(Byte), NEW p \in Nat, NEW n \in Nat, p <= n, n <= Len(t),
         NEW s, s = SubSeq(t, p + 1, n), NEW k \in Nat, k <= Len(s)
  PROVE  /\ p + k <= n
         /\ SubSeq(s, 1, k) \in Seq(Byte) /\ Len(SubSeq(s, 1, k)) = k
         /\ \A i \in 1 .. k : SubSeq(s, 1, k)[i] = t[p + i]
         /\ SubSeq(s, k + 1, Len(s)) = SubSeq(t, p + k + 1, n)
  <1>1. Len(t) \in Nat /\ \A i \in 1 .. Len(t) : t[i] \in Byte
    BY LenProperties, ElementOfSeq
  <1>2. s \in Seq(Byte) /\ Len(s) = n - p /\ \A i \in 1 .. n - p : s[i] = t[p + i]
    <2>1. \A i \in p + 1 .. n : t[i] \in Byte
      BY <1>1
    <2>2. /\ s \in Seq(Byte) /\ Len(s) = IF p + 1 <= n THEN n - (p + 1) + 1 ELSE 0
          /\ \A i \in 1 .. n - (p + 1) + 1 : s[i] = t[p + 1 + i - 1]
      BY <2>1, SubSeqProperties
    <2> QED
      BY <2>2
  <1>3. \A i \in 1 .. Len(s) : s[i] \in Byte
    BY <1>2, ElementOfSeq
  <1>4. /\ SubSeq(s, 1, k) \in Seq(Byte) /\ Len(SubSeq(s, 1, k)) = k
        /\ \A i \in 1 .. k : SubSeq(s, 1, k)[i] = s[i]
    <2>1. \A i \in 1 .. k : s[i] \in Byte
      BY <1>2, <1>3
    <2>2. /\ SubSeq(s, 1, k) \in Seq(Byte)
          /\ Len(SubSeq(s, 1, k)) = IF 1 <= k THEN k - 1 + 1 ELSE 0
          /\ \A i \in 1 .. k - 1 + 1 : SubSeq(s, 1, k)[i] = s[1 + i - 1]
      BY <2>1, SubSeqProperties
    <2> QED
      BY <2>2
  <1> DEFINE u == SubSeq(s, k + 1, Len(s))
             w == SubSeq(t, p + k + 1, n)
  <1>5. /\ u \in Seq(Byte) /\ Len(u) = Len(s) - k /\ \A i \in 1 .. Len(s) - k : u[i] = s[k + i]
    <2>1. \A i \in k + 1 .. Len(s) : s[i] \in Byte
      BY <1>3
    <2>2. /\ u \in Seq(Byte) /\ Len(u) = IF k + 1 <= Len(s) THEN Len(s) - (k + 1) + 1 ELSE 0
          /\ \A i \in 1 .. Len(s) - (k + 1) + 1 : u[i] = s[k + 1 + i - 1]
      <3>1. k + 1 \in Int /\ Len(s) \in Int
        BY <1>2
      <3> QED
        BY <2>1, <3>1, SubSeqProperties
    <2> HIDE DEF u
    <2> QED
      BY <2>2, <1>2
  <1>6. /\ w \in Seq(Byte) /\ Len(w) = n - p - k /\ \A i \in 1 .. n - p - k : w[i] = t[p + k + i]
    <2>1. \A i \in p + k + 1 .. n : t[i] \in Byte
      BY <1>1
    <2>2. /\ w \in Seq(Byte) /\ Len(w) = IF p + k + 1 <= n THEN n - (p + k + 1) + 1 ELSE 0
          /\ \A i \in 1 .. n - (p + k + 1) + 1 : w[i] = t[p + k + 1 + i - 1]
      BY <2>1, SubSeqProperties
    <2> HIDE DEF w
    <2> QED
      BY <2>2, <1>2
  <1> HIDE DEF u, w
  <1>7. u = w
    <2>1. Len(u) = Len(w) /\ \A i \in 1 .. Len(u) : u[i] = w[i]
      <3>1. \A i \in 1 .. Len(u) : k + i \in 1 .. n - p
        BY <1>2, <1>5
      <3>2. \A i \in 1 .. Len(u) : u[i] = t[p + (k + i)]
        BY <1>2, <1>5, <3>1
      <3> QED
        BY <1>2, <1>5, <1>6, <3>2
    <2> QED
      BY <2>1, <1>5, <1>6, SeqEqual
  <1>8. \A i \in 1 .. k : i \in 1 .. n - p
    BY <1>2
  <1> QED
    BY <1>2, <1>4, <1>7, <1>8 DEF u, w

\* Where the reads of the proxy begin and end.
LEMMA Places ==
  ASSUME HandInv
  PROVE  /\ AskOK /\ Greeted \in Nat /\ Asked \in Nat /\ 2 <= Greeted /\ Greeted + 4 < Asked
         /\ Position \in Nat /\ Position + Expects <= Asked /\ Expects \in 0 .. 257
         /\ \A n \in Uttered : n \in Nat /\ n <= Asked + 2
  <1>1. AskOK
    BY DEF HandInv, TypeOK, AskOK
  <1> DEFINE l == AddrLen(ask.addr)
  <1>2. l \in 1 .. 255
    BY <1>1, AddrFacts
  <1>3. Methods \in 0 .. 2 /\ Greeted = 2 + Methods
    BY <1>1, SpeechFacts DEF Greeted
  <1>4. Asked = Greeted + 7 + l \/ (Asked = Greeted + 6 + l /\ ask.addr.type # Domain)
    BY <1>1, SpeechFacts
  <1> HIDE DEF l
  <1>5. Asked \in Nat /\ Asked - l - 2 \in Nat /\ Greeted + 6 < Asked
    BY <1>2, <1>3, <1>4
  <1>6. \A n \in Uttered : n \in Nat /\ n <= Asked + 2
    BY <1>3, <1>5 DEF Uttered
  <1>7. Position \in Nat /\ Position + Expects <= Asked /\ Expects \in 0 .. 257
    BY <1>2, <1>3, <1>5 DEF Position, Expects, l
  <1> QED
    BY <1>1, <1>3, <1>5, <1>6, <1>7

\* What the proxy's read_exact returns, and what it leaves.
LEMMA ReadsSpeech ==
  ASSUME HandInv, ~Closed, Len(up) >= proxy.need
  PROVE  /\ Len(SubSeq(up, 1, proxy.need)) = Expects
         /\ SubSeq(up, 1, proxy.need) \in Seq(Byte)
         /\ \A i \in 1 .. Expects : SubSeq(up, 1, proxy.need)[i] = Speech[Position + i]
         /\ \E n \in Uttered :
              /\ Position + Expects <= n
              /\ SubSeq(up, proxy.need + 1, Len(up)) = SubSeq(Speech, Position + Expects + 1, n)
  <1>1. PICK n \in Uttered : Position <= n /\ up = SubSeq(Speech, Position + 1, n)
    BY DEF HandInv, SpeechInv
  <1>2. proxy.need = Expects /\ AskOK
    BY Places DEF HandInv, ProxyInv, HasGranted
  <1>3. Speech \in Seq(Byte) /\ Len(Speech) = Asked + 2
    BY <1>2, SpeechFacts
  <1>4. Position \in Nat /\ n \in Nat /\ n <= Len(Speech) /\ Expects \in Nat
    <2>1. n \in Nat /\ n <= Asked + 2 /\ Position \in Nat /\ Expects \in 0 .. 257
      BY Places
    <2> QED
      BY <1>3, <2>1
  <1>5. Expects <= Len(up)
    <2>1. up \in Seq(0 .. 255)
      BY DEF HandInv, TypeOK
    <2>2. Len(up) \in Nat
      BY <2>1, LenProperties
    <2> QED
      BY <1>2, <1>4, <2>2
  <1>6. /\ Position + Expects <= n
        /\ SubSeq(up, 1, Expects) \in Seq(Byte) /\ Len(SubSeq(up, 1, Expects)) = Expects
        /\ \A i \in 1 .. Expects : SubSeq(up, 1, Expects)[i] = Speech[Position + i]
        /\ SubSeq(up, Expects + 1, Len(up)) = SubSeq(Speech, Position + Expects + 1, n)
    BY <1>1, <1>3, <1>4, <1>5, ReadPart
  <1> QED
    BY <1>2, <1>6

\* What is asked is constant, and so is the speech.
LEMMA SameSpeech ==
  ASSUME ask' = ask
  PROVE  Speech' = Speech /\ Methods' = Methods /\ Greeted' = Greeted /\ Asked' = Asked
  <1>1. Methods' = Methods /\ Greeted' = Greeted
    BY DEF Methods, Greeted
  <1>2. Request(ask)' = Request(ask) /\ Greeting(ask)' = Greeting(ask)
    BY DEF Request, Greeting, AddrLen, Host, NoText, Domain, V4, V6, Port
  <1>3. Asked' = Asked
    BY <1>1, <1>2 DEF Asked
  <1> QED
    BY <1>1, <1>2, <1>3 DEF Speech, Data

\* A read of the proxy keeps SpeechInv when its position moves with it.
LEMMA SpeechKept ==
  ASSUME HandInv, ~Closed, Len(up) >= proxy.need, UNCHANGED <<ask, prog>>,
         up' = SubSeq(up, proxy.need + 1, Len(up)), Closed' \/ Position' = Position + Expects
  PROVE  SpeechInv' /\ up' \in Seq(0 .. 255)
  <1>1. PICK n \in Uttered : /\ Position + Expects <= n
                             /\ up' = SubSeq(Speech, Position + Expects + 1, n)
    BY ReadsSpeech
  <1>2. Uttered' = Uttered /\ Speech' = Speech
    BY SameSpeech DEF Uttered
  <1>3. SpeechInv'
    BY <1>1, <1>2 DEF HandInv, SpeechInv
  <1>4. up' \in Seq(Byte)
    <2>1. /\ Speech \in Seq(Byte) /\ Len(Speech) = Asked + 2
      BY Places, SpeechFacts
    <2>2. n \in Nat /\ n <= Len(Speech) /\ Position + Expects \in Nat
      <3>1. n \in Nat /\ n <= Asked + 2 /\ Position \in Nat /\ Expects \in 0 .. 257
        BY Places
      <3> QED
        BY <2>1, <3>1
    <2> DEFINE p == Position + Expects
    <2> HIDE DEF p
    <2>3. p + 1 \in Int /\ n \in Int /\ \A i \in p + 1 .. n : Speech[i] \in Byte
      <3>1. p \in Nat
        BY <2>2 DEF p
      <3>2. Len(Speech) \in Nat /\ \A i \in 1 .. Len(Speech) : Speech[i] \in Byte
        BY <2>1, LenProperties, ElementOfSeq
      <3> QED
        BY <2>2, <3>1, <3>2
    <2>4. SubSeq(Speech, p + 1, n) \in Seq(Byte)
      BY <2>3, SubSeqProperties
    <2> QED
      BY <1>1, <2>4 DEF p
  <1> QED
    BY <1>3, <1>4 DEF Byte

--------------------------------------------------------------------------------
(* The proxy's steps.                                                      *)

Proxies ==
  [pc : {"greeting", "methods", "request", "length", "addr", "tunnel", "ended", "closed",
         "panicked"},
   need : 0 .. BufLen, type : 0 .. 255, target : {Target(ask.addr)} \cup {<<>>}]

\* The proxy reads a whole greeting only of a program that has greeted ...
LEMMA Greets ==
  ASSUME HandInv, ~Closed, Len(up) >= proxy.need, Position = 2 \/ Expects = 2
  PROVE  prog # "greet"
  <1>1. PICK n \in Uttered : Position + Expects <= n
    BY ReadsSpeech
  <1>2. Position \in Nat /\ Expects \in 0 .. 257
    BY Places
  <1>3. n # 0 /\ n \in Nat
    BY <1>1, <1>2, Places
  <1> QED
    BY <1>1, <1>3 DEF Uttered

\* ... and more than it only of one that has asked.
LEMMA HasAsked ==
  ASSUME HandInv, ~Closed, Len(up) >= proxy.need, proxy.pc \in {"request", "length", "addr"}
  PROVE  prog \notin {"greet", "request"} /\ (prog = "method" => ask.eager)
  <1>1. PICK n \in Uttered : Position + Expects <= n
    BY ReadsSpeech
  <1>2. Position + Expects > Greeted
    <2>1. AskOK /\ Greeted \in Nat
      BY Places
    <2>8. Greeted + 4 < Asked
      BY Places
    <2>2. AddrLen(ask.addr) \in 1 .. 255
      BY <2>1, AddrFacts
    <2>3. Asked \in Nat
      BY Places
    <2> DEFINE l == AddrLen(ask.addr)
    <2>4. l \in 1 .. 255
      BY <2>2
    <2> HIDE DEF l
    <2>5. CASE proxy.pc = "request"
      BY <2>1, <2>5 DEF Position, Expects
    <2>6. CASE proxy.pc = "length"
      BY <2>1, <2>6 DEF Position, Expects
    <2>7. CASE proxy.pc = "addr"
      <3>1. Position = Asked - l - 2 /\ Expects = l + 2
        BY <2>7 DEF Position, Expects, l
      <3> QED
        BY <2>1, <2>3, <2>4, <2>8, <3>1
    <2> QED
      BY <2>5, <2>6, <2>7
  <1>3. Position \in Nat /\ Expects \in 0 .. 257 /\ Greeted \in Nat
    BY Places
  <1>4. n > Greeted /\ n \in Nat
    BY <1>1, <1>2, <1>3, Places
  <1>5. n # 0
    BY <1>3, <1>4
  <1> QED
    BY <1>1, <1>3, <1>4, <1>5 DEF Uttered, HandInv, SpeechInv

\* What a read of the proxy owes HandInv.
LEMMA ProxyKeeps ==
  ASSUME HandInv, ~Closed, Len(up) >= proxy.need, UNCHANGED <<ask, prog>>,
         up' = SubSeq(up, proxy.need + 1, Len(up)), Closed' \/ Position' = Position + Expects,
         proxy' \in Proxies, down' \in Seq(Byte), ProxyInv', AnswerInv'
  PROVE  HandInv'
  <1>1. SpeechInv' /\ up' \in Seq(0 .. 255)
    BY SpeechKept
  <1>2. Target(ask.addr)' = Target(ask.addr)
    BY DEF Target, Host, NoText, AddrLen, Port, V4, V6
  <1>3. TypeOK'
    <2>1. ask' \in AppAsks \cup TunAsks
      BY DEF HandInv, TypeOK
    <2>2. /\ prog' \in {"greet", "method", "request", "reply", "skip", "skip4", "connected",
                       "failed", "gone", "cut"}
          /\ down' \in Seq(0 .. 255)
      BY DEF HandInv, TypeOK, Byte
    <2>3. proxy' \in [pc : {"greeting", "methods", "request", "length", "addr", "tunnel",
                           "ended", "closed", "panicked"},
                     need : 0 .. BufLen, type : 0 .. 255,
                     target : {Target(ask.addr)'} \cup {<<>>}]
      BY <1>2 DEF Proxies
    <2> QED
      BY <1>1, <2>1, <2>2, <2>3 DEF TypeOK
  <1>4. AppIsServed'
    BY DEF HandInv, AppIsServed
  <1> QED
    BY <1>1, <1>3, <1>4 DEF HandInv

\* The fields of Turn.
LEMMA Turned ==
  ASSUME NEW to, NEW n
  PROVE  /\ Turn(to, n) = [pc |-> to, need |-> n, type |-> proxy.type, target |-> proxy.target]
         /\ Turn(to, n).pc = to /\ Turn(to, n).need = n
         /\ Turn(to, n).type = proxy.type /\ Turn(to, n).target = proxy.target
  BY DEF Turn

LEMMA ReadGreetingKeeps ==
  ASSUME HandInv, ReadGreeting
  PROVE  HandInv'
  <1> DEFINE b == SubSeq(up, 1, proxy.need)
  <1>1. /\ proxy.pc = "greeting" /\ Len(up) >= proxy.need /\ UNCHANGED <<ask, prog>>
        /\ proxy' = (IF b[1] = 5 THEN Turn("methods", b[2]) ELSE Turn("closed", 0))
        /\ down' = down \o <<>> /\ up' = SubSeq(up, proxy.need + 1, Len(up))
    BY DEF ReadGreeting, ProxyReads, Nothing
  <1>2. ~Closed /\ Expects = 2 /\ Position = 0
    BY <1>1 DEF Closed, Expects, Position
  <1>3. b[1] = ask.ver /\ b[2] = Methods /\ Methods \in 0 .. 2
    <2>1. AskOK
      BY Places
    <2>2. \A i \in 1 .. 2 : b[i] = Speech[0 + i]
      BY <1>1, <1>2, ReadsSpeech
    <2> HIDE DEF b
    <2>3. b[1] = Speech[1] /\ b[2] = Speech[2]
      BY <2>2
    <2> QED
      BY <2>1, <2>3, SpeechFacts
  <1> HIDE DEF b
  <1>4. proxy.target = <<>> /\ proxy.type \in 0 .. 255
    BY <1>1 DEF HandInv, ProxyInv, TypeOK, HasGranted
  <1>5. down \in Seq(Byte) /\ down' = down
    BY <1>1, ConcatEmptySeq DEF HandInv, TypeOK, Byte
  <1>6. proxy' \in Proxies /\ ProxyInv' /\ (Closed' \/ Position' = Position + Expects)
    <2>1. CASE ask.ver = 5
      <3>1. /\ proxy'.pc = "methods" /\ proxy'.need = Methods /\ proxy'.target = <<>>
            /\ proxy' = [pc |-> "methods", need |-> Methods, type |-> proxy.type, target |-> <<>>]
        BY <1>1, <1>3, <1>4, <2>1, Turned
      <3>2. proxy' \in Proxies
        BY <1>3, <1>4, <3>1 DEF Proxies, BufLen
      <3>3. Position' = 2
        BY <3>1 DEF Position
      <3> QED
        BY <1>1, <1>2, <2>1, <3>1, <3>2, <3>3, SameSpeech DEF ProxyInv, Expects, HasGranted
    <2>2. CASE ask.ver # 5
      <3>1. /\ proxy'.pc = "closed" /\ proxy'.need = 0 /\ proxy'.target = <<>>
            /\ proxy' = [pc |-> "closed", need |-> 0, type |-> proxy.type, target |-> <<>>]
        BY <1>1, <1>3, <1>4, <2>2, Turned
      <3>2. proxy' \in Proxies
        BY <1>4, <3>1 DEF Proxies, BufLen
      <3> QED
        BY <3>1, <3>2 DEF ProxyInv, Expects, Closed, HasGranted
    <2> QED
      BY <2>1, <2>2
  <1>7. AnswerInv'
    <2>1. prog # "greet"
      BY <1>1, <1>2, Greets
    <2>2. prog \notin {"failed", "gone", "cut"} => prog = "method" /\ down = <<>>
      BY <1>1, <2>1 DEF HandInv, AnswerInv, HasGranted
    <2>3. proxy'.pc = IF ask.ver = 5 THEN "methods" ELSE "closed"
      BY <1>1, <1>3, Turned
    <2> QED
      BY <1>1, <1>5, <2>2, <2>3 DEF AnswerInv, Refused, HasGranted
  <1> QED
    BY <1>1, <1>2, <1>5, <1>6, <1>7, ProxyKeeps

LEMMA ReadMethodsKeeps ==
  ASSUME HandInv, ReadMethods
  PROVE  HandInv'
  <1> DEFINE b == SubSeq(up, 1, proxy.need)
  <1>1. /\ proxy.pc = "methods" /\ Len(up) >= proxy.need /\ UNCHANGED <<ask, prog>>
        /\ proxy' = (IF NoAuth(b) THEN Turn("request", 4) ELSE Turn("closed", 0))
        /\ down' = down \o (IF NoAuth(b) THEN <<5, 0>> ELSE <<5, 255>>)
        /\ up' = SubSeq(up, proxy.need + 1, Len(up))
    BY DEF ReadMethods, ProxyReads
  <1>2. ~Closed /\ Expects = Methods /\ Position = 2 /\ ask.ver = 5
    BY <1>1 DEF Closed, Expects, Position, HandInv, ProxyInv, HasGranted
  <1>3. NoAuth(b) <=> NoAuth(ask.methods)
    <2>1. AskOK
      BY Places
    <2>2. Len(b) = Methods /\ \A i \in 1 .. Methods : b[i] = Speech[2 + i]
      BY <1>1, <1>2, ReadsSpeech
    <2>3. \A i \in 1 .. Methods : b[i] = ask.methods[i]
      BY <2>1, <2>2, SpeechFacts
    <2> HIDE DEF b
    <2> QED
      BY <2>2, <2>3 DEF NoAuth, Methods
  <1> HIDE DEF b
  <1>4. proxy.target = <<>> /\ proxy.type \in 0 .. 255
    BY <1>1 DEF HandInv, ProxyInv, TypeOK, HasGranted
  <1>5. down' \in Seq(Byte)
    <2>1. <<5, 0>> \in Seq(Byte) /\ <<5, 255>> \in Seq(Byte)
      BY DEF Byte
    <2> QED
      BY <1>1, <2>1, ConcatProperties DEF HandInv, TypeOK, Byte
  <1>6. proxy' \in Proxies /\ ProxyInv' /\ (Closed' \/ Position' = Position + Expects)
    <2>1. CASE NoAuth(ask.methods)
      <3>1. /\ proxy'.pc = "request" /\ proxy'.need = 4 /\ proxy'.target = <<>>
            /\ proxy' = [pc |-> "request", need |-> 4, type |-> proxy.type, target |-> <<>>]
        BY <1>1, <1>3, <1>4, <2>1, Turned
      <3>2. proxy' \in Proxies
        BY <1>4, <3>1 DEF Proxies, BufLen
      <3>3. Position' = 2 + Methods
        BY <1>1, <3>1, SameSpeech DEF Position, Greeted
      <3> QED
        BY <1>1, <1>2, <2>1, <3>1, <3>2, <3>3 DEF ProxyInv, Expects, NoAuth, HasGranted
    <2>2. CASE ~NoAuth(ask.methods)
      <3>1. /\ proxy'.pc = "closed" /\ proxy'.need = 0 /\ proxy'.target = <<>>
            /\ proxy' = [pc |-> "closed", need |-> 0, type |-> proxy.type, target |-> <<>>]
        BY <1>1, <1>3, <1>4, <2>2, Turned
      <3>2. proxy' \in Proxies
        BY <1>4, <3>1 DEF Proxies, BufLen
      <3> QED
        BY <3>1, <3>2 DEF ProxyInv, Expects, Closed, HasGranted
    <2> QED
      BY <2>1, <2>2
  <1>7. AnswerInv'
    <2>1. prog # "greet"
      BY <1>1, <1>2, Greets
    <2>2. prog \notin {"failed", "gone", "cut"} => prog = "method" /\ down = <<>>
      BY <1>1, <2>1 DEF HandInv, AnswerInv, HasGranted
    <2>3. proxy'.pc = IF NoAuth(ask.methods) THEN "request" ELSE "closed"
      BY <1>1, <1>3, Turned
    <2>4. <<>> \o <<5, 0>> = <<5, 0>> /\ <<>> \o <<5, 255>> = <<5, 255>>
      BY ConcatEmptySeq
    <2>5. NoAuth(ask.methods)' = NoAuth(ask.methods)
      BY <1>1 DEF NoAuth
    <2>6. CASE NoAuth(ask.methods)
      BY <1>1, <1>3, <2>2, <2>3, <2>4, <2>6 DEF AnswerInv, HasGranted
    <2>7. CASE ~NoAuth(ask.methods)
      BY <1>1, <1>3, <2>2, <2>3, <2>4, <2>5, <2>7 DEF AnswerInv, Refused, HasGranted
    <2> QED
      BY <2>6, <2>7
  <1> QED
    BY <1>1, <1>2, <1>5, <1>6, <1>7, ProxyKeeps

LEMMA ReadRequestKeeps ==
  ASSUME HandInv, ReadRequest
  PROVE  HandInv'
  <1> DEFINE b == SubSeq(up, 1, proxy.need)
             t == ask.addr.type
  <1>1. /\ proxy.pc = "request" /\ Len(up) >= proxy.need /\ UNCHANGED <<ask, prog>>
        /\ proxy' = (IF b[1] = 5 /\ b[2] = 1 THEN [AfterType(b[4]) EXCEPT !.type = b[4]]
                                             ELSE Turn("closed", 0))
        /\ down' = down \o (IF b[1] = 5 /\ b[2] # 1 THEN Unsupported ELSE <<>>)
        /\ up' = SubSeq(up, proxy.need + 1, Len(up))
    BY DEF ReadRequest, ProxyReads
  <1>2. /\ ~Closed /\ Expects = 4 /\ Position = Greeted /\ ask.ver = 5 /\ NoAuth(ask.methods)
        /\ AskOK
    BY <1>1, Places DEF Closed, Expects, Position, HandInv, ProxyInv, HasGranted
  <1>3. b[1] = 5 /\ b[2] = ask.cmd /\ b[4] = t
    <2>1. \A i \in 1 .. 4 : b[i] = Speech[Greeted + i]
      BY <1>1, <1>2, ReadsSpeech
    <2> HIDE DEF b
    <2>2. b[1] = Speech[Greeted + 1] /\ b[2] = Speech[Greeted + 2] /\ b[4] = Speech[Greeted + 4]
      BY <2>1
    <2> QED
      BY <1>2, <2>2, SpeechParts
  <1> HIDE DEF b
  <1>4. proxy.target = <<>> /\ proxy.type \in 0 .. 255
    BY <1>1 DEF HandInv, ProxyInv, TypeOK, HasGranted
  <1>5. down' \in Seq(Byte) /\ down \o <<>> = down
    <2>1. Unsupported \in Seq(Byte) /\ <<>> \in Seq(Byte)
      BY DEF Byte, Unsupported, Domain
    <2>2. down \in Seq(Byte)
      BY DEF HandInv, TypeOK, Byte
    <2>3. down \o Unsupported \in Seq(Byte) /\ down \o <<>> = down
      BY <2>1, <2>2, ConcatProperties, ConcatEmptySeq
    <2> QED
      BY <1>1, <2>2, <2>3
  <1>6. prog \notin {"greet", "request"} /\ (prog = "method" => ask.eager)
    BY <1>1, <1>2, HasAsked
  <1>7. CASE ask.cmd = 1
    <2>1. t \in {V4, V6, Domain} /\ t \in 0 .. 255
      BY <1>2, AddrFacts DEF V4, V6, Domain
    <2>2. proxy' = [pc |-> IF t = Domain THEN "length" ELSE "addr",
                    need |-> IF t = Domain THEN 1 ELSE IF t = V4 THEN 6 ELSE 18,
                    type |-> t, target |-> <<>>]
      <3>1. proxy' = [AfterType(t) EXCEPT !.type = t]
        BY <1>1, <1>3, <1>7
      <3>2. CASE t = V4
        <4>1. AfterType(t) = [pc |-> "addr", need |-> 6, type |-> proxy.type, target |-> <<>>]
          BY <1>4, <3>2 DEF AfterType, Turn, V4, V6, Domain
        <4> QED
          BY <3>1, <3>2, <4>1 DEF V4, Domain
      <3>3. CASE t = V6
        <4>1. AfterType(t) = [pc |-> "addr", need |-> 18, type |-> proxy.type, target |-> <<>>]
          BY <1>4, <3>3 DEF AfterType, Turn, V4, V6, Domain
        <4> QED
          BY <3>1, <3>3, <4>1 DEF V4, V6, Domain
      <3>4. CASE t = Domain
        <4>1. AfterType(t) = [pc |-> "length", need |-> 1, type |-> proxy.type, target |-> <<>>]
          BY <1>4, <3>4 DEF AfterType, Turn, V4, V6, Domain
        <4> QED
          BY <3>1, <3>4, <4>1 DEF Domain
      <3> QED
        BY <2>1, <3>2, <3>3, <3>4
    <2>3. proxy' \in Proxies
      BY <2>1, <2>2 DEF Proxies, BufLen
    <2>4. /\ t = V4 => AddrLen(ask.addr) = 4
          /\ t = V6 => AddrLen(ask.addr) = 16
          /\ t # Domain => Asked = Greeted + 6 + AddrLen(ask.addr)
          /\ Greeted \in Nat
      BY <1>2, AddrFacts, SpeechFacts, Places
    <2>5. AddrLen(ask.addr)' = AddrLen(ask.addr) /\ ask' = ask
      BY <1>1 DEF AddrLen, V4, V6
    <2>6. Position' = Greeted + 4 /\ Expects' = proxy'.need
      <3>1. CASE t = Domain
        BY <1>1, <2>2, <3>1, SameSpeech DEF Position, Expects
      <3>2. CASE t = V4
        BY <1>1, <2>2, <2>4, <2>5, <3>2, SameSpeech DEF Position, Expects, V4, Domain
      <3>3. CASE t = V6
        BY <1>1, <2>2, <2>4, <2>5, <3>3, SameSpeech DEF Position, Expects, V4, V6, Domain
      <3> QED
        BY <2>1, <3>1, <3>2, <3>3
    <2>7. ProxyInv'
      <3>1. NoAuth(ask.methods)' = NoAuth(ask.methods)
        BY <1>1 DEF NoAuth
      <3>2. /\ proxy'.pc \in {"length", "addr"} /\ proxy'.type = t /\ proxy'.target = <<>>
            /\ proxy'.pc = "length" => t = Domain
        BY <2>2
      <3> QED
        BY <1>1, <1>2, <1>7, <2>6, <3>1, <3>2 DEF ProxyInv, HasGranted
    <2>8. AnswerInv'
      <3>1. proxy'.pc \in {"length", "addr"} /\ down' = down /\ prog' = prog
        BY <1>1, <1>3, <1>5, <1>7, <2>2
      <3> QED
        BY <1>1, <3>1 DEF HandInv, AnswerInv, HasGranted
    <2> QED
      BY <1>1, <1>2, <1>5, <2>3, <2>6, <2>7, <2>8, ProxyKeeps
  <1>8. CASE ask.cmd # 1
    <2>1. proxy' = [pc |-> "closed", need |-> 0, type |-> proxy.type, target |-> <<>>]
      BY <1>1, <1>3, <1>4, <1>8 DEF Turn
    <2>2. proxy' \in Proxies /\ Closed'
      BY <1>4, <2>1 DEF Proxies, BufLen, Closed
    <2>3. ProxyInv'
      BY <2>1 DEF ProxyInv, Expects, HasGranted
    <2>4. AnswerInv'
      <3>1. down' = down \o Unsupported /\ <<>> \o Unsupported = Unsupported
        <4>1. Unsupported \in Seq(Byte)
          BY DEF Byte, Unsupported, Domain
        <4> QED
          BY <1>1, <1>3, <1>8, <4>1, ConcatEmptySeq
      <3>2. prog \notin {"failed", "gone", "cut"} =>
              \/ prog = "method" /\ ask.eager /\ down = <<5, 0>>
              \/ prog = "reply" /\ down = <<>>
        BY <1>1, <1>6 DEF HandInv, AnswerInv, HasGranted
      <3>3. proxy'.pc = "closed" /\ ask' = ask /\ prog' = prog
        BY <1>1, <2>1
      <3>4. prog' \notin {"failed", "gone", "cut"} => Refused'
        BY <1>8, <3>1, <3>2, <3>3 DEF Refused, Unsupported
      <3> QED
        BY <3>3, <3>4 DEF AnswerInv, HasGranted
    <2> QED
      BY <1>1, <1>2, <1>5, <2>2, <2>3, <2>4, ProxyKeeps
  <1> QED
    BY <1>7, <1>8

LEMMA ReadLengthKeeps ==
  ASSUME HandInv, ReadLength
  PROVE  HandInv'
  <1> DEFINE b == SubSeq(up, 1, proxy.need)
             n == ask.addr.len
  <1>1. /\ proxy.pc = "length" /\ Len(up) >= proxy.need /\ UNCHANGED <<ask, prog>>
        /\ proxy' = (IF b[1] = 0 THEN Turn("closed", 0)
                     ELSE IF b[1] + 2 > BufLen THEN Turn("panicked", 0)
                     ELSE Turn("addr", b[1] + 2))
        /\ down' = down \o <<>> /\ up' = SubSeq(up, proxy.need + 1, Len(up))
    BY DEF ReadLength, ProxyReads, Nothing
  <1>2. /\ ~Closed /\ Expects = 1 /\ Position = Greeted + 4 /\ ask.ver = 5
        /\ NoAuth(ask.methods) /\ ask.cmd = 1 /\ ask.addr.type = Domain
        /\ proxy.type = ask.addr.type /\ AskOK
    BY <1>1, Places DEF Closed, Expects, Position, HandInv, ProxyInv, HasGranted
  <1>3. /\ n \in 1 .. 255 /\ AddrLen(ask.addr) = n
    BY <1>2, AddrFacts
  <1>4. b[1] = n
    <2>1. \A i \in 1 .. 1 : b[i] = Speech[Greeted + 4 + i]
      BY <1>1, <1>2, ReadsSpeech
    <2> HIDE DEF b
    <2>2. b[1] = Speech[(Greeted + 4) + 1] /\ (Greeted + 4) + 1 = Greeted + 5
      BY <2>1, Places
    <2> QED
      BY <1>2, <2>2, SpeechParts
  <1> HIDE DEF b
  <1>5. proxy.target = <<>> /\ proxy.type \in 0 .. 255
    BY <1>1 DEF HandInv, ProxyInv, TypeOK, HasGranted
  <1>6. down' = down /\ down \in Seq(Byte)
    BY <1>1, ConcatEmptySeq DEF HandInv, TypeOK, Byte
  <1>7. /\ NoAuth(ask.methods)' = NoAuth(ask.methods)
        /\ AddrLen(ask.addr)' = AddrLen(ask.addr)
    BY <1>1 DEF NoAuth, AddrLen
  <1>8. /\ proxy'.pc = IF n = 255 THEN "panicked" ELSE "addr"
        /\ proxy'.need = IF n = 255 THEN 0 ELSE n + 2
        /\ proxy'.type = ask.addr.type /\ proxy'.target = <<>> /\ proxy' \in Proxies
    <2>1. CASE n = 255
      <3>1. proxy' = [pc |-> "panicked", need |-> 0, type |-> proxy.type, target |-> <<>>]
        BY <1>1, <1>4, <1>5, <2>1, Turned DEF BufLen
      <3> QED
        BY <1>2, <1>5, <2>1, <3>1 DEF Proxies, BufLen
    <2>2. CASE n # 255
      <3>a. n # 0 /\ ~(n + 2 > BufLen)
        BY <1>3, <2>2 DEF BufLen
      <3>1. proxy' = [pc |-> "addr", need |-> n + 2, type |-> proxy.type, target |-> <<>>]
        BY <1>1, <1>4, <1>5, <3>a, Turned
      <3>2. n + 2 \in 0 .. BufLen
        BY <1>3, <2>2 DEF BufLen
      <3> QED
        BY <1>2, <1>5, <2>2, <3>1, <3>2 DEF Proxies
    <2> QED
      BY <2>1, <2>2
  <1>9. Closed' \/ Position' = Position + Expects
    <2>1. CASE n = 255
      BY <1>8, <2>1 DEF Closed
    <2>2. CASE n # 255
      <3>1. Asked = Greeted + 7 + n /\ Greeted \in Nat
        BY <1>2, <1>3, SpeechFacts, Places
      <3>2. Position' = Asked - n - 2
        BY <1>1, <1>3, <1>7, <1>8, <2>2, SameSpeech DEF Position
      <3> QED
        BY <1>2, <1>3, <3>1, <3>2
    <2> QED
      BY <2>1, <2>2
  <1>10. ProxyInv'
    <2>1. proxy'.need = Expects'
      BY <1>3, <1>7, <1>8 DEF Expects
    <2> QED
      BY <1>1, <1>2, <1>3, <1>7, <1>8, <2>1 DEF ProxyInv, HasGranted
  <1>11. AnswerInv'
    <2>1. proxy'.pc \in {"addr", "panicked"} /\ prog' = prog
      BY <1>1, <1>8
    <2> QED
      BY <1>1, <1>6, <2>1 DEF HandInv, AnswerInv, HasGranted
  <1> QED
    BY <1>1, <1>2, <1>6, <1>8, <1>9, <1>10, <1>11, ProxyKeeps

LEMMA ReadAddrKeeps ==
  ASSUME HandInv, ReadAddr
  PROVE  HandInv'
  <1> DEFINE b == SubSeq(up, 1, proxy.need)
             l == AddrLen(ask.addr)
             x == [type |-> proxy.type, host |-> SubSeq(b, 1, Len(b) - 2),
                   port |-> SubSeq(b, Len(b) - 1, Len(b))]
  <1>1. /\ proxy.pc = "addr" /\ Len(up) >= proxy.need /\ UNCHANGED <<ask, prog>>
        /\ proxy' = (IF NotUtf8(b) THEN Turn("closed", 0)
                     ELSE [Turn("tunnel", 0) EXCEPT !.target = x])
        /\ down' = down \o (IF NotUtf8(b) THEN <<>> ELSE Granted)
        /\ up' = SubSeq(up, proxy.need + 1, Len(up))
    BY DEF ReadAddr, ProxyReads
  <1>2. /\ ~Closed /\ Expects = l + 2 /\ Position = Asked - l - 2 /\ ask.ver = 5
        /\ NoAuth(ask.methods) /\ ask.cmd = 1 /\ proxy.type = ask.addr.type /\ AskOK
    BY <1>1, Places DEF Closed, Expects, Position, HandInv, ProxyInv, HasGranted
  <1>3. l \in 1 .. 255 /\ Asked \in Nat
    BY <1>2, AddrFacts, Places
  <1>4. /\ b \in Seq(Byte) /\ Len(b) = l + 2
        /\ \A i \in 1 .. l + 2 : b[i] = Speech[Position + i]
    BY <1>1, <1>2, ReadsSpeech
  <1>0. /\ SubSeq(b, 1, Len(b) - 2) = Host(ask.addr) /\ SubSeq(b, Len(b) - 1, Len(b)) = Port
        /\ \A i \in 1 .. l : b[i] = Host(ask.addr)[i]
    <2> HIDE DEF b
    <2>1. /\ \A i \in 1 .. l : Speech[Asked - l - 2 + i] = Host(ask.addr)[i]
          /\ \A i \in 1 .. 2 : Speech[Asked - 2 + i] = Port[i]
      BY <1>2, SpeechParts
    <2>2. Host(ask.addr) \in Seq(Byte) /\ Len(Host(ask.addr)) = l
      BY <1>2, HostFacts
    <2>3. Port \in Seq(Byte) /\ Len(Port) = 2
      BY DEF Port, Byte
    <2> HIDE DEF l
    <2>4. \A i \in 1 .. l : b[0 + i] = Host(ask.addr)[i]
      <3> TAKE i \in 1 .. l
      <3>1. /\ i \in 1 .. l + 2 /\ 0 + i = i
            /\ Position + i = Asked - l - 2 + i
        BY <1>2, <1>3
      <3>2. b[i] = Speech[Position + i] /\ Speech[Asked - l - 2 + i] = Host(ask.addr)[i]
        BY <1>4, <2>1, <3>1
      <3> QED
        BY <3>1, <3>2
    <2>5. \A i \in 1 .. 2 : b[l + i] = Port[i]
      <3> TAKE i \in 1 .. 2
      <3>1. l + i \in 1 .. l + 2 /\ Position + (l + i) = Asked - 2 + i
        BY <1>2, <1>3
      <3> QED
        BY <1>4, <2>1, <3>1
    <2>6. Host(ask.addr) = SubSeq(b, 1, l)
      <3>1. 0 + Len(Host(ask.addr)) <= Len(b)
        BY <1>3, <1>4, <2>2
      <3>2. Host(ask.addr) = SubSeq(b, 0 + 1, 0 + l)
        BY <1>4, <2>2, <2>4, <3>1, Part
      <3> QED
        BY <1>3, <3>2
    <2>7. Port = SubSeq(b, l + 1, l + 2)
      <3>1. l + Len(Port) <= Len(b) /\ l \in Nat
        BY <1>3, <1>4, <2>3
      <3> QED
        BY <1>4, <2>3, <2>5, <3>1, Part
    <2>8. Len(b) - 2 = l /\ Len(b) - 1 = l + 1
      BY <1>3, <1>4
    <2>9. \A i \in 1 .. l : 0 + i = i
      BY <1>3
    <2> QED
      BY <1>4, <2>4, <2>6, <2>7, <2>8, <2>9
  <1>5. x = Target(ask.addr)
    BY <1>0, <1>2 DEF Target
  <1>6. NotUtf8(b) <=> ~ask.addr.text
    <2>1. NotUtf8(b) <=> ask.addr.type = Domain /\ \E i \in 1 .. l : Host(ask.addr)[i] = NoText
      <3> HIDE DEF b, l
      <3>1. Len(b) - 2 = l
        BY <1>3, <1>4
      <3> QED
        BY <1>0, <1>2, <3>1 DEF NotUtf8
    <2>2. /\ \A i \in 1 .. l : Host(ask.addr)[i] = IF i = 1 /\ ~ask.addr.text THEN NoText
                                                   ELSE 100 + (i % 2)
      BY DEF Host
    <2>3. (\E i \in 1 .. l : Host(ask.addr)[i] = NoText) <=> ~ask.addr.text
      <3> HIDE DEF l
      <3>1. 1 \in 1 .. l /\ \A i \in 1 .. l : 100 + (i % 2) # NoText
        BY <1>3 DEF NoText
      <3> QED
        BY <2>2, <3>1
    <2>4. ~ask.addr.text => ask.addr.type = Domain
      BY <1>2, AddrFacts
    <2> QED
      BY <2>1, <2>3, <2>4
  <1>7. proxy.target = <<>> /\ proxy.type \in 0 .. 255 /\ down \in Seq(Byte)
    BY <1>1 DEF HandInv, ProxyInv, TypeOK, HasGranted, Byte
  <1>8. prog \notin {"failed", "gone", "cut"} =>
          \/ prog = "method" /\ ask.eager /\ down = <<5, 0>>
          \/ prog = "reply" /\ down = <<>>
    <2>1. prog \notin {"greet", "request"} /\ (prog = "method" => ask.eager)
      BY <1>1, <1>2, HasAsked
    <2> QED
      BY <1>1, <2>1 DEF HandInv, AnswerInv, HasGranted
  <1>9. /\ NoAuth(ask.methods)' = NoAuth(ask.methods)
        /\ Target(ask.addr)' = Target(ask.addr) /\ Granted' = Granted
    BY <1>1 DEF NoAuth, Target, Host, NoText, AddrLen, Port, V4, V6, Granted
  <1> HIDE DEF x
  <1>10. CASE ask.addr.text
    <2>1. proxy' = [pc |-> "tunnel", need |-> 0, type |-> proxy.type, target |-> Target(ask.addr)]
      BY <1>1, <1>5, <1>6, <1>10 DEF Turn
    <2>2. proxy' \in Proxies
      BY <1>7, <2>1 DEF Proxies, BufLen
    <2>3. Position' = Position + Expects
      <3>1. Position' = Asked
        BY <1>1, <2>1, SameSpeech DEF Position
      <3> HIDE DEF l
      <3> QED
        BY <1>2, <1>3, <3>1
    <2>4. ProxyInv'
      BY <1>1, <1>2, <1>9, <2>1 DEF ProxyInv, Expects, HasGranted
    <2>5. down' = down \o Granted
      BY <1>1, <1>6, <1>10
    <2>6. down' \in Seq(Byte) /\ <<>> \o Granted = Granted
      <3>1. Granted \in Seq(Byte)
        BY DEF Byte, Granted, V4
      <3> QED
        BY <1>7, <2>5, <3>1, ConcatProperties, ConcatEmptySeq
    <2>7. AnswerInv'
      <3>1. prog' = prog /\ proxy'.pc = "tunnel" /\ HasGranted'
        BY <1>1, <2>1 DEF HasGranted
      <3>2. down = <<5, 0>> => down' = <<5, 0>> \o Granted
        BY <2>5
      <3>3. down = <<>> => down' = Granted
        BY <2>5, <2>6
      <3> HIDE DEF b, l
      <3> QED
        BY <1>8, <1>9, <3>1, <3>2, <3>3 DEF AnswerInv
    <2> HIDE DEF b
    <2> QED
      BY <1>1, <1>2, <2>2, <2>3, <2>4, <2>6, <2>7, ProxyKeeps
  <1>11. CASE ~ask.addr.text
    <2>1. proxy' = [pc |-> "closed", need |-> 0, type |-> proxy.type, target |-> <<>>]
      BY <1>1, <1>6, <1>7, <1>11 DEF Turn
    <2>2. proxy' \in Proxies /\ Closed'
      BY <1>7, <2>1 DEF Proxies, BufLen, Closed
    <2>3. ProxyInv'
      BY <2>1 DEF ProxyInv, Expects, HasGranted
    <2>4. down' = down
      BY <1>1, <1>6, <1>7, <1>11, ConcatEmptySeq
    <2>5. AnswerInv'
      <3>1. prog' = prog /\ ask' = ask /\ proxy'.pc = "closed" /\ ~HasGranted'
        BY <1>1, <2>1 DEF HasGranted
      <3> HIDE DEF b, l
      <3>2. prog \notin {"failed", "gone", "cut"} => Refused'
        BY <1>8, <1>11, <2>4, <3>1 DEF Refused
      <3> QED
        BY <3>1, <3>2 DEF AnswerInv
    <2> HIDE DEF b
    <2> QED
      BY <1>1, <1>2, <1>7, <2>2, <2>3, <2>4, <2>5, ProxyKeeps
  <1> QED
    BY <1>2, <1>10, <1>11, AddrFacts

\* The end of what was granted moves nothing else.
LEMMA TunnelEndsKeeps ==
  ASSUME HandInv, TunnelEnds
  PROVE  HandInv'
  <1>1. /\ proxy.pc = "tunnel" /\ UNCHANGED <<ask, prog, up, down>>
        /\ proxy' = [pc |-> "ended", need |-> 0, type |-> proxy.type, target |-> proxy.target]
    BY Turned DEF TunnelEnds
  <1>2. proxy.target = Target(ask.addr) /\ proxy.type \in 0 .. 255
    BY <1>1 DEF HandInv, ProxyInv, TypeOK, HasGranted
  <1>3. /\ NoAuth(ask.methods)' = NoAuth(ask.methods) /\ Granted' = Granted
        /\ Target(ask.addr)' = Target(ask.addr)
    BY <1>1 DEF NoAuth, Target, Host, NoText, AddrLen, Port, V4, V6, Granted
  <1>4. TypeOK'
    <2>1. proxy' \in Proxies
      BY <1>1, <1>2 DEF Proxies, BufLen
    <2>2. ask' \in AppAsks \cup TunAsks
      BY <1>1 DEF HandInv, TypeOK
    <2> QED
      BY <1>1, <1>3, <2>1, <2>2 DEF HandInv, TypeOK, Proxies
  <1>5. SpeechInv'
    <2>1. Position' = Asked /\ Position = Asked /\ Uttered' = Uttered /\ Speech' = Speech
      BY <1>1, SameSpeech DEF Position, Uttered
    <2> QED
      BY <1>1, <2>1 DEF HandInv, SpeechInv, Closed
  <1>6. ProxyInv'
    BY <1>1, <1>2, <1>3 DEF HandInv, ProxyInv, Expects, HasGranted
  <1>7. AnswerInv' /\ AppIsServed'
    <2>1. prog \notin {"failed", "gone", "cut"} =>
            \/ prog = "method" /\ down = <<5, 0>> \o Granted
            \/ prog = "reply" /\ down = Granted
            \/ prog = "skip" /\ ask.who = "tun" /\ down = SubSeq(Granted, 5, 10)
            \/ prog = "skip4" /\ down = SubSeq(Granted, 5, 10)
            \/ prog = "connected" /\ down = <<>>
      BY <1>1 DEF HandInv, AnswerInv, HasGranted
    <2>2. proxy'.pc = "ended" /\ HasGranted'
      BY <1>1 DEF HasGranted
    <2>3. AnswerInv'
      BY <1>1, <1>3, <2>1, <2>2 DEF AnswerInv, HasGranted
    <2> QED
      BY <1>1, <2>3 DEF HandInv, AppIsServed
  <1> QED
    BY <1>4, <1>5, <1>6, <1>7 DEF HandInv

LEMMA ProxySeesEndKeeps ==
  ASSUME HandInv, ProxySeesEnd
  PROVE  HandInv'
  <1>1. /\ prog \in {"failed", "gone"} /\ ~HasGranted /\ UNCHANGED <<ask, prog, up, down>>
        /\ proxy' = [pc |-> "closed", need |-> 0, type |-> proxy.type, target |-> proxy.target]
    BY Turned DEF ProxySeesEnd
  <1>2. proxy.target = <<>> /\ proxy.type \in 0 .. 255
    BY <1>1 DEF HandInv, ProxyInv, TypeOK, HasGranted
  <1>3. /\ proxy'.pc = "closed" /\ proxy'.need = 0 /\ proxy'.target = <<>> /\ proxy' \in Proxies
    BY <1>1, <1>2 DEF Proxies, BufLen
  <1>4. SpeechInv' /\ ProxyInv' /\ AnswerInv'
    BY <1>1, <1>3 DEF HandInv, SpeechInv, ProxyInv, AnswerInv, Closed, HasGranted, Expects
  <1>5. TypeOK'
    <2>1. Target(ask.addr)' = Target(ask.addr)
      BY <1>1 DEF Target, Host, NoText, AddrLen, Port, V4, V6
    <2>2. ask' \in AppAsks \cup TunAsks
      BY <1>1 DEF HandInv, TypeOK
    <2> QED
      BY <1>1, <1>3, <2>1, <2>2 DEF HandInv, TypeOK, Proxies
  <1> QED
    BY <1>1, <1>4, <1>5 DEF HandInv, AppIsServed

--------------------------------------------------------------------------------
(* The program's steps.                                                    *)

\* What a step of the program owes HandInv.
LEMMA ProgramKeeps ==
  ASSUME HandInv, UNCHANGED <<ask, proxy>>,
         prog' \in {"greet", "method", "request", "reply", "skip", "skip4", "connected",
                   "failed", "gone", "cut"},
         up' \in Seq(Byte), down' \in Seq(Byte), SpeechInv', AnswerInv', AppIsServed'
  PROVE  HandInv'
  <1>1. ProxyInv'
    <2>1. /\ NoAuth(ask.methods)' = NoAuth(ask.methods)
          /\ Target(ask.addr)' = Target(ask.addr)
          /\ AddrLen(ask.addr)' = AddrLen(ask.addr)
      BY DEF NoAuth, Target, Host, NoText, AddrLen, Port, V4, V6
    <2>2. Expects' = Expects
      BY <2>1, SameSpeech DEF Expects
    <2> QED
      BY <2>1, <2>2 DEF HandInv, ProxyInv, HasGranted
  <1>2. TypeOK'
    <2>1. Target(ask.addr)' = Target(ask.addr)
      BY DEF Target, Host, NoText, AddrLen, Port, V4, V6
    <2>2. ask' \in AppAsks \cup TunAsks
      BY DEF HandInv, TypeOK
    <2> QED
      BY <2>1, <2>2 DEF HandInv, TypeOK, Byte
  <1> QED
    BY <1>1, <1>2 DEF HandInv

\* A step that neither sends nor reads keeps what was said.
LEMMA KeepsSpeech ==
  ASSUME HandInv, UNCHANGED <<ask, proxy, up>>, Uttered \subseteq Uttered',
         prog' = "request" => ~ask.eager
  PROVE  SpeechInv'
  <1>1. Speech' = Speech /\ Position' = Position /\ (Closed' <=> Closed)
    BY SameSpeech DEF Position, Closed, AddrLen
  <1> QED
    BY <1>1 DEF HandInv, SpeechInv

\* What a program reads of the answers.
LEMMA ReadsDown ==
  ASSUME HandInv, NEW n \in Nat, Len(down) >= n
  PROVE  SubSeq(down, n + 1, Len(down)) \in Seq(Byte)
  <1>1. down \in Seq(Byte)
    BY DEF HandInv, TypeOK, Byte
  <1>2. Len(down) \in Nat /\ \A i \in 1 .. Len(down) : down[i] \in Byte
    BY <1>1, LenProperties, ElementOfSeq
  <1> DEFINE m == Len(down)
  <1> HIDE DEF m
  <1>3. n + 1 \in Int /\ m \in Int /\ \A i \in n + 1 .. m : down[i] \in Byte
    BY <1>2 DEF m
  <1>4. SubSeq(down, n + 1, m) \in Seq(Byte)
    BY <1>3, SubSeqProperties
  <1> QED
    BY <1>4 DEF m

\* The answers, byte by byte.
LEMMA Answers ==
  /\ Granted \in Seq(Byte) /\ Len(Granted) = 10 /\ Granted[1] = 5 /\ Granted[2] = 0
  /\ Granted[5] = 0
  /\ Unsupported \in Seq(Byte) /\ Len(Unsupported) = 14 /\ Unsupported[2] = 7
  /\ <<5, 0>> \in Seq(Byte) /\ Len(<<5, 0>>) = 2
  /\ <<5, 255>> \in Seq(Byte) /\ Len(<<5, 255>>) = 2
  /\ <<>> \in Seq(Byte) /\ Len(<<>>) = 0
  BY DEF Granted, Unsupported, Byte, V4, Domain

LEMMA GrantedBytes == \A i \in 5 .. 10 : Granted[i] \in Byte
  <1> SUFFICES ASSUME NEW i \in 5 .. 10 PROVE Granted[i] \in Byte
    OBVIOUS
  <1>1. \A n \in 1 .. Len(Granted) : Granted[n] \in Byte
    BY Answers, ElementOfSeq
  <1>2. i \in 1 .. 10 /\ Len(Granted) = 10
    BY Answers
  <1> QED
    BY <1>1, <1>2

\* The method and what may follow it.
LEMMA AfterMethod ==
  ASSUME NEW s \in Seq(Byte), Len(s) = 2, NEW t \in Seq(Byte)
  PROVE  /\ SubSeq(s \o t, 1, 2) = s /\ SubSeq(s \o t, 3, Len(s \o t)) = t
         /\ SubSeq(s, 1, 2) = s /\ SubSeq(s, 3, Len(s)) = <<>>
  <1>1. /\ s \o t \in Seq(Byte) /\ Len(s \o t) = 2 + Len(t) /\ Len(t) \in Nat
        /\ \A i \in 1 .. 2 : (s \o t)[0 + i] = s[i]
        /\ \A i \in 1 .. Len(t) : (s \o t)[2 + i] = t[i]
    BY Cat
  <1>2. s = SubSeq(s \o t, 0 + 1, 0 + Len(s))
    <2>1. 0 + Len(s) <= Len(s \o t)
      BY <1>1
    <2> QED
      BY <1>1, <2>1, Part
  <1>3. t = SubSeq(s \o t, 2 + 1, 2 + Len(t))
    <2>1. 2 + Len(t) <= Len(s \o t)
      BY <1>1
    <2> QED
      BY <1>1, <2>1, Part
  <1>4. SubSeq(s, 1, 2) = s
    BY SubSeqFull
  <1>5. SubSeq(s, 3, 2) = <<>>
    BY SubSeqEmpty
  <1> QED
    BY <1>1, <1>2, <1>3, <1>4, <1>5

\* What ProgramReadsMethod makes of each answer.
LEMMA Chosen ==
  /\ SubSeq(<<5, 0>> \o Granted, 1, 2) = <<5, 0>>
  /\ SubSeq(<<5, 0>> \o Granted, 3, Len(<<5, 0>> \o Granted)) = Granted
  /\ SubSeq(<<5, 0>> \o Unsupported, 1, 2) = <<5, 0>>
  /\ SubSeq(<<5, 0>> \o Unsupported, 3, Len(<<5, 0>> \o Unsupported)) = Unsupported
  /\ SubSeq(<<5, 0>>, 1, 2) = <<5, 0>> /\ SubSeq(<<5, 0>>, 3, Len(<<5, 0>>)) = <<>>
  /\ SubSeq(<<5, 255>>, 1, 2) = <<5, 255>> /\ <<5, 255>> # <<5, 0>>
  <1>1. ASSUME NEW s, s \in Seq(Byte), Len(s) = 2, NEW t, t \in Seq(Byte)
        PROVE  /\ SubSeq(s \o t, 1, 2) = s /\ SubSeq(s \o t, 3, Len(s \o t)) = t
               /\ SubSeq(s, 1, 2) = s /\ SubSeq(s, 3, Len(s)) = <<>>
    BY <1>1, AfterMethod
  <1> DEFINE y == <<5, 0>>
             n == <<5, 255>>
  <1>2. y \in Seq(Byte) /\ Len(y) = 2 /\ n \in Seq(Byte) /\ Len(n) = 2 /\ n # y
    <2>1. n[2] # y[2]
      OBVIOUS
    <2>2. y \in Seq(Byte) /\ Len(y) = 2 /\ n \in Seq(Byte) /\ Len(n) = 2
      BY Answers
    <2> HIDE DEF y, n
    <2> QED
      BY <2>1, <2>2
  <1>3. Granted \in Seq(Byte) /\ Unsupported \in Seq(Byte)
    BY Answers
  <1> HIDE DEF y, n
  <1>4. /\ SubSeq(y \o Granted, 1, 2) = y /\ SubSeq(y \o Granted, 3, Len(y \o Granted)) = Granted
        /\ SubSeq(y, 1, 2) = y /\ SubSeq(y, 3, Len(y)) = <<>>
    BY <1>1, <1>2, <1>3
  <1>5. /\ SubSeq(y \o Unsupported, 1, 2) = y
        /\ SubSeq(y \o Unsupported, 3, Len(y \o Unsupported)) = Unsupported
    BY <1>1, <1>2, <1>3
  <1>6. SubSeq(n, 1, 2) = n
    BY <1>1, <1>2, <1>3
  <1> QED
    BY <1>2, <1>4, <1>5, <1>6, Zenon DEF y, n

LEMMA ProgramGreetsKeeps ==
  ASSUME HandInv, ProgramGreets
  PROVE  HandInv'
  <1> DEFINE w == IF ask.eager THEN Request(ask) \o Data ELSE <<>>
             m == IF ask.eager THEN Asked + 2 ELSE Greeted
  <1>1. /\ prog = "greet" /\ prog' = "method" /\ UNCHANGED <<ask, proxy, down>>
        /\ up' = (up \o Greeting(ask)) \o w
    BY DEF ProgramGreets
  <1>2. proxy.pc \in {"greeting", "methods"} /\ down = <<>> /\ ~Closed
    BY <1>1 DEF HandInv, TypeOK, AnswerInv, Refused, Closed, HasGranted
  <1>3. /\ AskOK /\ Greeted \in Nat /\ Asked \in Nat /\ Greeted < Asked /\ 2 <= Greeted
        /\ ask.eager \in BOOLEAN
    <2>1. AskOK /\ Greeted \in Nat /\ Asked \in Nat /\ Greeted + 4 < Asked /\ 2 <= Greeted
      BY Places
    <2> QED
      BY <2>1, AskFacts
  <1>4. /\ Speech \in Seq(Byte) /\ Len(Speech) = Asked + 2
        /\ Greeting(ask) = SubSeq(Speech, 1, Greeted)
        /\ Request(ask) = SubSeq(Speech, Greeted + 1, Asked)
        /\ Data = SubSeq(Speech, Asked + 1, Asked + 2)
    BY <1>3, SpeechFacts
  <1>5. up = <<>> /\ proxy.pc = "greeting" /\ Position = 0
    <2>1. PICK n \in Uttered : Position <= n /\ up = SubSeq(Speech, Position + 1, n)
      BY <1>2 DEF HandInv, SpeechInv
    <2>2. n = 0
      BY <1>1, <2>1 DEF Uttered
    <2>3. Position = 0
      BY <2>1, <2>2, Places
    <2>4. proxy.pc = "greeting"
      BY <1>2, <2>3 DEF Position
    <2>5. up = SubSeq(Speech, 1, 0)
      BY <2>1, <2>2, <2>3
    <2> QED
      BY <2>3, <2>4, <2>5, SubSeqEmpty
  <1>6. up \o Greeting(ask) = SubSeq(Speech, 1, Greeted)
    <2>1. Greeting(ask) \in Seq(Byte)
      <3>1. \A i \in 1 .. Greeted : Speech[i] \in Byte
        BY <1>3, <1>4, ElementOfSeq
      <3>2. 1 \in Int /\ Greeted \in Int
        BY <1>3
      <3> QED
        BY <1>4, <3>1, <3>2, SubSeqProperties
    <2> QED
      BY <1>4, <1>5, <2>1, ConcatEmptySeq
  <1>7. up' = SubSeq(Speech, 1, m) /\ m \in Nat /\ m <= Len(Speech)
    <2>1. CASE ask.eager
      <3>1. Request(ask) \o Data = SubSeq(Speech, Greeted + 1, Asked + 2)
        <4>1. /\ Greeted + 1 \in 1 .. Len(Speech) + 1 /\ Asked \in (Greeted + 1) - 1 .. Len(Speech)
              /\ Asked + 2 \in Asked .. Len(Speech)
          BY <1>3, <1>4
        <4> QED
          BY <1>4, <4>1, ConcatAdjacentSubSeq
      <3>2. SubSeq(Speech, 1, Greeted) \o SubSeq(Speech, Greeted + 1, Asked + 2) = SubSeq(Speech, 1, Asked + 2)
        <4>1. /\ 1 \in 1 .. Len(Speech) + 1 /\ Greeted \in 1 - 1 .. Len(Speech)
              /\ Asked + 2 \in Greeted .. Len(Speech)
          BY <1>3, <1>4
        <4> QED
          BY <1>4, <4>1, ConcatAdjacentSubSeq
      <3>3. up' = SubSeq(Speech, 1, Asked + 2)
        BY <1>1, <1>6, <2>1, <3>1, <3>2
      <3> QED
        BY <1>3, <1>4, <2>1, <3>3
    <2>2. CASE ~ask.eager
      <3>1. SubSeq(Speech, 1, Greeted) \in Seq(Byte)
        <4>1. \A i \in 1 .. Greeted : Speech[i] \in Byte
          BY <1>3, <1>4, ElementOfSeq
        <4>2. 1 \in Int /\ Greeted \in Int
          BY <1>3
        <4> QED
          BY <4>1, <4>2, SubSeqProperties
      <3>2. up' = SubSeq(Speech, 1, Greeted)
        BY <1>1, <1>6, <2>2, <3>1, ConcatEmptySeq
      <3> QED
        BY <1>3, <1>4, <2>2, <3>2
    <2> QED
      BY <1>3, <2>1, <2>2
  <1>8. SpeechInv'
    <2>1. Position' = 0 /\ Uttered' = {m}
      BY <1>1, <1>3, <1>5, SameSpeech DEF Position, Uttered
    <2>2. Speech' = Speech
      BY <1>1, SameSpeech
    <2>3. 0 <= m /\ up' = SubSeq(Speech, 0 + 1, m)
      BY <1>7
    <2> HIDE DEF m
    <2> QED
      BY <1>1, <2>1, <2>2, <2>3 DEF SpeechInv
  <1>9. up' \in Seq(Byte)
    <2> HIDE DEF m
    <2>1. \A i \in 1 .. m : Speech[i] \in Byte
      BY <1>4, <1>7, ElementOfSeq
    <2>2. 1 \in Int /\ m \in Int
      BY <1>7
    <2> QED
      BY <1>7, <2>1, <2>2, SubSeqProperties
  <1>10. AnswerInv' /\ AppIsServed' /\ down' \in Seq(Byte)
    BY <1>1, <1>2, <1>5 DEF AnswerInv, AppIsServed, HandInv, TypeOK, Byte, HasGranted
  <1> QED
    BY <1>1, <1>8, <1>9, <1>10, ProgramKeeps

LEMMA ProgramReadsMethodKeeps ==
  ASSUME HandInv, ProgramReadsMethod
  PROVE  HandInv'
  <1> DEFINE b == SubSeq(down, 1, 2)
  <1>1. /\ prog = "method" /\ Len(down) >= 2 /\ UNCHANGED <<ask, proxy, up>>
        /\ prog' = (IF b # <<5, 0>> THEN "failed" ELSE IF ask.eager THEN "reply" ELSE "request")
        /\ down' = SubSeq(down, 3, Len(down))
    BY DEF ProgramReadsMethod, ProgramReads
  <1>2. down' \in Seq(Byte)
    <2>1. SubSeq(down, 2 + 1, Len(down)) \in Seq(Byte)
      BY <1>1, ReadsDown
    <2> QED
      BY <1>1, <2>1
  <1>3. AskOK /\ ask.eager \in BOOLEAN
    BY Places, AskFacts
  <1>4. SpeechInv'
    <2>1. Uttered \subseteq Uttered'
      BY <1>1, <1>3, SameSpeech DEF Uttered
    <2>2. prog' = "request" => ~ask.eager
      BY <1>1
    <2> QED
      BY <1>1, <2>1, <2>2, KeepsSpeech
  <1>5. AnswerInv' /\ AppIsServed'
    <2>1. CASE proxy.pc \in {"greeting", "methods"}
      BY <1>1, <2>1, Answers DEF HandInv, AnswerInv, HasGranted
    <2>2. CASE proxy.pc \in {"request", "length", "addr", "panicked"}
      <3>1. down = <<5, 0>> \/ down = <<>>
        BY <1>1, <2>2 DEF HandInv, AnswerInv, HasGranted
      <3>2. down = <<5, 0>>
        BY <1>1, <3>1, Answers
      <3>3. b = <<5, 0>> /\ down' = <<>>
        BY <1>1, <3>2, Chosen, Zenon
      <3>4. prog' \in {"request", "reply"}
        BY <1>1, <3>3
      <3> QED
        BY <1>1, <2>2, <3>3, <3>4 DEF AnswerInv, AppIsServed, HasGranted
    <2>3. CASE HasGranted
      <3>1. down = <<5, 0>> \o Granted
        BY <1>1, <2>3 DEF HandInv, AnswerInv, HasGranted
      <3>2. b = <<5, 0>> /\ down' = Granted
        BY <1>1, <3>1, Chosen, Zenon
      <3>3. ask.eager
        <4>1. ~Closed /\ Position = Asked
          BY <2>3 DEF Closed, Position, HasGranted
        <4>2. PICK n \in Uttered : Asked <= n
          BY <4>1 DEF HandInv, SpeechInv
        <4>3. Greeted \in Nat /\ Asked \in Nat /\ Greeted + 4 < Asked
          BY Places
        <4>4. n # Greeted
          BY <4>2, <4>3
        <4> QED
          BY <1>1, <1>3, <4>2, <4>4 DEF Uttered
      <3>4. prog' = "reply"
        BY <1>1, <3>2, <3>3
      <3>5. Granted' = Granted
        BY DEF Granted
      <3> QED
        BY <1>1, <2>3, <3>2, <3>4, <3>5 DEF AnswerInv, AppIsServed, HasGranted
    <2>4. CASE proxy.pc \notin {"greeting", "methods", "request", "length", "addr", "panicked", "tunnel", "ended"}
      <3>1. Refused
        BY <1>1, <2>4 DEF HandInv, AnswerInv, HasGranted
      <3>2. CASE down = <<>>
        BY <1>1, <3>2, Answers
      <3>3. CASE ~NoAuth(ask.methods) /\ down = <<5, 255>>
        <4>1. b = <<5, 255>> /\ <<5, 255>> # <<5, 0>>
          BY <3>3, Chosen, Zenon
        <4>2. prog' = "failed"
          BY <1>1, <4>1
        <4> QED
          BY <1>1, <3>3, <4>2 DEF AnswerInv, AppIsServed, NoAuth, HasGranted
      <3>4. CASE ask.cmd # 1 /\ ask.eager /\ down = <<5, 0>> \o Unsupported
        <4>1. b = <<5, 0>> /\ down' = Unsupported
          BY <1>1, <3>4, Chosen, Zenon
        <4>2. prog' = "reply" /\ Unsupported' = Unsupported
          BY <1>1, <3>4, <4>1 DEF Unsupported
        <4> QED
          BY <1>1, <2>4, <3>4, <4>1, <4>2 DEF AnswerInv, AppIsServed, Refused, HasGranted
      <3>5. CASE ~ask.addr.text /\ ask.eager /\ down = <<5, 0>>
        <4>1. b = <<5, 0>> /\ down' = <<>>
          BY <1>1, <3>5, Chosen, Zenon
        <4>2. prog' = "reply"
          BY <1>1, <3>5, <4>1
        <4>3. Refused'
          BY <1>1, <3>5, <4>1, <4>2 DEF Refused
        <4> QED
          BY <1>1, <2>4, <4>2, <4>3 DEF AnswerInv, AppIsServed, HasGranted
      <3> QED
        BY <1>1, <3>1, <3>2, <3>3, <3>4, <3>5 DEF Refused
    <2> QED
      BY <2>1, <2>2, <2>3, <2>4 DEF HasGranted
  <1> QED
    BY <1>1, <1>2, <1>4, <1>5, ProgramKeeps DEF HandInv, TypeOK, Byte

LEMMA ProgramAsksKeeps ==
  ASSUME HandInv, ProgramAsks
  PROVE  HandInv'
  <1>1. /\ prog = "request" /\ prog' = "reply" /\ UNCHANGED <<ask, proxy, down>>
        /\ up' = up \o Request(ask)
    BY DEF ProgramAsks
  <1>2. /\ AskOK /\ Greeted \in Nat /\ Asked \in Nat /\ Greeted < Asked
        /\ Position \in Nat /\ ask.eager = FALSE
    <2>1. AskOK /\ Greeted \in Nat /\ Asked \in Nat /\ Greeted + 4 < Asked /\ Position \in Nat
      BY Places
    <2>2. ask.eager \in BOOLEAN
      BY <2>1, AskFacts
    <2> QED
      BY <1>1, <2>1, <2>2 DEF HandInv, SpeechInv
  <1>3. /\ Speech \in Seq(Byte) /\ Len(Speech) = Asked + 2
        /\ Request(ask) = SubSeq(Speech, Greeted + 1, Asked) /\ Request(ask) \in Seq(Byte)
    BY <1>2, SpeechFacts, RequestFacts
  <1>4. up' \in Seq(Byte)
    BY <1>1, <1>3, ConcatProperties DEF HandInv, TypeOK, Byte
  <1>5. SpeechInv'
    <2>1. Speech' = Speech /\ Position' = Position /\ (Closed' <=> Closed)
      BY <1>1, SameSpeech DEF Position, Closed, AddrLen
    <2>2. Uttered = {Greeted} /\ Uttered' = {Asked}
      BY <1>1, <1>2, SameSpeech DEF Uttered
    <2>3. ASSUME ~Closed
          PROVE  Position <= Asked /\ up' = SubSeq(Speech, Position + 1, Asked)
      <3>1. Position <= Greeted /\ up = SubSeq(Speech, Position + 1, Greeted)
        BY <2>2, <2>3 DEF HandInv, SpeechInv
      <3> DEFINE p == Position
                 n == Len(Speech)
      <3>2. p \in Nat /\ p <= Greeted /\ n = Asked + 2
        BY <1>2, <1>3, <3>1
      <3> HIDE DEF p, n
      <3>3. p + 1 \in 1 .. n + 1 /\ Greeted \in (p + 1) - 1 .. n /\ Asked \in Greeted .. n
        BY <1>2, <3>2
      <3>4. SubSeq(Speech, p + 1, Greeted) \o SubSeq(Speech, Greeted + 1, Asked)
              = SubSeq(Speech, p + 1, Asked)
        BY <1>3, <3>3, ConcatAdjacentSubSeq DEF n
      <3>5. Position <= Asked
        BY <1>2, <3>2 DEF p
      <3> QED
        BY <1>1, <1>3, <3>1, <3>4, <3>5 DEF p
    <2> QED
      BY <1>1, <2>1, <2>2, <2>3 DEF SpeechInv
  <1>6. AnswerInv' /\ AppIsServed' /\ down' \in Seq(Byte)
    <2>1. proxy.pc \in {"request", "length", "addr", "panicked"} /\ down = <<>>
      BY <1>1 DEF HandInv, AnswerInv, Refused, HasGranted
    <2> QED
      BY <1>1, <2>1 DEF AnswerInv, AppIsServed, HandInv, TypeOK, Byte, HasGranted
  <1> QED
    BY <1>1, <1>4, <1>5, <1>6, ProgramKeeps

\* A program that waits for the reply has it, if anything.
LEMMA Reply ==
  ASSUME HandInv, prog = "reply", Len(down) >= 4
  PROVE  \/ HasGranted /\ down = Granted
         \/ /\ proxy.pc \notin {"greeting", "methods", "request", "length", "addr", "panicked", "tunnel", "ended"}
            /\ ask.cmd # 1 /\ down = Unsupported
  <1>1. down # <<>>
    BY Answers
  <1> QED
    BY <1>1 DEF HandInv, AnswerInv, Refused, HasGranted

\* A read at the front.
LEMMA FirstBytes ==
  ASSUME NEW s \in Seq(Byte), NEW n \in 1 .. Len(s)
  PROVE  \A i \in 1 .. n : SubSeq(s, 1, n)[i] = s[i]
  <1>1. Len(s) \in Nat /\ \A i \in 1 .. Len(s) : s[i] \in Byte
    BY LenProperties, ElementOfSeq
  <1>2. n \in Int /\ 1 \in Int /\ \A i \in 1 .. n : s[i] \in Byte
    BY <1>1
  <1>3. \A i \in 1 .. n - 1 + 1 : SubSeq(s, 1, n)[i] = s[1 + i - 1]
    BY <1>2, SubSeqProperties
  <1> QED
    BY <1>2, <1>3

\* What the first four bytes of each reply say.
LEMMA ReplyBytes ==
  /\ SubSeq(Granted, 1, 4)[1] = 5 /\ SubSeq(Granted, 1, 4)[2] = 0
  /\ SubSeq(Granted, 5, Len(Granted)) = SubSeq(Granted, 5, 10)
  /\ SubSeq(Unsupported, 1, 4)[2] = 7
  <1>1. /\ 4 \in 1 .. Len(Granted) /\ 4 \in 1 .. Len(Unsupported)
        /\ 1 \in 1 .. 4 /\ 2 \in 1 .. 4
    BY Answers
  <1>2. \A i \in 1 .. 4 : SubSeq(Granted, 1, 4)[i] = Granted[i]
    BY <1>1, Answers, FirstBytes
  <1>3. \A i \in 1 .. 4 : SubSeq(Unsupported, 1, 4)[i] = Unsupported[i]
    BY <1>1, Answers, FirstBytes
  <1>4. SubSeq(Granted, 1, 4)[1] = Granted[1] /\ SubSeq(Granted, 1, 4)[2] = Granted[2]
    BY <1>1, <1>2
  <1>5. SubSeq(Unsupported, 1, 4)[2] = Unsupported[2]
    BY <1>1, <1>3
  <1> QED
    BY <1>4, <1>5, Answers

\* Both readers of the reply.
LEMMA ReplyIsRead ==
  ASSUME HandInv, prog = "reply", Len(down) >= 4, UNCHANGED <<ask, proxy, up>>,
         down' = SubSeq(down, 5, Len(down)),
         prog' = (IF SubSeq(down, 1, 4)[2] = 0
                  THEN (IF ask.who = "tun" THEN "skip" ELSE "skip4") ELSE "failed")
  PROVE  HandInv'
  <1>1. down' \in Seq(Byte) /\ up' \in Seq(Byte)
    <2>1. SubSeq(down, 4 + 1, Len(down)) \in Seq(Byte)
      BY ReadsDown
    <2> QED
      BY <2>1 DEF HandInv, TypeOK, Byte
  <1>2. AskOK /\ ask.eager \in BOOLEAN
    BY Places, AskFacts
  <1>3. SpeechInv'
    <2>1. Uttered \subseteq Uttered'
      BY <1>2, SameSpeech DEF Uttered
    <2> QED
      BY <2>1, KeepsSpeech
  <1>4. AnswerInv' /\ AppIsServed'
    <2>1. CASE HasGranted /\ down = Granted
      <3>1. prog' = (IF ask.who = "tun" THEN "skip" ELSE "skip4") /\ down' = SubSeq(Granted, 5, 10)
        BY <2>1, ReplyBytes
      <3>2. SubSeq(Granted, 5, 10)' = SubSeq(Granted, 5, 10)
        BY DEF Granted
      <3>3. /\ prog' \in {"skip", "skip4"} /\ (prog' = "skip" => ask'.who = "tun")
            /\ HasGranted'
        BY <2>1, <3>1 DEF HasGranted
      <3> QED
        BY <3>1, <3>2, <3>3 DEF AnswerInv, AppIsServed, HasGranted
    <2>2. CASE ask.cmd # 1 /\ down = Unsupported
      <3>1. prog' = "failed" /\ ask'.cmd # 1
        BY <2>2, ReplyBytes
      <3> QED
        BY <3>1 DEF AnswerInv, AppIsServed, HasGranted
    <2> QED
      BY <2>1, <2>2, Reply
  <1> QED
    BY <1>1, <1>3, <1>4, ProgramKeeps

LEMMA AppReadsReplyKeeps ==
  ASSUME HandInv, AppReadsReply
  PROVE  HandInv'
  BY ReplyIsRead DEF AppReadsReply, ProgramReads

LEMMA TunReadsReplyKeeps ==
  ASSUME HandInv, TunReadsReply
  PROVE  HandInv'
  <1>1. /\ ask.who = "tun" /\ prog = "reply" /\ Len(down) >= 4 /\ UNCHANGED <<ask, proxy, up>>
        /\ down' = SubSeq(down, 5, Len(down))
        /\ prog' = (IF SubSeq(down, 1, 4)[1] = 5 /\ SubSeq(down, 1, 4)[2] = 0
                    THEN "skip" ELSE "failed")
    BY DEF TunReadsReply, ProgramReads
  <1>2. ask.cmd = 1
    BY <1>1, Places, AskFacts
  <1>3. down = Granted
    BY <1>1, <1>2, Reply
  <1>4. SubSeq(down, 1, 4)[1] = 5
    BY <1>3, ReplyBytes
  <1> QED
    BY <1>1, <1>4, ReplyIsRead

LEMMA TunReadsTypeKeeps ==
  ASSUME HandInv, TunReadsType
  PROVE  HandInv'
  <1>1. /\ prog = "skip" /\ Len(down) >= 1 /\ UNCHANGED <<ask, proxy, up>>
        /\ down' = SubSeq(down, 2, Len(down))
        /\ prog' = (IF SubSeq(down, 1, 1)[1] = V4 THEN "skip4" ELSE "failed")
    BY DEF TunReadsType, ProgramReads
  <1>2. ask.who = "tun" /\ down = SubSeq(Granted, 5, 10)
    BY <1>1 DEF HandInv, AnswerInv, Refused, HasGranted
  <1>3. down \in Seq(Byte)
    BY DEF HandInv, TypeOK, Byte
  <1>4. SubSeq(down, 1, 1)[1] = 0
    <2>1. \A i \in 5 .. 10 : Granted[i] \in Byte
      BY GrantedBytes
    <2>2. \A i \in 1 .. 10 - 5 + 1 : down[i] = Granted[5 + i - 1]
      BY <1>2, <2>1, SubSeqProperties
    <2>3. down[1] = Granted[5]
      BY <2>2
    <2>4. 1 \in 1 .. Len(down)
      BY <1>1, <1>3, LenProperties
    <2>5. \A i \in 1 .. 1 : SubSeq(down, 1, 1)[i] = down[i]
      BY <1>3, <2>4, FirstBytes
    <2> QED
      BY <2>3, <2>5, Answers
  <1>5. prog' = "failed"
    BY <1>1, <1>4 DEF V4
  <1>6. down' \in Seq(Byte) /\ up' \in Seq(Byte)
    <2>1. SubSeq(down, 1 + 1, Len(down)) \in Seq(Byte)
      BY <1>1, ReadsDown
    <2> QED
      BY <1>1, <2>1 DEF HandInv, TypeOK, Byte
  <1>7. SpeechInv'
    <2>1. AskOK /\ ask.eager \in BOOLEAN
      BY Places, AskFacts
    <2>2. Uttered \subseteq Uttered'
      BY <1>1, <1>5, <2>1, SameSpeech DEF Uttered
    <2> QED
      BY <1>1, <1>5, <2>2, KeepsSpeech
  <1>8. AnswerInv' /\ AppIsServed'
    BY <1>1, <1>2, <1>5 DEF AnswerInv, AppIsServed, HasGranted
  <1> QED
    BY <1>1, <1>5, <1>6, <1>7, <1>8, ProgramKeeps

LEMMA ProgramReadsBoundKeeps ==
  ASSUME HandInv, ProgramReadsBound
  PROVE  HandInv'
  <1>1. /\ prog = "skip4" /\ Len(down) >= 6 /\ UNCHANGED <<ask, proxy, up>>
        /\ down' = SubSeq(down, 7, Len(down)) /\ prog' = "connected"
    BY DEF ProgramReadsBound, ProgramReads
  <1>2. HasGranted /\ down = SubSeq(Granted, 5, 10)
    BY <1>1 DEF HandInv, AnswerInv, Refused, HasGranted
  <1>3. down' = <<>>
    <2>1. \A i \in 5 .. 10 : Granted[i] \in Byte
      BY GrantedBytes
    <2>2. Len(SubSeq(Granted, 5, 10)) = 6
      BY <2>1, SubSeqProperties
    <2>3. SubSeq(down, 7, 6) = <<>>
      BY SubSeqEmpty
    <2> QED
      BY <1>1, <1>2, <2>2, <2>3
  <1>4. SpeechInv'
    <2>1. AskOK /\ ask.eager \in BOOLEAN
      BY Places, AskFacts
    <2>2. Uttered \subseteq Uttered'
      BY <1>1, <2>1, SameSpeech DEF Uttered
    <2> QED
      BY <1>1, <2>2, KeepsSpeech
  <1>5. AnswerInv' /\ AppIsServed' /\ down' \in Seq(Byte) /\ up' \in Seq(Byte)
    BY <1>1, <1>2, <1>3, Answers DEF AnswerInv, AppIsServed, HandInv, TypeOK, Byte, HasGranted
  <1> QED
    BY <1>1, <1>4, <1>5, ProgramKeeps

LEMMA ProgramSendsKeeps ==
  ASSUME HandInv, ProgramSends
  PROVE  HandInv'
  <1>1. /\ prog = "connected" /\ ~ask.eager /\ proxy.pc = "tunnel" /\ up' = Data
        /\ UNCHANGED <<ask, prog, proxy, down>>
    BY DEF ProgramSends
  <1>2. AskOK /\ Asked \in Nat
    BY Places
  <1>3. Data = SubSeq(Speech, Asked + 1, Asked + 2) /\ Data \in Seq(Byte)
    BY <1>2, SpeechFacts DEF Data, Byte
  <1>4. SpeechInv'
    <2>1. Speech' = Speech /\ Position' = Asked /\ Asked + 2 \in Uttered'
      BY <1>1, SameSpeech DEF Position, Uttered
    <2>2. Asked <= Asked + 2
      BY <1>2
    <2> QED
      BY <1>1, <1>3, <2>1, <2>2 DEF SpeechInv
  <1>5. AnswerInv' /\ AppIsServed' /\ down' \in Seq(Byte)
    <2>1. Granted' = Granted
      BY DEF Granted
    <2> QED
      BY <1>1, <2>1 DEF HandInv, AnswerInv, AppIsServed, TypeOK, Byte, HasGranted
  <1> QED
    BY <1>1, <1>3, <1>4, <1>5, ProgramKeeps

LEMMA ProgramSeesEndKeeps ==
  ASSUME HandInv, ProgramSeesEnd
  PROVE  HandInv'
  <1>1. /\ Closed /\ prog \notin {"greet", "connected", "failed", "gone", "cut"} /\ prog' = "failed"
        /\ UNCHANGED <<ask, proxy, up, down>>
    BY DEF ProgramSeesEnd
  <1>2. SpeechInv' /\ AnswerInv'
    BY <1>1 DEF SpeechInv, AnswerInv, Closed, HasGranted
  <1>3. AppIsServed'
    <2>1. CASE proxy.pc = "panicked"
      BY <1>1, <2>1 DEF HandInv, ProxyInv, AppIsServed, HasGranted
    <2>2. CASE proxy.pc = "closed"
      BY <1>1, <2>2 DEF HandInv, AnswerInv, Refused, NoAuth, AppIsServed, HasGranted
    <2> QED
      BY <1>1, <2>1, <2>2 DEF Closed
  <1>4. up' \in Seq(Byte) /\ down' \in Seq(Byte)
    BY <1>1 DEF HandInv, TypeOK, Byte
  <1> QED
    BY <1>1, <1>2, <1>3, <1>4, ProgramKeeps

LEMMA ProgramIsCutKeeps ==
  ASSUME HandInv, ProgramIsCut
  PROVE  HandInv'
  <1>1. /\ prog \notin {"greet", "failed", "gone", "cut"} /\ prog' = "cut"
        /\ UNCHANGED <<ask, proxy, up, down>>
    BY DEF ProgramIsCut
  <1>2. SpeechInv'
    <2>1. AskOK /\ ask.eager \in BOOLEAN
      BY Places, AskFacts
    <2>2. Uttered \subseteq Uttered'
      BY <1>1, <2>1, SameSpeech DEF Uttered, HandInv, SpeechInv, TypeOK
    <2> QED
      BY <1>1, <2>2, KeepsSpeech
  <1>3. AnswerInv' /\ AppIsServed' /\ up' \in Seq(Byte) /\ down' \in Seq(Byte)
    BY <1>1 DEF AnswerInv, AppIsServed, HandInv, TypeOK, Byte, HasGranted
  <1> QED
    BY <1>1, <1>2, <1>3, ProgramKeeps

LEMMA ProgramLeavesKeeps ==
  ASSUME HandInv, ProgramLeaves
  PROVE  HandInv'
  <1>1. /\ prog \notin {"connected", "failed", "gone", "cut"} /\ prog' = "gone"
        /\ UNCHANGED <<ask, proxy, up, down>>
    BY DEF ProgramLeaves
  <1>2. SpeechInv'
    <2>1. AskOK /\ ask.eager \in BOOLEAN
      BY Places, AskFacts
    <2>2. Uttered \subseteq Uttered'
      BY <1>1, <2>1, SameSpeech DEF Uttered, HandInv, SpeechInv, TypeOK
    <2> QED
      BY <1>1, <2>2, KeepsSpeech
  <1>3. AnswerInv' /\ AppIsServed' /\ up' \in Seq(Byte) /\ down' \in Seq(Byte)
    BY <1>1 DEF AnswerInv, AppIsServed, HandInv, TypeOK, Byte, HasGranted
  <1> QED
    BY <1>1, <1>2, <1>3, ProgramKeeps

\* The inductive step.
LEMMA HandshakeStep ==
  ASSUME HandInv, [Next]_vars
  PROVE  HandInv'
  <1>1. CASE UNCHANGED vars
    <2>1. UNCHANGED <<ask, proxy, prog, up, down>>
      BY <1>1 DEF vars
    <2>2. Uttered \subseteq Uttered'
      BY <2>1, SameSpeech DEF Uttered
    <2>3. SpeechInv'
      BY <2>1, <2>2, KeepsSpeech DEF HandInv, SpeechInv
    <2>4. /\ HasGranted' = HasGranted /\ Granted' = Granted /\ Unsupported' = Unsupported
          /\ NoAuth(ask.methods)' = NoAuth(ask.methods)
      BY <2>1 DEF HasGranted, Granted, Unsupported, NoAuth
    <2>5. Refused' = Refused
      BY <2>1, <2>4 DEF Refused
    <2>6. AnswerInv'
      BY <2>1, <2>4, <2>5 DEF HandInv, AnswerInv
    <2>7. AppIsServed'
      BY <2>1 DEF HandInv, AppIsServed
    <2> QED
      BY <2>1, <2>3, <2>6, <2>7, ProgramKeeps DEF HandInv, TypeOK, Byte
  <1>2. CASE Program
    BY <1>2, ProgramGreetsKeeps, ProgramReadsMethodKeeps, ProgramAsksKeeps, AppReadsReplyKeeps,
       TunReadsReplyKeeps, TunReadsTypeKeeps, ProgramReadsBoundKeeps, ProgramSeesEndKeeps,
       ProgramIsCutKeeps
    DEF Program
  <1>3. CASE Proxy
    BY <1>3, ReadGreetingKeeps, ReadMethodsKeeps, ReadRequestKeeps, ReadLengthKeeps,
       ReadAddrKeeps, ProxySeesEndKeeps
    DEF Proxy
  <1> QED
    BY <1>1, <1>2, <1>3, ProgramSendsKeeps, ProgramLeavesKeeps DEF Next

\* The first state.
LEMMA HandshakeStarts ==
  ASSUME Init
  PROVE  HandInv
  <1>1. /\ ask \in AppAsks \cup TunAsks /\ prog = "greet" /\ up = <<>> /\ down = <<>>
        /\ proxy = [pc |-> "greeting", need |-> 2, type |-> 0, target |-> <<>>]
    BY DEF Init
  <1>2. TypeOK
    BY <1>1 DEF TypeOK, BufLen
  <1>3. SpeechInv
    <2>1. Position = 0 /\ 0 \in Uttered /\ SubSeq(Speech, 1, 0) = <<>>
      BY <1>1, SubSeqEmpty DEF Position, Uttered
    <2>2. up = SubSeq(Speech, 0 + 1, 0) /\ 0 <= 0
      BY <1>1, <2>1
    <2> QED
      BY <1>1, <2>1, <2>2 DEF SpeechInv
  <1>4. ProxyInv /\ AnswerInv /\ AppIsServed
    BY <1>1 DEF ProxyInv, Expects, AnswerInv, AppIsServed, HasGranted
  <1> QED
    BY <1>2, <1>3, <1>4 DEF HandInv

--------------------------------------------------------------------------------
(* What HandInv says of a state.                                           *)

\* The tunnel starts with what follows the request (ghost-client lib.rs:98).
LEMMA AskedFor ==
  ASSUME HandInv
  PROVE  TunnelIsAsked
  <1> SUFFICES ASSUME proxy.pc = "tunnel" PROVE TunnelIsAsked
    BY DEF TunnelIsAsked
  <1>1. ask.cmd = 1 /\ proxy.target = Target(ask.addr)
    BY DEF HandInv, ProxyInv, HasGranted
  <1>2. PICK n \in Uttered : Asked <= n /\ up = SubSeq(Speech, Asked + 1, n)
    BY DEF HandInv, SpeechInv, Closed, Position
  <1>3. /\ AskOK /\ ask.eager \in BOOLEAN /\ Greeted \in Nat /\ Asked \in Nat /\ n \in Nat
        /\ Greeted + 4 < Asked
    <2>1. AskOK /\ Greeted \in Nat /\ Asked \in Nat /\ n \in Nat /\ Greeted + 4 < Asked
      BY Places
    <2> QED
      BY <2>1, AskFacts
  <1>4. n \in {Asked, Asked + 2} /\ (ask.eager => n = Asked + 2)
    BY <1>2, <1>3 DEF Uttered
  <1>5. SubSeq(Speech, Asked + 1, Asked) = <<>>
    BY <1>3, SubSeqEmpty
  <1>6. Data = SubSeq(Speech, Asked + 1, Asked + 2)
    BY <1>3, SpeechFacts
  <1> QED
    BY <1>1, <1>2, <1>4, <1>5, <1>6 DEF TunnelIsAsked

\* A connected program has read all of the answer (ghost-tun socks5.rs:56).
LEMMA Connected ==
  ASSUME HandInv
  PROVE  ConnectedIsTunnel
  <1> SUFFICES ASSUME prog = "connected" PROVE HasGranted /\ down = <<>>
    BY DEF ConnectedIsTunnel
  <1>1. proxy.pc \in {"greeting", "methods", "request", "length", "addr", "tunnel", "ended",
                     "closed", "panicked"}
    BY DEF HandInv, TypeOK
  <1> QED
    BY <1>1 DEF HandInv, AnswerInv, Refused, HasGranted
================================================================================
