---------------------------- MODULE FrameLinkProofs ----------------------------
(***************************************************************************)
(* Proofs about the wire of a tunnel, for every user id, every set of      *)
(* targets, every size of fragment, of buffer, of payload and of padding:  *)
(* decoding gives back what was encoded and no more, and the wire          *)
(* implements a channel of whole messages.                                 *)
(***************************************************************************)
EXTENDS FrameLink, SequenceTheorems, TLAPS

Byte == 0 .. Base - 1

Bytes == Seq(Byte)
Octets == Seq(Octet)

LEMMA Sizes ==
  /\ Base \in Nat /\ Base > 4 /\ Base * Base \in Nat
  /\ UserId \in Seq(Byte) /\ Len(UserId) \in Nat /\ Len(UserId) >= 1
  /\ MaxRead \in Nat /\ MaxRead >= 1 /\ MaxPadding \in Nat /\ MaxPadding < Base
  /\ FragBytes \in Nat /\ MaxFrames \in Nat
  /\ FragSize \in Nat /\ FragSize >= 1 /\ Buffered \in Nat /\ Buffered >= 1
  <1>1. Base \in Nat /\ Base > 4 /\ UserId \in Seq(Byte) /\ UserId # <<>>
    BY LinkAssumption DEF LinkAssumption, Byte
  <1>2. Base * Base \in Nat
    BY <1>1
  <1>3. Len(UserId) \in Nat /\ Len(UserId) >= 1
    BY <1>1, EmptySeq
  <1>4. /\ MaxRead \in Nat /\ MaxRead >= 1 /\ MaxPadding \in Nat /\ MaxPadding < Base
        /\ FragBytes \in Nat /\ MaxFrames \in Nat
        /\ FragSize \in Nat /\ FragSize >= 1 /\ Buffered \in Nat /\ Buffered >= 1
    BY <1>1, LinkAssumption DEF LinkAssumption
  <1> QED
    BY <1>1, <1>2, <1>3, <1>4

--------------------------------------------------------------------------------
(* Numbers and sequences.                                                  *)

\* Two octets hold a number below the square of the base.
LEMMA Divided ==
  ASSUME NEW n \in Nat, NEW b \in Nat, b > 0
  PROVE  /\ n \div b \in Nat /\ n % b \in 0 .. b - 1 /\ n = b * (n \div b) + (n % b)
  OBVIOUS

LEMMA U16Value ==
  ASSUME NEW n \in Nat, n < Base * Base
  PROVE  /\ Len(U16(n)) = 2 /\ U16(n) \in Seq(Byte) /\ U16(n)[1] * Base + U16(n)[2] = n
  <1> DEFINE d == n \div Base
  <1>1. /\ Base \in Nat /\ Base > 0 /\ d \in Nat /\ n % Base \in 0 .. Base - 1
        /\ n = Base * d + (n % Base)
    BY Sizes, Divided
  <1> HIDE DEF d
  <1>2. d < Base
    <2>1. SUFFICES ASSUME d >= Base
                   PROVE  FALSE
      BY <1>1
    <2>2. Base * d >= Base * Base
      BY <1>1, <2>1
    <2> QED
      BY <1>1, <2>2
  <1>3. d % Base = d
    BY <1>1, <1>2
  <1>4. U16(n) = <<d, n % Base>>
    BY <1>3 DEF U16, d
  <1>5. d \in Byte /\ n % Base \in Byte
    BY <1>1, <1>2 DEF Byte
  <1>6. d * Base + (n % Base) = n
    BY <1>1
  <1> HIDE DEF d
  <1> QED
    BY <1>4, <1>5, <1>6

\* SubSeq within a sequence.
LEMMA Part ==
  ASSUME NEW S, NEW s \in Seq(S), NEW i \in Nat, NEW n \in Nat, i >= 1, i + n - 1 <= Len(s)
  PROVE  /\ SubSeq(s, i, i + n - 1) \in Seq(S) /\ Len(SubSeq(s, i, i + n - 1)) = n
         /\ \A j \in 1 .. n : SubSeq(s, i, i + n - 1)[j] = s[i + j - 1]
  <1>1. Len(s) \in Nat
    BY LenProperties
  <1> DEFINE m == i + n - 1
  <1>2. i \in Int /\ m \in Int /\ m - i + 1 = n
    OBVIOUS
  <1>3. \A k \in i .. m : s[k] \in S
    <2> SUFFICES ASSUME NEW k \in i .. m
                 PROVE  s[k] \in S
      OBVIOUS
    <2>1. k \in 1 .. Len(s)
      BY <1>1
    <2> QED
      BY <2>1, ElementOfSeq
  <1> HIDE DEF m
  <1>4. /\ SubSeq(s, i, m) \in Seq(S) /\ Len(SubSeq(s, i, m)) = IF i <= m THEN m - i + 1 ELSE 0
        /\ \A j \in 1 .. m - i + 1 : SubSeq(s, i, m)[j] = s[i + j - 1]
    BY <1>2, <1>3, SubSeqProperties
  <1> QED
    BY <1>2, <1>4 DEF m

\* A part of a sequence that has the elements of t is t.
LEMMA PartIs ==
  ASSUME NEW S, NEW s \in Seq(S), NEW t \in Seq(S), NEW i \in Nat, i >= 1,
         i + Len(t) - 1 <= Len(s), \A j \in 1 .. Len(t) : s[i + j - 1] = t[j]
  PROVE  SubSeq(s, i, i + Len(t) - 1) = t
  <1>1. Len(t) \in Nat
    BY LenProperties
  <1> DEFINE n == Len(t)  u == SubSeq(s, i, i + n - 1)
  <1>2. u \in Seq(S) /\ Len(u) = n /\ \A j \in 1 .. n : u[j] = s[i + j - 1]
    BY <1>1, Part
  <1> HIDE DEF u
  <1>3. u = t
    BY <1>2, SeqEqual
  <1> QED
    BY <1>3 DEF u

LEMMA RepeatIs ==
  ASSUME NEW S, NEW x \in S, NEW n \in Nat
  PROVE  Repeat(x, n) \in Seq(S) /\ Len(Repeat(x, n)) = n /\ \A i \in 1 .. n : Repeat(x, n)[i] = x
  <1>1. Repeat(x, n) \in [1 .. n -> S]
    BY DEF Repeat
  <1>2. Repeat(x, n) \in Seq(S)
    BY <1>1
  <1> QED
    BY <1>1, <1>2 DEF Repeat

LEMMA Joined ==
  ASSUME NEW S, NEW s \in Seq(S), NEW t \in Seq(S)
  PROVE  /\ s \o t \in Seq(S) /\ Len(s \o t) = Len(s) + Len(t)
         /\ Len(s) \in Nat /\ Len(t) \in Nat
         /\ \A i \in 1 .. Len(s) : (s \o t)[i] = s[i]
         /\ \A i \in 1 .. Len(t) : (s \o t)[Len(s) + i] = t[i]
  <1> DEFINE l == Len(s)  m == Len(t)  w == s \o t
  <1>1. /\ w \in Seq(S) /\ Len(w) = l + m
        /\ \A i \in 1 .. l + m : w[i] = IF i <= l THEN s[i] ELSE t[i - l]
        /\ l \in Nat /\ m \in Nat
    BY ConcatProperties, LenProperties
  <1> HIDE DEF l, m, w
  <1>3. \A i \in 1 .. l : w[i] = s[i]
    BY <1>1
  <1>4. \A i \in 1 .. m : w[l + i] = t[i]
    <2> TAKE i \in 1 .. m
    <2>1. l + i \in 1 .. l + m /\ ~(l + i <= l) /\ (l + i) - l = i
      BY <1>1
    <2> QED
      BY <1>1, <2>1
  <1> QED
    BY <1>1, <1>3, <1>4 DEF l, m, w

\* The same for sequences of bytes, of which the provers then need not know what
\* they are.
LEMMA JoinedBytes ==
  \A s, t \in Bytes :
    /\ s \o t \in Bytes /\ Len(s \o t) = Len(s) + Len(t)
    /\ \A i \in 1 .. Len(s) : (s \o t)[i] = s[i]
    /\ \A i \in 1 .. Len(t) : (s \o t)[Len(s) + i] = t[i]
  BY Joined DEF Bytes

LEMMA BytesLen == \A s \in Bytes : Len(s) \in Nat
  BY LenProperties DEF Bytes

LEMMA JoinedThree ==
  ASSUME NEW s \in Bytes, NEW t \in Bytes, NEW u \in Bytes
  PROVE  /\ s \o t \o u \in Bytes /\ Len(s \o t \o u) = Len(s) + Len(t) + Len(u)
         /\ \A i \in 1 .. Len(s) : (s \o t \o u)[i] = s[i]
         /\ \A i \in 1 .. Len(t) : (s \o t \o u)[Len(s) + i] = t[i]
         /\ \A i \in 1 .. Len(u) : (s \o t \o u)[Len(s) + Len(t) + i] = u[i]
  <1> DEFINE v == s \o t  l == Len(s)  m == Len(t)  w == v \o u
  <1>1. /\ v \in Bytes /\ Len(v) = l + m /\ l \in Nat /\ m \in Nat
        /\ \A i \in 1 .. l : v[i] = s[i]
        /\ \A i \in 1 .. m : v[l + i] = t[i]
    BY JoinedBytes, BytesLen
  <1> HIDE DEF v, l, m
  <1>2. /\ w \in Bytes /\ Len(w) = Len(v) + Len(u)
        /\ \A i \in 1 .. Len(v) : w[i] = v[i]
        /\ \A i \in 1 .. Len(u) : w[Len(v) + i] = u[i]
    BY <1>1, JoinedBytes
  <1> HIDE DEF w
  <1>3. \A i \in 1 .. l : i \in 1 .. Len(v)
    BY <1>1
  <1>4. \A i \in 1 .. m : l + i \in 1 .. Len(v)
    BY <1>1
  <1>5. \A i \in 1 .. m : w[l + i] = t[i]
    BY <1>1, <1>2, <1>4
  <1>6. \A i \in 1 .. l : w[i] = s[i]
    BY <1>1, <1>2, <1>3
  <1> QED
    BY <1>1, <1>2, <1>5, <1>6 DEF l, m, v, w

LEMMA ShortBytes ==
  /\ \A x \in Byte : <<x>> \in Bytes /\ Len(<<x>>) = 1 /\ <<x>>[1] = x
  /\ \A x, y \in Byte : /\ <<x, y>> \in Bytes /\ Len(<<x, y>>) = 2
                        /\ <<x, y>>[1] = x /\ <<x, y>>[2] = y
  BY DEF Bytes

--------------------------------------------------------------------------------
(* The target of a frame.                                                  *)

Target == [type : {0, 1, 3, 4}, host : Seq(Byte), port : Seq(Byte)]

Targets == Hosts \cup {NoTarget}

LEMMA TargetParts ==
  ASSUME NEW t \in Targets
  PROVE  /\ t \in Target /\ Len(t.host) \in Nat
         /\ t.type = 0 => t = NoTarget
         /\ t.type # 0 => Len(t.port) = 2
         /\ t.type = 1 => Len(t.host) = 4
         /\ t.type = 4 => Len(t.host) = 16
         /\ t.type = 3 => Len(t.host) \in 1 .. Base - 1
  <1>1. CASE t = NoTarget
    <2>1. <<>> \in Seq(Byte) /\ Len(<<>>) = 0
      BY EmptySeq
    <2> QED
      BY <1>1, <2>1 DEF NoTarget, Target
  <1>2. CASE t \in Hosts
    <2>1. /\ t \in [type : {1, 3, 4}, host : Seq(Byte), port : Seq(Byte)]
          /\ Len(t.port) = 2
          /\ t.type = 1 => Len(t.host) = 4
          /\ t.type = 4 => Len(t.host) = 16
          /\ t.type = 3 => Len(t.host) \in 1 .. Base - 1
      BY <1>2, LinkAssumption DEF LinkAssumption, Byte
    <2>2. t \in Target /\ t.type # 0 /\ t.host \in Seq(Byte)
      BY <2>1 DEF Target
    <2>3. Len(t.host) \in Nat
      BY <2>2, LenProperties
    <2> QED
      BY <2>1, <2>2, <2>3
  <1> QED
    BY <1>1, <1>2 DEF Targets

\* Its octets.
LEMMA AddrOctets ==
  ASSUME NEW t \in Targets
  PROVE  /\ t.type = 0 => EncodeAddr(t) = <<0>> /\ AddrLen(t) = 1
         /\ t.type = 3 => /\ EncodeAddr(t) = <<3, Len(t.host)>> \o t.host \o t.port
                          /\ AddrLen(t) = 4 + Len(t.host)
         /\ t.type \in {1, 4} => /\ EncodeAddr(t) = <<t.type>> \o t.host \o t.port
                                 /\ AddrLen(t) = 3 + Len(t.host)
  <1>1. t.type = 0 => EncodeAddr(t) = <<0>> /\ AddrLen(t) = 1
    BY DEF EncodeAddr, AddrLen
  <1>2. ASSUME t.type = 3
        PROVE  /\ EncodeAddr(t) = <<3, Len(t.host)>> \o t.host \o t.port
               /\ AddrLen(t) = 4 + Len(t.host)
    <2>1. t.type # 0
      BY <1>2
    <2> QED
      BY <1>2, <2>1, Zenon DEF EncodeAddr, AddrLen
  <1>3. ASSUME t.type \in {1, 4}
        PROVE  /\ EncodeAddr(t) = <<t.type>> \o t.host \o t.port
               /\ AddrLen(t) = 3 + Len(t.host)
    <2>1. t.type # 0 /\ t.type # 3
      BY <1>3
    <2> QED
      BY <2>1, Zenon DEF EncodeAddr, AddrLen
  <1> QED
    BY <1>1, <1>2, <1>3

\* And their places.
LEMMA EncodedAddr ==
  ASSUME NEW t \in Targets
  PROVE  /\ EncodeAddr(t) \in Bytes /\ Len(EncodeAddr(t)) = AddrLen(t)
         /\ AddrLen(t) \in Nat /\ AddrLen(t) >= 1 /\ EncodeAddr(t)[1] = t.type
         /\ t.type # 0 =>
              LET h == IF t.type = 3 THEN 2 ELSE 1 IN
                /\ AddrLen(t) = h + Len(t.host) + 2
                /\ \A j \in 1 .. Len(t.host) : EncodeAddr(t)[h + j] = t.host[j]
                /\ \A j \in 1 .. 2 : EncodeAddr(t)[h + Len(t.host) + j] = t.port[j]
         /\ t.type = 0 => AddrLen(t) = 1
         /\ t.type = 3 => EncodeAddr(t)[2] = Len(t.host)
  <1> DEFINE e == EncodeAddr(t)  n == AddrLen(t)  b == t.host  c == t.port  l == Len(b)
  <1>1. /\ t.type \in {0, 1, 3, 4} /\ b \in Bytes /\ c \in Bytes
        /\ l \in Nat /\ (t.type # 0 => Len(c) = 2) /\ (t.type = 3 => l \in Byte)
    BY TargetParts DEF Target, Byte, Bytes
  <1>2. t.type \in Byte /\ 3 \in Byte /\ 0 \in Byte
    BY <1>1, Sizes DEF Byte
  <1>3. /\ t.type = 0 => e = <<0>> /\ n = 1
        /\ t.type = 3 => e = <<3, l>> \o b \o c /\ n = 4 + l
        /\ t.type \in {1, 4} => e = <<t.type>> \o b \o c /\ n = 3 + l
    BY AddrOctets
  <1>t. b \in Bytes /\ c \in Bytes /\ l = Len(b)
    BY <1>1
  <1> HIDE DEF e, n, b, c, l
  <1>4. CASE t.type = 0
    <2>1. <<0>> \in Bytes /\ Len(<<0>>) = 1 /\ <<0>>[1] = 0
      BY <1>2, ShortBytes
    <2>2. /\ e \in Bytes /\ Len(e) = n /\ n = 1 /\ e[1] = t.type /\ ~(t.type = 3)
      BY <1>3, <1>4, <2>1
    <2> QED
      BY <1>4, <2>2 DEF e, n
  <1>5. CASE t.type = 3
    <2> DEFINE a == <<3, l>>  w == a \o b \o c
    <2>1. a \in Bytes /\ Len(a) = 2 /\ a[1] = 3 /\ a[2] = l
      BY <1>1, <1>2, <1>5, ShortBytes
    <2>2. e = w /\ n = 4 + l
      BY <1>3, <1>5
    <2>6. a \in Bytes
      BY <2>1
    <2> HIDE DEF a
    <2>3. /\ w \in Bytes /\ Len(w) = Len(a) + Len(b) + Len(c)
          /\ \A i \in 1 .. Len(a) : w[i] = a[i]
          /\ \A i \in 1 .. Len(b) : w[Len(a) + i] = b[i]
          /\ \A i \in 1 .. Len(c) : w[Len(a) + Len(b) + i] = c[i]
      BY <1>t, <2>6, JoinedThree
    <2> HIDE DEF w
    <2>4. w[1] = 3 /\ w[2] = l
      BY <2>1, <2>3
    <2>9. Len(b) = l /\ Len(c) = 2 /\ l \in Nat
      BY <1>1, <1>t, <1>5
    <2>5. n = 2 + l + 2 /\ n \in Nat /\ n >= 1 /\ Len(w) = n /\ Len(b) = l /\ Len(c) = 2
      BY <2>1, <2>2, <2>3, <2>9
    <2>7. e \in Bytes /\ Len(e) = n /\ e[1] = 3 /\ e[2] = l
      BY <2>2, <2>3, <2>4, <2>5
    <2>8. /\ \A i \in 1 .. l : e[2 + i] = b[i]
          /\ \A i \in 1 .. 2 : e[2 + l + i] = c[i]
      BY <2>1, <2>2, <2>3, <2>5
    <2> QED
      BY <1>5, <1>t, <2>5, <2>7, <2>8 DEF e, n, b, c
  <1>6. CASE t.type \in {1, 4}
    <2> DEFINE a == <<t.type>>  w == a \o b \o c
    <2>1. a \in Bytes /\ Len(a) = 1 /\ a[1] = t.type
      BY <1>2, ShortBytes
    <2>2. e = w /\ n = 3 + l
      BY <1>3, <1>6
    <2>6. a \in Bytes
      BY <2>1
    <2> HIDE DEF a
    <2>3. /\ w \in Bytes /\ Len(w) = Len(a) + Len(b) + Len(c)
          /\ \A i \in 1 .. Len(a) : w[i] = a[i]
          /\ \A i \in 1 .. Len(b) : w[Len(a) + i] = b[i]
          /\ \A i \in 1 .. Len(c) : w[Len(a) + Len(b) + i] = c[i]
      BY <1>t, <2>6, JoinedThree
    <2> HIDE DEF w
    <2>4. w[1] = t.type
      BY <2>1, <2>3
    <2>9. Len(b) = l /\ Len(c) = 2 /\ l \in Nat
      BY <1>1, <1>t, <1>6
    <2>5. n = 1 + l + 2 /\ n \in Nat /\ n >= 1 /\ Len(w) = n /\ Len(b) = l /\ Len(c) = 2
      BY <2>1, <2>2, <2>3, <2>9
    <2>7. e \in Bytes /\ Len(e) = n /\ e[1] = t.type
      BY <2>2, <2>3, <2>4, <2>5
    <2>8. /\ \A i \in 1 .. l : e[1 + i] = b[i]
          /\ \A i \in 1 .. 2 : e[1 + l + i] = c[i]
      BY <2>1, <2>2, <2>3, <2>5
    <2>10. ~(t.type = 3) /\ ~(t.type = 0)
      BY <1>6
    <2> DEFINE h == IF t.type = 3 THEN 2 ELSE 1
    <2>11. h = 1
      BY <2>10
    <2> HIDE DEF h
    <2>12. /\ n = h + Len(b) + 2
           /\ \A i \in 1 .. Len(b) : e[h + i] = b[i]
           /\ \A i \in 1 .. 2 : e[h + Len(b) + i] = c[i]
      BY <2>5, <2>8, <2>11
    <2> QED
      BY <2>10, <2>5, <2>7, <2>12, Zenon DEF e, n, b, c, h
  <1> QED
    BY <1>1, <1>4, <1>5, <1>6

\* TargetAddr::decode, arm by arm.
LEMMA AddrSizes ==
  ASSUME NEW b, NEW i
  PROVE  LET l == IF Len(b) < i THEN 0 ELSE Len(b) - i + 1 IN
         /\ l = 0 => AddrSize(b, i) = IF 1 <= l THEN 1 ELSE 0
         /\ l # 0 /\ b[i] = 0 => AddrSize(b, i) = IF 1 <= l THEN 1 ELSE 0
         /\ l # 0 /\ b[i] = 1 => AddrSize(b, i) = IF 7 <= l THEN 7 ELSE 0
         /\ l # 0 /\ b[i] = 4 => AddrSize(b, i) = IF 19 <= l THEN 19 ELSE 0
         /\ l # 0 /\ b[i] = 3 /\ l >= 2 /\ b[i + 1] # 0 =>
              AddrSize(b, i) = IF 4 + b[i + 1] <= l THEN 4 + b[i + 1] ELSE 0
         /\ l # 0 /\ b[i] = 3 /\ ~(l >= 2) => AddrSize(b, i) = IF l + 1 <= l THEN l + 1 ELSE 0
  <1> DEFINE l == IF Len(b) < i THEN 0 ELSE Len(b) - i + 1
  <1> DEFINE size == IF l = 0 THEN 1
                     ELSE CASE b[i] = 0 -> 1
                            [] b[i] = 1 -> 7
                            [] b[i] = 4 -> 19
                            [] b[i] = 3 /\ l >= 2 /\ b[i + 1] # 0 -> 4 + b[i + 1]
                            [] OTHER -> l + 1
  <1>1. AddrSize(b, i) = IF size <= l THEN size ELSE 0
    BY Zenon DEF AddrSize
  <1> HIDE DEF l
  <1>2. l = 0 => size = 1
    OBVIOUS
  <1>3. l # 0 /\ b[i] = 0 => size = 1
    OBVIOUS
  <1>4. ASSUME l # 0, b[i] = 1  PROVE size = 7
    <2>1. ~(b[i] = 0) /\ ~(b[i] = 4) /\ ~(b[i] = 3)
      BY <1>4
    <2> QED
      BY <1>4, <2>1, Zenon
  <1>5. ASSUME l # 0, b[i] = 4  PROVE size = 19
    <2>1. ~(b[i] = 0) /\ ~(b[i] = 1) /\ ~(b[i] = 3)
      BY <1>5
    <2> QED
      BY <1>5, <2>1, Zenon
  <1>6. ASSUME l # 0, b[i] = 3, l >= 2, b[i + 1] # 0  PROVE size = 4 + b[i + 1]
    <2>1. ~(b[i] = 0) /\ ~(b[i] = 1) /\ ~(b[i] = 4)
      BY <1>6
    <2> QED
      BY <1>6, <2>1, Zenon
  <1>7. ASSUME l # 0, b[i] = 3, ~(l >= 2)  PROVE size = l + 1
    <2>1. ~(b[i] = 0) /\ ~(b[i] = 1) /\ ~(b[i] = 4)
      BY <1>7
    <2> QED
      BY <1>7, <2>1, Zenon
  <1> HIDE DEF size
  <1> QED
    BY <1>1, <1>2, <1>3, <1>4, <1>5, <1>6, <1>7, Zenon DEF l

\* An address is decoded when all of its octets are there, and is an error before.
LEMMA AddrDecoded ==
  ASSUME NEW t \in Targets, NEW c \in Bytes, NEW i \in Nat, i >= 1,
         \A j \in 1 .. AddrLen(t) : i + j - 1 <= Len(c) => c[i + j - 1] = EncodeAddr(t)[j]
  PROVE  /\ Len(c) < i + AddrLen(t) - 1 => AddrSize(c, i) = 0
         /\ Len(c) >= i + AddrLen(t) - 1 => AddrSize(c, i) = AddrLen(t) /\ DecodeAddr(c, i) = t
  <1> DEFINE e == EncodeAddr(t)  n == AddrLen(t)  l == Len(t.host)  m == Len(c)
             left == IF m < i THEN 0 ELSE m - i + 1
  <1>1. /\ e \in Bytes /\ Len(e) = n /\ n \in Nat /\ n >= 1 /\ e[1] = t.type
        /\ t.type = 0 => n = 1
        /\ t.type = 3 => e[2] = l
    BY EncodedAddr
  <1>2. /\ t \in Target /\ l \in Nat /\ t.type \in {0, 1, 3, 4}
        /\ t.type = 0 => t = NoTarget
        /\ t.type # 0 => Len(t.port) = 2
        /\ t.type = 1 => l = 4 /\ n = 7
        /\ t.type = 4 => l = 16 /\ n = 19
        /\ t.type = 3 => l \in 1 .. Base - 1 /\ n = 4 + l
    <2>1. /\ t \in Target /\ l \in Nat
          /\ t.type = 0 => t = NoTarget
          /\ t.type # 0 => Len(t.port) = 2
          /\ t.type = 1 => l = 4
          /\ t.type = 4 => l = 16
          /\ t.type = 3 => l \in 1 .. Base - 1
      BY TargetParts
    <2>2. /\ t.type = 3 => n = 4 + l
          /\ t.type \in {1, 4} => n = 3 + l
      BY AddrOctets, Zenon
    <2>3. t.type \in {0, 1, 3, 4}
      BY <2>1 DEF Target
    <2> HIDE DEF l, n
    <2> QED
      BY <2>1, <2>2, <2>3
  <1>3. m \in Nat /\ left \in Nat
    BY BytesLen
  <1>4. \A j \in 1 .. n : i + j - 1 <= m => c[i + j - 1] = e[j]
    OBVIOUS
  <1>5. /\ left = 0 => AddrSize(c, i) = IF 1 <= left THEN 1 ELSE 0
        /\ left # 0 /\ c[i] = 0 => AddrSize(c, i) = IF 1 <= left THEN 1 ELSE 0
        /\ left # 0 /\ c[i] = 1 => AddrSize(c, i) = IF 7 <= left THEN 7 ELSE 0
        /\ left # 0 /\ c[i] = 4 => AddrSize(c, i) = IF 19 <= left THEN 19 ELSE 0
        /\ left # 0 /\ c[i] = 3 /\ left >= 2 /\ c[i + 1] # 0 =>
              AddrSize(c, i) = IF 4 + c[i + 1] <= left THEN 4 + c[i + 1] ELSE 0
        /\ left # 0 /\ c[i] = 3 /\ ~(left >= 2) => AddrSize(c, i) = IF left + 1 <= left THEN left + 1 ELSE 0
    BY AddrSizes
  <1>6. /\ m < i + n - 1 <=> left < n
        /\ m >= i + n - 1 <=> left >= n
    BY <1>1, <1>3
  <1>7. left # 0 => c[i] = t.type
    <2>1. ASSUME left # 0
          PROVE  c[i] = t.type
      <3>1. 1 \in 1 .. n /\ i + 1 - 1 <= m /\ i + 1 - 1 = i
        BY <1>1, <1>3, <2>1
      <3> QED
        BY <1>1, <1>4, <3>1
    <2> QED
      BY <2>1
  <1>8. left >= 2 /\ t.type = 3 => c[i + 1] = l
    <2>1. ASSUME left >= 2, t.type = 3
          PROVE  c[i + 1] = l
      <3>1. 2 \in 1 .. n /\ i + 2 - 1 <= m /\ i + 2 - 1 = i + 1
        BY <1>2, <1>3, <2>1
      <3> QED
        BY <1>1, <1>4, <2>1, <3>1
    <2> QED
      BY <2>1
  <1> HIDE DEF left, l, n, e, m
  <1>9. AddrSize(c, i) = IF left >= n THEN n ELSE 0
    <2>1. CASE left = 0
      BY <1>1, <1>5, <2>1
    <2>2. CASE left # 0 /\ t.type = 0
      BY <1>1, <1>3, <1>5, <1>7, <2>2
    <2>3. CASE left # 0 /\ t.type = 1
      BY <1>2, <1>3, <1>5, <1>7, <2>3
    <2>4. CASE left # 0 /\ t.type = 4
      BY <1>2, <1>3, <1>5, <1>7, <2>4
    <2>5. CASE left # 0 /\ t.type = 3 /\ left >= 2
      BY <1>2, <1>3, <1>5, <1>7, <1>8, <2>5, Sizes
    <2>6. CASE left # 0 /\ t.type = 3 /\ ~(left >= 2)
      BY <1>2, <1>3, <1>5, <1>7, <2>6, Sizes
    <2> QED
      BY <1>2, <2>1, <2>2, <2>3, <2>4, <2>5, <2>6
  <1>10. ASSUME left >= n
         PROVE  DecodeAddr(c, i) = t
    <2>1. AddrSize(c, i) = n /\ c[i] = t.type /\ left # 0
      BY <1>1, <1>3, <1>7, <1>9, <1>10
    <2>2. CASE t.type = 0
      BY <1>2, <2>1, <2>2 DEF DecodeAddr
    <2>3. CASE t.type # 0
      <3> DEFINE h == IF t.type = 3 THEN 2 ELSE 1
      <3>1. /\ n = h + l + 2
            /\ \A j \in 1 .. l : e[h + j] = t.host[j]
            /\ \A j \in 1 .. 2 : e[h + l + j] = t.port[j]
        BY <2>3, EncodedAddr, Zenon DEF n, l, e
      <3>2. h \in Nat /\ h >= 1 /\ h <= 2 /\ i + h = IF c[i] = 3 THEN i + 2 ELSE i + 1
        BY <2>1
      <3> HIDE DEF h
      <3>3. t.host \in Seq(Byte) /\ t.port \in Seq(Byte) /\ c \in Seq(Byte) /\ l = Len(t.host)
            /\ Len(t.port) = 2
        BY <1>2, <2>3 DEF Target, Bytes, l
      <3>4. m >= i + n - 1
        BY <1>6, <1>10
      <3>5. \A j \in 1 .. l : c[i + h + j - 1] = t.host[j]
        <4> TAKE j \in 1 .. l
        <4>1. h + j \in 1 .. n /\ i + (h + j) - 1 <= m /\ i + (h + j) - 1 = i + h + j - 1
          BY <1>1, <1>2, <1>3, <3>1, <3>2, <3>4
        <4> QED
          BY <1>4, <3>1, <4>1
      <3>6. \A j \in 1 .. 2 : c[i + h + l + j - 1] = t.port[j]
        <4> TAKE j \in 1 .. 2
        <4>1. h + l + j \in 1 .. n /\ i + (h + l + j) - 1 <= m
              /\ i + (h + l + j) - 1 = i + h + l + j - 1
          BY <1>1, <1>2, <1>3, <3>1, <3>2, <3>4
        <4> QED
          BY <1>4, <3>1, <4>1
      <3> DEFINE x == i + h  y == i + h + l
      <3>7. /\ x \in Nat /\ x >= 1 /\ y \in Nat /\ y >= 1
            /\ x + l - 1 <= m /\ y + 2 - 1 <= m
            /\ x + l - 1 = i + n - 3 /\ y = i + n - 2 /\ y + 2 - 1 = i + n - 1
        BY <1>1, <1>2, <1>3, <3>1, <3>2, <3>4
      <3>8. /\ \A j \in 1 .. l : c[x + j - 1] = t.host[j]
            /\ \A j \in 1 .. 2 : c[y + j - 1] = t.port[j]
        BY <3>5, <3>6
      <3> HIDE DEF x, y
      <3>t. \A j \in 1 .. Len(t.port) : c[y + j - 1] = t.port[j]
        BY <3>3, <3>8
      <3>9. SubSeq(c, x, x + l - 1) = t.host
        BY <3>3, <3>7, <3>8, PartIs DEF m
      <3>10. SubSeq(c, y, y + 2 - 1) = t.port
        <4>1. y + Len(t.port) - 1 <= Len(c)
          BY <3>3, <3>7 DEF m
        <4> DEFINE q == t.port
        <4>3. /\ q \in Seq(Byte) /\ c \in Seq(Byte) /\ y \in Nat /\ y >= 1
              /\ y + Len(q) - 1 <= Len(c) /\ \A j \in 1 .. Len(q) : c[y + j - 1] = q[j]
          BY <3>3, <3>7, <3>t, <4>1
        <4> HIDE DEF q
        <4>4. SubSeq(c, y, y + Len(q) - 1) = q
          BY <4>3, PartIs
        <4>2. SubSeq(c, y, y + Len(t.port) - 1) = t.port
          BY <4>4 DEF q
        <4> QED
          BY <3>3, <4>2
      <3>11. x = IF c[i] = 3 THEN i + 2 ELSE i + 1
        BY <3>2 DEF x
      <3>12. DecodeAddr(c, i) = [type |-> c[i], host |-> SubSeq(c, x, i + n - 3),
                                 port |-> SubSeq(c, i + n - 2, i + n - 1)]
        BY <2>1, <2>3, <3>11, Zenon DEF DecodeAddr
      <3>13. DecodeAddr(c, i) = [type |-> t.type, host |-> t.host, port |-> t.port]
        BY <2>1, <3>7, <3>9, <3>10, <3>12
      <3> QED
        BY <1>2, <3>13 DEF Target
    <2> QED
      BY <2>2, <2>3
  <1> QED
    BY <1>3, <1>1, <1>6, <1>9, <1>10 DEF n, m

--------------------------------------------------------------------------------
(* A frame, its octets and what is decoded from them.                      *)

LEMMA PaddingParts == \A d \in Paddings : d \in Bytes /\ Len(d) \in Nat /\ Len(d) <= MaxPadding
  <1> SUFFICES ASSUME NEW d \in Paddings
               PROVE  d \in Bytes /\ Len(d) \in Nat /\ Len(d) <= MaxPadding
    OBVIOUS
  <1>1. PICK n \in 0 .. MaxPadding : d \in {Repeat(x, n) : x \in {0, Base - 1}}
    BY DEF Paddings
  <1>2. PICK x \in {0, Base - 1} : d = Repeat(x, n)
    BY <1>1
  <1>3. x \in Byte /\ n \in Nat /\ n <= MaxPadding
    BY <1>1, <1>2, Sizes DEF Byte
  <1>4. Repeat(x, n) \in Seq(Byte) /\ Len(Repeat(x, n)) = n
    BY <1>3, RepeatIs
  <1> QED
    BY <1>2, <1>3, <1>4 DEF Bytes

LEMMA FrameParts ==
  ASSUME NEW f \in Frames
  PROVE  /\ f = [target |-> f.target, payload |-> f.payload, padding |-> f.padding]
         /\ f.target \in Targets /\ f.payload \in Bytes /\ f.padding \in Bytes
         /\ Len(f.payload) \in Nat /\ Len(f.padding) \in Nat /\ Len(f.padding) < Base
         /\ 6 + Len(UserId) + AddrLen(f.target) + Len(f.payload) + Len(f.padding) < Base * Base
         /\ f # Uid /\ f # Bad
  <1> DEFINE t == f.target  p == f.payload  d == f.padding
  <1>1. CASE f \in InitFrames
    <2>1. /\ f = [target |-> t, payload |-> p, padding |-> d]
          /\ t \in Hosts /\ p = <<>> /\ d \in Paddings
      BY <1>1 DEF InitFrames
    <2>2. d \in Bytes /\ Len(d) \in Nat /\ Len(d) <= MaxPadding
      BY <2>1, PaddingParts
    <2>3. p \in Bytes /\ Len(p) = 0
      BY <2>1, EmptySeq DEF Bytes
    <2>4. 6 + Len(UserId) + AddrLen(t) + MaxPadding < Base * Base
      BY <2>1, LinkAssumption DEF LinkAssumption
    <2>5. t \in Targets /\ AddrLen(t) \in Nat
      BY <2>1, EncodedAddr DEF Targets
    <2>6. f # Uid /\ f # Bad
      BY <2>1 DEF Uid, Bad
    <2> HIDE DEF t, p, d
    <2>7. 6 + Len(UserId) + AddrLen(t) + Len(p) + Len(d) < Base * Base /\ Len(d) < Base
      BY <2>2, <2>3, <2>4, <2>5, Sizes
    <2> QED
      BY <2>1, <2>2, <2>3, <2>5, <2>6, <2>7 DEF t, p, d
  <1>2. CASE f \in DataFrames
    <2>1. /\ f = [target |-> t, payload |-> p, padding |-> d]
          /\ t = NoTarget /\ p \in {Repeat(1, n) : n \in 1 .. MaxRead} /\ d \in Paddings
      BY <1>2 DEF DataFrames
    <2>2. d \in Bytes /\ Len(d) \in Nat /\ Len(d) <= MaxPadding
      BY <2>1, PaddingParts
    <2>3. PICK n \in 1 .. MaxRead : p = Repeat(1, n)
      BY <2>1
    <2>4. 1 \in Byte /\ n \in Nat
      BY <2>3, Sizes DEF Byte
    <2>5. Repeat(1, n) \in Seq(Byte) /\ Len(Repeat(1, n)) = n
      BY <2>4, RepeatIs
    <2>6. p \in Bytes /\ Len(p) = n
      BY <2>3, <2>5 DEF Bytes
    <2>7. 7 + Len(UserId) + MaxRead + MaxPadding < Base * Base
      BY LinkAssumption DEF LinkAssumption
    <2>8. t \in Targets /\ AddrLen(t) = 1
      BY <2>1 DEF Targets, AddrLen, NoTarget
    <2>9. f # Uid /\ f # Bad
      BY <2>1 DEF Uid, Bad
    <2> HIDE DEF t, p, d
    <2>10. 6 + Len(UserId) + AddrLen(t) + Len(p) + Len(d) < Base * Base /\ Len(d) < Base
      BY <2>2, <2>3, <2>6, <2>7, <2>8, Sizes
    <2> QED
      BY <2>1, <2>2, <2>4, <2>6, <2>8, <2>9, <2>10 DEF t, p, d
  <1> QED
    BY <1>1, <1>2 DEF Frames

\* The places of its fields.
LEMMA EncodedFrame ==
  ASSUME NEW f \in Frames
  PROVE  LET b == Encode(f)
             u == Len(UserId)
             e == EncodeAddr(f.target)
             a == AddrLen(f.target)
             p == f.payload
             n == Len(f.payload)
             d == f.padding
             k == Len(f.padding)
         IN  /\ b \in Bytes /\ Len(b) = 4 + u + a + n + k /\ b[1] = 1
             /\ \A j \in 1 .. a : b[1 + u + j] = e[j]
             /\ b[2 + u + a] * Base + b[3 + u + a] = n
             /\ \A j \in 1 .. n : b[3 + u + a + j] = p[j]
             /\ b[4 + u + a + n] = k
             /\ \A j \in 1 .. k : b[4 + u + a + n + j] = d[j]
  <1> DEFINE b == Encode(f)
             u == Len(UserId)
             e == EncodeAddr(f.target)
             a == AddrLen(f.target)
             p == f.payload
             n == Len(f.payload)
             d == f.padding
             k == Len(f.padding)
             v == U16(n)
             x == <<1>>
             z == <<k % Base>>
             r == x \o UserId \o e
             s == r \o v \o p
  <1>1. /\ f.target \in Targets /\ p \in Bytes /\ d \in Bytes /\ n \in Nat /\ k \in Nat /\ k < Base
        /\ 6 + u + a + n + k < Base * Base
    BY FrameParts
  <1>2. e \in Bytes /\ Len(e) = a /\ a \in Nat
    BY <1>1, EncodedAddr
  <1>3. b = s \o z \o d
    BY DEF Encode
  <1>4. Base \in Nat /\ Base > 4 /\ u \in Nat /\ UserId \in Bytes
    BY Sizes DEF Bytes
  <1>e. n = Len(p) /\ k = Len(d) /\ u = Len(UserId)
    OBVIOUS
  <1> HIDE DEF u, e, a, p, n, d, k
  <1>5. n < Base * Base
    BY <1>1, <1>2, <1>4
  <1>6. v \in Bytes /\ Len(v) = 2 /\ v[1] * Base + v[2] = n
    BY <1>1, <1>5, U16Value DEF Bytes
  <1>7. x \in Bytes /\ Len(x) = 1 /\ x[1] = 1
    BY <1>4, ShortBytes DEF Byte
  <1>8. z \in Bytes /\ Len(z) = 1 /\ z[1] = k
    <2>1. k % Base = k /\ k \in Byte
      BY <1>1, <1>4 DEF Byte
    <2> QED
      BY <2>1, ShortBytes
  <1> HIDE DEF v, x, z
  <1>9. /\ r \in Bytes /\ Len(r) = 1 + u + a
        /\ r[1] = 1
        /\ \A j \in 1 .. a : r[1 + u + j] = e[j]
    <2>1. /\ r \in Bytes /\ Len(r) = Len(x) + Len(UserId) + Len(e)
          /\ \A i \in 1 .. Len(x) : r[i] = x[i]
          /\ \A i \in 1 .. Len(e) : r[Len(x) + Len(UserId) + i] = e[i]
      BY <1>2, <1>4, <1>7, JoinedThree
    <2> HIDE DEF r
    <2> QED
      BY <1>2, <1>7, <1>e, <2>1
  <1> HIDE DEF r
  <1>10. /\ s \in Bytes /\ Len(s) = 3 + u + a + n
         /\ s[1] = 1
         /\ \A j \in 1 .. a : s[1 + u + j] = e[j]
         /\ s[2 + u + a] * Base + s[3 + u + a] = n
         /\ \A j \in 1 .. n : s[3 + u + a + j] = p[j]
    <2>1. /\ s \in Bytes /\ Len(s) = Len(r) + Len(v) + Len(p)
          /\ \A i \in 1 .. Len(r) : s[i] = r[i]
          /\ \A i \in 1 .. Len(v) : s[Len(r) + i] = v[i]
          /\ \A i \in 1 .. Len(p) : s[Len(r) + Len(v) + i] = p[i]
      <3>1. r \in Bytes /\ v \in Bytes /\ p \in Bytes
        BY <1>1, <1>6, <1>9
      <3> QED
        BY <3>1, JoinedThree
    <2> HIDE DEF s
    <2>2. Len(s) = 3 + u + a + n
      <3>1. Len(s) = Len(r) + Len(v) + Len(p) /\ Len(r) = 1 + u + a /\ Len(v) = 2 /\ Len(p) = n
        BY <1>6, <1>9, <1>e, <2>1
      <3>2. u \in Nat /\ a \in Nat /\ n \in Nat
        BY <1>1, <1>2, <1>4
      <3> QED
        BY <3>1, <3>2
    <2>3. 1 \in 1 .. Len(r) /\ \A j \in 1 .. a : 1 + u + j \in 1 .. Len(r)
      BY <1>2, <1>4, <1>9
    <2>4. s[1] = 1 /\ \A j \in 1 .. a : s[1 + u + j] = e[j]
      BY <1>9, <2>1, <2>3
    <2>5. Len(r) + 1 = 2 + u + a /\ Len(r) + 2 = 3 + u + a /\ 1 \in 1 .. Len(v) /\ 2 \in 1 .. Len(v)
      BY <1>2, <1>4, <1>6, <1>9
    <2>6. s[2 + u + a] = v[1] /\ s[3 + u + a] = v[2]
      BY <2>1, <2>5
    <2>7. \A j \in 1 .. n : s[3 + u + a + j] = p[j]
      <3> TAKE j \in 1 .. n
      <3>1. j \in 1 .. Len(p) /\ Len(r) + Len(v) + j = 3 + u + a + j
        BY <1>1, <1>2, <1>4, <1>6, <1>9, <1>e
      <3> QED
        BY <2>1, <3>1
    <2> QED
      BY <1>6, <2>1, <2>2, <2>4, <2>6, <2>7
  <1> HIDE DEF s
  <1>11. /\ b \in Bytes /\ Len(b) = 4 + u + a + n + k
         /\ \A i \in 1 .. Len(s) : b[i] = s[i]
         /\ b[4 + u + a + n] = k
         /\ \A j \in 1 .. k : b[4 + u + a + n + j] = d[j]
    <2>1. /\ b \in Bytes /\ Len(b) = Len(s) + Len(z) + Len(d)
          /\ \A i \in 1 .. Len(s) : b[i] = s[i]
          /\ \A i \in 1 .. Len(z) : b[Len(s) + i] = z[i]
          /\ \A i \in 1 .. Len(d) : b[Len(s) + Len(z) + i] = d[i]
      <3>1. s \in Bytes /\ z \in Bytes /\ d \in Bytes
        BY <1>1, <1>8, <1>10
      <3> DEFINE w == s \o z \o d
      <3>2. /\ w \in Bytes /\ Len(w) = Len(s) + Len(z) + Len(d)
            /\ \A i \in 1 .. Len(s) : w[i] = s[i]
            /\ \A i \in 1 .. Len(z) : w[Len(s) + i] = z[i]
            /\ \A i \in 1 .. Len(d) : w[Len(s) + Len(z) + i] = d[i]
        BY <3>1, JoinedThree
      <3>3. b = w
        BY <1>3
      <3> HIDE DEF w, b
      <3> QED
        BY <3>2, <3>3
    <2> HIDE DEF b
    <2>2. Len(b) = 4 + u + a + n + k
      <3>1. Len(b) = Len(s) + Len(z) + Len(d) /\ Len(s) = 3 + u + a + n /\ Len(z) = 1 /\ Len(d) = k
        BY <1>8, <1>10, <1>e, <2>1
      <3>2. u \in Nat /\ a \in Nat /\ n \in Nat /\ k \in Nat
        BY <1>1, <1>2, <1>4
      <3> QED
        BY <3>1, <3>2
    <2>3. Len(s) + 1 = 4 + u + a + n /\ 1 \in 1 .. Len(z)
      BY <1>1, <1>2, <1>4, <1>8, <1>10
    <2>4. b[4 + u + a + n] = k
      BY <1>8, <2>1, <2>3
    <2>5. \A j \in 1 .. k : b[4 + u + a + n + j] = d[j]
      <3> TAKE j \in 1 .. k
      <3>1. j \in 1 .. Len(d) /\ Len(s) + Len(z) + j = 4 + u + a + n + j
        BY <1>1, <1>2, <1>4, <1>8, <1>10, <1>e
      <3> QED
        BY <2>1, <3>1
    <2> QED
      BY <2>1, <2>2, <2>4, <2>5
  <1> HIDE DEF b
  <1>12. /\ 1 \in 1 .. Len(s) /\ 2 + u + a \in 1 .. Len(s) /\ 3 + u + a \in 1 .. Len(s)
         /\ \A j \in 1 .. a : 1 + u + j \in 1 .. Len(s)
         /\ \A j \in 1 .. n : 3 + u + a + j \in 1 .. Len(s)
    BY <1>1, <1>2, <1>4, <1>10
  <1>13. /\ b[1] = 1
         /\ \A j \in 1 .. a : b[1 + u + j] = e[j]
         /\ b[2 + u + a] * Base + b[3 + u + a] = n
         /\ \A j \in 1 .. n : b[3 + u + a + j] = p[j]
    <2>1. b[1] = s[1] /\ b[2 + u + a] = s[2 + u + a] /\ b[3 + u + a] = s[3 + u + a]
      BY <1>11, <1>12
    <2>2. /\ \A j \in 1 .. a : b[1 + u + j] = s[1 + u + j]
          /\ \A j \in 1 .. n : b[3 + u + a + j] = s[3 + u + a + j]
      BY <1>11, <1>12
    <2> QED
      BY <1>10, <2>1, <2>2
  <1> QED
    BY <1>11, <1>13 DEF b, u, e, a, p, n, d, k

\* GhostFrame::decode of the first octets of a frame: an error when not even the
\* length of the padding is there, a frame without padding when some padding is
\* missing, and otherwise the frame.
LEMMA DecodeCut ==
  ASSUME NEW f \in Frames, NEW c \in Bytes, Len(c) <= Len(Encode(f)),
         \A j \in 1 .. Len(c) : c[j] = Encode(f)[j]
  PROVE  /\ Len(c) < Len(Encode(f)) - Len(f.padding) => Decode(c) = Bad
         /\ Len(c) >= Len(Encode(f)) - Len(f.padding) =>
              Decode(c) = [f EXCEPT !.padding = IF Len(c) = Len(Encode(f)) THEN @ ELSE <<>>]
  <1> DEFINE b == Encode(f)
             u == Len(UserId)
             e == EncodeAddr(f.target)
             a == AddrLen(f.target)
             p == f.payload
             n == Len(f.payload)
             d == f.padding
             k == Len(f.padding)
             m == Len(c)
             h == 2 + u
             g == AddrSize(c, h)
             q == h + g + 2
             bad == \/ m < h - 1 \/ c[1] # 1 \/ g = 0 \/ m < q - 1
                    \/ m < q + Value(c, q - 2)
  <1>1. /\ f = [target |-> f.target, payload |-> p, padding |-> d]
        /\ f.target \in Targets /\ p \in Bytes /\ d \in Bytes /\ n \in Nat /\ k \in Nat
        /\ n = Len(p) /\ k = Len(d)
    BY FrameParts
  <1>2. e \in Bytes /\ Len(e) = a /\ a \in Nat /\ a >= 1
    BY <1>1, EncodedAddr
  <1>3. u \in Nat /\ m \in Nat /\ Base \in Nat
    BY BytesLen, Sizes
  <1>4. /\ b \in Bytes /\ Len(b) = 4 + u + a + n + k /\ b[1] = 1
        /\ \A j \in 1 .. a : b[1 + u + j] = e[j]
        /\ b[2 + u + a] * Base + b[3 + u + a] = n
        /\ \A j \in 1 .. n : b[3 + u + a + j] = p[j]
        /\ b[4 + u + a + n] = k
        /\ \A j \in 1 .. k : b[4 + u + a + n + j] = d[j]
    BY EncodedFrame
  <1>5. m <= Len(b) /\ \A j \in 1 .. m : c[j] = b[j]
    OBVIOUS
  <1>6. Decode(c) = IF bad THEN Bad ELSE DecodeAt(c, h, q)
    BY Zenon DEF Decode
  <1>7. /\ m < h + a - 1 => g = 0
        /\ m >= h + a - 1 => g = a /\ DecodeAddr(c, h) = f.target
    <2>1. h \in Nat /\ h >= 1
      BY <1>3
    <2>2. \A j \in 1 .. a : h + j - 1 <= m => c[h + j - 1] = e[j]
      <3> SUFFICES ASSUME NEW j \in 1 .. a, h + j - 1 <= m
                   PROVE  c[h + j - 1] = e[j]
        OBVIOUS
      <3> HIDE DEF b, u, e, a, m
      <3>1. 1 + u + j \in 1 .. m /\ h + j - 1 = 1 + u + j
        BY <1>2, <1>3
      <3> QED
        BY <1>4, <1>5, <3>1
    <2>3. f.target \in Targets /\ c \in Bytes
      BY <1>1
    <2> HIDE DEF h
    <2> QED
      BY <2>1, <2>2, <2>3, AddrDecoded
  <1> HIDE DEF b, u, e, a, p, n, d, k, m, g
  <1>n. /\ u \in Nat /\ a \in Nat /\ n \in Nat /\ k \in Nat /\ m \in Nat /\ a >= 1
        /\ Len(b) = 4 + u + a + n + k /\ m <= Len(b)
    BY <1>1, <1>2, <1>3, <1>4, <1>5
  <1>8. CASE m < 1 + u + a
    <2>1. bad
      BY <1>n, <1>7, <1>8
    <2>2. m < Len(b) - k
      BY <1>n, <1>8
    <2> HIDE DEF bad
    <2> QED
      BY <1>1, <1>n, <1>6, <2>1, <2>2 DEF b, k, m
  <1>9. CASE m >= 1 + u + a
    <2>1. g = a /\ DecodeAddr(c, h) = f.target
      BY <1>n, <1>7, <1>9
    <2>2. q = 4 + u + a /\ q - 2 = 2 + u + a /\ q - 2 + 1 = 3 + u + a
      BY <1>n, <2>1
    <2>3. CASE m < 3 + u + a
      <3>1. bad
        BY <1>n, <2>2, <2>3
      <3>2. m < Len(b) - k
        BY <1>n, <2>3
      <3> HIDE DEF bad
      <3> QED
        BY <1>1, <1>n, <1>6, <3>1, <3>2 DEF b, k, m
    <2>4. CASE m >= 3 + u + a
      <3>1. Value(c, q - 2) = n
        <4>1. 2 + u + a \in 1 .. m /\ 3 + u + a \in 1 .. m
          BY <1>n, <2>4
        <4>2. c[2 + u + a] = b[2 + u + a] /\ c[3 + u + a] = b[3 + u + a]
          BY <1>5, <4>1
        <4> HIDE DEF q
        <4>3. Value(c, q - 2) = c[2 + u + a] * Base + c[3 + u + a]
          BY <2>2 DEF Value
        <4> QED
          BY <1>4, <4>2, <4>3
      <3>2. CASE m < 4 + u + a + n
        <4>1. bad
          BY <1>n, <2>2, <3>1, <3>2
        <4>2. m < Len(b) - k
          BY <1>n, <3>2
        <4> HIDE DEF bad
        <4> QED
          BY <1>1, <1>n, <1>6, <4>1, <4>2 DEF b, k, m
      <3>3. CASE m >= 4 + u + a + n
        <4>1. c[1] = 1
          <5>1. 1 \in 1 .. m
            BY <1>n, <3>3
          <5> QED
            BY <1>4, <1>5, <5>1
        <4>2. ~bad
          <5>1. ~(m < h - 1) /\ g # 0 /\ ~(m < q - 1) /\ ~(m < q + n)
            BY <1>n, <2>1, <2>2, <3>3
          <5> HIDE DEF h, q
          <5> QED
            BY <3>1, <4>1, <5>1
        <4>3. Decode(c) = DecodeAt(c, h, q)
          BY <1>6, <4>2
        <4> HIDE DEF bad, h, q
        <4>4. c[q + n] = k
          <5>1. q + n \in 1 .. m /\ q + n = 4 + u + a + n
            BY <1>n, <2>2, <3>3
          <5> QED
            BY <1>4, <1>5, <5>1
        <4>5. SubSeq(c, q, q + n - 1) = p
          <5>1. q \in Nat /\ q >= 1 /\ q + Len(p) - 1 <= Len(c) /\ n = Len(p)
            <6>1. n = Len(p) /\ m = Len(c)
              BY <1>1 DEF m
            <6>2. q \in Nat /\ q >= 1 /\ q + n - 1 <= m
              BY <1>n, <2>2, <3>3
            <6> QED
              BY <6>1, <6>2
          <5>2. \A j \in 1 .. Len(p) : c[q + j - 1] = p[j]
            <6> SUFFICES ASSUME NEW j \in 1 .. n
                         PROVE  c[q + j - 1] = p[j]
              BY <1>1
            <6>1. q + j - 1 \in 1 .. m /\ q + j - 1 = 3 + u + a + j
              BY <1>n, <2>2, <3>3
            <6> QED
              BY <1>4, <1>5, <6>1
          <5>3. p \in Seq(Byte) /\ c \in Seq(Byte)
            BY <1>1 DEF Bytes
          <5>4. SubSeq(c, q, q + Len(p) - 1) = p
            BY <5>1, <5>2, <5>3, PartIs
          <5> QED
            BY <5>1, <5>4
        <4>6. DecodeAt(c, h, q) =
                [target |-> f.target, payload |-> p,
                 padding |-> IF m - q - n >= k THEN SubSeq(c, q + n + 1, q + n + k) ELSE <<>>]
          BY <2>1, <3>1, <4>4, <4>5 DEF DecodeAt, m
        <4>7. m >= Len(b) - k /\ (m = Len(b) <=> m - q - n >= k)
          BY <1>n, <2>2, <3>3
        <4>8. CASE m = Len(b)
          <5> DEFINE y == q + n + 1
          <5>1. /\ y \in Nat /\ y >= 1 /\ y + Len(d) - 1 <= Len(c) /\ k = Len(d)
                /\ y + k - 1 = q + n + k
            <6>1. k = Len(d) /\ m = Len(c)
              BY <1>1 DEF m
            <6>2. y \in Nat /\ y >= 1 /\ y + k - 1 <= m /\ y + k - 1 = q + n + k
              BY <1>n, <2>2, <4>8
            <6> HIDE DEF y
            <6> QED
              BY <6>1, <6>2
          <5>2. \A j \in 1 .. Len(d) : c[y + j - 1] = d[j]
            <6> SUFFICES ASSUME NEW j \in 1 .. k
                         PROVE  c[y + j - 1] = d[j]
              BY <1>1
            <6>1. y + j - 1 \in 1 .. m /\ y + j - 1 = 4 + u + a + n + j
              BY <1>n, <2>2, <4>8
            <6> QED
              BY <1>4, <1>5, <6>1
          <5>3. d \in Seq(Byte) /\ c \in Seq(Byte)
            BY <1>1 DEF Bytes
          <5> HIDE DEF y
          <5>4. SubSeq(c, y, y + Len(d) - 1) = d
            BY <5>1, <5>2, <5>3, PartIs
          <5>5. SubSeq(c, q + n + 1, q + n + k) = d
            BY <5>1, <5>4 DEF y
          <5>6. Decode(c) = [target |-> f.target, payload |-> p, padding |-> d]
            BY <4>3, <4>6, <4>7, <4>8, <5>5
          <5>7. Decode(c) = f /\ f = [f EXCEPT !.padding = @]
            BY <1>1, <5>6
          <5> QED
            BY <4>7, <4>8, <5>7 DEF b, k, m
        <4>9. CASE m # Len(b)
          <5>1. Decode(c) = [target |-> f.target, payload |-> p, padding |-> <<>>]
            BY <4>3, <4>6, <4>7, <4>9
          <5>2. Decode(c) = [f EXCEPT !.padding = <<>>]
            BY <1>1, <5>1
          <5> QED
            BY <4>7, <4>9, <5>2 DEF b, k, m
        <4> QED
          BY <4>8, <4>9
      <3> QED
        BY <1>n, <3>2, <3>3
    <2> QED
      BY <1>n, <2>3, <2>4
  <1> QED
    BY <1>n, <1>8, <1>9

\* What CodecIsPrefixSafe says of the frame that is being written, of every frame.
LEMMA Codec ==
  ASSUME NEW f \in Frames
  PROVE  /\ Decode(Encode(f)) = f
         /\ \A n \in 0 .. Len(Encode(f)) - 1 :
              Decode(SubSeq(Encode(f), 1, n)) =
                IF n < Len(Encode(f)) - Len(f.padding) THEN Bad ELSE [f EXCEPT !.padding = <<>>]
  <1> DEFINE b == Encode(f)  k == Len(f.padding)
  <1>1. b \in Bytes /\ Len(b) \in Nat /\ k \in Nat
    BY EncodedFrame, FrameParts, BytesLen
  <1>2. f = [f EXCEPT !.padding = @]
    BY FrameParts
  <1>3. Decode(b) = f
    <2>1. Len(b) <= Len(b) /\ Len(b) >= Len(b) - k /\ \A j \in 1 .. Len(b) : b[j] = b[j]
      BY <1>1
    <2>2. Decode(b) = [f EXCEPT !.padding = IF Len(b) = Len(b) THEN @ ELSE <<>>]
      BY <1>1, <2>1, DecodeCut
    <2> QED
      BY <1>2, <2>2
  <1>4. ASSUME NEW n \in 0 .. Len(b) - 1
        PROVE  Decode(SubSeq(b, 1, n)) = IF n < Len(b) - k THEN Bad ELSE [f EXCEPT !.padding = <<>>]
    <2> DEFINE c == SubSeq(b, 1, n)
    <2>1. n \in Nat /\ 1 + n - 1 = n /\ n <= Len(b) /\ n # Len(b)
      BY <1>1
    <2>2. c \in Bytes /\ Len(c) = n /\ \A j \in 1 .. n : c[j] = b[1 + j - 1]
      <3>1. b \in Seq(Byte) /\ 1 \in Nat /\ 1 >= 1
        BY <1>1 DEF Bytes
      <3> HIDE DEF b
      <3> QED
        BY <2>1, <3>1, Part DEF Bytes
    <2> HIDE DEF c
    <2>3. \A j \in 1 .. Len(c) : c[j] = b[j]
      <3> HIDE DEF b
      <3> SUFFICES ASSUME NEW j \in 1 .. n
                   PROVE  c[j] = b[j]
        BY <2>2
      <3>1. 1 + j - 1 = j
        BY <2>1
      <3> QED
        BY <2>2, <3>1
    <2>4. /\ Len(c) < Len(b) - k => Decode(c) = Bad
          /\ Len(c) >= Len(b) - k =>
               Decode(c) = [f EXCEPT !.padding = IF Len(c) = Len(b) THEN @ ELSE <<>>]
      BY <2>1, <2>2, <2>3, DecodeCut
    <2>5. n >= Len(b) - k <=> ~(n < Len(b) - k)
      BY <1>1, <2>1
    <2> HIDE DEF b, k
    <2> QED
      BY <2>1, <2>2, <2>4, <2>5 DEF c
  <1> QED
    BY <1>3, <1>4

--------------------------------------------------------------------------------
(* A message on the wire.                                                  *)

Body(f) == Encrypt(Encode(f))
Wire(f) == IF f = Uid THEN UserId ELSE Header(f) \o Body(f)

LEMMA JoinedOctets ==
  \A s, t \in Octets :
    /\ s \o t \in Octets /\ Len(s \o t) = Len(s) + Len(t)
    /\ \A i \in 1 .. Len(s) : (s \o t)[i] = s[i]
    /\ \A i \in 1 .. Len(t) : (s \o t)[Len(s) + i] = t[i]
  BY Joined DEF Octets

LEMMA OctetsLen == \A s \in Octets : Len(s) \in Nat
  BY LenProperties DEF Octets

LEMMA BytesAreOctets == Bytes \subseteq Octets
  <1>1. Byte \subseteq Octet
    BY Sizes DEF Byte, Octet
  <1> QED
    BY <1>1 DEF Bytes, Octets

\* What is sealed is opened, and decoded to the frame it was.
LEMMA Sent ==
  ASSUME NEW f \in Frames
  PROVE  /\ Body(f) \in Octets /\ Len(Body(f)) \in Nat
         /\ Len(Body(f)) >= 1 /\ Len(Body(f)) < Base * Base
         /\ Receives(Body(f)) = f
  <1> DEFINE b == Encode(f)  x == <<Nonce>>  y == <<Tag>>  v == x \o b  w == v \o y
  <1>1. /\ b \in Bytes /\ Len(b) \in Nat
        /\ Len(b) = 4 + Len(UserId) + AddrLen(f.target) + Len(f.payload) + Len(f.padding)
    BY EncodedFrame, BytesLen
  <1>2. Len(b) + 2 < Base * Base
    <2> DEFINE u == Len(UserId)  a == AddrLen(f.target)  n == Len(f.payload)  k == Len(f.padding)
    <2>1. /\ u \in Nat /\ a \in Nat /\ n \in Nat /\ k \in Nat
          /\ 6 + u + a + n + k < Base * Base /\ Base * Base \in Nat
      BY FrameParts, EncodedAddr, Sizes
    <2>2. Len(b) = 4 + u + a + n + k
      BY <1>1
    <2> HIDE DEF u, a, n, k, b
    <2> QED
      BY <2>1, <2>2
  <1>3. Body(f) = w
    BY DEF Body, Encrypt
  <1>4. b \in Octets /\ Decode(b) = f
    BY <1>1, BytesAreOctets, Codec
  <1>5. /\ x \in Octets /\ Len(x) = 1 /\ x[1] = Nonce
        /\ y \in Octets /\ Len(y) = 1 /\ y[1] = Tag
    <2>1. Nonce \in Octet /\ Tag \in Octet
      BY Sizes DEF Octet, Nonce, Tag
    <2> QED
      BY <2>1 DEF Octets
  <1> HIDE DEF b, x, y
  <1>6. /\ v \in Octets /\ Len(v) = 1 + Len(b)
        /\ v[1] = Nonce
        /\ \A i \in 1 .. Len(b) : v[1 + i] = b[i]
    <2>1. /\ v \in Octets /\ Len(v) = Len(x) + Len(b)
          /\ \A i \in 1 .. Len(x) : v[i] = x[i]
          /\ \A i \in 1 .. Len(b) : v[Len(x) + i] = b[i]
      BY <1>4, <1>5, JoinedOctets
    <2> HIDE DEF v
    <2> QED
      BY <1>5, <2>1
  <1> HIDE DEF v
  <1>7. /\ w \in Octets /\ Len(w) = 2 + Len(b)
        /\ w[1] = Nonce /\ w[2 + Len(b)] = Tag
        /\ \A i \in 1 .. Len(b) : w[1 + i] = b[i]
    <2>1. /\ w \in Octets /\ Len(w) = Len(v) + Len(y)
          /\ \A i \in 1 .. Len(v) : w[i] = v[i]
          /\ \A i \in 1 .. Len(y) : w[Len(v) + i] = y[i]
      BY <1>5, <1>6, JoinedOctets
    <2> HIDE DEF w
    <2>2. /\ Len(w) = 2 + Len(b) /\ Len(v) + 1 = 2 + Len(b) /\ 1 \in 1 .. Len(v) /\ 1 \in 1 .. Len(y)
          /\ \A i \in 1 .. Len(b) : 1 + i \in 1 .. Len(v)
      BY <1>1, <1>5, <1>6, <2>1
    <2>3. w[1] = Nonce
      BY <1>6, <2>1, <2>2
    <2>4. w[2 + Len(b)] = Tag
      BY <1>5, <2>1, <2>2
    <2>5. \A i \in 1 .. Len(b) : w[1 + i] = b[i]
      BY <1>6, <2>1, <2>2
    <2> QED
      BY <2>1, <2>2, <2>3, <2>4, <2>5
  <1> HIDE DEF w
  <1>8. SubSeq(w, 2, Len(w) - 1) = b
    <2>1. \A j \in 1 .. Len(b) : w[2 + j - 1] = b[j]
      <3> SUFFICES ASSUME NEW j \in 1 .. Len(b)
                   PROVE  w[2 + j - 1] = b[j]
        OBVIOUS
      <3>1. 2 + j - 1 = 1 + j
        BY <1>1
      <3> QED
        BY <1>7, <3>1
    <2>2. 2 + Len(b) - 1 <= Len(w) /\ 2 + Len(b) - 1 = Len(w) - 1 /\ 2 \in Nat /\ 2 >= 1
      BY <1>1, <1>7
    <2>3. w \in Seq(Octet) /\ b \in Seq(Octet)
      BY <1>4, <1>7 DEF Octets
    <2>4. SubSeq(w, 2, 2 + Len(b) - 1) = b
      BY <2>1, <2>2, <2>3, PartIs
    <2> QED
      BY <2>2, <2>4
  <1>9. Sealed(w)
    <2>1. Len(w) >= 2 /\ w[1] = Nonce /\ w[Len(w)] = Tag
      BY <1>1, <1>7
    <2>2. \A i \in 2 .. Len(w) - 1 : w[i] \in 0 .. Base - 1
      <3> SUFFICES ASSUME NEW i \in 2 .. Len(w) - 1
                   PROVE  w[i] \in Byte
        BY DEF Byte
      <3>1. i - 1 \in 1 .. Len(b) /\ 1 + (i - 1) = i
        BY <1>1, <1>7
      <3>2. w[i] = b[i - 1]
        BY <1>7, <3>1
      <3>3. b[i - 1] \in Byte
        BY <1>1, <3>1, ElementOfSeq DEF Bytes
      <3> QED
        BY <3>2, <3>3
    <2> QED
      BY <2>1, <2>2 DEF Sealed
  <1>10. Receives(w) = f
    BY <1>4, <1>8, <1>9 DEF Receives, Decrypt
  <1>11. Len(w) \in Nat /\ Len(w) >= 1 /\ Len(w) < Base * Base
    BY <1>1, <1>2, <1>7
  <1> QED
    BY <1>3, <1>7, <1>10, <1>11

LEMMA Headed ==
  ASSUME NEW f \in Frames
  PROVE  /\ Header(f) \in Octets /\ Len(Header(f)) = 2
         /\ Header(f)[1] * Base + Header(f)[2] = Len(Body(f))
  <1> DEFINE n == Len(Body(f))
  <1>1. n \in Nat /\ n < Base * Base
    BY Sent
  <1>2. Header(f) = U16(n)
    BY DEF Header, Body
  <1> HIDE DEF n
  <1>3. U16(n) \in Seq(Byte) /\ Len(U16(n)) = 2 /\ U16(n)[1] * Base + U16(n)[2] = n
    BY <1>1, U16Value
  <1>4. U16(n) \in Octets
    BY <1>3, BytesAreOctets DEF Bytes
  <1> QED
    BY <1>2, <1>3, <1>4 DEF n

\* The user id, or the length and what it is the length of.
LEMMA Wired ==
  /\ Wire(Uid) = UserId /\ UserId \in Octets /\ Len(UserId) \in Nat /\ Len(UserId) >= 1
  /\ Len(UserId) < Base * Base
  /\ \A f \in Frames :
       /\ Wire(f) \in Octets /\ Len(Wire(f)) = 2 + Len(Body(f)) /\ f # Uid
       /\ \A j \in 1 .. 2 : Wire(f)[j] = Header(f)[j]
       /\ \A j \in 1 .. Len(Body(f)) : Wire(f)[2 + j] = Body(f)[j]
  <1>1. /\ Wire(Uid) = UserId /\ UserId \in Octets /\ Len(UserId) \in Nat /\ Len(UserId) >= 1
    BY Sizes, BytesAreOctets DEF Wire, Bytes
  <1>2. Len(UserId) < Base * Base
    <2>1. 7 + Len(UserId) + MaxRead + MaxPadding < Base * Base
      BY LinkAssumption DEF LinkAssumption
    <2> QED
      BY <2>1, Sizes
  <1>3. ASSUME NEW f \in Frames
        PROVE  /\ Wire(f) \in Octets /\ Len(Wire(f)) = 2 + Len(Body(f)) /\ f # Uid
               /\ \A j \in 1 .. 2 : Wire(f)[j] = Header(f)[j]
               /\ \A j \in 1 .. Len(Body(f)) : Wire(f)[2 + j] = Body(f)[j]
    <2> DEFINE h == Header(f)  b == Body(f)  w == h \o b
    <2>1. h \in Octets /\ Len(h) = 2 /\ b \in Octets /\ f # Uid
      BY Headed, Sent, FrameParts
    <2>2. Wire(f) = w
      BY <2>1 DEF Wire
    <2> HIDE DEF h, b
    <2>3. /\ w \in Octets /\ Len(w) = Len(h) + Len(b)
          /\ \A i \in 1 .. Len(h) : w[i] = h[i]
          /\ \A i \in 1 .. Len(b) : w[Len(h) + i] = b[i]
      BY <2>1, JoinedOctets
    <2> HIDE DEF w
    <2>4. /\ w \in Octets /\ Len(w) = 2 + Len(b)
          /\ \A i \in 1 .. 2 : w[i] = h[i]
          /\ \A i \in 1 .. Len(b) : w[2 + i] = b[i]
      BY <2>1, <2>3
    <2> QED
      BY <2>1, <2>2, <2>4 DEF h, b
  <1> QED
    BY <1>1, <1>2, <1>3

--------------------------------------------------------------------------------
(* Pieces of the stream of octets.                                         *)

\* The octets x stand in w after the first o.
Holds(x, w, o) ==
  /\ x \in Octets /\ o \in Nat /\ o + Len(x) <= Len(w)
  /\ \A j \in 1 .. Len(x) : x[j] = w[o + j]

LEMMA HoldsNone ==
  ASSUME NEW w \in Octets, NEW o \in Nat, o <= Len(w)
  PROVE  Holds(<<>>, w, o)
  <1>1. <<>> \in Octets /\ Len(<<>>) = 0
    BY EmptySeq DEF Octets
  <1> QED
    BY <1>1 DEF Holds

LEMMA HoldsJoined ==
  ASSUME NEW w, NEW x, NEW y, NEW o, Holds(x, w, o), Holds(y, w, o + Len(x))
  PROVE  Holds(x \o y, w, o) /\ Len(x \o y) = Len(x) + Len(y)
  <1> DEFINE z == x \o y  l == Len(x)  m == Len(y)
  <1>1. /\ z \in Octets /\ Len(z) = l + m
        /\ \A i \in 1 .. l : z[i] = x[i]
        /\ \A i \in 1 .. m : z[l + i] = y[i]
    BY JoinedOctets DEF Holds
  <1>2. l \in Nat /\ m \in Nat /\ o \in Nat /\ o + l + m <= Len(w)
    BY OctetsLen DEF Holds
  <1>3. /\ \A j \in 1 .. l : x[j] = w[o + j]
        /\ \A j \in 1 .. m : y[j] = w[o + l + j]
    BY DEF Holds
  <1> HIDE DEF z, l, m
  <1>4. \A j \in 1 .. Len(z) : z[j] = w[o + j]
    <2> SUFFICES ASSUME NEW j \in 1 .. l + m
                 PROVE  z[j] = w[o + j]
      BY <1>1
    <2>1. CASE j <= l
      <3>1. j \in 1 .. l
        BY <1>2, <2>1
      <3> QED
        BY <1>1, <1>3, <3>1
    <2>2. CASE j > l
      <3>1. j - l \in 1 .. m /\ l + (j - l) = j /\ o + l + (j - l) = o + j
        BY <1>2, <2>2
      <3>2. z[l + (j - l)] = y[j - l] /\ y[j - l] = w[o + l + (j - l)]
        BY <1>1, <1>3, <3>1
      <3> QED
        BY <3>1, <3>2
    <2> QED
      BY <1>2, <2>1, <2>2
  <1>5. o + Len(z) <= Len(w)
    BY <1>1, <1>2
  <1> QED
    BY <1>1, <1>2, <1>4, <1>5 DEF Holds, z, l, m

LEMMA HoldsSplit ==
  ASSUME NEW w, NEW x, NEW o, Holds(x, w, o), NEW n \in Nat, n <= Len(x)
  PROVE  /\ Holds(SubSeq(x, 1, n), w, o) /\ Len(SubSeq(x, 1, n)) = n
         /\ Holds(SubSeq(x, n + 1, Len(x)), w, o + n) /\ Len(SubSeq(x, n + 1, Len(x))) = Len(x) - n
  <1> DEFINE l == Len(x)  m == l - n  y == SubSeq(x, 1, n)  z == SubSeq(x, n + 1, l)
  <1>1. /\ x \in Seq(Octet) /\ l \in Nat /\ o \in Nat /\ o + l <= Len(w)
        /\ \A j \in 1 .. l : x[j] = w[o + j]
    BY OctetsLen DEF Holds, Octets
  <1>2. y \in Seq(Octet) /\ Len(y) = n /\ \A j \in 1 .. n : y[j] = x[1 + j - 1]
    <2>1. 1 \in Nat /\ 1 >= 1 /\ 1 + n - 1 = n /\ n <= Len(x)
      OBVIOUS
    <2> HIDE DEF l
    <2> QED
      BY <1>1, <2>1, Part
  <1>3. z \in Seq(Octet) /\ Len(z) = m /\ \A j \in 1 .. m : z[j] = x[n + 1 + j - 1]
    <2>1. /\ n + 1 \in Nat /\ n + 1 >= 1 /\ (n + 1) + m - 1 = l /\ m \in Nat
          /\ (n + 1) + m - 1 <= Len(x)
      BY <1>1
    <2> DEFINE i == n + 1  u == SubSeq(x, i, i + m - 1)
    <2> HIDE DEF l, m, i
    <2>2. u \in Seq(Octet) /\ Len(u) = m /\ \A j \in 1 .. m : u[j] = x[i + j - 1]
      BY <1>1, <2>1, Part DEF i
    <2>3. u = z
      BY <2>1 DEF i
    <2> HIDE DEF u, z
    <2> QED
      BY <2>2, <2>3 DEF i
  <1> HIDE DEF y, z
  <1>4. Holds(y, w, o)
    <2>1. \A j \in 1 .. n : y[j] = w[o + j]
      <3> SUFFICES ASSUME NEW j \in 1 .. n
                   PROVE  y[j] = w[o + j]
        OBVIOUS
      <3>1. j \in 1 .. l /\ 1 + j - 1 = j
        BY <1>1
      <3> QED
        BY <1>1, <1>2, <3>1
    <2>2. o + Len(y) <= Len(w)
      BY <1>1, <1>2
    <2> QED
      BY <1>1, <1>2, <2>1, <2>2 DEF Holds, Octets
  <1>5. Holds(z, w, o + n)
    <2>1. \A j \in 1 .. m : z[j] = w[o + n + j]
      <3> SUFFICES ASSUME NEW j \in 1 .. m
                   PROVE  z[j] = w[o + n + j]
        OBVIOUS
      <3>1. n + j \in 1 .. l /\ n + 1 + j - 1 = n + j /\ o + (n + j) = o + n + j
        BY <1>1
      <3> QED
        BY <1>1, <1>3, <3>1
    <2>2. o + n + Len(z) <= Len(w) /\ o + n \in Nat
      BY <1>1, <1>3
    <2> QED
      BY <1>1, <1>3, <2>1, <2>2 DEF Holds, Octets
  <1> QED
    BY <1>2, <1>3, <1>4, <1>5 DEF y, z

LEMMA HoldsLonger ==
  ASSUME NEW w \in Octets, NEW v \in Octets, NEW x, NEW o, Holds(x, w, o)
  PROVE  Holds(x, w \o v, o)
  <1> DEFINE z == w \o v
  <1>1. /\ Len(z) = Len(w) + Len(v) /\ Len(w) \in Nat /\ Len(v) \in Nat
        /\ \A i \in 1 .. Len(w) : z[i] = w[i]
    BY JoinedOctets, OctetsLen
  <1>2. /\ x \in Octets /\ Len(x) \in Nat /\ o \in Nat /\ o + Len(x) <= Len(w)
        /\ \A j \in 1 .. Len(x) : x[j] = w[o + j]
    BY OctetsLen DEF Holds
  <1> HIDE DEF z
  <1>3. o + Len(x) <= Len(z) /\ \A j \in 1 .. Len(x) : o + j \in 1 .. Len(w)
    BY <1>1, <1>2
  <1>4. \A j \in 1 .. Len(x) : x[j] = z[o + j]
    BY <1>1, <1>2, <1>3
  <1> QED
    BY <1>2, <1>3, <1>4 DEF Holds, z

LEMMA HoldsLast ==
  ASSUME NEW w \in Octets, NEW v \in Octets
  PROVE  Holds(v, w \o v, Len(w))
  <1> DEFINE z == w \o v
  <1>1. /\ Len(z) = Len(w) + Len(v) /\ Len(w) \in Nat /\ Len(v) \in Nat
        /\ \A i \in 1 .. Len(v) : z[Len(w) + i] = v[i]
    BY JoinedOctets, OctetsLen
  <1> HIDE DEF z
  <1>2. Len(w) + Len(v) <= Len(z)
    BY <1>1
  <1> QED
    BY <1>1, <1>2 DEF Holds, z

LEMMA HoldsSame ==
  ASSUME NEW w, NEW x, NEW y, NEW o, Holds(x, w, o), Holds(y, w, o), Len(x) = Len(y)
  PROVE  x = y
  <1>1. x \in Seq(Octet) /\ y \in Seq(Octet)
    BY DEF Holds, Octets
  <1>2. \A j \in 1 .. Len(x) : x[j] = y[j]
    BY DEF Holds
  <1> QED
    BY <1>1, <1>2, SeqEqual

--------------------------------------------------------------------------------
(* The stream.  The frames on the wire are no longer in the state once they *)
(* are written, since sent leaves their padding out, and so the invariant   *)
(* says that there are such frames: F, that begin after the first P[i] of   *)
(* the octets of W each, of which the first v are written.                  *)

Msgs == Frames \cup {Uid}

Text(f) == IF f = Uid THEN Uid ELSE Message(f)

Framed(F, P, W) ==
  /\ F \in Seq(Msgs) /\ Len(F) >= 1 /\ F[1] = Uid
  /\ \A i \in 2 .. Len(F) : F[i] \in Frames
  /\ W \in Octets
  /\ P \in Seq(Nat) /\ Len(P) = Len(F) + 1 /\ P[1] = 0 /\ P[Len(F) + 1] = Len(W)
  /\ \A i \in 1 .. Len(F) :
       P[i + 1] = P[i] + Len(Wire(F[i])) /\ Holds(Wire(F[i]), W, P[i])

\* The sender is at the end of F, with some of it left to write.
Sending(F, W, v, pc, left, frame, messages) ==
  /\ v \in Nat
  /\ Len(F) = Len(messages) + IF pc = "idle" THEN 0 ELSE 1
  /\ \A i \in 1 .. Len(messages) : messages[i] = Text(F[i])
  /\ pc = "idle" => left = <<>> /\ v = Len(W)
  /\ pc # "idle" => frame = F[Len(F)] /\ Len(left) >= 1 /\ Holds(left, W, v)
  /\ pc \in {"uid", "body"} => v + Len(left) = Len(W)
  /\ pc = "header" => v + Len(left) + Len(Body(frame)) = Len(W)
  /\ pc = "uid" => frame = Uid
  /\ pc \in {"header", "body"} => frame \in Frames /\ Len(messages) <= MaxFrames

Reading == {"uid", "length", "frame"}

\* The octets that are used or in use.
Taken(P, pc, messages) == P[Len(messages) + 1] + IF pc = "frame" THEN 2 ELSE 0

\* The receiver is within the message that follows those it has, and what it has
\* of it, and what is in TCP, is what was written.
Receiving(F, P, W, v, pc, want, has, octets, broken, messages) ==
  /\ pc # "bad"
  /\ pc \notin Reading => want = 0 /\ has = <<>> /\ broken
  /\ pc = "uid" => messages = <<>> /\ want = Len(UserId)
  /\ pc = "length" => messages # <<>> /\ want = 2
  /\ pc = "frame" => /\ messages # <<>> /\ Len(messages) + 1 <= Len(F)
                     /\ want = Len(Body(F[Len(messages) + 1]))
  /\ pc \in Reading =>
       LET o == Taken(P, pc, messages) IN
         /\ Holds(has, W, o) /\ Holds(octets, W, o + Len(has))
         /\ o + Len(has) + Len(octets) <= v
         /\ ~broken => o + Len(has) + Len(octets) = v

\* The messages received are the first of those sent.
Received(messages, all) ==
  Len(messages) <= Len(all) /\ \A i \in 1 .. Len(messages) : messages[i] = all[i]

LinkTypes ==
  /\ writer \in [pc : {"uid", "idle", "header", "body"}, left : Octets, frame : Msgs]
  /\ frag \in 0 .. FragBytes
  /\ net \in Octets /\ Len(net) <= Buffered
  /\ cut \in {"no", "end", "reset"}
  /\ reader \in [pc : {"uid", "length", "frame", "bad", "end", "error"},
                 want : 0 .. Base * Base - 1, has : Octets]
  /\ Len(reader.has) <= reader.want
  /\ sent \in Seq(Messages) /\ Len(sent) <= MaxFrames + 1
  /\ got \in Seq(Messages)

LinkInv ==
  /\ LinkTypes
  /\ Received(got, sent)
  /\ \E F, P, W, v :
       /\ Framed(F, P, W)
       /\ Sending(F, W, v, writer.pc, writer.left, writer.frame, sent)
       /\ Receiving(F, P, W, v, reader.pc, reader.want, reader.has, net, cut # "no", got)

--------------------------------------------------------------------------------
(* What the stream is made of.                                             *)

LEMMA Lengths == \A S, s : s \in Seq(S) => Len(s) \in Nat
  BY LenProperties

\* One more frame.
LEMMA FramedMore ==
  ASSUME NEW F, NEW P, NEW W, Framed(F, P, W), NEW f \in Frames
  PROVE  LET G == Append(F, f)
             V == W \o Wire(f)
             Q == Append(P, Len(V))
         IN  /\ Framed(G, Q, V)
             /\ Len(G) = Len(F) + 1 /\ G[Len(G)] = f
             /\ \A i \in 1 .. Len(F) : G[i] = F[i]
             /\ \A i \in 1 .. Len(F) + 1 : Q[i] = P[i]
             /\ Len(V) = Len(W) + Len(Wire(f))
             /\ \A x, o : Holds(x, W, o) => Holds(x, V, o)
             /\ Holds(Wire(f), V, Len(W))
  <1> DEFINE G == Append(F, f)  V == W \o Wire(f)  Q == Append(P, Len(V))
             n == Len(F)
  <1>1. /\ F \in Seq(Msgs) /\ n >= 1 /\ n \in Nat /\ F[1] = Uid
        /\ \A i \in 2 .. n : F[i] \in Frames
        /\ W \in Octets /\ Len(W) \in Nat
        /\ P \in Seq(Nat) /\ Len(P) = n + 1 /\ P[1] = 0 /\ P[n + 1] = Len(W)
        /\ \A i \in 1 .. n :
             P[i + 1] = P[i] + Len(Wire(F[i])) /\ Holds(Wire(F[i]), W, P[i])
    BY Lengths, OctetsLen DEF Framed
  <1>2. f \in Msgs /\ Wire(f) \in Octets
    BY Wired DEF Msgs
  <1>3. /\ V \in Octets /\ Len(V) = Len(W) + Len(Wire(f)) /\ Len(V) \in Nat
        /\ Len(Wire(f)) \in Nat
    BY <1>1, <1>2, JoinedOctets, OctetsLen
  <1>4. \A x, o : Holds(x, W, o) => Holds(x, V, o)
    BY <1>1, <1>2, HoldsLonger
  <1>5. Holds(Wire(f), V, Len(W))
    BY <1>1, <1>2, HoldsLast
  <1> HIDE DEF V, n
  <1>6. /\ G \in Seq(Msgs) /\ Len(G) = n + 1 /\ G[n + 1] = f
        /\ \A i \in 1 .. n : G[i] = F[i]
    BY <1>1, <1>2, AppendProperties DEF n
  <1>7. /\ Q \in Seq(Nat) /\ Len(Q) = n + 2 /\ Q[n + 2] = Len(V)
        /\ \A i \in 1 .. n + 1 : Q[i] = P[i]
    <2>1. /\ Q \in Seq(Nat) /\ Len(Q) = Len(P) + 1 /\ Q[Len(P) + 1] = Len(V)
          /\ \A i \in 1 .. Len(P) : Q[i] = P[i]
      BY <1>1, <1>3, AppendProperties
    <2> HIDE DEF Q
    <2>2. Len(P) + 1 = n + 2
      BY <1>1
    <2> QED
      BY <1>1, <2>1, <2>2
  <1> HIDE DEF G, Q
  <1>8. Framed(G, Q, V)
    <2>1. Len(G) >= 1 /\ G[1] = Uid
      BY <1>1, <1>6
    <2>2. \A i \in 2 .. Len(G) : G[i] \in Frames
      <3> SUFFICES ASSUME NEW i \in 2 .. n + 1
                   PROVE  G[i] \in Frames
        BY <1>6
      <3>1. CASE i = n + 1
        BY <1>6, <3>1
      <3>2. CASE i # n + 1
        <4>1. i \in 2 .. n /\ i \in 1 .. n
          BY <1>1, <3>2
        <4> QED
          BY <1>1, <1>6, <4>1
      <3> QED
        BY <3>1, <3>2
    <2>3. Len(Q) = Len(G) + 1 /\ Q[1] = 0 /\ Q[Len(G) + 1] = Len(V)
      <3>1. 1 \in 1 .. n + 1 /\ Len(G) + 1 = n + 2
        BY <1>1, <1>6
      <3> QED
        BY <1>1, <1>6, <1>7, <3>1
    <2>4. \A i \in 1 .. Len(G) :
            Q[i + 1] = Q[i] + Len(Wire(G[i])) /\ Holds(Wire(G[i]), V, Q[i])
      <3> SUFFICES ASSUME NEW i \in 1 .. n + 1
                   PROVE  Q[i + 1] = Q[i] + Len(Wire(G[i])) /\ Holds(Wire(G[i]), V, Q[i])
        BY <1>6
      <3>1. CASE i = n + 1
        <4>1. G[i] = f /\ Q[i] = Len(W) /\ i + 1 = n + 2
          BY <1>1, <1>6, <1>7, <3>1
        <4>2. Q[i + 1] = Len(V)
          BY <1>7, <4>1
        <4> QED
          BY <1>3, <1>5, <4>1, <4>2
      <3>2. CASE i # n + 1
        <4>1. i \in 1 .. n /\ i + 1 \in 1 .. n + 1
          BY <1>1, <3>2
        <4>2. G[i] = F[i] /\ Q[i] = P[i] /\ Q[i + 1] = P[i + 1]
          BY <1>6, <1>7, <4>1
        <4>3. P[i + 1] = P[i] + Len(Wire(F[i])) /\ Holds(Wire(F[i]), W, P[i])
          BY <1>1, <4>1
        <4> QED
          BY <1>4, <4>2, <4>3
      <3> QED
        BY <3>1, <3>2
    <2> QED
      BY <1>3, <1>6, <1>7, <2>1, <2>2, <2>3, <2>4 DEF Framed
  <1> QED
    BY <1>1, <1>3, <1>4, <1>5, <1>6, <1>7, <1>8 DEF G, V, Q, n

\* A frame of the stream.
LEMMA FramedAt ==
  ASSUME NEW F, NEW P, NEW W, Framed(F, P, W), NEW i \in 1 .. Len(F)
  PROVE  /\ F[i] \in Msgs
         /\ i = 1 => F[i] = Uid
         /\ i # 1 => F[i] \in Frames
         /\ P[i] \in Nat /\ P[i + 1] \in Nat
         /\ P[i + 1] = P[i] + Len(Wire(F[i])) /\ Holds(Wire(F[i]), W, P[i])
  <1>1. /\ F \in Seq(Msgs) /\ Len(F) \in Nat /\ F[1] = Uid /\ \A j \in 2 .. Len(F) : F[j] \in Frames
        /\ P \in Seq(Nat) /\ Len(P) = Len(F) + 1
        /\ P[i + 1] = P[i] + Len(Wire(F[i])) /\ Holds(Wire(F[i]), W, P[i])
    BY Lengths DEF Framed
  <1>2. i \in 1 .. Len(P) /\ i + 1 \in 1 .. Len(P) /\ (i # 1 => i \in 2 .. Len(F))
    BY <1>1
  <1>3. P[i] \in Nat /\ P[i + 1] \in Nat /\ F[i] \in Msgs
    BY <1>1, <1>2, ElementOfSeq
  <1> QED
    BY <1>1, <1>2, <1>3

--------------------------------------------------------------------------------
(* The sender's steps.                                                     *)

\* Where the receiver is.
LEMMA TakenIs ==
  ASSUME NEW F, NEW P, NEW W, Framed(F, P, W), NEW pc, NEW ms, Len(ms) \in Nat, Len(ms) <= Len(F)
  PROVE  Len(ms) + 1 \in 1 .. Len(P) /\ P[Len(ms) + 1] \in Nat /\ Taken(P, pc, ms) \in Nat
  <1>1. P \in Seq(Nat) /\ Len(P) = Len(F) + 1 /\ Len(F) \in Nat
    BY Lengths DEF Framed
  <1>2. Len(ms) + 1 \in 1 .. Len(P)
    BY <1>1
  <1>3. P[Len(ms) + 1] \in Nat
    BY <1>1, <1>2, ElementOfSeq
  <1>4. CASE pc = "frame"
    <2>1. Taken(P, pc, ms) = P[Len(ms) + 1] + 2
      BY <1>4 DEF Taken
    <2> QED
      BY <1>2, <1>3, <2>1
  <1>5. CASE pc # "frame"
    <2>1. Taken(P, pc, ms) = P[Len(ms) + 1] + 0
      BY <1>5 DEF Taken
    <2> QED
      BY <1>2, <1>3, <2>1
  <1> QED
    BY <1>4, <1>5

LEMMA FrameStarts ==
  ASSUME NEW F, NEW P, NEW W, NEW v, NEW left, NEW frame, NEW sm,
         NEW pc, NEW want, NEW has, NEW octets, NEW broken, NEW gm,
         Framed(F, P, W), Sending(F, W, v, "idle", left, frame, sm),
         Receiving(F, P, W, v, pc, want, has, octets, broken, gm),
         Received(gm, sm), Len(gm) \in Nat, Len(sm) \in Nat,
         NEW f \in Frames, Len(sm) <= MaxFrames
  PROVE  \E G, Q, V :
           /\ Framed(G, Q, V)
           /\ Sending(G, V, v, "header", Header(f), f, sm)
           /\ Receiving(G, Q, V, v, pc, want, has, octets, broken, gm)
  <1> DEFINE G == Append(F, f)  V == W \o Wire(f)  Q == Append(P, Len(V))
  <1>1. /\ Framed(G, Q, V)
        /\ Len(G) = Len(F) + 1 /\ G[Len(G)] = f
        /\ \A i \in 1 .. Len(F) : G[i] = F[i]
        /\ \A i \in 1 .. Len(F) + 1 : Q[i] = P[i]
        /\ Len(V) = Len(W) + Len(Wire(f))
        /\ \A x, o : Holds(x, W, o) => Holds(x, V, o)
        /\ Holds(Wire(f), V, Len(W))
    BY FramedMore
  <1> HIDE DEF G, V, Q
  <1>2. /\ v = Len(W) /\ v \in Nat /\ Len(F) = Len(sm)
        /\ \A i \in 1 .. Len(sm) : sm[i] = Text(F[i])
    BY DEF Sending
  <1>3. /\ Header(f) \in Octets /\ Len(Header(f)) = 2 /\ Len(Body(f)) \in Nat
        /\ Len(Wire(f)) = 2 + Len(Body(f)) /\ \A j \in 1 .. 2 : Wire(f)[j] = Header(f)[j]
    BY Headed, Sent, Wired
  <1>4. Holds(Header(f), V, Len(W))
    <2>1. Len(W) \in Nat /\ Len(W) + 2 <= Len(V)
      BY <1>1, <1>2, <1>3
    <2>2. \A j \in 1 .. 2 : Header(f)[j] = V[Len(W) + j]
      <3>1. \A j \in 1 .. Len(Wire(f)) : Wire(f)[j] = V[Len(W) + j]
        BY <1>1 DEF Holds
      <3>2. \A j \in 1 .. 2 : j \in 1 .. Len(Wire(f))
        BY <1>3
      <3> QED
        BY <1>3, <3>1, <3>2
    <2> QED
      BY <1>3, <2>1, <2>2 DEF Holds
  <1>5. Sending(G, V, v, "header", Header(f), f, sm)
    <2>1. Len(G) = Len(sm) + 1 /\ Len(Header(f)) >= 1
      BY <1>1, <1>2, <1>3
    <2>2. \A i \in 1 .. Len(sm) : sm[i] = Text(G[i])
      BY <1>1, <1>2
    <2>3. v + Len(Header(f)) + Len(Body(f)) = Len(V)
      BY <1>1, <1>2, <1>3
    <2>4. Holds(Header(f), V, v)
      BY <1>2, <1>4
    <2> QED
      BY <1>1, <1>2, <2>1, <2>2, <2>3, <2>4 DEF Sending
  <1>6. Receiving(G, Q, V, v, pc, want, has, octets, broken, gm)
    <2>1. Len(gm) <= Len(F)
      BY <1>2 DEF Received
    <2>2. Q[Len(gm) + 1] = P[Len(gm) + 1]
      <3>1. Len(gm) + 1 \in 1 .. Len(F) + 1
        BY <1>2, <2>1
      <3> QED
        BY <1>1, <3>1
    <2>3. Taken(Q, pc, gm) = Taken(P, pc, gm)
      BY <2>2 DEF Taken
    <2>4. pc = "frame" => /\ gm # <<>> /\ Len(gm) + 1 <= Len(G)
                          /\ want = Len(Body(G[Len(gm) + 1]))
      <3> SUFFICES ASSUME pc = "frame"
                   PROVE  /\ gm # <<>> /\ Len(gm) + 1 <= Len(G)
                          /\ want = Len(Body(G[Len(gm) + 1]))
        OBVIOUS
      <3>1. gm # <<>> /\ Len(gm) + 1 <= Len(F) /\ want = Len(Body(F[Len(gm) + 1]))
        BY DEF Receiving
      <3>2. Len(gm) + 1 \in 1 .. Len(F) /\ Len(gm) + 1 <= Len(G)
        BY <1>1, <1>2, <3>1
      <3> QED
        BY <1>1, <3>1, <3>2
    <2> DEFINE o == Taken(P, pc, gm)
    <2>5. pc \in Reading =>
            /\ Holds(has, W, o) /\ Holds(octets, W, o + Len(has))
            /\ o + Len(has) + Len(octets) <= v
            /\ ~broken => o + Len(has) + Len(octets) = v
      BY DEF Receiving
    <2>6. pc \in Reading =>
            /\ Holds(has, V, o) /\ Holds(octets, V, o + Len(has))
            /\ o + Len(has) + Len(octets) <= v
            /\ ~broken => o + Len(has) + Len(octets) = v
      BY <1>1, <2>5
    <2>7. /\ pc # "bad"
          /\ pc \notin Reading => want = 0 /\ has = <<>> /\ broken
          /\ pc = "uid" => gm = <<>> /\ want = Len(UserId)
          /\ pc = "length" => gm # <<>> /\ want = 2
      BY DEF Receiving
    <2> HIDE DEF o
    <2> QED
      BY <2>3, <2>4, <2>6, <2>7 DEF Receiving, o
  <1> QED
    BY <1>1, <1>5, <1>6

\* Octets that are written follow those in TCP.
LEMMA MoreArrives ==
  ASSUME NEW F, NEW P, NEW W, NEW v, NEW pc, NEW want, NEW has, NEW octets, NEW gm, NEW x,
         Framed(F, P, W), Receiving(F, P, W, v, pc, want, has, octets, FALSE, gm),
         Len(gm) \in Nat, Len(gm) <= Len(F), Holds(x, W, v)
  PROVE  Receiving(F, P, W, v + Len(x), pc, want, has, octets \o x, FALSE, gm)
  <1> DEFINE o == Taken(P, pc, gm)
  <1>1. /\ pc # "bad" /\ pc \in Reading
        /\ pc = "uid" => gm = <<>> /\ want = Len(UserId)
        /\ pc = "length" => gm # <<>> /\ want = 2
        /\ pc = "frame" => /\ gm # <<>> /\ Len(gm) + 1 <= Len(F)
                           /\ want = Len(Body(F[Len(gm) + 1]))
        /\ Holds(has, W, o) /\ Holds(octets, W, o + Len(has))
        /\ o + Len(has) + Len(octets) = v
    BY DEF Receiving
  <1>2. o \in Nat
    BY TakenIs
  <1> HIDE DEF o
  <1>3. Holds(octets \o x, W, o + Len(has)) /\ Len(octets \o x) = Len(octets) + Len(x)
    BY <1>1, HoldsJoined
  <1>4. Len(has) \in Nat /\ Len(octets) \in Nat /\ Len(x) \in Nat
    BY <1>1, OctetsLen DEF Holds
  <1>5. o + Len(has) + Len(octets \o x) = v + Len(x)
    BY <1>1, <1>2, <1>3, <1>4
  <1>6. o + Len(has) + Len(octets \o x) <= v + Len(x)
    BY <1>1, <1>2, <1>3, <1>4
  <1> QED
    BY <1>1, <1>3, <1>5, <1>6 DEF Receiving, o

\* The rest of a buffer stays to be written.
LEMMA WritesSome ==
  ASSUME NEW F, NEW W, NEW v, NEW pc, NEW left, NEW frame, NEW sm, NEW n \in Nat,
         Sending(F, W, v, pc, left, frame, sm), pc \in {"uid", "header", "body"}, n < Len(left)
  PROVE  Sending(F, W, v + n, pc, SubSeq(left, n + 1, Len(left)), frame, sm)
  <1> DEFINE y == SubSeq(left, n + 1, Len(left))  l == Len(left)
  <1>1. /\ v \in Nat
        /\ Len(F) = Len(sm) + 1
        /\ \A i \in 1 .. Len(sm) : sm[i] = Text(F[i])
        /\ frame = F[Len(F)] /\ Holds(left, W, v)
        /\ pc \in {"uid", "body"} => v + l = Len(W)
        /\ pc = "header" => v + l + Len(Body(frame)) = Len(W)
        /\ pc = "uid" => frame = Uid
        /\ pc \in {"header", "body"} => frame \in Frames /\ Len(sm) <= MaxFrames
    BY DEF Sending
  <1>2. Holds(y, W, v + n) /\ Len(y) = l - n
    BY <1>1, HoldsSplit
  <1>3. l \in Nat /\ n < l /\ (pc = "header" => Len(Body(frame)) \in Nat)
    BY <1>1, OctetsLen, Sent DEF Holds
  <1> HIDE DEF y, l
  <1>4. /\ Len(y) >= 1 /\ v + n \in Nat /\ pc # "idle"
        /\ pc \in {"uid", "body"} => (v + n) + Len(y) = Len(W)
    BY <1>1, <1>2, <1>3
  <1>5. pc = "header" => (v + n) + Len(y) + Len(Body(frame)) = Len(W)
    <2> DEFINE b == Len(Body(frame))
    <2>1. pc = "header" => b \in Nat /\ v + l + b = Len(W)
      BY <1>1, <1>3
    <2> HIDE DEF b
    <2>2. pc = "header" => (v + n) + Len(y) + b = Len(W)
      BY <1>1, <1>2, <1>3, <2>1
    <2> QED
      BY <2>2 DEF b
  <1> QED
    BY <1>1, <1>2, <1>4, <1>5 DEF Sending, y, l

\* After the length comes what it is the length of.
LEMMA HeaderWritten ==
  ASSUME NEW F, NEW P, NEW W, NEW v, NEW left, NEW frame, NEW sm,
         Framed(F, P, W), Sending(F, W, v, "header", left, frame, sm)
  PROVE  Sending(F, W, v + Len(left), "body", Body(frame), frame, sm)
  <1> DEFINE l == Len(left)  b == Body(frame)  n == Len(F)
  <1>1. /\ v \in Nat /\ n = Len(sm) + 1
        /\ \A i \in 1 .. Len(sm) : sm[i] = Text(F[i])
        /\ frame = F[n] /\ Holds(left, W, v)
        /\ v + l + Len(b) = Len(W)
        /\ frame \in Frames /\ Len(sm) <= MaxFrames
    BY DEF Sending
  <1>2. /\ b \in Octets /\ Len(b) \in Nat /\ Len(b) >= 1
        /\ Len(Wire(frame)) = 2 + Len(b)
        /\ \A j \in 1 .. Len(b) : Wire(frame)[2 + j] = b[j]
    BY <1>1, Sent, Wired
  <1>3. n \in 1 .. n /\ P[n + 1] = Len(W)
    BY Lengths DEF Framed
  <1>4. P[n] \in Nat /\ P[n + 1] = P[n] + Len(Wire(F[n])) /\ Holds(Wire(F[n]), W, P[n])
    BY <1>3, FramedAt
  <1>5. l \in Nat
    BY <1>1, OctetsLen DEF Holds
  <1> HIDE DEF l, b, n
  <1>6. P[n] + 2 + Len(b) = Len(W) /\ P[n] + 2 = v + l
    BY <1>1, <1>2, <1>3, <1>4, <1>5
  <1>7. Holds(b, W, v + l)
    <2>1. \A j \in 1 .. Len(b) : b[j] = W[v + l + j]
      <3> SUFFICES ASSUME NEW j \in 1 .. Len(b)
                   PROVE  b[j] = W[v + l + j]
        OBVIOUS
      <3>1. 2 + j \in 1 .. Len(Wire(frame)) /\ P[n] + (2 + j) = v + l + j
        <4>1. Len(Wire(frame)) = 2 + Len(b) /\ Len(b) \in Nat /\ j \in 1 .. Len(b)
          BY <1>2
        <4>2. P[n] \in Nat /\ P[n] + 2 = v + l /\ v \in Nat /\ l \in Nat
          BY <1>1, <1>4, <1>5, <1>6
        <4>3. 2 + j \in 1 .. Len(Wire(frame))
          BY <4>1
        <4> QED
          BY <4>1, <4>2, <4>3
      <3>2. Wire(frame)[2 + j] = W[P[n] + (2 + j)]
        BY <1>1, <1>4, <3>1 DEF Holds
      <3> QED
        BY <1>2, <3>1, <3>2
    <2>2. v + l \in Nat /\ v + l + Len(b) <= Len(W)
      BY <1>1, <1>2, <1>5
    <2> QED
      BY <1>2, <2>1, <2>2 DEF Holds
  <1> QED
    BY <1>1, <1>2, <1>5, <1>7 DEF Sending, l, b, n

\* The message is written.
LEMMA MessageWritten ==
  ASSUME NEW F, NEW P, NEW W, NEW v, NEW pc, NEW left, NEW frame, NEW sm \in Seq(Messages),
         Framed(F, P, W), Sending(F, W, v, pc, left, frame, sm), pc \in {"uid", "body"}
  PROVE  LET m == IF frame = Uid THEN Uid ELSE Message(frame) IN
           /\ Sending(F, W, v + Len(left), "idle", <<>>, frame, Append(sm, m))
           /\ m \in Messages
           /\ Len(sm) <= MaxFrames
  <1> DEFINE m == IF frame = Uid THEN Uid ELSE Message(frame)  s == Append(sm, m)  l == Len(left)
  <1>1. /\ v \in Nat /\ Len(F) = Len(sm) + 1
        /\ \A i \in 1 .. Len(sm) : sm[i] = Text(F[i])
        /\ frame = F[Len(F)] /\ Holds(left, W, v) /\ v + l = Len(W)
        /\ pc = "uid" => frame = Uid
        /\ pc = "body" => frame \in Frames /\ Len(sm) <= MaxFrames
    BY DEF Sending
  <1>2. m = Text(frame) /\ frame \in Msgs
    BY <1>1 DEF Text, Msgs
  <1>3. m \in Messages
    BY <1>1 DEF Messages
  <1>4. l \in Nat /\ Len(sm) \in Nat
    BY <1>1, OctetsLen, Lengths DEF Holds
  <1>5. Len(sm) <= MaxFrames
    <2>1. CASE pc = "uid"
      <3>1. Len(F) \in 1 .. Len(F)
        BY <1>1, <1>4
      <3>2. Len(F) = 1
        BY <1>1, <2>1, <3>1, FramedAt, Wired
      <3>3. Len(sm) = 0
        <4> DEFINE k == Len(sm)  n == Len(F)
        <4>1. n = k + 1 /\ n = 1 /\ k \in Nat
          BY <1>1, <1>4, <3>2
        <4> HIDE DEF k, n
        <4>2. k = 0
          BY <4>1
        <4> QED
          BY <4>2 DEF k
      <3>4. MaxFrames \in Nat
        BY Sizes
      <3> QED
        BY <3>3, <3>4
    <2> QED
      BY <1>1, <2>1
  <1> HIDE DEF m, l
  <1>6. /\ Len(s) = Len(sm) + 1 /\ s[Len(sm) + 1] = m
        /\ \A i \in 1 .. Len(sm) : s[i] = sm[i]
    BY <1>3, AppendProperties
  <1> HIDE DEF s
  <1>7. \A i \in 1 .. Len(s) : s[i] = Text(F[i])
    <2> SUFFICES ASSUME NEW i \in 1 .. Len(sm) + 1
                 PROVE  s[i] = Text(F[i])
      BY <1>6
    <2>1. CASE i = Len(sm) + 1
      BY <1>1, <1>2, <1>6, <2>1
    <2>2. CASE i # Len(sm) + 1
      <3>1. i \in 1 .. Len(sm)
        BY <1>4, <2>2
      <3> QED
        BY <1>1, <1>6, <3>1
    <2> QED
      BY <2>1, <2>2
  <1>8. v + l = Len(W) /\ v + l \in Nat /\ Len(F) = Len(s) + 0
    BY <1>1, <1>4, <1>6
  <1>9. Sending(F, W, v + l, "idle", <<>>, frame, s)
    BY <1>7, <1>8 DEF Sending
  <1> QED
    BY <1>3, <1>5, <1>9 DEF m, s, l

--------------------------------------------------------------------------------
(* The receiver's steps.                                                   *)

\* Some of the octets in TCP are lost, or none.
LEMMA CutsShort ==
  ASSUME NEW F, NEW P, NEW W, NEW v, NEW pc, NEW want, NEW has, NEW octets, NEW broken, NEW gm,
         Framed(F, P, W), Receiving(F, P, W, v, pc, want, has, octets, broken, gm),
         Len(gm) \in Nat, Len(gm) <= Len(F), v \in Nat,
         NEW n \in Nat, n <= Len(octets)
  PROVE  /\ Receiving(F, P, W, v, pc, want, has, octets, TRUE, gm)
         /\ Receiving(F, P, W, v, pc, want, has, SubSeq(octets, 1, n), TRUE, gm)
  <1> DEFINE o == Taken(P, pc, gm)  x == SubSeq(octets, 1, n)
  <1>1. /\ pc # "bad"
        /\ pc \notin Reading => want = 0 /\ has = <<>>
        /\ pc = "uid" => gm = <<>> /\ want = Len(UserId)
        /\ pc = "length" => gm # <<>> /\ want = 2
        /\ pc = "frame" => /\ gm # <<>> /\ Len(gm) + 1 <= Len(F)
                           /\ want = Len(Body(F[Len(gm) + 1]))
        /\ pc \in Reading => /\ Holds(has, W, o) /\ Holds(octets, W, o + Len(has))
                             /\ o + Len(has) + Len(octets) <= v
    BY DEF Receiving
  <1>2. o \in Nat
    BY TakenIs
  <1> HIDE DEF o, x
  <1>3. pc \in Reading => Holds(x, W, o + Len(has)) /\ Len(x) = n
    BY <1>1, HoldsSplit DEF x
  <1>4. pc \in Reading => o + Len(has) + Len(x) <= v
    <2> SUFFICES ASSUME pc \in Reading
                 PROVE  o + Len(has) + Len(x) <= v
      OBVIOUS
    <2>1. Len(has) \in Nat /\ Len(octets) \in Nat
      BY <1>1, OctetsLen DEF Holds
    <2>2. Len(x) = n /\ o + Len(has) + Len(octets) <= v
      BY <1>1, <1>3
    <2> QED
      BY <1>2, <2>1, <2>2
  <1> QED
    BY <1>1, <1>3, <1>4 DEF Receiving, o, x

\* read_exact gets some octets.
LEMMA ReadsSome ==
  ASSUME NEW F, NEW P, NEW W, NEW v, NEW pc, NEW want, NEW has, NEW octets, NEW broken, NEW gm,
         Framed(F, P, W), Receiving(F, P, W, v, pc, want, has, octets, broken, gm),
         Len(gm) \in Nat, Len(gm) <= Len(F), pc \in Reading,
         NEW n \in Nat, n <= Len(octets)
  PROVE  /\ Receiving(F, P, W, v, pc, want, has \o SubSeq(octets, 1, n),
                      SubSeq(octets, n + 1, Len(octets)), broken, gm)
         /\ Len(has \o SubSeq(octets, 1, n)) = Len(has) + n
  <1> DEFINE o == Taken(P, pc, gm)  x == SubSeq(octets, 1, n)
             y == SubSeq(octets, n + 1, Len(octets))  z == has \o x
  <1>1. /\ pc # "bad"
        /\ pc = "uid" => gm = <<>> /\ want = Len(UserId)
        /\ pc = "length" => gm # <<>> /\ want = 2
        /\ pc = "frame" => /\ gm # <<>> /\ Len(gm) + 1 <= Len(F)
                           /\ want = Len(Body(F[Len(gm) + 1]))
        /\ Holds(has, W, o) /\ Holds(octets, W, o + Len(has))
        /\ o + Len(has) + Len(octets) <= v
        /\ ~broken => o + Len(has) + Len(octets) = v
    BY DEF Receiving
  <1>2. o \in Nat
    BY TakenIs
  <1> HIDE DEF o, x, y
  <1>3. /\ Holds(x, W, o + Len(has)) /\ Len(x) = n
        /\ Holds(y, W, o + Len(has) + n) /\ Len(y) = Len(octets) - n
    BY <1>1, HoldsSplit DEF x, y
  <1>4. Holds(z, W, o) /\ Len(z) = Len(has) + n
    BY <1>1, <1>3, HoldsJoined
  <1> HIDE DEF z
  <1>5. Len(has) \in Nat /\ Len(octets) \in Nat
    BY <1>1, OctetsLen DEF Holds
  <1>6. o + Len(has) + n = o + Len(z) /\ o + Len(z) + Len(y) = o + Len(has) + Len(octets)
    BY <1>2, <1>3, <1>4, <1>5
  <1>7. /\ Holds(y, W, o + Len(z))
        /\ o + Len(z) + Len(y) <= v
        /\ ~broken => o + Len(z) + Len(y) = v
    BY <1>1, <1>3, <1>6
  <1> QED
    BY <1>1, <1>4, <1>7 DEF Receiving, o, x, y, z

\* A message all of which is received is written in full, and is the one that is
\* sent at its place.
LEMMA Complete ==
  ASSUME NEW F, NEW P, NEW W, NEW v, NEW pc, NEW left, NEW frame, NEW sm \in Seq(Messages),
         Framed(F, P, W), Sending(F, W, v, pc, left, frame, sm),
         pc \in {"uid", "idle", "header", "body"},
         NEW k \in 1 .. Len(F), P[k + 1] <= v
  PROVE  k <= Len(sm) /\ sm[k] = Text(F[k])
  <1> DEFINE n == Len(F)  s == Len(sm)  w == Len(W)  l == Len(left)
  <1>1. n \in Nat /\ s \in Nat /\ P[n + 1] = w /\ w \in Nat /\ v \in Nat
    BY Lengths, OctetsLen DEF Framed, Sending
  <1>2. \A i \in 1 .. s : sm[i] = Text(F[i])
    BY DEF Sending
  <1>3. k <= s
    <2>1. CASE pc = "idle"
      <3>1. n = s + 0
        BY <2>1 DEF Sending
      <3> HIDE DEF n, s
      <3> QED
        BY <1>1, <3>1 DEF n
    <2>2. CASE pc # "idle"
      <3>1. n = s + 1 /\ l >= 1 /\ l \in Nat
        BY <2>2, OctetsLen DEF Sending, Holds
      <3>2. v < w
        <4>1. CASE pc = "header"
          <5> DEFINE b == Len(Body(frame))
          <5>1. b \in Nat /\ v + l + b = w
            BY <4>1, Sent DEF Sending
          <5> HIDE DEF b, l, w
          <5> QED
            BY <1>1, <3>1, <5>1
        <4>2. CASE pc \in {"uid", "body"}
          <5>1. v + l = w
            BY <4>2 DEF Sending
          <5> HIDE DEF l, w
          <5> QED
            BY <1>1, <3>1, <5>1
        <4> QED
          BY <2>2, <4>1, <4>2
      <3> HIDE DEF n, s, w
      <3>3. k # n
        BY <1>1, <3>2
      <3> QED
        BY <1>1, <3>1, <3>3 DEF n
    <2> QED
      BY <2>1, <2>2
  <1>4. k \in 1 .. s
    BY <1>1, <1>3
  <1> QED
    BY <1>2, <1>3, <1>4

\* The receiver goes on to the next message.
LEMMA NextMessage ==
  ASSUME NEW F, NEW P, NEW W, NEW v, NEW octets, NEW broken \in BOOLEAN, NEW gm \in Seq(Messages),
         NEW m \in Messages,
         Framed(F, P, W), Len(gm) + 1 \in 1 .. Len(F), v \in Nat,
         LET o == P[Len(gm) + 2] IN
           /\ Holds(octets, W, o)
           /\ o + Len(octets) <= v
           /\ ~broken => o + Len(octets) = v
  PROVE  /\ Receiving(F, P, W, v, "length", 2, <<>>, octets, broken, Append(gm, m))
         /\ P[Len(gm) + 2] <= v
  <1> DEFINE g == Append(gm, m)  o == P[Len(gm) + 2]
  <1>1. g # <<>> /\ Len(g) = Len(gm) + 1
    BY AppendProperties
  <1>2. Len(gm) \in Nat
    BY Lengths
  <1>3. o \in Nat
    <2>1. P[(Len(gm) + 1) + 1] \in Nat
      BY FramedAt
    <2>2. (Len(gm) + 1) + 1 = Len(gm) + 2
      BY <1>2
    <2> QED
      BY <2>1, <2>2
  <1>4. /\ Holds(octets, W, o) /\ o + Len(octets) <= v
        /\ ~broken => o + Len(octets) = v
    OBVIOUS
  <1> HIDE DEF g
  <1>5. Len(g) + 1 = Len(gm) + 2
    BY <1>1, <1>2
  <1>6. Taken(P, "length", g) = o
    <2>1. Taken(P, "length", g) = P[Len(gm) + 2] + 0
      BY <1>5 DEF Taken
    <2> QED
      BY <1>3, <2>1
  <1> HIDE DEF o
  <1>7. Len(octets) \in Nat /\ o <= Len(W) /\ W \in Octets
    <2>1. Len(octets) \in Nat /\ o + Len(octets) <= Len(W) /\ W \in Octets
      BY <1>4, OctetsLen DEF Holds, Framed
    <2>2. Len(W) \in Nat
      BY <2>1, OctetsLen
    <2> QED
      BY <1>3, <2>1, <2>2
  <1>8. Len(<<>>) = 0 /\ Holds(<<>>, W, o)
    BY <1>3, <1>7, HoldsNone
  <1>9. o + 0 = o /\ o <= v
    BY <1>3, <1>4, <1>7
  <1>10. /\ Holds(octets, W, o + Len(<<>>)) /\ o + Len(<<>>) + Len(octets) <= v
         /\ ~broken => o + Len(<<>>) + Len(octets) = v
    BY <1>4, <1>8, <1>9
  <1>11. Receiving(F, P, W, v, "length", 2, <<>>, octets, broken, g)
    BY <1>1, <1>6, <1>8, <1>10 DEF Receiving, Reading
  <1> QED
    BY <1>9, <1>11 DEF g, o

\* The user id is received.
LEMMA UsesUid ==
  ASSUME NEW F, NEW P, NEW W, NEW v, NEW pc, NEW left, NEW frame, NEW sm \in Seq(Messages),
         NEW has, NEW octets, NEW broken \in BOOLEAN, NEW gm \in Seq(Messages), NEW want,
         Framed(F, P, W), Sending(F, W, v, pc, left, frame, sm),
         pc \in {"uid", "idle", "header", "body"},
         Receiving(F, P, W, v, "uid", want, has, octets, broken, gm), Len(has) = want
  PROVE  /\ Receiving(F, P, W, v, "length", 2, <<>>, octets, broken, Append(gm, Uid))
         /\ Len(gm) + 1 <= Len(sm) /\ sm[Len(gm) + 1] = Uid
  <1>1. gm = <<>> /\ Len(gm) = 0 /\ Len(has) = Len(UserId)
    BY EmptySeq DEF Receiving
  <1>2. Taken(P, "uid", gm) = P[1] + 0 /\ P[1] = 0 /\ Len(F) >= 1 /\ Len(F) \in Nat /\ v \in Nat
    BY <1>1, Lengths DEF Taken, Framed, Sending
  <1> DEFINE o == Taken(P, "uid", gm)  l == Len(UserId)
  <1>3. o = 0 /\ 1 \in 1 .. Len(F)
    BY <1>2
  <1>4. /\ Holds(octets, W, o + l)
        /\ o + l + Len(octets) <= v
        /\ ~broken => o + l + Len(octets) = v
    BY <1>1 DEF Receiving, Reading
  <1>5. F[1] = Uid /\ P[1 + 1] = P[1] + Len(Wire(F[1]))
    BY <1>3, FramedAt
  <1>6. P[2] = l /\ l \in Nat
    BY <1>2, <1>5, Wired
  <1> HIDE DEF o, l
  <1>7. o + l = P[2]
    BY <1>3, <1>6
  <1>8. Uid \in Messages
    BY DEF Messages
  <1>9. Len(gm) + 1 \in 1 .. Len(F) /\ Len(gm) + 2 = 2
    BY <1>1, <1>3
  <1>10. /\ Receiving(F, P, W, v, "length", 2, <<>>, octets, broken, Append(gm, Uid))
         /\ P[Len(gm) + 2] <= v
    <2>1. /\ Holds(octets, W, P[Len(gm) + 2])
          /\ P[Len(gm) + 2] + Len(octets) <= v
          /\ ~broken => P[Len(gm) + 2] + Len(octets) = v
      BY <1>4, <1>7, <1>9
    <2> QED
      BY <1>2, <1>8, <1>9, <2>1, NextMessage
  <1>11. 1 <= Len(sm) /\ sm[1] = Text(F[1])
    <2>1. P[1 + 1] <= v
      BY <1>9, <1>10
    <2> QED
      BY <1>3, <2>1, Complete
  <1> QED
    BY <1>1, <1>5, <1>10, <1>11 DEF Text

\* The place of the message that is being received.
LEMMA Within ==
  ASSUME NEW F, NEW P, NEW W, NEW v, NEW pc, NEW left, NEW frame, NEW sm \in Seq(Messages),
         NEW has, NEW octets, NEW broken \in BOOLEAN, NEW gm \in Seq(Messages), NEW want,
         Framed(F, P, W), Sending(F, W, v, pc, left, frame, sm),
         pc \in {"uid", "idle", "header", "body"}, Received(gm, sm),
         Receiving(F, P, W, v, "length", want, has, octets, broken, gm), Len(has) = want
  PROVE  Len(gm) + 1 \in 2 .. Len(F) /\ v \in Nat
  <1> DEFINE k == Len(gm) + 1  n == Len(F)  w == Len(W)
  <1>1. gm # <<>> /\ Len(has) = 2
    BY DEF Receiving
  <1>2. Len(gm) \in Nat /\ Len(gm) # 0 /\ Len(gm) <= Len(sm) /\ Len(sm) \in Nat
    BY <1>1, EmptySeq, Lengths DEF Received
  <1>3. n \in Nat /\ w \in Nat /\ P[n + 1] = w /\ v \in Nat
    BY Lengths, OctetsLen DEF Framed, Sending
  <1>4. n = Len(sm) \/ n = Len(sm) + 1
    <2>1. CASE pc = "idle"
      <3>1. n = Len(sm) + 0
        BY <2>1 DEF Sending
      <3> HIDE DEF n
      <3> QED
        BY <1>2, <3>1
    <2>2. CASE pc # "idle"
      BY <2>2 DEF Sending
    <2> QED
      BY <2>1, <2>2
  <1>5. k <= n + 1 /\ k >= 2 /\ Len(gm) <= n
    <2> HIDE DEF n
    <2> QED
      BY <1>2, <1>3, <1>4
  <1>6. P[k] \in Nat /\ Taken(P, "length", gm) = P[k] + 0
    <2>1. Len(gm) \in Nat /\ Len(gm) <= Len(F)
      BY <1>2, <1>5
    <2> QED
      BY <2>1, TakenIs DEF Taken
  <1>7. Holds(has, W, P[k])
    <2>1. Holds(has, W, Taken(P, "length", gm))
      BY DEF Receiving, Reading
    <2>2. Taken(P, "length", gm) = P[k]
      BY <1>6
    <2> HIDE DEF k
    <2> QED
      BY <2>1, <2>2
  <1>8. P[k] + 2 <= w
    BY <1>1, <1>7 DEF Holds
  <1> HIDE DEF k, n, w
  <1>9. k # n + 1
    BY <1>3, <1>6, <1>8
  <1>10. k \in 2 .. n
    <2>1. k \in Nat
      BY <1>2 DEF k
    <2> QED
      BY <1>3, <1>5, <1>9, <2>1
  <1> QED
    BY <1>3, <1>10 DEF k, n

\* The length is received.
LEMMA UsesLength ==
  ASSUME NEW F, NEW P, NEW W, NEW v, NEW pc, NEW left, NEW frame, NEW sm \in Seq(Messages),
         NEW has, NEW octets, NEW broken \in BOOLEAN, NEW gm \in Seq(Messages), NEW want,
         Framed(F, P, W), Sending(F, W, v, pc, left, frame, sm),
         pc \in {"uid", "idle", "header", "body"}, Received(gm, sm),
         Receiving(F, P, W, v, "length", want, has, octets, broken, gm), Len(has) = want
  PROVE  /\ Receiving(F, P, W, v, "frame", Value(has, 1), <<>>, octets, broken, gm)
         /\ Value(has, 1) \in 0 .. Base * Base - 1
  <1> DEFINE k == Len(gm) + 1  f == F[k]  o == Taken(P, "length", gm)
  <1>1. k \in 2 .. Len(F) /\ k \in 1 .. Len(F) /\ v \in Nat
    <2>1. k \in 2 .. Len(F) /\ v \in Nat
      BY Within
    <2>2. Len(F) \in Nat
      BY Lengths DEF Framed
    <2> HIDE DEF k
    <2> QED
      BY <2>1, <2>2
  <1>2. gm # <<>> /\ Len(has) = 2
    BY DEF Receiving
  <1>3. /\ Holds(has, W, o) /\ Holds(octets, W, o + Len(has))
        /\ o + Len(has) + Len(octets) <= v
        /\ ~broken => o + Len(has) + Len(octets) = v
    BY DEF Receiving, Reading
  <1>4. /\ f \in Frames /\ P[k] \in Nat
        /\ P[k + 1] = P[k] + Len(Wire(f)) /\ Holds(Wire(f), W, P[k])
    <2>1. k # 1
      BY <1>1
    <2> QED
      BY <1>1, <2>1, FramedAt
  <1>5. o = P[k]
    <2>1. o = P[k] + 0
      BY DEF Taken
    <2> HIDE DEF o, k
    <2> QED
      BY <1>4, <2>1
  <1>6. Taken(P, "frame", gm) = P[k] + 2
    BY DEF Taken
  <1> HIDE DEF o, k
  <1>7. /\ Len(Wire(f)) = 2 + Len(Body(f)) /\ \A j \in 1 .. 2 : Wire(f)[j] = Header(f)[j]
        /\ Len(Body(f)) \in Nat /\ Len(Body(f)) < Base * Base /\ Base * Base \in Nat
        /\ Header(f)[1] * Base + Header(f)[2] = Len(Body(f))
    BY <1>4, Wired, Sent, Headed, Sizes
  <1>8. \A j \in 1 .. 2 : has[j] = Header(f)[j]
    <2>1. \A j \in 1 .. 2 : has[j] = W[P[k] + j]
      BY <1>2, <1>3, <1>5 DEF Holds
    <2>2. \A j \in 1 .. Len(Wire(f)) : Wire(f)[j] = W[P[k] + j]
      BY <1>4 DEF Holds
    <2>3. \A j \in 1 .. 2 : j \in 1 .. Len(Wire(f))
      BY <1>7
    <2> QED
      BY <1>7, <2>1, <2>2, <2>3
  <1>9. Value(has, 1) = Len(Body(f))
    <2>1. Value(has, 1) = has[1] * Base + has[2]
      BY DEF Value
    <2>2. has[1] = Header(f)[1] /\ has[2] = Header(f)[2]
      BY <1>8
    <2> QED
      BY <1>7, <2>1, <2>2
  <1> DEFINE z == P[k] + 2
  <1>10. /\ Holds(octets, W, z) /\ z + Len(octets) <= v
         /\ ~broken => z + Len(octets) = v
    BY <1>2, <1>3, <1>5
  <1>11. z \in Nat /\ z <= Len(W) /\ W \in Octets
    <2>1. z \in Nat /\ z + Len(octets) <= Len(W) /\ Len(octets) \in Nat /\ W \in Octets
      BY <1>4, <1>10, OctetsLen DEF Holds, Framed
    <2>2. Len(W) \in Nat
      BY <2>1, OctetsLen
    <2> HIDE DEF z
    <2> QED
      BY <2>1, <2>2
  <1> HIDE DEF z
  <1>12. Len(<<>>) = 0 /\ Holds(<<>>, W, z) /\ z + 0 = z
    BY <1>11, HoldsNone
  <1>13. /\ Holds(octets, W, z + Len(<<>>)) /\ z + Len(<<>>) + Len(octets) <= v
         /\ ~broken => z + Len(<<>>) + Len(octets) = v
    BY <1>10, <1>12
  <1>14. Len(gm) + 1 <= Len(F) /\ Value(has, 1) = Len(Body(F[Len(gm) + 1]))
    BY <1>1, <1>9 DEF k
  <1>15. Receiving(F, P, W, v, "frame", Value(has, 1), <<>>, octets, broken, gm)
    BY <1>2, <1>6, <1>12, <1>13, <1>14 DEF Receiving, Reading, z
  <1>16. Value(has, 1) \in 0 .. Base * Base - 1
    <2> DEFINE b == Len(Body(f))  q == Base * Base
    <2>1. b \in Nat /\ q \in Nat /\ b < q /\ Value(has, 1) = b
      BY <1>7, <1>9
    <2> HIDE DEF b, q
    <2>2. Value(has, 1) \in 0 .. q - 1
      BY <2>1
    <2> QED
      BY <2>2 DEF q
  <1> QED
    BY <1>15, <1>16

\* A frame is received.
LEMMA UsesFrame ==
  ASSUME NEW F, NEW P, NEW W, NEW v, NEW pc, NEW left, NEW frame, NEW sm \in Seq(Messages),
         NEW has, NEW octets, NEW broken \in BOOLEAN, NEW gm \in Seq(Messages), NEW want,
         Framed(F, P, W), Sending(F, W, v, pc, left, frame, sm),
         pc \in {"uid", "idle", "header", "body"},
         Receiving(F, P, W, v, "frame", want, has, octets, broken, gm), Len(has) = want
  PROVE  /\ Receives(has) \in Frames
         /\ Receiving(F, P, W, v, "length", 2, <<>>, octets, broken,
                      Append(gm, Message(Receives(has))))
         /\ Len(gm) + 1 <= Len(sm) /\ sm[Len(gm) + 1] = Message(Receives(has))
  <1> DEFINE k == Len(gm) + 1  f == F[k]  o == Taken(P, "frame", gm)
  <1>1. gm # <<>> /\ k <= Len(F) /\ Len(has) = Len(Body(f))
    BY DEF Receiving
  <1>2. k \in 1 .. Len(F) /\ k # 1 /\ v \in Nat /\ Len(gm) \in Nat
    <2>1. Len(gm) \in Nat /\ Len(gm) # 0 /\ Len(F) \in Nat /\ v \in Nat
      BY <1>1, EmptySeq, Lengths DEF Framed, Sending
    <2> QED
      BY <1>1, <2>1
  <1>3. /\ Holds(has, W, o) /\ Holds(octets, W, o + Len(has))
        /\ o + Len(has) + Len(octets) <= v
        /\ ~broken => o + Len(has) + Len(octets) = v
    BY DEF Receiving, Reading
  <1>4. o = P[k] + 2
    BY DEF Taken
  <1>e. (Len(gm) + 1) + 1 = Len(gm) + 2
    BY <1>2
  <1> HIDE DEF o
  <1>5. /\ f \in Frames /\ P[k] \in Nat
        /\ P[k + 1] = P[k] + Len(Wire(f)) /\ Holds(Wire(f), W, P[k])
    BY <1>2, FramedAt
  <1>6. /\ Len(Wire(f)) = 2 + Len(Body(f)) /\ Body(f) \in Octets /\ Len(Body(f)) \in Nat
        /\ f # Uid /\ Receives(Body(f)) = f
        /\ \A j \in 1 .. Len(Body(f)) : Wire(f)[2 + j] = Body(f)[j]
    BY <1>5, Wired, Sent
  <1>m. Message(f) \in Messages
    BY <1>5 DEF Messages
  <1> HIDE DEF k, f
  <1>7. Holds(Body(f), W, o)
    <2> DEFINE l == Len(Body(f))
    <2>1. \A j \in 1 .. l : Body(f)[j] = W[o + j]
      <3> SUFFICES ASSUME NEW j \in 1 .. l
                   PROVE  Body(f)[j] = W[o + j]
        OBVIOUS
      <3>1. l \in Nat /\ Len(Wire(f)) = 2 + l
        BY <1>6
      <3> HIDE DEF l
      <3>2. 2 + j \in 1 .. Len(Wire(f)) /\ P[k] + (2 + j) = o + j
        <4> DEFINE c == P[k]
        <4>1. c \in Nat /\ o = c + 2
          BY <1>4, <1>5
        <4>2. j \in Nat /\ 2 + j \in 1 .. Len(Wire(f))
          BY <3>1
        <4> HIDE DEF c
        <4>3. c + (2 + j) = o + j
          BY <4>1, <4>2
        <4> QED
          BY <4>2, <4>3 DEF c
      <3>3. Wire(f)[2 + j] = W[P[k] + (2 + j)]
        BY <1>5, <3>2 DEF Holds
      <3> QED
        BY <1>6, <3>2, <3>3 DEF l
    <2>2. o \in Nat /\ o + l <= Len(W)
      <3>1. l = Len(has)
        BY <1>1 DEF f
      <3>2. o \in Nat /\ o + Len(has) <= Len(W)
        BY <1>3 DEF Holds
      <3> QED
        BY <3>1, <3>2
    <2> QED
      BY <1>6, <2>1, <2>2 DEF Holds
  <1>8. has = Body(f)
    <2>1. Len(has) = Len(Body(f))
      BY <1>1 DEF f
    <2> QED
      BY <1>3, <1>7, <2>1, HoldsSame
  <1>9. Receives(has) = f
    BY <1>6, <1>8
  <1>10. o + Len(has) = P[k + 1]
    <2> DEFINE l == Len(Body(f))  w == Len(Wire(f))  c == P[k]  d == P[k + 1]
    <2>1. l \in Nat /\ w = 2 + l /\ Len(has) = l /\ d = c + w /\ c \in Nat /\ o = c + 2
      BY <1>4, <1>5, <1>6, <1>8
    <2> HIDE DEF l, w, c, d
    <2>2. o + Len(has) = d
      BY <2>1
    <2> QED
      BY <2>2 DEF d
  <1>11. k + 1 = Len(gm) + 2
    BY <1>e DEF k
  <1>12. /\ Receiving(F, P, W, v, "length", 2, <<>>, octets, broken, Append(gm, Message(f)))
         /\ P[Len(gm) + 2] <= v
    <2>1. /\ Holds(octets, W, P[Len(gm) + 2])
          /\ P[Len(gm) + 2] + Len(octets) <= v
          /\ ~broken => P[Len(gm) + 2] + Len(octets) = v
      BY <1>3, <1>10, <1>11
    <2>2. Len(gm) + 1 \in 1 .. Len(F)
      BY <1>2 DEF k
    <2> QED
      BY <1>2, <1>m, <2>1, <2>2, NextMessage
  <1>13. k <= Len(sm) /\ sm[k] = Text(F[k])
    <2>1. P[k + 1] <= v
      BY <1>11, <1>12
    <2> QED
      BY <1>2, <2>1, Complete
  <1>14. Text(F[k]) = Message(f)
    BY <1>6 DEF Text, f
  <1> QED
    BY <1>5, <1>9, <1>12, <1>13, <1>14 DEF k

--------------------------------------------------------------------------------
(* The invariant.                                                          *)

LEMMA InitLink ==
  ASSUME Init
  PROVE  LinkInv
  <1> DEFINE l == Len(UserId)  F == <<Uid>>  P == <<0, l>>  v == 0
  <1>1. /\ Wire(Uid) = UserId /\ UserId \in Octets /\ l \in Nat /\ l >= 1 /\ l < Base * Base
        /\ Base * Base \in Nat /\ MaxFrames \in Nat /\ FragBytes \in Nat /\ Buffered \in Nat
    BY Wired, Sizes
  <1>2. /\ writer = [pc |-> "uid", left |-> UserId, frame |-> Uid] /\ frag = FragBytes
        /\ net = <<>> /\ cut = "no"
        /\ reader = [pc |-> "uid", want |-> l, has |-> <<>>]
        /\ sent = <<>> /\ got = <<>>
    BY DEF Init
  <1>3. /\ Len(<<>>) = 0 /\ <<>> \in Octets /\ <<>> \in Seq(Messages)
        /\ Holds(<<>>, UserId, 0)
    <2>1. 0 <= l /\ 0 \in Nat
      BY <1>1
    <2> QED
      BY <1>1, <2>1, EmptySeq, HoldsNone DEF Octets
  <1>4. Holds(UserId, UserId, 0)
    <2>1. 0 + l <= l /\ \A j \in 1 .. l : 0 + j = j
      BY <1>1
    <2> QED
      BY <1>1, <2>1 DEF Holds
  <1> HIDE DEF l
  <1>5. LinkTypes
    <2>1. l \in 0 .. Base * Base - 1
      <3> DEFINE b == Base * Base
      <3>1. l \in Nat /\ l < b /\ b \in Nat
        BY <1>1
      <3> HIDE DEF b
      <3>2. l \in 0 .. b - 1
        BY <3>1
      <3> QED
        BY <3>2 DEF b
    <2>2. writer \in [pc : {"uid", "idle", "header", "body"}, left : Octets, frame : Msgs]
      BY <1>1, <1>2 DEF Msgs
    <2>3. reader \in [pc : {"uid", "length", "frame", "bad", "end", "error"},
                      want : 0 .. Base * Base - 1, has : Octets]
      BY <1>2, <1>3, <2>1
    <2>4. frag \in 0 .. FragBytes /\ Len(net) <= Buffered /\ Len(sent) <= MaxFrames + 1
      BY <1>1, <1>2, <1>3
    <2>5. Len(reader.has) <= reader.want
      BY <1>1, <1>2, <1>3
    <2> QED
      BY <1>2, <1>3, <2>2, <2>3, <2>4, <2>5 DEF LinkTypes
  <1>6. Framed(F, P, UserId)
    <2>1. /\ F \in Seq(Msgs) /\ Len(F) = 1 /\ F[1] = Uid
      BY DEF Msgs
    <2>2. P \in Seq(Nat) /\ Len(P) = 2 /\ P[1] = 0 /\ P[2] = l
      BY <1>1
    <2>3. P[1 + 1] = P[1] + Len(Wire(F[1])) /\ Holds(Wire(F[1]), UserId, P[1])
      <3>1. P[1 + 1] = l /\ P[1] + Len(Wire(F[1])) = l
        BY <1>1, <2>1, <2>2 DEF l
      <3> QED
        BY <1>1, <1>4, <2>1, <2>2, <3>1
    <2> HIDE DEF F, P
    <2>4. \A i \in 1 .. Len(F) : i = 1
      BY <2>1
    <2>5. Len(F) >= 1 /\ Len(P) = Len(F) + 1 /\ P[Len(F) + 1] = Len(UserId)
      BY <2>1, <2>2 DEF l
    <2>6. \A i \in 2 .. Len(F) : F[i] \in Frames
      BY <2>1
    <2>7. \A i \in 1 .. Len(F) : P[i + 1] = P[i] + Len(Wire(F[i])) /\ Holds(Wire(F[i]), UserId, P[i])
      BY <2>3, <2>4
    <2> QED
      BY <1>1, <2>1, <2>2, <2>5, <2>6, <2>7 DEF Framed
  <1>7. Sending(F, UserId, v, writer.pc, writer.left, writer.frame, sent)
    <2>1. /\ writer.pc = "uid" /\ writer.left = UserId /\ writer.frame = Uid /\ Len(sent) = 0
      BY <1>2, <1>3
    <2>2. Len(F) = 1 /\ F[1] = Uid
      OBVIOUS
    <2> HIDE DEF F
    <2>3. Len(F) = Len(sent) + 1 /\ \A i \in 1 .. Len(sent) : sent[i] = Text(F[i])
      BY <2>1, <2>2
    <2>4. v \in Nat /\ v + Len(UserId) = Len(UserId) /\ Len(UserId) >= 1
      BY <1>1 DEF l
    <2> HIDE DEF v
    <2>5. Holds(UserId, UserId, v)
      BY <1>4 DEF v
    <2> QED
      BY <2>1, <2>2, <2>3, <2>4, <2>5 DEF Sending
  <1>8. Receiving(F, P, UserId, v, reader.pc, reader.want, reader.has, net, cut # "no", got)
    <2>1. reader.pc = "uid" /\ reader.want = Len(UserId) /\ reader.has = <<>>
      BY <1>2 DEF l
    <2>2. Taken(P, "uid", <<>>) = 0
      <3>1. P[1] = 0
        OBVIOUS
      <3> HIDE DEF P
      <3>2. Taken(P, "uid", <<>>) = P[0 + 1] + 0
        BY <1>3 DEF Taken
      <3> QED
        BY <3>1, <3>2
    <2>3. 0 + Len(<<>>) = 0 /\ 0 + Len(<<>>) + Len(<<>>) = v /\ 0 + Len(<<>>) + Len(<<>>) <= v
      BY <1>3
    <2> HIDE DEF P, F, v
    <2>4. /\ Holds(reader.has, UserId, 0) /\ Holds(net, UserId, 0 + Len(reader.has))
          /\ 0 + Len(reader.has) + Len(net) <= v /\ 0 + Len(reader.has) + Len(net) = v
      BY <1>2, <1>3, <2>1, <2>3
    <2>5. Taken(P, reader.pc, got) = 0
      BY <1>2, <2>1, <2>2
    <2> QED
      BY <1>2, <2>1, <2>4, <2>5 DEF Receiving, Reading
  <1>9. Received(got, sent)
    BY <1>2, <1>3 DEF Received
  <1> QED
    BY <1>5, <1>6, <1>7, <1>8, <1>9 DEF LinkInv

LEMMA NextFrameLink ==
  ASSUME LinkInv, NextFrame
  PROVE  LinkInv' /\ sent' = sent /\ got' = got /\ cut' = cut
  <1>1. PICK f \in Frames : writer' = [pc |-> "header", left |-> Header(f), frame |-> f]
    BY DEF NextFrame, Frames
  <1>2. /\ writer.pc = "idle" /\ cut = "no" /\ Len(sent) <= MaxFrames
        /\ frag' = frag /\ net' = net /\ cut' = cut /\ reader' = reader /\ sent' = sent /\ got' = got
    BY DEF NextFrame
  <1>3. /\ LinkTypes /\ Received(got, sent)
        /\ Len(got) \in Nat /\ Len(sent) \in Nat
    BY Lengths DEF LinkInv, LinkTypes
  <1>4. PICK F, P, W, v :
          /\ Framed(F, P, W)
          /\ Sending(F, W, v, writer.pc, writer.left, writer.frame, sent)
          /\ Receiving(F, P, W, v, reader.pc, reader.want, reader.has, net, cut # "no", got)
    BY DEF LinkInv
  <1>5. \E G, Q, V :
          /\ Framed(G, Q, V)
          /\ Sending(G, V, v, "header", Header(f), f, sent)
          /\ Receiving(G, Q, V, v, reader.pc, reader.want, reader.has, net, cut # "no", got)
    <2>1. Sending(F, W, v, "idle", writer.left, writer.frame, sent)
      BY <1>2, <1>4
    <2> QED
      BY <1>2, <1>3, <1>4, <2>1, FrameStarts
  <1>6. writer'.pc = "header" /\ writer'.left = Header(f) /\ writer'.frame = f
    BY <1>1
  <1>7. \E G, Q, V :
          /\ Framed(G, Q, V)
          /\ Sending(G, V, v, writer'.pc, writer'.left, writer'.frame, sent')
          /\ Receiving(G, Q, V, v, reader'.pc, reader'.want, reader'.has, net', cut' # "no", got')
    BY <1>2, <1>5, <1>6
  <1>8. LinkTypes'
    <2>1. writer' \in [pc : {"uid", "idle", "header", "body"}, left : Octets, frame : Msgs]
      BY <1>1, Headed DEF Msgs
    <2> QED
      BY <1>2, <1>3, <2>1 DEF LinkTypes
  <1> QED
    BY <1>2, <1>3, <1>7, <1>8 DEF LinkInv, Received

LEMMA PollWriteLink ==
  ASSUME LinkInv, PollWrite
  PROVE  /\ LinkInv' /\ got' = got /\ cut' = cut
         /\ \/ sent' = sent
            \/ cut = "no" /\ \E m \in Messages : sent' = Append(sent, m)
  <1> DEFINE pc == writer.pc  left == writer.left  frame == writer.frame  l == Len(left)
             x(n) == SubSeq(left, 1, n)
             m == IF frame = Uid THEN Uid ELSE Message(frame)
  <1>1. PICK n \in 1 .. Min(Chunk(Len(writer.left)), Buffered - Len(net)) :
          /\ net' = net \o x(n)
          /\ frag' = frag - Min(frag, n)
          /\ writer' = AfterWrite(n)
          /\ sent' = IF writer'.pc = "idle" THEN Append(sent, m) ELSE sent
    BY DEF PollWrite
  <1>2. pc # "idle" /\ cut = "no" /\ cut' = cut /\ reader' = reader /\ got' = got
    BY DEF PollWrite
  <1>3. /\ LinkTypes /\ Received(got, sent)
        /\ Len(got) \in Nat /\ Len(sent) \in Nat /\ sent \in Seq(Messages)
    BY Lengths DEF LinkInv, LinkTypes
  <1>4. PICK F, P, W, v :
          /\ Framed(F, P, W)
          /\ Sending(F, W, v, pc, left, frame, sent)
          /\ Receiving(F, P, W, v, reader.pc, reader.want, reader.has, net, cut # "no", got)
    BY DEF LinkInv
  <1>5. /\ writer = [pc |-> pc, left |-> left, frame |-> frame]
        /\ pc \in {"uid", "header", "body"} /\ left \in Octets /\ frame \in Msgs
        /\ l \in Nat /\ net \in Octets /\ Len(net) \in Nat /\ frag \in Nat /\ frag <= FragBytes
        /\ Buffered \in Nat /\ FragSize \in Nat /\ FragBytes \in Nat
    BY <1>2, <1>3, OctetsLen, Sizes DEF LinkTypes
  <1> HIDE DEF pc, left, frame, m
  <1>6. n \in Nat /\ n >= 1 /\ n <= l /\ Len(net) + n <= Buffered
    <2>1. Chunk(l) \in Nat /\ Chunk(l) <= l
      BY <1>5 DEF Chunk, Min
    <2> DEFINE c == Chunk(l)  a == Buffered - Len(net)  b == Min(c, a)
    <2>2. c \in Nat /\ c <= l /\ a \in Int
      BY <1>5, <2>1
    <2>3. n \in 1 .. b
      BY <1>1 DEF left
    <2> HIDE DEF c
    <2>4. b \in Int /\ b <= c /\ b <= a
      BY <2>2 DEF Min
    <2> HIDE DEF a, b
    <2>5. n \in Nat /\ n >= 1 /\ n <= c /\ n <= a
      BY <2>2, <2>3, <2>4
    <2> QED
      BY <1>5, <2>2, <2>5 DEF a
  <1>7. frag - Min(frag, n) \in 0 .. FragBytes
    BY <1>5, <1>6 DEF Min
  <1>8. Holds(left, W, v)
    BY <1>2, <1>4 DEF Sending
  <1>9. Holds(x(n), W, v) /\ Len(x(n)) = n
    BY <1>6, <1>8, HoldsSplit
  <1> HIDE DEF x
  <1>10. net' \in Octets /\ Len(net') <= Buffered
    <2>1. x(n) \in Octets
      BY <1>9 DEF Holds
    <2>2. net \o x(n) \in Octets /\ Len(net \o x(n)) = Len(net) + Len(x(n))
      BY <1>5, <2>1, JoinedOctets
    <2> QED
      BY <1>1, <1>6, <1>9, <2>2
  <1>11. Receiving(F, P, W, v + n, reader.pc, reader.want, reader.has, net', cut # "no", got)
    <2>1. Len(got) <= Len(F)
      <3> DEFINE k == Len(got)  s == Len(sent)  e == Len(F)
      <3>1. k \in Nat /\ s \in Nat /\ k <= s /\ e = s + 1
        BY <1>2, <1>3, <1>4 DEF Received, Sending
      <3> HIDE DEF k, s, e
      <3>2. k <= e
        BY <3>1
      <3> QED
        BY <3>2 DEF k, e
    <2>2. (cut # "no") = FALSE
      BY <1>2
    <2>3. Receiving(F, P, W, v, reader.pc, reader.want, reader.has, net, FALSE, got)
      BY <1>4, <2>2
    <2>4. Receiving(F, P, W, v + Len(x(n)), reader.pc, reader.want, reader.has, net \o x(n), FALSE, got)
      BY <1>3, <1>4, <1>9, <2>1, <2>3, MoreArrives
    <2> QED
      BY <1>1, <1>9, <2>2, <2>4
  <1>12. Received(got', sent')
    <2>1. CASE sent' = sent
      BY <1>2, <1>3, <2>1 DEF Received
    <2>2. CASE sent' # sent
      <3>1. sent' = Append(sent, m) /\ m \in Messages
        <4>1. m \in Messages
          BY <1>5 DEF m, Messages, Msgs
        <4> QED
          BY <1>1, <2>2, <4>1
      <3>2. /\ Len(sent') = Len(sent) + 1
            /\ \A i \in 1 .. Len(sent) : sent'[i] = sent[i]
        BY <1>3, <3>1, AppendProperties
      <3> DEFINE t == sent'
      <3>3. /\ Len(t) = Len(sent) + 1
            /\ \A i \in 1 .. Len(sent) : t[i] = sent[i]
        BY <3>2
      <3> HIDE DEF t
      <3>4. Len(got) <= Len(sent) /\ \A i \in 1 .. Len(got) : got[i] = sent[i]
        BY <1>3 DEF Received
      <3>5. Len(got) <= Len(t) /\ \A i \in 1 .. Len(got) : i \in 1 .. Len(sent)
        BY <1>3, <3>3, <3>4
      <3>6. Received(got, t)
        BY <3>3, <3>4, <3>5 DEF Received
      <3> QED
        BY <1>2, <3>6 DEF t
    <2> QED
      BY <2>1, <2>2
  <1>13. /\ writer' \in [pc : {"uid", "idle", "header", "body"}, left : Octets, frame : Msgs]
         /\ Sending(F, W, v + n, writer'.pc, writer'.left, writer'.frame, sent')
         /\ sent' = sent \/ \E mm \in Messages : sent' = Append(sent, mm)
         /\ sent' \in Seq(Messages) /\ Len(sent') <= MaxFrames + 1
    <2>1. CASE n < l
      <3> DEFINE y == SubSeq(left, n + 1, Len(left))
      <3>1. writer' = [writer EXCEPT !.left = y]
        <4>1. n < Len(writer.left)
          BY <2>1 DEF left
        <4> QED
          BY <1>1, <4>1 DEF AfterWrite, left
      <3>2. writer' = [pc |-> pc, left |-> y, frame |-> frame]
        BY <1>5, <3>1
      <3>3. y \in Octets
        BY <1>6, <1>8, HoldsSplit DEF Holds
      <3>4. Sending(F, W, v + n, pc, y, frame, sent)
        BY <1>4, <1>5, <1>6, <2>1, WritesSome
      <3> HIDE DEF y
      <3>5. writer'.pc = pc /\ writer'.left = y /\ writer'.frame = frame /\ pc # "idle"
        BY <1>2, <3>2
      <3>6. sent' = sent
        BY <1>1, <3>5
      <3>7. Len(sent) <= MaxFrames + 1
        BY <1>3 DEF LinkTypes
      <3> QED
        BY <1>3, <1>5, <3>2, <3>3, <3>4, <3>5, <3>6, <3>7
    <2>2. CASE ~(n < l) /\ pc = "header"
      <3>1. n = l
        BY <1>5, <1>6, <2>2
      <3>2. writer' = [writer EXCEPT !.pc = "body", !.left = Body(frame)]
        <4>1. ~(n < Len(writer.left)) /\ writer.pc = "header"
          BY <2>2 DEF left, pc
        <4> QED
          BY <1>1, <4>1 DEF AfterWrite, Body, frame
      <3>3. writer' = [pc |-> "body", left |-> Body(frame), frame |-> frame]
        BY <1>5, <3>2
      <3>4. frame \in Frames /\ Body(frame) \in Octets
        BY <1>4, <2>2, Sent DEF Sending
      <3>5. Sending(F, W, v + n, "body", Body(frame), frame, sent)
        BY <1>4, <2>2, <3>1, HeaderWritten
      <3>6. writer'.pc = "body" /\ writer'.left = Body(frame) /\ writer'.frame = frame
        BY <3>3
      <3>7. sent' = sent
        BY <1>1, <3>6
      <3>8. Len(sent) <= MaxFrames + 1
        BY <1>3 DEF LinkTypes
      <3> QED
        BY <1>3, <1>5, <3>3, <3>4, <3>5, <3>6, <3>7, <3>8
    <2>3. CASE ~(n < l) /\ pc # "header"
      <3>1. n = l
        BY <1>5, <1>6, <2>3
      <3>2. writer' = [writer EXCEPT !.pc = "idle", !.left = <<>>]
        <4>1. ~(n < Len(writer.left)) /\ writer.pc # "header"
          BY <2>3 DEF left, pc
        <4> QED
          BY <1>1, <4>1 DEF AfterWrite
      <3>3. writer' = [pc |-> "idle", left |-> <<>>, frame |-> frame]
        BY <1>5, <3>2
      <3>4. /\ Sending(F, W, v + n, "idle", <<>>, frame, Append(sent, m))
            /\ m \in Messages /\ Len(sent) <= MaxFrames
        <4>1. pc \in {"uid", "body"}
          BY <1>5, <2>3
        <4> QED
          BY <1>3, <1>4, <3>1, <4>1, MessageWritten DEF m
      <3>5. writer'.pc = "idle" /\ writer'.left = <<>> /\ writer'.frame = frame
        BY <3>3
      <3>6. sent' = Append(sent, m)
        BY <1>1, <3>5
      <3>7. Append(sent, m) \in Seq(Messages) /\ Len(Append(sent, m)) = Len(sent) + 1
        BY <1>3, <3>4, AppendProperties
      <3>8. Len(sent') <= MaxFrames + 1
        <4> DEFINE s == Len(sent)
        <4>1. s \in Nat /\ s <= MaxFrames /\ MaxFrames \in Nat /\ Len(sent') = s + 1
          BY <1>3, <3>4, <3>6, <3>7, Sizes
        <4> HIDE DEF s
        <4> QED
          BY <4>1
      <3>9. <<>> \in Octets
        BY DEF Octets
      <3> QED
        BY <1>5, <3>3, <3>4, <3>5, <3>6, <3>7, <3>8, <3>9
    <2> QED
      BY <2>1, <2>2, <2>3
  <1>14. LinkTypes'
    <2>1. /\ frag' \in 0 .. FragBytes
          /\ cut' \in {"no", "end", "reset"} /\ got' \in Seq(Messages)
          /\ reader' \in [pc : {"uid", "length", "frame", "bad", "end", "error"},
                          want : 0 .. Base * Base - 1, has : Octets]
          /\ Len(reader'.has) <= reader'.want
      BY <1>1, <1>2, <1>3, <1>7 DEF LinkTypes
    <2> QED
      BY <1>10, <1>13, <2>1 DEF LinkTypes
  <1>15. \E G, Q, V, u :
          /\ Framed(G, Q, V)
          /\ Sending(G, V, u, writer'.pc, writer'.left, writer'.frame, sent')
          /\ Receiving(G, Q, V, u, reader'.pc, reader'.want, reader'.has, net', cut' # "no", got')
    BY <1>2, <1>4, <1>11, <1>13
  <1>16. LinkInv'
    BY <1>12, <1>14, <1>15 DEF LinkInv
  <1> QED
    BY <1>2, <1>13, <1>16

\* What is before the receiver, as the lemmas on its steps take it.
LEMMA Behind ==
  ASSUME LinkInv
  PROVE  \E F, P, W, v :
           /\ Framed(F, P, W)
           /\ Sending(F, W, v, writer.pc, writer.left, writer.frame, sent)
           /\ Receiving(F, P, W, v, reader.pc, reader.want, reader.has, net, cut # "no", got)
           /\ Len(got) \in Nat /\ Len(got) <= Len(F)
  <1>1. Received(got, sent) /\ Len(got) \in Nat /\ Len(sent) \in Nat
    BY Lengths DEF LinkInv, LinkTypes
  <1>2. PICK F, P, W, v :
          /\ Framed(F, P, W)
          /\ Sending(F, W, v, writer.pc, writer.left, writer.frame, sent)
          /\ Receiving(F, P, W, v, reader.pc, reader.want, reader.has, net, cut # "no", got)
    BY DEF LinkInv
  <1>3. Len(got) <= Len(F)
    <2> DEFINE k == Len(got)  s == Len(sent)  e == Len(F)
    <2>1. e = s + IF writer.pc = "idle" THEN 0 ELSE 1
      BY <1>2 DEF Sending
    <2>2. e = s + 0 \/ e = s + 1
      BY <2>1
    <2>3. k \in Nat /\ s \in Nat /\ k <= s
      BY <1>1 DEF Received
    <2> HIDE DEF k, s, e
    <2>4. k <= e
      BY <2>2, <2>3
    <2> QED
      BY <2>4 DEF k, e
  <1> QED
    BY <1>1, <1>2, <1>3

LEMMA CutLink ==
  ASSUME LinkInv, Cut
  PROVE  LinkInv' /\ sent' = sent /\ got' = got /\ cut = "no" /\ cut' \in {"end", "reset"}
  <1>1. /\ cut = "no" /\ cut' \in {"end", "reset"}
        /\ writer' = writer /\ frag' = frag /\ reader' = reader /\ sent' = sent /\ got' = got
    BY DEF Cut
  <1>2. PICK n \in 0 .. Len(net) : net' = net \/ net' = SubSeq(net, 1, n)
    <2>1. CASE net' = net
      <3>1. Len(net) \in Nat
        BY OctetsLen DEF LinkInv, LinkTypes
      <3>2. 0 \in 0 .. Len(net)
        BY <3>1
      <3> QED
        BY <2>1, <3>2
    <2>2. CASE net' # net
      BY <2>2 DEF Cut
    <2> QED
      BY <2>1, <2>2
  <1>3. /\ LinkTypes /\ Received(got, sent)
        /\ Len(got) \in Nat /\ Len(sent) \in Nat /\ net \in Octets /\ Len(net) \in Nat
        /\ Len(net) <= Buffered /\ Buffered \in Nat
    BY Lengths, OctetsLen, Sizes DEF LinkInv, LinkTypes
  <1>4. PICK F, P, W, v :
          /\ Framed(F, P, W)
          /\ Sending(F, W, v, writer.pc, writer.left, writer.frame, sent)
          /\ Receiving(F, P, W, v, reader.pc, reader.want, reader.has, net, cut # "no", got)
          /\ Len(got) <= Len(F)
    BY Behind
  <1>5. Len(got) <= Len(F) /\ v \in Nat
    BY <1>4 DEF Sending
  <1>6. n \in Nat /\ n <= Len(net)
    BY <1>2, <1>3
  <1>7. /\ Receiving(F, P, W, v, reader.pc, reader.want, reader.has, net, TRUE, got)
        /\ Receiving(F, P, W, v, reader.pc, reader.want, reader.has, SubSeq(net, 1, n), TRUE, got)
    BY <1>3, <1>4, <1>5, <1>6, CutsShort
  <1>8. Receiving(F, P, W, v, reader'.pc, reader'.want, reader'.has, net', cut' # "no", got')
    <2>1. (cut' # "no") = TRUE
      BY <1>1
    <2> QED
      BY <1>1, <1>2, <1>7, <2>1
  <1>9. net' \in Octets /\ Len(net') <= Buffered
    <2>1. Holds(net, net, 0)
      <3>1. 0 + Len(net) <= Len(net) /\ \A j \in 1 .. Len(net) : 0 + j = j
        BY <1>3
      <3> QED
        BY <1>3, <3>1 DEF Holds
    <2>2. SubSeq(net, 1, n) \in Octets /\ Len(SubSeq(net, 1, n)) = n
      BY <1>6, <2>1, HoldsSplit DEF Holds
    <2>3. n <= Buffered
      <3> DEFINE l == Len(net)
      <3>1. n \in Nat /\ n <= l /\ l \in Nat /\ l <= Buffered /\ Buffered \in Nat
        BY <1>3, <1>6
      <3> HIDE DEF l
      <3> QED
        BY <3>1
    <2>4. CASE net' = net
      BY <1>3, <2>4
    <2>5. CASE net' = SubSeq(net, 1, n)
      BY <2>2, <2>3, <2>5
    <2> QED
      BY <1>2, <2>4, <2>5
  <1>10. LinkTypes'
    BY <1>1, <1>3, <1>9 DEF LinkTypes
  <1>11. \E G, Q, V, u :
          /\ Framed(G, Q, V)
          /\ Sending(G, V, u, writer'.pc, writer'.left, writer'.frame, sent')
          /\ Receiving(G, Q, V, u, reader'.pc, reader'.want, reader'.has, net', cut' # "no", got')
    BY <1>1, <1>4, <1>8
  <1> QED
    BY <1>1, <1>3, <1>10, <1>11 DEF LinkInv, Received

LEMMA ReadLink ==
  ASSUME LinkInv, Read
  PROVE  LinkInv' /\ sent' = sent /\ got' = got /\ cut' = cut
  <1> DEFINE pc == reader.pc  want == reader.want  has == reader.has
             x(n) == SubSeq(net, 1, n)  y(n) == SubSeq(net, n + 1, Len(net))
  <1>1. /\ pc \in Reading /\ Len(has) < want
        /\ writer' = writer /\ frag' = frag /\ cut' = cut /\ sent' = sent /\ got' = got
    BY DEF Read, Reading
  <1>2. PICK n \in 1 .. Wanted :
          reader' = [reader EXCEPT !.has = has \o x(n)] /\ net' = y(n)
    BY DEF Read
  <1>3. /\ LinkTypes /\ Received(got, sent)
        /\ reader = [pc |-> pc, want |-> want, has |-> has]
        /\ want \in 0 .. Base * Base - 1 /\ has \in Octets /\ Len(has) \in Nat
        /\ net \in Octets /\ Len(net) \in Nat /\ Len(net) <= Buffered /\ Buffered \in Nat
    BY OctetsLen, Sizes DEF LinkInv, LinkTypes
  <1>w. want \in Nat
    <2>1. Base * Base \in Nat
      BY Sizes
    <2> HIDE DEF want
    <2> QED
      BY <1>3, <2>1
  <1>4. PICK F, P, W, v :
          /\ Framed(F, P, W)
          /\ Sending(F, W, v, writer.pc, writer.left, writer.frame, sent)
          /\ Receiving(F, P, W, v, pc, want, has, net, cut # "no", got)
          /\ Len(got) \in Nat /\ Len(got) <= Len(F)
    BY Behind
  <1>5. n \in Nat /\ n <= Len(net) /\ Len(has) + n <= want
    <2> DEFINE a == Len(net)  b == Len(has)  d == want - b
    <2>1. n \in 1 .. Min(a, d)
      BY <1>2 DEF Wanted
    <2>2. a \in Nat /\ b \in Nat /\ want \in Nat /\ b < want
      BY <1>1, <1>3, <1>w
    <2> HIDE DEF a, b, want
    <2>3. Min(a, d) \in Int /\ Min(a, d) <= a /\ Min(a, d) <= d /\ d \in Int
      BY <2>2 DEF Min
    <2>4. n \in Nat /\ n <= a /\ n <= d
      BY <2>1, <2>2, <2>3
    <2>5. b + n <= want
      BY <2>2, <2>4
    <2> QED
      BY <2>4, <2>5 DEF a, b
  <1>6. /\ Receiving(F, P, W, v, pc, want, has \o x(n), y(n), cut # "no", got)
        /\ Len(has \o x(n)) = Len(has) + n
    BY <1>1, <1>4, <1>5, ReadsSome
  <1> DEFINE z == has \o x(n)
  <1> HIDE DEF x, y, z
  <1>7. z \in Octets /\ y(n) \in Octets /\ Len(z) <= want
    <2>1. z \in Octets /\ y(n) \in Octets
      BY <1>1, <1>6 DEF Receiving, Holds, z
    <2>2. Len(z) = Len(has) + n
      BY <1>6 DEF z
    <2> QED
      BY <1>5, <2>1, <2>2
  <1>8. Len(y(n)) <= Buffered
    <2>1. Len(y(n)) = Len(net) - n
      <3>1. Holds(net, net, 0)
        <4>1. 0 + Len(net) <= Len(net) /\ \A j \in 1 .. Len(net) : 0 + j = j
          BY <1>3
        <4> QED
          BY <1>3, <4>1 DEF Holds
      <3> QED
        BY <1>5, <3>1, HoldsSplit DEF y
    <2> QED
      BY <1>3, <1>5, <2>1
  <1>9. reader' = [pc |-> pc, want |-> want, has |-> z]
    BY <1>2, <1>3 DEF z
  <1>10. reader'.pc = pc /\ reader'.want = want /\ reader'.has = z
    BY <1>9
  <1>11. LinkTypes'
    <2>1. reader' \in [pc : {"uid", "length", "frame", "bad", "end", "error"},
                       want : 0 .. Base * Base - 1, has : Octets]
      <3>1. pc \in {"uid", "length", "frame", "bad", "end", "error"}
        BY <1>1 DEF Reading
      <3> HIDE DEF pc, want, has
      <3> QED
        BY <1>3, <1>7, <1>9, <3>1
    <2> QED
      BY <1>1, <1>2, <1>3, <1>7, <1>8, <1>10, <2>1 DEF LinkTypes
  <1>12. \E G, Q, V, u :
          /\ Framed(G, Q, V)
          /\ Sending(G, V, u, writer'.pc, writer'.left, writer'.frame, sent')
          /\ Receiving(G, Q, V, u, reader'.pc, reader'.want, reader'.has, net', cut' # "no", got')
    <2>1. Receiving(F, P, W, v, reader'.pc, reader'.want, reader'.has, net', cut' # "no", got')
      BY <1>1, <1>2, <1>6, <1>10 DEF z
    <2> QED
      BY <1>1, <1>4, <2>1
  <1> QED
    BY <1>1, <1>3, <1>11, <1>12 DEF LinkInv, Received

\* A step of the receiver that turns to something else.
LEMMA TurnTypes ==
  ASSUME LinkTypes, NEW pc \in {"uid", "length", "frame", "bad", "end", "error"},
         NEW want \in 0 .. Base * Base - 1, reader' = Turn(pc, want), got' \in Seq(Messages),
         writer' = writer, frag' = frag, net' = net, cut' = cut, sent' = sent
  PROVE  /\ LinkTypes'
         /\ reader'.pc = pc /\ reader'.want = want /\ reader'.has = <<>>
  <1>1. reader' = [pc |-> pc, want |-> want, has |-> <<>>]
    BY DEF Turn
  <1>2. <<>> \in Octets /\ Len(<<>>) = 0
    BY EmptySeq DEF Octets
  <1>3. reader'.pc = pc /\ reader'.want = want /\ reader'.has = <<>>
    BY <1>1
  <1>4. 0 <= want
    <2>1. Base * Base \in Nat
      BY Sizes
    <2> QED
      BY <2>1
  <1>5. Len(reader'.has) <= reader'.want
    BY <1>2, <1>3, <1>4
  <1> QED
    BY <1>1, <1>2, <1>3, <1>5 DEF LinkTypes

LEMMA ReadEndsLink ==
  ASSUME LinkInv, ReadEnds
  PROVE  LinkInv' /\ sent' = sent /\ got' = got /\ cut' = cut
  <1>1. /\ reader.pc \in Reading /\ cut # "no"
        /\ writer' = writer /\ frag' = frag /\ net' = net /\ cut' = cut /\ sent' = sent /\ got' = got
    BY DEF ReadEnds, Reading
  <1>2. PICK pc \in {"end", "error"} : reader' = Turn(pc, 0)
    BY DEF ReadEnds
  <1>3. LinkTypes /\ Received(got, sent) /\ got \in Seq(Messages)
    BY DEF LinkInv, LinkTypes
  <1>4. 0 \in 0 .. Base * Base - 1
    <2> DEFINE b == Base * Base
    <2>1. b \in Nat /\ b >= 1
      <3>1. Base \in Nat /\ Base > 4
        BY Sizes
      <3> QED
        BY <3>1
    <2> HIDE DEF b
    <2>2. 0 \in 0 .. b - 1
      BY <2>1
    <2> QED
      BY <2>2 DEF b
  <1>5. LinkTypes' /\ reader'.pc = pc /\ reader'.want = 0 /\ reader'.has = <<>>
    <2>1. pc \in {"uid", "length", "frame", "bad", "end", "error"} /\ got' \in Seq(Messages)
      BY <1>1, <1>2, <1>3
    <2> QED
      BY <1>1, <1>2, <1>3, <1>4, <2>1, TurnTypes
  <1>6. PICK F, P, W, v :
          /\ Framed(F, P, W)
          /\ Sending(F, W, v, writer.pc, writer.left, writer.frame, sent)
    BY DEF LinkInv
  <1>7. Receiving(F, P, W, v, reader'.pc, reader'.want, reader'.has, net', cut' # "no", got')
    <2>1. pc \notin Reading /\ pc \notin {"bad", "uid", "length", "frame"}
      BY <1>2 DEF Reading
    <2> QED
      BY <1>1, <1>5, <2>1 DEF Receiving
  <1> QED
    BY <1>1, <1>3, <1>5, <1>6, <1>7 DEF LinkInv, Received

LEMMA UseLink ==
  ASSUME LinkInv, Use
  PROVE  /\ LinkInv' /\ sent' = sent /\ cut' = cut
         /\ \/ got' = got
            \/ Len(got) < Len(sent) /\ got' = Append(got, sent[Len(got) + 1])
  <1> DEFINE pc == reader.pc  want == reader.want  has == reader.has  k == Len(got) + 1
             broken == cut # "no"
  <1>1. /\ Len(has) = want
        /\ writer' = writer /\ frag' = frag /\ net' = net /\ cut' = cut /\ sent' = sent
    BY DEF Use
  <1>2. /\ LinkTypes /\ Received(got, sent) /\ got \in Seq(Messages) /\ sent \in Seq(Messages)
        /\ writer.pc \in {"uid", "idle", "header", "body"}
        /\ Len(got) \in Nat /\ Len(sent) \in Nat /\ broken \in BOOLEAN
    BY Lengths DEF LinkInv, LinkTypes
  <1>3. PICK F, P, W, v :
          /\ Framed(F, P, W)
          /\ Sending(F, W, v, writer.pc, writer.left, writer.frame, sent)
          /\ Receiving(F, P, W, v, pc, want, has, net, broken, got)
    BY DEF LinkInv
  <1>4. 2 \in 0 .. Base * Base - 1
    <2> DEFINE b == Base * Base
    <2>1. b \in Nat /\ b >= 3
      <3>1. Base \in Nat /\ Base > 4
        BY Sizes
      <3> QED
        BY <3>1
    <2> HIDE DEF b
    <2>2. 2 \in 0 .. b - 1
      BY <2>1
    <2> QED
      BY <2>2 DEF b
  \* A message is received.
  <1>5. ASSUME NEW m \in Messages, reader' = Turn("length", 2), got' = Append(got, m),
               Receiving(F, P, W, v, "length", 2, <<>>, net, broken, Append(got, m)),
               k <= Len(sent), sent[k] = m
        PROVE  /\ LinkInv'
               /\ Len(got) < Len(sent) /\ got' = Append(got, sent[Len(got) + 1])
    <2>1. /\ Append(got, m) \in Seq(Messages)
          /\ Len(Append(got, m)) = Len(got) + 1
          /\ \A i \in 1 .. Len(got) : Append(got, m)[i] = got[i]
          /\ Append(got, m)[Len(got) + 1] = m
      BY <1>2, AppendProperties
    <2>2. LinkTypes' /\ reader'.pc = "length" /\ reader'.want = 2 /\ reader'.has = <<>>
      <3>1. got' \in Seq(Messages)
        BY <1>5, <2>1
      <3> QED
        BY <1>1, <1>2, <1>4, <1>5, <3>1, TurnTypes
    <2>3. Receiving(F, P, W, v, reader'.pc, reader'.want, reader'.has, net', cut' # "no", got')
      BY <1>1, <1>5, <2>2
    <2>4. Received(got', sent')
      <3> DEFINE g == Append(got, m)  l == Len(got)  n == Len(sent)
      <3>1. /\ Len(g) = l + 1 /\ \A i \in 1 .. l : g[i] = got[i]
            /\ g[l + 1] = m /\ l + 1 <= n /\ l \in Nat
            /\ sent[l + 1] = m /\ \A i \in 1 .. l : got[i] = sent[i]
        BY <1>2, <1>5, <2>1 DEF Received
      <3> HIDE DEF g, l, n
      <3>2. \A i \in 1 .. Len(g) : g[i] = sent[i]
        <4> SUFFICES ASSUME NEW i \in 1 .. l + 1
                     PROVE  g[i] = sent[i]
          BY <3>1
        <4>1. CASE i = l + 1
          BY <3>1, <4>1
        <4>2. CASE i # l + 1
          <5>1. i \in 1 .. l
            BY <3>1, <4>2
          <5> QED
            BY <3>1, <5>1
        <4> QED
          BY <4>1, <4>2
      <3>3. Len(g) <= n
        BY <3>1
      <3> QED
        BY <1>1, <1>5, <3>2, <3>3 DEF Received, g, n
    <2>5. Len(got) < Len(sent)
      <3> DEFINE l == Len(got)  n == Len(sent)
      <3>1. l \in Nat /\ n \in Nat /\ l + 1 <= n
        BY <1>2, <1>5
      <3> HIDE DEF l, n
      <3>2. l < n
        BY <3>1
      <3> QED
        BY <3>2 DEF l, n
    <2> QED
      BY <1>1, <1>3, <1>5, <2>2, <2>3, <2>4, <2>5 DEF LinkInv
  <1> HIDE DEF broken
  <1>6. CASE pc = "uid"
    <2>1. reader' = Turn("length", 2) /\ got' = Append(got, Uid)
      BY <1>6 DEF Use
    <2>2. Receiving(F, P, W, v, "uid", want, has, net, broken, got)
      BY <1>3, <1>6
    <2>3. /\ Receiving(F, P, W, v, "length", 2, <<>>, net, broken, Append(got, Uid))
          /\ k <= Len(sent) /\ sent[k] = Uid
      BY <1>1, <1>2, <1>3, <2>2, UsesUid
    <2>4. Uid \in Messages
      BY DEF Messages
    <2> QED
      BY <1>1, <1>5, <2>1, <2>3, <2>4
  <1>7. CASE pc = "length"
    <2>1. reader' = Turn("frame", Value(has, 1)) /\ got' = got
      BY <1>7 DEF Use
    <2>2. Receiving(F, P, W, v, "length", want, has, net, broken, got)
      BY <1>3, <1>7
    <2>3. /\ Receiving(F, P, W, v, "frame", Value(has, 1), <<>>, net, broken, got)
          /\ Value(has, 1) \in 0 .. Base * Base - 1
      BY <1>1, <1>2, <1>3, <2>2, UsesLength
    <2> DEFINE n == Value(has, 1)
    <2> HIDE DEF n
    <2>4. /\ reader' = Turn("frame", n) /\ n \in 0 .. Base * Base - 1
          /\ Receiving(F, P, W, v, "frame", n, <<>>, net, broken, got)
      BY <2>1, <2>3 DEF n
    <2>5. LinkTypes' /\ reader'.pc = "frame" /\ reader'.want = n /\ reader'.has = <<>>
      BY <1>1, <1>2, <2>1, <2>4, TurnTypes
    <2>6. Receiving(F, P, W, v, reader'.pc, reader'.want, reader'.has, net', cut' # "no", got')
      BY <1>1, <2>1, <2>4, <2>5 DEF broken
    <2> QED
      BY <1>1, <1>2, <1>3, <2>1, <2>5, <2>6 DEF LinkInv, Received
  <1>8. CASE pc = "frame"
    <2> DEFINE f == Receives(has)
    <2>1. Receiving(F, P, W, v, "frame", want, has, net, broken, got)
      BY <1>3, <1>8
    <2>2. /\ f \in Frames
          /\ Receiving(F, P, W, v, "length", 2, <<>>, net, broken, Append(got, Message(f)))
          /\ k <= Len(sent) /\ sent[k] = Message(f)
      BY <1>1, <1>2, <1>3, <2>1, UsesFrame
    <2>3. f # Bad /\ Message(f) \in Messages
      BY <2>2, FrameParts DEF Messages
    <2>4. reader' = Turn("length", 2) /\ got' = Append(got, Message(f))
      BY <1>8, <2>3 DEF Use
    <2> HIDE DEF f
    <2> QED
      BY <1>1, <1>5, <2>2, <2>3, <2>4
  <1> QED
    BY <1>6, <1>7, <1>8 DEF Use

--------------------------------------------------------------------------------
(* Theorems.                                                               *)

LEMMA UnchangedLink ==
  ASSUME LinkInv, UNCHANGED vars
  PROVE  LinkInv'
  <1>1. /\ writer' = writer /\ frag' = frag /\ net' = net /\ cut' = cut
        /\ reader' = reader /\ sent' = sent /\ got' = got
    BY DEF vars
  <1>2. LinkTypes /\ Received(got, sent)
    BY DEF LinkInv
  <1>3. LinkTypes' /\ Received(got', sent')
    BY <1>1, <1>2 DEF LinkTypes, Received
  <1>4. PICK F, P, W, v :
          /\ Framed(F, P, W)
          /\ Sending(F, W, v, writer.pc, writer.left, writer.frame, sent)
          /\ Receiving(F, P, W, v, reader.pc, reader.want, reader.has, net, cut # "no", got)
    BY DEF LinkInv
  <1>5. /\ Sending(F, W, v, writer'.pc, writer'.left, writer'.frame, sent')
        /\ Receiving(F, P, W, v, reader'.pc, reader'.want, reader'.has, net', cut' # "no", got')
    BY <1>1, <1>4
  <1> QED
    BY <1>3, <1>4, <1>5 DEF LinkInv

\* Every step preserves the invariant and is one of the channel's, or leaves the
\* messages as they are.
LEMMA LinkStep ==
  ASSUME LinkInv, [Next]_vars
  PROVE  LinkInv' /\ [Channel!Next]_(Channel!channelVars)
  <1>1. CASE NextFrame
    BY <1>1, NextFrameLink DEF Channel!channelVars
  <1>2. CASE PollWrite
    <2>1. /\ LinkInv' /\ got' = got /\ cut' = cut
          /\ \/ sent' = sent
             \/ cut = "no" /\ \E m \in Messages : sent' = Append(sent, m)
      BY <1>2, PollWriteLink
    <2>2. CASE sent' = sent
      BY <2>1, <2>2 DEF Channel!channelVars
    <2>3. CASE cut = "no" /\ \E m \in Messages : sent' = Append(sent, m)
      <3>1. Channel!Send
        BY <2>1, <2>3 DEF Channel!Send
      <3> QED
        BY <2>1, <3>1 DEF Channel!Next
    <2> QED
      BY <2>1, <2>2, <2>3
  <1>3. CASE Cut
    <2>1. LinkInv' /\ sent' = sent /\ got' = got /\ cut = "no" /\ cut' \in {"end", "reset"}
      BY <1>3, CutLink
    <2>2. Channel!Close
      BY <2>1 DEF Channel!Close
    <2> QED
      BY <2>1, <2>2 DEF Channel!Next
  <1>4. CASE Read
    BY <1>4, ReadLink DEF Channel!channelVars
  <1>5. CASE Use
    <2>1. /\ LinkInv' /\ sent' = sent /\ cut' = cut
          /\ \/ got' = got
             \/ Len(got) < Len(sent) /\ got' = Append(got, sent[Len(got) + 1])
      BY <1>5, UseLink
    <2>2. CASE got' = got
      BY <2>1, <2>2 DEF Channel!channelVars
    <2>3. CASE Len(got) < Len(sent) /\ got' = Append(got, sent[Len(got) + 1])
      <3>1. Channel!Receive
        BY <2>1, <2>3 DEF Channel!Receive
      <3> QED
        BY <2>1, <3>1 DEF Channel!Next
    <2> QED
      BY <2>1, <2>2, <2>3
  <1>6. CASE ReadEnds
    BY <1>6, ReadEndsLink DEF Channel!channelVars
  <1>7. CASE UNCHANGED vars
    <2>1. LinkInv'
      BY <1>7, UnchangedLink
    <2>2. sent' = sent /\ got' = got /\ cut' = cut
      BY <1>7 DEF vars
    <2> QED
      BY <2>1, <2>2 DEF Channel!channelVars
  <1> QED
    BY <1>1, <1>2, <1>3, <1>4, <1>5, <1>6, <1>7 DEF Next, Receiver

\* The octets before the receiver are always those of the frames that were written,
\* from where it is on (ghost-client main.rs:154 to ghost-server handler.rs:77).
THEOREM LinkInvariance == Spec => []LinkInv
  <1>1. Init => LinkInv
    BY InitLink
  <1>2. LinkInv /\ [Next]_vars => LinkInv'
    BY LinkStep
  <1> QED
    BY <1>1, <1>2, PTL DEF Spec

LEMMA LinkInvTypes ==
  ASSUME LinkInv
  PROVE  TypeOK /\ CodecIsPrefixSafe /\ reader.pc # "bad"
  <1>1. LinkTypes
    BY DEF LinkInv
  <1>2. TypeOK
    BY <1>1 DEF LinkTypes, TypeOK, Octets, Msgs
  <1>3. CodecIsPrefixSafe
    <2> SUFFICES ASSUME writer.frame # Uid
                 PROVE  CodecIsPrefixSafe
      BY DEF CodecIsPrefixSafe
    <2>1. writer.frame \in Frames
      BY <1>1 DEF LinkTypes, Msgs
    <2> DEFINE f == writer.frame
    <2>2. /\ Decode(Encode(f)) = f
          /\ \A n \in 0 .. Len(Encode(f)) - 1 :
               Decode(SubSeq(Encode(f), 1, n)) =
                 IF n < Len(Encode(f)) - Len(f.padding) THEN Bad ELSE [f EXCEPT !.padding = <<>>]
      BY <2>1, Codec
    <2> QED
      BY <2>2, Zenon DEF CodecIsPrefixSafe
  <1>4. reader.pc # "bad"
    BY DEF LinkInv, Receiving
  <1> QED
    BY <1>2, <1>3, <1>4

\* Every length that is read fits the two octets it is sent in, and buffers keep
\* their bounds.
THEOREM LinkTypeCorrect == Spec => []TypeOK
  BY LinkInvariance, LinkInvTypes, PTL

\* Whatever frame is written, its decoder gives it back and takes no part of it for
\* a whole one but for the padding (GhostFrame::decode).
THEOREM CodecSafe == Spec => []CodecIsPrefixSafe
  BY LinkInvariance, LinkInvTypes, PTL

\* No frame that the sender wrote is ever rejected: read_exact finds the boundaries
\* in every fragmentation, and after every cut (handler.rs:122, 128).
THEOREM NothingRejected == Spec => [](reader.pc # "bad")
  BY LinkInvariance, LinkInvTypes, PTL

\* The wire implements the channel of whole messages that GhostTunnel takes it for:
\* what is received is what was sent, in order, and nothing else.
THEOREM ImplementsMessages == Spec => Channel!SafeSpec
  <1>1. Init => Channel!Init
    BY DEF Init, Channel!Init
  <1>2. LinkInv /\ [Next]_vars => [Channel!Next]_(Channel!channelVars)
    BY LinkStep
  <1> QED
    BY <1>1, <1>2, LinkInvariance, PTL DEF Spec, Channel!SafeSpec
================================================================================
