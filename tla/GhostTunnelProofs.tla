--------------------------- MODULE GhostTunnelProofs ---------------------------
(***************************************************************************)
(* Proofs about the tunnel, for every set of users, every bound on what    *)
(* the ends send and every capacity of the channels: first the flow of     *)
(* tokens through the two relays (FlowInv), then the rest of TunnelInv and *)
(* the refinement of DuplexStream.                                         *)
(***************************************************************************)
EXTENDS GhostTunnel, SequenceTheorems, TLAPS

\* The sockets of a relay and of an end are channels of the expected sort.
LEMMA Topology ==
  /\ \A r \in Relays :
       /\ PlainIn(r) \in Plain /\ PlainOut(r) \in Plain
       /\ WireIn(r) \in Wire /\ WireOut(r) \in Wire
       /\ Conn(WireIn(r)) = "cs" /\ Conn(WireOut(r)) = "cs"
  /\ \A e \in Ends : In(e) \in Plain /\ Out(e) \in Plain /\ Other(e) \in Ends
  /\ \A c \in Channels : Conn(c) \in Conns /\ Reverse(c) \in Channels
  /\ \A c \in Channels : Reverse(c) # c /\ Conn(Reverse(c)) = Conn(c)
  BY DEF Relays, Ends, Plain, Wire, Channels, Conns, PlainIn, PlainOut, WireIn,
         WireOut, In, Out, Other, Conn, Reverse

--------------------------------------------------------------------------------
(* Types.                                                                  *)

NetOK ==
  /\ q \in [Channels -> Seq(Token)]
  /\ rd \in [Channels -> Nat]
  /\ wr \in [Channels -> Nat]
  /\ fin \in [Channels -> BOOLEAN]
  /\ gone \in [Channels -> BOOLEAN]
  /\ rst \in [Conns -> BOOLEAN]

LEMMA HeadIsToken ==
  ASSUME NetOK, NEW c \in Channels, CanTake(c)
  PROVE  /\ Head(q[c]) \in Token /\ Head(q[c]) = q[c][1]
         /\ Len(q[c]) \in Nat \ {0}
  BY EmptySeq, LenProperties, HeadTailProperties DEF NetOK, CanTake

LEMMA TakeType ==
  ASSUME NetOK, NEW c \in Channels, CanTake(c), Take(c)
  PROVE  NetOK'
  <1>1. Tail(q[c]) \in Seq(Token)
    BY HeadTailProperties DEF NetOK, CanTake
  <1> QED
    BY <1>1 DEF NetOK, Take

LEMMA PutType ==
  ASSUME NetOK, NEW c \in Channels, NEW t \in Token, Put(c, t)
  PROVE  NetOK'
  <1>1. Append(q[c], t) \in Seq(Token)
    BY AppendProperties DEF NetOK
  <1> QED
    BY <1>1 DEF NetOK, Put

LEMMA ResetType ==
  ASSUME NetOK, NEW c \in Channels, Reset(c)
  PROVE  NetOK'
  <1>1. PICK n \in 0 .. Len(q[Reverse(c)]) :
          q' = [q EXCEPT ![c] = <<>>, ![Reverse(c)] = SubSeq(@, 1, n)]
    BY DEF Reset
  <1>2. q[Reverse(c)] \in Seq(Token) /\ <<>> \in Seq(Token)
    BY Topology, EmptySeq DEF NetOK
  <1>3. SubSeq(q[Reverse(c)], 1, n) \in Seq(Token)
    BY <1>2, SubSeqProperties, LenProperties
  <1>4. q' \in [Channels -> Seq(Token)]
    BY <1>1, <1>2, <1>3, Topology DEF NetOK
  <1>5. rst' \in [Conns -> BOOLEAN]
    BY Topology DEF NetOK, Reset
  <1> QED
    BY <1>4, <1>5 DEF NetOK, Reset

LEMMA CloseType ==
  ASSUME TypeOK, NEW r \in Relays, Close(r), fault' \in BOOLEAN
  PROVE  TypeOK'
  BY DEF TypeOK, Close, Relays, ClientPhases, ServerPhases

\* One lemma per action, so that each can be cited by name.
LEMMA TypeSetup ==
  ASSUME TypeOK, Setup
  PROVE  TypeOK'
  <1> USE DEF TypeOK, Relays, Ends, ClientPhases, ServerPhases
  <1>0. NetOK /\ "client_server" \in Channels /\ Tok("uid", 0) \in Token
    BY DEF NetOK, Channels, Wire, Token, Tok
  <1>1. CASE ClientConnect
    BY <1>1 DEF ClientConnect, tcp
  <1>2. CASE ClientConnectFails \/ ServerRefuse \/ ServerDialFails \/ \E r \in Relays : UserIdFails(r)
    BY <1>2, CloseType DEF ClientConnectFails, ServerRefuse, ServerDialFails, UserIdFails
  <1>3. CASE ClientSendUser
    <2>1. NetOK'
      BY <1>0, <1>3, PutType DEF ClientSendUser
    <2> QED
      BY <1>3, <2>1 DEF NetOK, ClientSendUser
  <1>4. CASE ServerReadUser
    <2>1. NetOK'
      BY <1>0, <1>4, TakeType DEF ServerReadUser
    <2> QED
      BY <1>4, <2>1 DEF NetOK, ServerReadUser
  <1>5. CASE ServerDial
    BY <1>5 DEF ServerDial, tcp
  <1> QED
    BY <1>1, <1>2, <1>3, <1>4, <1>5 DEF Setup

LEMMA TypeSealLoop ==
  ASSUME TypeOK, NEW r \in Relays, SealLoop(r)
  PROVE  TypeOK'
  <1>0. NetOK /\ PlainIn(r) \in Channels /\ WireOut(r) \in Channels
    BY Topology DEF TypeOK, NetOK, Channels
  <1>1. CASE SealRead(r)
    <2>1. NetOK' /\ Head(q[PlainIn(r)]).item \in Nat
      BY <1>0, <1>1, TakeType, HeadIsToken DEF SealRead, Token
    <2> QED
      BY <1>1, <2>1 DEF NetOK, SealRead, TypeOK, SealPcs
  <1>2. CASE SealHeader(r)
    <2>1. NetOK'
      BY <1>0, <1>2, PutType DEF SealHeader, Tok, Token, TypeOK
    <2> QED
      BY <1>2, <2>1 DEF NetOK, SealHeader, TypeOK, SealPcs
  <1>3. CASE SealBody(r)
    <2>1. NetOK'
      BY <1>0, <1>3, PutType DEF SealBody, Tok, Token, TypeOK
    <2> QED
      BY <1>3, <2>1 DEF NetOK, SealBody, TypeOK, SealPcs, Relays, ClientPhases, ServerPhases
  <1>4. CASE SealEnd(r)
    BY <1>4, CloseType DEF SealEnd, TypeOK
  <1> QED
    BY <1>1, <1>2, <1>3, <1>4 DEF SealLoop

LEMMA TypeOpenLoop ==
  ASSUME TypeOK, NEW r \in Relays, OpenLoop(r)
  PROVE  TypeOK'
  <1>0. NetOK /\ WireIn(r) \in Channels /\ PlainOut(r) \in Channels
    BY Topology DEF TypeOK, NetOK, Channels
  <1>1. CASE OpenLength(r)
    <2>1. NetOK' /\ Head(q[WireIn(r)]).item \in Nat
      BY <1>0, <1>1, TakeType, HeadIsToken DEF OpenLength, Token
    <2> QED
      BY <1>1, <2>1 DEF NetOK, OpenLength, TypeOK, OpenPcs
  <1>2. CASE OpenFrame(r)
    <2>1. NetOK'
      BY <1>0, <1>2, TakeType DEF OpenFrame
    <2>2. opn' \in [Relays -> [pc : OpenPcs, item : Nat]]
      BY <1>2 DEF OpenFrame, TypeOK, OpenPcs
    <2>3. /\ phase' \in [Relays -> ClientPhases \cup ServerPhases]
          /\ phase'["client"] \in ClientPhases /\ phase'["server"] \in ServerPhases
      BY <1>2 DEF OpenFrame, Opening, TypeOK, Relays, ClientPhases, ServerPhases
    <2> QED
      BY <1>2, <2>1, <2>2, <2>3 DEF NetOK, OpenFrame, TypeOK
  <1>3. CASE OpenWrite(r)
    <2>1. NetOK'
      BY <1>0, <1>3, PutType DEF OpenWrite, Tok, Token, TypeOK
    <2> QED
      BY <1>3, <2>1 DEF NetOK, OpenWrite, TypeOK, OpenPcs
  <1>4. CASE OpenEnd(r)
    BY <1>4, CloseType DEF OpenEnd, TypeOK
  <1> QED
    BY <1>1, <1>2, <1>3, <1>4 DEF OpenLoop

PeerStep(e) ==
  PeerSend(e) \/ PeerShut(e) \/ PeerReceive(e) \/ PeerSeeEnd(e) \/ PeerClose(e)

LEMMA TypePeer ==
  ASSUME TypeOK, NEW e \in Ends, PeerStep(e)
  PROVE  TypeOK'
  <1>0. NetOK /\ In(e) \in Channels /\ Out(e) \in Channels
    BY Topology DEF TypeOK, NetOK, Channels
  <1>1. CASE PeerSend(e)
    <2>1. NetOK'
      BY <1>0, <1>1, PutType DEF PeerSend, Tok, Token, TypeOK
    <2> QED
      BY <1>1, <2>1 DEF NetOK, PeerSend, TypeOK
  <1>2. CASE PeerShut(e)
    BY <1>0, <1>2 DEF PeerShut, TypeOK
  <1>3. CASE PeerReceive(e)
    <2>1. NetOK' /\ Head(q[In(e)]).item \in Nat
      BY <1>0, <1>3, TakeType, HeadIsToken DEF PeerReceive, Token
    <2>2. Append(got[e], Head(q[In(e)]).item) \in Seq(Nat)
      BY <2>1, AppendProperties DEF TypeOK
    <2> QED
      BY <1>3, <2>1, <2>2 DEF NetOK, PeerReceive, TypeOK
  <1>4. CASE PeerSeeEnd(e)
    BY <1>4 DEF PeerSeeEnd, TypeOK, tcp
  <1>5. CASE PeerClose(e)
    BY <1>0, <1>5 DEF PeerClose, TypeOK
  <1> QED
    BY <1>1, <1>2, <1>3, <1>4, <1>5 DEF PeerStep

\* The disjuncts of Next, as the proofs go through them.
LEMMA NextCases ==
  ASSUME Next
  PROVE  \/ Setup
         \/ \E r \in Relays : SealLoop(r) \/ OpenLoop(r) \/ Crash(r)
         \/ \E c \in Channels : Reset(c)
         \/ \E e \in Ends : PeerStep(e)
  BY DEF Next, ClientUpload, ClientDownload, ServerUpload, ServerDownload, Relays, PeerStep

LEMMA TypeInit == Init => TypeOK
  <1> SUFFICES ASSUME Init PROVE TypeOK
    OBVIOUS
  <1>1. <<>> \in Seq(Token) /\ <<>> \in Seq(Nat)
    BY EmptySeq
  <1> QED
    BY <1>1 DEF Init, TypeOK, Relays, Ends, ClientPhases, ServerPhases, SealPcs, OpenPcs

LEMMA TypeStep == TypeOK /\ [Next]_vars => TypeOK'
  <1> SUFFICES ASSUME TypeOK, [Next]_vars PROVE TypeOK'
    OBVIOUS
  <1>1. CASE Setup
    BY <1>1, TypeSetup
  <1>2. CASE \E r \in Relays : SealLoop(r) \/ OpenLoop(r)
    BY <1>2, TypeSealLoop, TypeOpenLoop
  <1>3. CASE \E r \in Relays : Crash(r)
    BY <1>3, CloseType DEF Crash
  <1>4. CASE \E c \in Channels : Reset(c)
    <2>1. NetOK'
      BY <1>4, ResetType DEF TypeOK, NetOK
    <2> QED
      BY <1>4, <2>1 DEF Reset, TypeOK, NetOK
  <1>5. CASE \E e \in Ends : PeerStep(e)
    BY <1>5, TypePeer
  <1>6. CASE UNCHANGED vars
    BY <1>6 DEF vars, TypeOK
  <1> QED
    BY <1>1, <1>2, <1>3, <1>4, <1>5, <1>6, NextCases

\* Every variable of the tunnel keeps its type: in particular the client and
\* the server each stay within the phases of proxy_through_ghost and of
\* handle_connection.
THEOREM TypeCorrect == Spec => []TypeOK
  BY TypeInit, TypeStep, PTL DEF Spec

--------------------------------------------------------------------------------
(* The positions of tokens.                                                *)

\* What a reader finds at the head of a channel is the next token in order.
LEMMA HeadPosition ==
  ASSUME NetOK, ChannelInv, NEW c \in Channels, CanTake(c)
  PROVE  IsAt(c, Head(q[c]), rd[c] + 1) /\ rd[c] + 1 <= wr[c]
  BY HeadIsToken DEF ChannelInv, NetOK

LEMMA ChannelTake ==
  ASSUME NetOK, ChannelInv, NEW c \in Channels, CanTake(c), Take(c)
  PROVE  ChannelInv'
  <1>1. /\ Len(Tail(q[c])) = Len(q[c]) - 1 /\ Len(q[c]) \in Nat \ {0}
        /\ \A i \in 1 .. Len(Tail(q[c])) : Tail(q[c])[i] = q[c][i + 1]
    BY HeadTailProperties, HeadIsToken DEF NetOK, CanTake
  <1> SUFFICES ASSUME NEW d \in Channels
               PROVE  /\ rd'[d] + Len(q'[d]) <= wr'[d]
                      /\ rst'[Conn(d)] \/ rd'[d] + Len(q'[d]) = wr'[d]
                      /\ \A i \in 1 .. Len(q'[d]) : IsAt(d, q'[d][i], rd'[d] + i)
    BY DEF ChannelInv, IsAt, Lead
  <1>2. CASE d # c
    BY <1>2 DEF ChannelInv, NetOK, Take
  <1>3. CASE d = c
    <2>1. q'[d] = Tail(q[c]) /\ rd'[d] = rd[c] + 1 /\ wr' = wr /\ rst' = rst
      BY <1>3 DEF Take, NetOK
    <2>2. \A i \in 1 .. Len(q'[d]) : IsAt(d, q'[d][i], rd'[d] + i)
      <3> SUFFICES ASSUME NEW i \in 1 .. Len(q'[d]) PROVE IsAt(d, q'[d][i], rd'[d] + i)
        OBVIOUS
      <3>1. i + 1 \in 1 .. Len(q[c]) /\ q'[d][i] = q[c][i + 1]
        BY <1>1, <2>1
      <3>2. IsAt(c, q[c][i + 1], rd[c] + (i + 1))
        BY <3>1 DEF ChannelInv
      <3>3. rd[c] + (i + 1) = rd'[d] + i
        BY <2>1 DEF NetOK
      <3> QED
        BY <1>3, <3>1, <3>2, <3>3
    <2> QED
      BY <1>1, <1>3, <2>1, <2>2 DEF ChannelInv, NetOK
  <1> QED
    BY <1>2, <1>3

LEMMA ChannelPut ==
  ASSUME NetOK, ChannelInv, NEW c \in Channels, NEW t \in Token,
         CanPut(c), Put(c, t), IsAt(c, t, wr[c] + 1)
  PROVE  ChannelInv'
  <1>1. /\ Len(Append(q[c], t)) = Len(q[c]) + 1 /\ Len(q[c]) \in Nat
        /\ \A i \in 1 .. Len(q[c]) : Append(q[c], t)[i] = q[c][i]
        /\ Append(q[c], t)[Len(q[c]) + 1] = t
    BY AppendProperties, LenProperties DEF NetOK
  <1> SUFFICES ASSUME NEW d \in Channels
               PROVE  /\ rd'[d] + Len(q'[d]) <= wr'[d]
                      /\ rst'[Conn(d)] \/ rd'[d] + Len(q'[d]) = wr'[d]
                      /\ \A i \in 1 .. Len(q'[d]) : IsAt(d, q'[d][i], rd'[d] + i)
    BY DEF ChannelInv, IsAt, Lead
  <1>2. CASE d # c
    BY <1>2 DEF ChannelInv, NetOK, Put
  <1>3. CASE d = c
    <2>1. q'[d] = Append(q[c], t) /\ rd' = rd /\ wr'[d] = wr[c] + 1 /\ rst' = rst
      BY <1>3 DEF Put, NetOK
    <2>2. rd[c] + Len(q[c]) = wr[c]
      BY DEF ChannelInv, CanPut
    <2>3. \A i \in 1 .. Len(q'[d]) : IsAt(d, q'[d][i], rd'[d] + i)
      <3> SUFFICES ASSUME NEW i \in 1 .. Len(q'[d]) PROVE IsAt(d, q'[d][i], rd'[d] + i)
        OBVIOUS
      <3>1. CASE i = Len(q[c]) + 1
        <4>1. rd[c] + i = wr[c] + 1
          BY <1>1, <2>2, <3>1 DEF NetOK
        <4> QED
          BY <1>1, <1>3, <2>1, <3>1, <4>1
      <3>2. CASE i # Len(q[c]) + 1
        <4>1. i \in 1 .. Len(q[c])
          BY <1>1, <2>1, <3>2
        <4> QED
          BY <1>1, <1>3, <2>1, <4>1 DEF ChannelInv
      <3> QED
        BY <3>1, <3>2
    <2>4. rd'[d] + Len(q'[d]) = wr'[d]
      BY <1>1, <1>3, <2>1, <2>2 DEF NetOK
    <2>5. rd'[d] + Len(q'[d]) <= wr'[d]
      <3>1. wr'[d] \in Nat
        BY <2>1 DEF NetOK
      <3> QED
        BY <2>4, <3>1
    <2> QED
      BY <2>3, <2>4, <2>5
  <1> QED
    BY <1>2, <1>3

LEMMA ChannelReset ==
  ASSUME NetOK, ChannelInv, NEW c \in Channels, Reset(c)
  PROVE  ChannelInv'
  <1>1. PICK n \in 0 .. Len(q[Reverse(c)]) :
          q' = [q EXCEPT ![c] = <<>>, ![Reverse(c)] = SubSeq(@, 1, n)]
    BY DEF Reset
  <1> DEFINE b == Reverse(c)
  <1>2. b \in Channels /\ b # c /\ Conn(b) = Conn(c) /\ Conn(c) \in Conns
    BY Topology
  <1>3. q[b] \in Seq(Token) /\ Len(q[b]) \in Nat /\ Len(q[c]) \in Nat
    BY <1>2, LenProperties DEF NetOK
  <1>4. /\ Len(SubSeq(q[b], 1, n)) = n
        /\ \A i \in 1 .. n : SubSeq(q[b], 1, n)[i] = q[b][i]
    <2>1. \A i \in 1 .. n : q[b][i] \in Token
      BY <1>3, LenProperties
    <2> QED
      BY <1>3, <2>1, SubSeqProperties
  <1>5. /\ rd' = rd /\ wr' = wr /\ rst' = [rst EXCEPT ![Conn(c)] = TRUE]
        /\ q'[c] = <<>> /\ q'[b] = SubSeq(q[b], 1, n)
        /\ \A d \in Channels \ {b, c} : q'[d] = q[d]
    BY <1>1, <1>2 DEF Reset, NetOK
  <1> SUFFICES ASSUME NEW d \in Channels
               PROVE  /\ rd'[d] + Len(q'[d]) <= wr'[d]
                      /\ rst'[Conn(d)] \/ rd'[d] + Len(q'[d]) = wr'[d]
                      /\ \A i \in 1 .. Len(q'[d]) : IsAt(d, q'[d][i], rd'[d] + i)
    BY DEF ChannelInv, IsAt, Lead
  <1>6. CASE d \notin {b, c}
    BY <1>2, <1>5, <1>6, Topology DEF ChannelInv, NetOK
  <1>7. CASE d = c
    <2>1. Len(q'[d]) = 0
      BY <1>5, <1>7, EmptySeq
    <2> QED
      BY <1>2, <1>3, <1>5, <1>7, <2>1 DEF ChannelInv, NetOK
  <1>8. CASE d = b
    <2>1. \A i \in 1 .. n : IsAt(b, q[b][i], rd[b] + i)
      BY <1>2, <1>3 DEF ChannelInv
    <2>2. rd[b] + n <= wr[b]
      BY <1>2, <1>3 DEF ChannelInv, NetOK
    <2> HIDE DEF b
    <2> QED
      BY <1>2, <1>4, <1>5, <1>8, <2>1, <2>2 DEF NetOK
  <1> QED
    BY <1>6, <1>7, <1>8

LEMMA ChannelUnchanged ==
  ASSUME ChannelInv, UNCHANGED <<q, rd, wr, rst>>
  PROVE  ChannelInv'
  BY DEF ChannelInv, IsAt, Lead

--------------------------------------------------------------------------------
(* The steps of the inductive invariant.                                   *)

\* The loops' and the ends' part of the invariant.
LoopInv == SealInv /\ OpenInv /\ EndInv

LEMMA CloseStep ==
  ASSUME FlowInv, NEW r \in Relays, phase[r] # "none", Close(r)
  PROVE  ChannelInv' /\ LoopInv'
  <1>1. ChannelInv'
    BY ChannelUnchanged DEF FlowInv, Close
  <1>2. SealInv'
    BY DEF FlowInv, TypeOK, SealInv, SealInStep, Close, Relays, ClientPhases, ServerPhases
  <1>3. OpenInv'
    BY DEF FlowInv, TypeOK, OpenInv, OpenInStep, Close, Relays, ClientPhases, ServerPhases
  <1>4. EndInv'
    BY DEF FlowInv, EndInv, Close
  <1> QED
    BY <1>1, <1>2, <1>3, <1>4 DEF LoopInv

LEMMA SetupStep ==
  ASSUME FlowInv, Setup
  PROVE  ChannelInv' /\ LoopInv'
  <1> USE DEF FlowInv, LoopInv
  <1>0. NetOK /\ "client_server" \in Channels /\ Tok("uid", 0) \in Token
    BY DEF TypeOK, NetOK, Channels, Wire, Token, Tok
  <1>1. CASE ClientConnect
    <2>1. ChannelInv'
      BY <1>1, ChannelUnchanged DEF ClientConnect, tcp
    <2>2. SealInv' /\ EndInv'
      BY <1>1 DEF ClientConnect, tcp, SealInv, OpenInv, EndInv, TypeOK, Relays
    <2>3. OpenInv'
      BY <1>1 DEF ClientConnect, tcp, OpenInv, OpenInStep, TypeOK, Relays
    <2> QED
      BY <2>1, <2>2, <2>3
  <1>2. CASE ClientConnectFails \/ ServerRefuse \/ ServerDialFails \/ \E r \in Relays : UserIdFails(r)
    BY <1>2, CloseStep DEF ClientConnectFails, ServerRefuse, ServerDialFails, UserIdFails, Relays
  <1>3. CASE ClientSendUser
    <2>1. IsAt("client_server", Tok("uid", 0), wr["client_server"] + 1)
      BY <1>3 DEF IsAt, Tok, Plain, ClientSendUser, SealInv, TypeOK
    <2>2. ChannelInv'
      BY <1>0, <1>3, <2>1, ChannelPut DEF ClientSendUser
    <2>3. SealInv'
      BY <1>0, <1>3 DEF NetOK, ClientSendUser, Put, SealInv, TypeOK, Relays, PlainIn, WireOut,
                        SealInStep, Lead
    <2>4. OpenInv'
      BY <1>0, <1>3 DEF NetOK, ClientSendUser, Put, OpenInv, OpenInStep, TypeOK, Relays, WireIn, PlainOut, Lead
    <2>5. EndInv'
      BY <1>3 DEF ClientSendUser, Put, EndInv
    <2> QED
      BY <2>2, <2>3, <2>4, <2>5
  <1>4. CASE ServerReadUser
    <2>1. ChannelInv'
      BY <1>0, <1>4, ChannelTake DEF ServerReadUser
    <2>2. SealInv'
      BY <1>0, <1>4 DEF NetOK, ServerReadUser, Take, SealInv, TypeOK, Relays, PlainIn, WireOut, Lead
    <2>3. OpenInv'
      BY <1>0, <1>4 DEF NetOK, ServerReadUser, Take, OpenInv, OpenInStep, TypeOK, Relays, WireIn, PlainOut, Lead
    <2>4. EndInv'
      BY <1>0, <1>4 DEF NetOK, ServerReadUser, Take, EndInv, Ends, In
    <2> QED
      BY <2>1, <2>2, <2>3, <2>4
  <1>5. CASE ServerDial
    <2>1. ChannelInv'
      BY <1>5, ChannelUnchanged DEF ServerDial, tcp
    <2>2. SealInv' /\ EndInv'
      BY <1>5 DEF ServerDial, tcp, SealInv, EndInv, TypeOK, Relays
    <2>3. OpenInv'
      <3>1. OpenInStep(opn["server"], rd["client_server"], wr["server_target"], 3)
        BY <1>5 DEF ServerDial, OpenInv, OpenInStep
      <3> QED
        BY <1>5, <3>1 DEF ServerDial, tcp, OpenInv, TypeOK, Relays, WireIn, PlainOut, Lead, OpenInStep
    <2> QED
      BY <2>1, <2>2, <2>3
  <1> QED
    BY <1>1, <1>2, <1>3, <1>4, <1>5 DEF Setup

\* The counters and the loops' registers, free of the functions they live in.
LEMMA Scalars ==
  ASSUME TypeOK
  PROVE  /\ \A c \in Channels : rd[c] \in Nat /\ wr[c] \in Nat
         /\ \A r \in Relays : seal[r].item \in Nat /\ opn[r].item \in Nat
         /\ {"app_client", "client_app", "client_server",
             "server_client", "server_target", "target_server"} \subseteq Channels
         /\ "client" \in Relays /\ "server" \in Relays /\ "client" # "server"
  BY DEF TypeOK, Channels, Wire, Plain, Relays

LEMMA TakeEffect ==
  ASSUME TypeOK, NEW c \in Channels, Take(c)
  PROVE  /\ rd'[c] = rd[c] + 1 /\ wr' = wr
         /\ \A d \in Channels : d # c => rd'[d] = rd[d]
  BY DEF TypeOK, Take

LEMMA PutEffect ==
  ASSUME TypeOK, NEW c \in Channels, NEW t, Put(c, t)
  PROVE  /\ wr'[c] = wr[c] + 1 /\ rd' = rd
         /\ \A d \in Channels : d # c => wr'[d] = wr[d]
  BY DEF TypeOK, Put

LEMMA SealStep ==
  ASSUME FlowInv, NEW r \in Relays, SealLoop(r)
  PROVE  ChannelInv' /\ LoopInv'
  <1> USE DEF FlowInv, LoopInv
  <1>0. /\ NetOK /\ PlainIn(r) \in Channels /\ WireOut(r) \in Channels
        /\ r = "client" \/ r = "server"
    BY Topology DEF TypeOK, NetOK, Channels, Relays
  <1>1. CASE SealRead(r)
    <2>1. ChannelInv'
      BY <1>0, <1>1, ChannelTake DEF SealRead
    <2>2. Head(q[PlainIn(r)]).item = rd[PlainIn(r)] + 1
      BY <1>0, <1>1, HeadPosition, Topology DEF SealRead, IsAt
    <2>3. /\ phase[r] = "relay" /\ seal[r].pc = "read" /\ UNCHANGED <<phase, opn, got>>
          /\ seal'[r] = [pc |-> "hdr", item |-> rd[PlainIn(r)] + 1]
          /\ \A s \in Relays : s # r => seal'[s] = seal[s]
      BY <1>1, <2>2 DEF SealRead, TypeOK
    <2>4. /\ rd'[PlainIn(r)] = rd[PlainIn(r)] + 1 /\ wr' = wr
          /\ \A d \in Channels : d # PlainIn(r) => rd'[d] = rd[d]
      BY <1>0, <1>1, TakeEffect DEF SealRead
    <2>5. SealInv'
      <3>1. CASE r = "client"
        BY <2>3, <2>4, <3>1, Scalars DEF SealInv, SealInStep, Relays, PlainIn
      <3>2. CASE r = "server"
        BY <2>3, <2>4, <3>2, Scalars DEF SealInv, SealInStep, Relays, PlainIn
      <3> QED
        BY <1>0, <3>1, <3>2
    <2>6. OpenInv'
      BY <1>0, <2>3, <2>4, Scalars DEF OpenInv, OpenInStep, Relays, PlainIn, WireIn
    <2>7. EndInv'
      BY <1>0, <2>3, <2>4, Scalars DEF EndInv, PlainIn, Ends, In
    <2> QED
      BY <2>1, <2>5, <2>6, <2>7
  <1>2. CASE SealHeader(r) \/ SealBody(r)
    <2> DEFINE k == IF seal[r].pc = "hdr" THEN "hdr" ELSE "body"
               t == Tok(k, seal[r].item)
    <2>1. /\ phase[r] \in {"init", "relay"} /\ seal[r].pc \in {"hdr", "body"}
          /\ CanPut(WireOut(r)) /\ Put(WireOut(r), t) /\ UNCHANGED <<opn, got>>
          /\ seal'[r] = [pc |-> IF seal[r].pc = "hdr" THEN "body" ELSE "read",
                         item |-> seal[r].item]
          /\ \A s \in Relays : s # r => seal'[s] = seal[s] /\ phase'[s] = phase[s]
          /\ phase'[r] = IF seal[r].pc = "hdr" THEN phase[r] ELSE "relay"
      BY <1>2 DEF SealHeader, SealBody, TypeOK
    <2>2. t \in Token
      BY Scalars DEF Token, Tok
    <2>3. /\ wr'[WireOut(r)] = wr[WireOut(r)] + 1 /\ rd' = rd
          /\ \A d \in Channels : d # WireOut(r) => wr'[d] = wr[d]
      BY <1>0, <2>1, PutEffect
    <2>4. SealInStep(seal[r], wr[WireOut(r)], Lead(WireOut(r)))
      BY <1>0, <2>1 DEF SealInv, WireOut, Lead
    <2>5. IsAt(WireOut(r), t, wr[WireOut(r)] + 1)
      <3>1. wr[WireOut(r)] \in Nat /\ Lead(WireOut(r)) \in Nat /\ WireOut(r) \notin Plain
        BY <1>0, Scalars DEF Lead, WireOut, Plain
      <3> QED
        BY <2>1, <2>4, <3>1, Scalars DEF IsAt, Tok, SealInStep
    <2>6. ChannelInv'
      <3> HIDE DEF t
      <3> QED
        BY <1>0, <2>1, <2>2, <2>5, ChannelPut
    <2>7. SealInv'
      <3>1. CASE r = "client"
        BY <2>1, <2>3, <2>4, <3>1, Scalars DEF SealInv, SealInStep, Relays, WireOut, Lead
      <3>2. CASE r = "server"
        BY <2>1, <2>3, <2>4, <3>2, Scalars DEF SealInv, SealInStep, Relays, WireOut, Lead
      <3> QED
        BY <1>0, <3>1, <3>2
    <2>8. OpenInv'
      <3>1. CASE r = "client"
        BY <2>1, <2>3, <3>1, Scalars DEF OpenInv, OpenInStep, Relays, WireOut, WireIn, PlainOut, Lead
      <3>2. CASE r = "server"
        <4>1. phase["server"] = "relay" /\ phase'["server"] = "relay"
          BY <2>1, <3>2 DEF SealInv
        <4> QED
          BY <2>1, <2>3, <3>2, <4>1, Scalars
             DEF OpenInv, OpenInStep, Relays, WireOut, WireIn, PlainOut, Lead
      <3> QED
        BY <1>0, <3>1, <3>2
    <2>9. EndInv'
      BY <2>1, <2>3 DEF EndInv
    <2> QED
      BY <2>6, <2>7, <2>8, <2>9
  <1>4. CASE SealEnd(r)
    BY <1>4, CloseStep DEF SealEnd, SealEnds
  <1> QED
    BY <1>1, <1>2, <1>4 DEF SealLoop

LEMMA OpenStep ==
  ASSUME FlowInv, NEW r \in Relays, OpenLoop(r)
  PROVE  ChannelInv' /\ LoopInv'
  <1> USE DEF FlowInv, LoopInv
  <1>0. /\ NetOK /\ WireIn(r) \in Channels /\ PlainOut(r) \in Channels
        /\ r = "client" \/ r = "server"
    BY Topology DEF TypeOK, NetOK, Channels, Relays
  <1>1. CASE OpenLength(r)
    <2>1. ChannelInv'
      BY <1>0, <1>1, ChannelTake DEF OpenLength
    <2> DEFINE h == Head(q[WireIn(r)])
    <2>2. IsAt(WireIn(r), h, rd[WireIn(r)] + 1) /\ h \in Token
      BY <1>0, <1>1, HeadPosition, HeadIsToken DEF OpenLength
    <2>3. /\ phase[r] = "relay" \/ (r = "server" /\ phase[r] = "init")
          /\ opn[r].pc = "len" /\ UNCHANGED <<phase, seal, got>>
          /\ opn'[r] = [pc |-> IF h.kind = "hdr" THEN "frame" ELSE "bad", item |-> h.item]
          /\ \A s \in Relays : s # r => opn'[s] = opn[s]
      BY <1>1 DEF OpenLength, Opening, TypeOK
    <2>4. /\ rd'[WireIn(r)] = rd[WireIn(r)] + 1 /\ wr' = wr
          /\ \A d \in Channels : d # WireIn(r) => rd'[d] = rd[d]
      BY <1>0, <1>1, TakeEffect DEF OpenLength
    <2> HIDE DEF h
    <2>5. /\ phase[r] = "relay" => rd[WireIn(r)] = Lead(WireIn(r)) + 2 * wr[PlainOut(r)]
          /\ phase[r] = "init" => rd[WireIn(r)] = 1 /\ Lead(WireIn(r)) = 3
      BY <1>0, <2>3 DEF OpenInv, OpenInStep, WireIn, PlainOut, Lead
    <2>6. /\ h.kind = "hdr"
          /\ h.item = IF phase[r] = "init" THEN 0 ELSE wr[PlainOut(r)] + 1
      <3>1. WireIn(r) \notin Plain /\ h.item \in Nat /\ Lead(WireIn(r)) \in Nat
        BY <1>0, <2>2 DEF WireIn, Plain, Token, Lead
      <3>2. wr[PlainOut(r)] \in Nat /\ rd[WireIn(r)] \in Nat
        BY <1>0, Scalars
      <3>3. WireIn(r) = "client_server" => Lead(WireIn(r)) = 3
        BY DEF Lead
      <3> QED
        BY <2>2, <2>3, <2>5, <3>1, <3>2, <3>3 DEF IsAt
    <2>7. SealInv'
      BY <1>0, <2>3, <2>4, Scalars DEF SealInv, SealInStep, Relays, WireIn, PlainIn
    <2>8. OpenInv'
      <3>1. CASE r = "client"
        BY <2>3, <2>4, <2>5, <2>6, <3>1, Scalars
           DEF OpenInv, OpenInStep, Relays, WireIn, PlainOut, Lead
      <3>2. CASE r = "server" /\ phase[r] = "relay"
        BY <2>3, <2>4, <2>5, <2>6, <3>2, Scalars
           DEF OpenInv, OpenInStep, Relays, WireIn, PlainOut, Lead
      <3>3. CASE r = "server" /\ phase[r] = "init"
        BY <2>3, <2>4, <2>5, <2>6, <3>3, Scalars
           DEF OpenInv, OpenInStep, Relays, WireIn, PlainOut, Lead
      <3> QED
        BY <1>0, <2>3, <3>1, <3>2, <3>3
    <2>9. EndInv'
      BY <1>0, <2>3, <2>4, Scalars DEF EndInv, WireIn, Ends, In
    <2> QED
      BY <2>1, <2>7, <2>8, <2>9
  <1>2. CASE OpenFrame(r)
    <2>1. ChannelInv'
      BY <1>0, <1>2, ChannelTake DEF OpenFrame
    <2> DEFINE h == Head(q[WireIn(r)])
    <2>2. IsAt(WireIn(r), h, rd[WireIn(r)] + 1) /\ h \in Token
      BY <1>0, <1>2, HeadPosition, HeadIsToken DEF OpenFrame
    <2>3. /\ phase[r] = "relay" \/ (r = "server" /\ phase[r] = "init")
          /\ opn[r].pc = "frame" /\ UNCHANGED <<seal, got>>
          /\ \A s \in Relays : s # r => opn'[s] = opn[s] /\ phase'[s] = phase[s]
      BY <1>2 DEF OpenFrame, Opening, TypeOK
    <2>4. /\ rd'[WireIn(r)] = rd[WireIn(r)] + 1 /\ wr' = wr
          /\ \A d \in Channels : d # WireIn(r) => rd'[d] = rd[d]
      BY <1>0, <1>2, TakeEffect DEF OpenFrame
    <2>5. /\ phase[r] = "relay" =>
               /\ rd[WireIn(r)] = Lead(WireIn(r)) + 2 * wr[PlainOut(r)] + 1
               /\ opn[r].item = wr[PlainOut(r)] + 1
          /\ phase[r] = "init" =>
               rd[WireIn(r)] = 2 /\ Lead(WireIn(r)) = 3 /\ opn[r].item = 0
      BY <1>0, <2>3 DEF OpenInv, OpenInStep, WireIn, PlainOut, Lead
    <2>6. h = Tok("body", opn[r].item)
      <3>1. /\ WireIn(r) \notin Plain /\ Lead(WireIn(r)) \in Nat
            /\ WireIn(r) = "client_server" => Lead(WireIn(r)) = 3
        BY <1>0 DEF WireIn, Plain, Lead
      <3>2. wr[PlainOut(r)] \in Nat /\ rd[WireIn(r)] \in Nat /\ h.item \in Nat
        BY <1>0, <2>2, Scalars DEF Token
      <3>3. h.kind = "body" /\ h.item = opn[r].item
        <4> HIDE DEF h
        <4> QED
          BY <2>2, <2>3, <2>5, <3>1, <3>2 DEF IsAt
      <3>4. h = [kind |-> h.kind, item |-> h.item]
        BY <2>2 DEF Token
      <3> QED
        BY <3>3, <3>4 DEF Tok
    <2>7. /\ opn'[r] = [pc |-> IF phase[r] = "init" THEN "len" ELSE "write", item |-> opn[r].item]
          /\ phase'[r] = IF phase[r] = "init" THEN "dial" ELSE phase[r]
      BY <1>2, <2>6 DEF OpenFrame, TypeOK
    <2>8. SealInv'
      BY <1>0, <2>3, <2>4, <2>7, Scalars DEF SealInv, SealInStep, Relays, WireIn, PlainIn
    <2>9. OpenInv'
      <3>1. CASE r = "client"
        BY <2>3, <2>4, <2>5, <2>7, <3>1, Scalars
           DEF OpenInv, OpenInStep, Relays, WireIn, PlainOut, Lead
      <3>2. CASE r = "server" /\ phase[r] = "relay"
        BY <2>3, <2>4, <2>5, <2>7, <3>2, Scalars
           DEF OpenInv, OpenInStep, Relays, WireIn, PlainOut, Lead
      <3>3. CASE r = "server" /\ phase[r] = "init"
        BY <2>3, <2>4, <2>5, <2>7, <3>3, Scalars
           DEF OpenInv, OpenInStep, Relays, WireIn, PlainOut, Lead
      <3> QED
        BY <1>0, <2>3, <3>1, <3>2, <3>3
    <2>10. EndInv'
      BY <1>0, <2>3, <2>4, Scalars DEF EndInv, WireIn, Ends, In
    <2> QED
      BY <2>1, <2>8, <2>9, <2>10
  <1>3. CASE OpenWrite(r)
    <2> DEFINE t == Tok("data", opn[r].item)
    <2>1. /\ phase[r] = "relay" /\ opn[r].pc = "write" /\ CanPut(PlainOut(r))
          /\ Put(PlainOut(r), t) /\ UNCHANGED <<phase, seal, got>>
          /\ opn'[r] = [pc |-> "len", item |-> opn[r].item]
          /\ \A s \in Relays : s # r => opn'[s] = opn[s]
      BY <1>3 DEF OpenWrite, TypeOK
    <2>2. t \in Token
      BY Scalars DEF Token, Tok
    <2>3. /\ wr'[PlainOut(r)] = wr[PlainOut(r)] + 1 /\ rd' = rd
          /\ \A d \in Channels : d # PlainOut(r) => wr'[d] = wr[d]
      BY <1>0, <2>1, PutEffect
    <2>4. /\ opn[r].item = wr[PlainOut(r)] + 1
          /\ rd[WireIn(r)] = Lead(WireIn(r)) + 2 * wr[PlainOut(r)] + 2
      BY <1>0, <2>1 DEF OpenInv, OpenInStep, WireIn, PlainOut, Lead
    <2>5. IsAt(PlainOut(r), t, wr[PlainOut(r)] + 1)
      BY <1>0, <2>4, Topology DEF IsAt, Tok
    <2>6. ChannelInv'
      <3> HIDE DEF t
      <3> QED
        BY <1>0, <2>1, <2>2, <2>5, ChannelPut
    <2>7. SealInv'
      BY <1>0, <2>1, <2>3, Scalars DEF SealInv, SealInStep, Relays, PlainOut, WireOut
    <2>8. OpenInv'
      <3>1. CASE r = "client"
        <4>1. /\ wr'["client_app"] = wr["client_app"] + 1 /\ wr["client_app"] \in Nat
              /\ rd'["server_client"] = 0 + 2 * wr["client_app"] + 2
          BY <2>3, <2>4, <3>1, Scalars DEF WireIn, PlainOut, Lead
        <4>2. /\ phase' = phase /\ phase["client"] = "relay"
              /\ opn'["client"].pc = "len" /\ \A s \in Relays : s # "client" => opn'[s] = opn[s]
          BY <2>1, <3>1
        <4>3. /\ rd'["server_client"] = 0 + 2 * wr'["client_app"]
              /\ 2 * wr'["client_app"] <= rd'["server_client"]
          BY <4>1
        <4> QED
          BY <2>3, <3>1, <4>2, <4>3, Scalars DEF OpenInv, OpenInStep, Relays, PlainOut
      <3>2. CASE r = "server"
        <4>1. /\ wr'["server_target"] = wr["server_target"] + 1 /\ wr["server_target"] \in Nat
              /\ rd'["client_server"] = 3 + 2 * wr["server_target"] + 2
          BY <2>3, <2>4, <3>2, Scalars DEF WireIn, PlainOut, Lead
        <4>2. /\ phase' = phase /\ phase["server"] = "relay"
              /\ opn'["server"].pc = "len" /\ \A s \in Relays : s # "server" => opn'[s] = opn[s]
          BY <2>1, <3>2
        <4>3. /\ rd'["client_server"] = 3 + 2 * wr'["server_target"]
              /\ 3 + 2 * wr'["server_target"] <= rd'["client_server"]
          BY <4>1
        <4> QED
          BY <2>3, <3>2, <4>2, <4>3, Scalars DEF OpenInv, OpenInStep, Relays, PlainOut
      <3> QED
        BY <1>0, <3>1, <3>2
    <2>9. EndInv'
      BY <2>1, <2>3 DEF EndInv
    <2> QED
      BY <2>6, <2>7, <2>8, <2>9
  <1>4. CASE OpenEnd(r)
    <2>1. phase[r] # "none"
      BY <1>4 DEF OpenEnd, OpenEnds, Opening
    <2> QED
      BY <1>4, <2>1, CloseStep DEF OpenEnd
  <1> QED
    BY <1>1, <1>2, <1>3, <1>4 DEF OpenLoop

LEMMA EndStep ==
  ASSUME FlowInv, NEW e \in Ends, PeerStep(e)
  PROVE  ChannelInv' /\ LoopInv'
  <1> USE DEF FlowInv, LoopInv
  <1>0. /\ NetOK /\ In(e) \in Channels /\ Out(e) \in Channels
        /\ e = "app" \/ e = "target"
    BY Topology DEF TypeOK, NetOK, Channels, Ends
  <1>1. CASE PeerSend(e)
    <2> DEFINE t == Tok("data", wr[Out(e)] + 1)
    <2>1. CanPut(Out(e)) /\ Put(Out(e), t) /\ UNCHANGED <<phase, seal, opn, got>>
      BY <1>1 DEF PeerSend
    <2>2. t \in Token /\ IsAt(Out(e), t, wr[Out(e)] + 1)
      BY <1>0, Scalars, Topology DEF Token, Tok, IsAt
    <2>3. /\ wr'[Out(e)] = wr[Out(e)] + 1 /\ rd' = rd
          /\ \A d \in Channels : d # Out(e) => wr'[d] = wr[d]
      BY <1>0, <2>1, PutEffect
    <2>4. ChannelInv'
      <3> HIDE DEF t
      <3> QED
        BY <1>0, <2>1, <2>2, ChannelPut
    <2>5. /\ rd' = rd
          /\ UNCHANGED << wr["client_server"], wr["server_client"],
                          wr["client_app"], wr["server_target"] >>
      BY <1>0, <2>3, Scalars DEF Out
    <2>6. SealInv'
      BY <2>1, <2>5 DEF SealInv, SealInStep
    <2>7. OpenInv'
      BY <2>1, <2>5 DEF OpenInv, OpenInStep
    <2>8. EndInv'
      BY <2>1, <2>3 DEF EndInv
    <2> QED
      BY <2>4, <2>6, <2>7, <2>8
  <1>2. CASE PeerShut(e) \/ PeerSeeEnd(e) \/ PeerClose(e)
    <2>1. UNCHANGED <<q, rd, wr, rst, phase, seal, opn, got>>
      BY <1>2 DEF PeerShut, PeerSeeEnd, PeerClose, tcp
    <2>2. ChannelInv'
      BY <2>1, ChannelUnchanged
    <2> QED
      BY <2>1, <2>2 DEF SealInv, SealInStep, OpenInv, OpenInStep, EndInv
  <1>3. CASE PeerReceive(e)
    <2>1. ChannelInv'
      BY <1>0, <1>3, ChannelTake DEF PeerReceive
    <2>2. /\ rd'[In(e)] = rd[In(e)] + 1 /\ wr' = wr
          /\ \A d \in Channels : d # In(e) => rd'[d] = rd[d]
      BY <1>0, <1>3, TakeEffect DEF PeerReceive
    <2>3. UNCHANGED <<phase, seal, opn>>
      BY <1>3 DEF PeerReceive
    <2>4. UNCHANGED << rd["client_server"], rd["server_client"],
                       rd["app_client"], rd["target_server"] >>
      BY <1>0, <2>2, Scalars DEF In
    <2>5. SealInv'
      BY <2>2, <2>3, <2>4 DEF SealInv, SealInStep, Relays, PlainIn
    <2>6. OpenInv'
      BY <2>2, <2>3, <2>4 DEF OpenInv, OpenInStep
    <2>7. EndInv'
      <3>1. Head(q[In(e)]).item = Len(got[e]) + 1
        BY <1>0, <1>3, HeadPosition, Topology DEF PeerReceive, IsAt, EndInv
      <3>2. /\ got'[e] = Append(got[e], Len(got[e]) + 1)
            /\ \A f \in Ends : f # e => got'[f] = got[f]
        BY <1>3, <3>1 DEF PeerReceive, TypeOK
      <3>3. got[e] \in Seq(Nat) /\ Len(got[e]) \in Nat
        BY LenProperties DEF TypeOK
      <3>4. /\ Len(got'[e]) = Len(got[e]) + 1
            /\ \A i \in 1 .. Len(got'[e]) : got'[e][i] = i
        <4>1. Len(Append(got[e], Len(got[e]) + 1)) = Len(got[e]) + 1
          BY <3>3, AppendProperties
        <4>2. /\ Append(got[e], Len(got[e]) + 1)[Len(got[e]) + 1] = Len(got[e]) + 1
              /\ \A i \in 1 .. Len(got[e]) : Append(got[e], Len(got[e]) + 1)[i] = got[e][i]
          BY <3>3, AppendProperties
        <4> QED
          BY <3>2, <3>3, <4>1, <4>2 DEF EndInv
      <3>5. \A f \in Ends : f # e => rd'[In(f)] = rd[In(f)]
        BY <1>0, <2>2, Scalars DEF Ends, In
      <3> QED
        BY <2>2, <3>2, <3>4, <3>5 DEF EndInv
    <2> QED
      BY <2>1, <2>5, <2>6, <2>7
  <1> QED
    BY <1>1, <1>2, <1>3 DEF PeerStep

LEMMA InvInit == Init => FlowInv
  <1> SUFFICES ASSUME Init PROVE ChannelInv /\ LoopInv
    BY TypeInit DEF FlowInv, LoopInv
  <1>1. ChannelInv
    BY EmptySeq DEF Init, ChannelInv
  <1>2. SealInv
    BY DEF Init, SealInv, SealInStep, Relays, PlainIn, Channels, Plain, Wire
  <1>3. OpenInv
    BY DEF Init, OpenInv, Relays, Channels, Plain, Wire
  <1>4. EndInv
    BY EmptySeq, Topology DEF Init, EndInv, Channels
  <1> QED
    BY <1>1, <1>2, <1>3, <1>4 DEF LoopInv

LEMMA InvStep == FlowInv /\ [Next]_vars => FlowInv'
  <1> SUFFICES ASSUME FlowInv, [Next]_vars PROVE ChannelInv' /\ LoopInv'
    BY TypeStep DEF FlowInv, LoopInv
  <1> USE DEF FlowInv
  <1>1. CASE Setup
    BY <1>1, SetupStep
  <1>2. CASE \E r \in Relays : SealLoop(r) \/ OpenLoop(r)
    BY <1>2, SealStep, OpenStep
  <1>3. CASE \E r \in Relays : Crash(r)
    BY <1>3, CloseStep DEF Crash
  <1>4. CASE \E c \in Channels : Reset(c)
    <2>1. NetOK
      BY DEF TypeOK, NetOK
    <2>2. UNCHANGED <<rd, wr, phase, seal, opn, got>>
      BY <1>4 DEF Reset
    <2> QED
      BY <1>4, <2>1, <2>2, ChannelReset
         DEF LoopInv, SealInv, SealInStep, OpenInv, OpenInStep, EndInv
  <1>5. CASE \E e \in Ends : PeerStep(e)
    BY <1>5, EndStep
  <1>6. CASE UNCHANGED vars
    BY <1>6, ChannelUnchanged
       DEF vars, LoopInv, SealInv, SealInStep, OpenInv, OpenInStep, EndInv
  <1> QED
    BY <1>1, <1>2, <1>3, <1>4, <1>5, <1>6, NextCases

\* The tokens in every channel are the consecutive ones between the reader's
\* and the writer's position, and the four loops are in step with them.
THEOREM FlowInvariance == Spec => []FlowInv
  BY InvInit, InvStep, PTL DEF Spec

--------------------------------------------------------------------------------
(* What follows.                                                           *)

\* Whatever end e received came through each of the five hand-overs between
\* the two ends, so it is no more than the other end sent.
LEMMA InOrder == FlowInv => DeliveredInOrder
  <1> SUFFICES ASSUME FlowInv, NEW e \in Ends
               PROVE  Len(got[e]) <= wr[Out(Other(e))] /\ got[e] = UpTo(Len(got[e]))
    BY DEF DeliveredInOrder
  <1> USE DEF FlowInv
  <1>1. \A c \in Channels : rd[c] <= wr[c]
    <2> SUFFICES ASSUME NEW c \in Channels PROVE rd[c] <= wr[c]
      OBVIOUS
    <2>1. Len(q[c]) \in Nat /\ rd[c] \in Nat /\ wr[c] \in Nat
      BY LenProperties DEF TypeOK
    <2> QED
      BY <2>1 DEF ChannelInv
  <1>2. Len(got[e]) = rd[In(e)]
    BY DEF EndInv
  <1>3. CASE e = "app"
    <2>1. Len(got[e]) <= wr["client_app"]
      BY <1>1, <1>2, <1>3, Scalars DEF In
    <2>2. 2 * wr["client_app"] <= rd["server_client"]
      BY DEF OpenInv
    <2>3. wr["server_client"] <= 2 * rd["target_server"]
      BY Scalars DEF SealInv, SealInStep, Relays, PlainIn
    <2>4. rd["target_server"] <= wr["target_server"] /\ rd["server_client"] <= wr["server_client"]
      BY <1>1, Scalars
    <2>5. Len(got[e]) \in Nat
      BY LenProperties DEF TypeOK
    <2>6. Len(got[e]) <= wr["target_server"]
      BY <2>1, <2>2, <2>3, <2>4, <2>5, Scalars
    <2>7. Out(Other(e)) = "target_server"
      BY <1>3 DEF Out, Other
    <2> QED
      BY <2>6, <2>7, LenProperties DEF EndInv, UpTo, TypeOK
  <1>4. CASE e = "target"
    <2>1. Len(got[e]) <= wr["server_target"]
      BY <1>1, <1>2, <1>4, Scalars DEF In
    <2>2. wr["server_target"] = 0 \/ 3 + 2 * wr["server_target"] <= rd["client_server"]
      BY DEF OpenInv
    <2>3. wr["client_server"] <= 3 + 2 * rd["app_client"]
      BY Scalars DEF SealInv, SealInStep, Relays, PlainIn
    <2>4. rd["app_client"] <= wr["app_client"] /\ rd["client_server"] <= wr["client_server"]
      BY <1>1, Scalars
    <2>5. Len(got[e]) \in Nat
      BY LenProperties DEF TypeOK
    <2>6. Len(got[e]) <= wr["app_client"]
      <3>1. /\ wr["server_target"] \in Nat /\ wr["client_server"] \in Nat
            /\ wr["app_client"] \in Nat /\ rd["client_server"] \in Nat
            /\ rd["app_client"] \in Nat
        BY Scalars
      <3>2. CASE wr["server_target"] = 0
        BY <2>1, <2>5, <3>1, <3>2
      <3>3. CASE 3 + 2 * wr["server_target"] <= rd["client_server"]
        <4>1. 3 + 2 * wr["server_target"] <= wr["client_server"]
          BY <2>4, <3>1, <3>3
        <4>2. wr["client_server"] <= 3 + 2 * wr["app_client"]
          BY <2>3, <2>4, <3>1
        <4>3. wr["server_target"] <= wr["app_client"]
          BY <4>1, <4>2, <3>1
        <4> QED
          BY <2>1, <2>5, <3>1, <4>3
      <3> QED
        BY <2>2, <3>2, <3>3
    <2>7. Out(Other(e)) = "app_client"
      BY <1>4 DEF Out, Other
    <2> QED
      BY <2>6, <2>7, LenProperties DEF EndInv, UpTo, TypeOK
  <1> QED
    BY <1>3, <1>4 DEF Ends

\* Each end receives a prefix of what the other one sent, however the tunnel
\* is closed, reset, refused or crashed on the way.
THEOREM InOrderDelivery == Spec => []DeliveredInOrder
  BY FlowInvariance, InOrder, PTL

\* The two relays never lose the frame boundary: no length is read out of a
\* frame and no frame is decrypted with the wrong length.
THEOREM FramesStayAligned == Spec => []FramesAligned
  <1>1. FlowInv => FramesAligned
    BY DEF FlowInv, OpenInv, FramesAligned
  <1> QED
    BY <1>1, FlowInvariance, PTL

--------------------------------------------------------------------------------
(* The ends of the tunnel: whom it joins, why it finishes, what has        *)
(* arrived when it does, and that it implements a pair of byte streams.    *)
(* The counters of FlowInv do most of the work; what is new is what a      *)
(* relay had read before it returned.                                      *)

\* The steps on which a relay returns and its process goes on.
Returns(r) == UserIdFails(r) \/ SealEnd(r) \/ OpenEnd(r)

\* The steps on which it returns because the tunnel failed.
Fails(r) ==
  \/ r = "client" /\ ClientConnectFails
  \/ r = "server" /\ (ServerRefuse \/ ServerDialFails)
  \/ Crash(r)

\* All other steps.
Works ==
  \/ ClientConnect \/ ClientSendUser \/ ServerReadUser \/ ServerDial
  \/ \E r \in Relays :
       SealRead(r) \/ SealHeader(r) \/ SealBody(r)
         \/ OpenLength(r) \/ OpenFrame(r) \/ OpenWrite(r)
  \/ \E c \in Channels : Reset(c)
  \/ \E e \in Ends : PeerStep(e)

LEMMA StepCases ==
  ASSUME Next
  PROVE  Works \/ \E r \in Relays : Returns(r) \/ Fails(r)
  BY NextCases DEF Setup, SealLoop, OpenLoop, Works, Returns, Fails, Relays

LEMMA ReturnCloses ==
  ASSUME NEW r \in Relays, Returns(r) \/ Fails(r)
  PROVE  Close(r) /\ (Returns(r) => fault' = fault) /\ (Fails(r) => fault')
  BY DEF Returns, Fails, UserIdFails, SealEnd, OpenEnd, ClientConnectFails, ServerRefuse,
         ServerDialFails, Crash

LEMMA CloseEffect ==
  ASSUME TypeOK, NEW r \in Relays, Close(r)
  PROVE  /\ UNCHANGED <<q, rd, wr, rst, seal, opn, peer, got, user>>
         /\ phase'[r] = "closed" /\ \A p \in Relays : p # r => phase'[p] = phase[p]
         /\ \A c \in Channels : fin'[c] = (fin[c] \/ c \in {PlainOut(r), WireOut(r)})
         /\ \A c \in Channels : gone'[c] = (gone[c] \/ c \in {PlainIn(r), WireIn(r)})
  BY DEF TypeOK, Close

\* A relay that works on does not return, and what has happened to a socket
\* is not undone.
LEMMA WorkEffect ==
  ASSUME FlowInv, Works
  PROVE  /\ fault' = fault /\ user' = user
         /\ \A r \in Relays : phase'[r] = "closed" <=> phase[r] = "closed"
         /\ \A c \in Channels : fin[c] => fin'[c]
         /\ \A k \in Conns : rst[k] => rst'[k]
  <1> USE DEF FlowInv, TypeOK, tcp, Take, Put
  <1>1. CASE ClientConnect \/ ClientSendUser \/ ServerReadUser \/ ServerDial
    <2>1. UNCHANGED <<fault, user, fin, rst>>
      BY <1>1 DEF ClientConnect, ClientSendUser, ServerReadUser, ServerDial
    <2>2. \A r \in Relays : phase'[r] = "closed" <=> phase[r] = "closed"
      <3> SUFFICES /\ phase'["client"] = "closed" <=> phase["client"] = "closed"
                   /\ phase'["server"] = "closed" <=> phase["server"] = "closed"
        BY DEF Relays
      <3>1. CASE ClientConnect
        <4>1. phase["server"] = "none"
          BY <3>1 DEF ClientConnect, OpenInv
        <4> QED
          BY <3>1, <4>1 DEF ClientConnect, Relays
      <3>2. CASE ClientSendUser \/ ServerReadUser \/ ServerDial
        BY <3>2 DEF ClientSendUser, ServerReadUser, ServerDial, Relays
      <3> QED
        BY <1>1, <3>1, <3>2
    <2> QED
      BY <2>1, <2>2
  <1>2. CASE \E r \in Relays : SealRead(r) \/ SealHeader(r) \/ SealBody(r)
    <2> PICK r \in Relays : SealRead(r) \/ SealHeader(r) \/ SealBody(r)
      BY <1>2
    <2>1. UNCHANGED <<fault, user, fin, rst>>
      BY DEF SealRead, SealHeader, SealBody
    <2>2. /\ phase' = phase \/ phase' = [phase EXCEPT ![r] = "relay"]
          /\ phase[r] # "closed"
      BY DEF SealRead, SealHeader, SealBody
    <2> QED
      BY <2>1, <2>2
  <1>3. CASE \E r \in Relays : OpenLength(r) \/ OpenFrame(r) \/ OpenWrite(r)
    <2> PICK r \in Relays : OpenLength(r) \/ OpenFrame(r) \/ OpenWrite(r)
      BY <1>3
    <2>1. UNCHANGED <<fault, user, fin, rst>>
      BY DEF OpenLength, OpenFrame, OpenWrite
    <2>2. /\ phase' = phase \/ phase' = [phase EXCEPT ![r] = "dial"] \/ phase' = [phase EXCEPT ![r] = phase[r]]
          /\ phase[r] # "closed"
      BY DEF OpenLength, OpenFrame, OpenWrite, Opening
    <2> QED
      BY <2>1, <2>2
  <1>4. CASE \E c \in Channels : Reset(c)
    BY <1>4, Topology DEF Reset
  <1>5. CASE \E e \in Ends : PeerStep(e)
    BY <1>5, Topology DEF PeerStep, PeerSend, PeerShut, PeerReceive, PeerSeeEnd, PeerClose, Channels
  <1> QED
    BY <1>1, <1>2, <1>3, <1>4, <1>5 DEF Works

--------------------------------------------------------------------------------
(* Who may be joined.                                                      *)

LEMMA AllowedStep ==
  ASSUME TypeOK, AllowedInv, [Next]_vars
  PROVE  AllowedInv'
  <1> USE DEF AllowedInv, TypeOK, Relays, Ends
  <1>1. CASE \E r \in Relays : Returns(r) \/ Fails(r)
    BY <1>1, ReturnCloses, CloseEffect
  <1>2. CASE ClientConnect \/ ClientSendUser \/ ServerReadUser \/ ServerDial
    BY <1>2 DEF ClientConnect, ClientSendUser, ServerReadUser, ServerDial
  <1>3. CASE \E r \in Relays : SealRead(r) \/ SealHeader(r) \/ SealBody(r)
    BY <1>3 DEF SealRead, SealHeader, SealBody
  <1>4. CASE \E r \in Relays : OpenLength(r) \/ OpenFrame(r) \/ OpenWrite(r)
    BY <1>4 DEF OpenLength, OpenFrame, OpenWrite, Opening
  <1>5. CASE \E c \in Channels : Reset(c)
    BY <1>5 DEF Reset
  <1>6. CASE \E e \in Ends : PeerStep(e)
    BY <1>6 DEF PeerStep, PeerSend, PeerShut, PeerReceive, PeerSeeEnd, PeerClose
  <1>7. CASE UNCHANGED vars
    BY <1>7 DEF vars
  <1> QED
    BY <1>1, <1>2, <1>3, <1>4, <1>5, <1>6, <1>7, StepCases DEF Works

--------------------------------------------------------------------------------
(* Who closes what, and what a reset follows.                              *)

\* Which relay writes and which one reads a channel, and which end.
LEMMA Owners ==
  /\ \A r \in Relays : \A e \in Ends :
       /\ PlainOut(r) # Out(e) /\ WireOut(r) # Out(e)
       /\ PlainIn(r) # In(e) /\ WireIn(r) # In(e)
  /\ \A p, r \in Relays :
       /\ PlainOut(p) # WireOut(r) /\ PlainIn(p) # WireIn(r) /\ PlainIn(p) # PlainOut(r)
       /\ p # r => /\ PlainOut(p) # PlainOut(r) /\ WireOut(p) # WireOut(r)
                   /\ PlainIn(p) # PlainIn(r) /\ WireIn(p) # WireIn(r)
  /\ \A e, f \in Ends : e # f => In(e) # In(f) /\ Out(e) # Out(f)
  /\ \A r \in Relays : {PlainIn(r), PlainOut(r), WireIn(r), WireOut(r)} \subseteq Channels
  /\ \A e \in Ends : {In(e), Out(e)} \subseteq Channels
  /\ \A c \in Channels :
       \/ \E r \in Relays : c \in {PlainIn(r), WireIn(r)}
       \/ \E e \in Ends : c = In(e)
  /\ \A c \in Channels :
       \/ \E r \in Relays : c \in {PlainOut(r), WireOut(r)}
       \/ \E e \in Ends : c = Out(e)
  BY DEF Relays, Ends, Channels, Wire, Plain, PlainIn, PlainOut, WireIn, WireOut, In, Out

LEMMA ClosedStep ==
  ASSUME FlowInv, ClosedInv, [Next]_vars
  PROVE  ClosedInv'
  <1> USE DEF FlowInv
  <1>1. CASE \E r \in Relays : Returns(r) \/ Fails(r)
    <2> PICK r \in Relays : Returns(r) \/ Fails(r)
      BY <1>1
    <2>1. Close(r)
      BY ReturnCloses
    <2>2. /\ rst' = rst /\ phase'[r] = "closed" /\ \A p \in Relays : p # r => phase'[p] = phase[p]
          /\ \A c \in Channels : fin'[c] = (fin[c] \/ c \in {PlainOut(r), WireOut(r)})
          /\ \A c \in Channels : gone'[c] = (gone[c] \/ c \in {PlainIn(r), WireIn(r)})
      BY <2>1, CloseEffect
    <2>5. \A p \in Relays :
            fin'[PlainOut(p)] \/ fin'[WireOut(p)] \/ gone'[PlainIn(p)] \/ gone'[WireIn(p)] =>
              phase'[p] = "closed"
      <3> SUFFICES ASSUME NEW p \in Relays, p # r
                   PROVE  /\ fin'[PlainOut(p)] \/ fin'[WireOut(p)] => fin[PlainOut(p)] \/ fin[WireOut(p)]
                          /\ gone'[PlainIn(p)] \/ gone'[WireIn(p)] => gone[PlainIn(p)] \/ gone[WireIn(p)]
        BY <2>2 DEF ClosedInv
      <3>1. /\ PlainOut(p) \notin {PlainOut(r), WireOut(r)} /\ WireOut(p) \notin {PlainOut(r), WireOut(r)}
            /\ PlainIn(p) \notin {PlainIn(r), WireIn(r)} /\ WireIn(p) \notin {PlainIn(r), WireIn(r)}
            /\ {PlainIn(p), PlainOut(p), WireIn(p), WireOut(p)} \subseteq Channels
        BY Owners
      <3> QED
        BY <2>2, <3>1
    <2>6. \A e \in Ends : gone'[In(e)] => fin'[Out(e)]
      BY <2>2, Owners DEF ClosedInv
    <2>7. \A k \in Conns : rst'[k] => \E c \in Channels : gone'[c]
      BY <2>2 DEF ClosedInv
    <2>3. phase'["server"] = "none" => phase'["client"] \in {"connect", "closed"}
      BY <2>1, CloseEffect DEF ClosedInv, Relays
    <2>4. phase'["server"] = "refuse" => rd'["client_server"] = 1
      BY <2>1, CloseEffect DEF ClosedInv, Relays
    <2>8. peer'["target"] # "none" => phase'["server"] \in {"relay", "closed"}
      BY <2>1, CloseEffect DEF ClosedInv, Relays
    <2> QED
      BY <2>3, <2>4, <2>5, <2>6, <2>7, <2>8 DEF ClosedInv
  <1> DEFINE Sockets ==
        /\ \A r \in Relays :
             fin[PlainOut(r)] \/ fin[WireOut(r)] \/ gone[PlainIn(r)] \/ gone[WireIn(r)] =>
               phase[r] = "closed"
        /\ \A e \in Ends : gone[In(e)] => fin[Out(e)]
        /\ \A k \in Conns : rst[k] => \E c \in Channels : gone[c]
             Phases ==
        /\ phase["server"] = "none" => phase["client"] \in {"connect", "closed"}
        /\ phase["server"] = "refuse" => rd["client_server"] = 1
        /\ peer["target"] # "none" => phase["server"] \in {"relay", "closed"}
  <1>2. CASE ClientConnect \/ ClientSendUser \/ ServerReadUser \/ ServerDial
    <2>1. Sockets'
      BY <1>2, WorkEffect DEF ClosedInv, Works, ClientConnect, ClientSendUser, ServerReadUser,
                              ServerDial, tcp, Take, Put
    <2>2. Phases'
      BY <1>2 DEF ClosedInv, OpenInv, TypeOK, Relays, Channels, Wire, ClientConnect,
                  ClientSendUser, ServerReadUser, ServerDial, tcp, Take, Put
    <2> QED
      BY <2>1, <2>2 DEF ClosedInv
  <1>3. CASE \E r \in Relays : SealRead(r) \/ SealHeader(r) \/ SealBody(r)
    <2>1. Sockets'
      BY <1>3, WorkEffect DEF ClosedInv, Works, SealRead, SealHeader, SealBody, Take, Put
    <2>2. Phases'
      BY <1>3 DEF ClosedInv, TypeOK, Relays, Channels, Wire, Plain, PlainIn, SealRead, SealHeader,
                  SealBody, Take, Put
    <2> QED
      BY <2>1, <2>2 DEF ClosedInv
  <1>4. CASE \E r \in Relays : OpenLength(r) \/ OpenFrame(r) \/ OpenWrite(r)
    <2>1. Sockets'
      BY <1>4, WorkEffect DEF ClosedInv, Works, OpenLength, OpenFrame, OpenWrite, Take, Put
    <2>2. Phases'
      BY <1>4 DEF ClosedInv, TypeOK, Relays, Channels, Wire, Plain, WireIn, Opening, OpenLength,
                  OpenFrame, OpenWrite, Take, Put
    <2> QED
      BY <2>1, <2>2 DEF ClosedInv
  <1>5. CASE \E c \in Channels : Reset(c)
    BY <1>5, Topology DEF Reset, ClosedInv, TypeOK
  <1>6. CASE \E e \in Ends : PeerStep(e)
    <2> PICK e \in Ends : PeerStep(e)
      BY <1>6
    <2>0. /\ UNCHANGED <<phase, rst>> /\ In(e) \in Channels /\ Out(e) \in Channels
          /\ peer'["target"] # "none" => peer["target"] # "none"
      <3>1. UNCHANGED <<phase, rst>> /\ In(e) \in Channels /\ Out(e) \in Channels
        BY Owners DEF PeerStep, PeerSend, PeerShut, PeerReceive, PeerSeeEnd, PeerClose, tcp, Take, Put
      <3>2. peer'["target"] # "none" => peer["target"] # "none"
        BY DEF PeerStep, PeerSend, PeerShut, PeerReceive, PeerSeeEnd, PeerClose, TypeOK, Ends
      <3> QED
        BY <3>1, <3>2
    <2>1. CASE PeerSend(e) \/ PeerReceive(e) \/ PeerSeeEnd(e)
      <3>1. UNCHANGED <<fin, gone>> /\ rd'["client_server"] = rd["client_server"]
        BY <2>0, <2>1 DEF PeerSend, PeerReceive, PeerSeeEnd, tcp, Take, Put, TypeOK, In, Channels, Wire
      <3> QED
        BY <2>0, <3>1 DEF ClosedInv
    <2>2. CASE PeerShut(e)
      <3>1. UNCHANGED <<rd, gone>> /\ \A c \in Channels : fin'[c] = (fin[c] \/ c = Out(e))
        BY <2>0, <2>2 DEF PeerShut, TypeOK
      <3> QED
        BY <2>0, <3>1, Owners DEF ClosedInv
    <2>3. CASE PeerClose(e)
      <3>1. /\ UNCHANGED rd
            /\ \A c \in Channels : fin'[c] = (fin[c] \/ c = Out(e))
            /\ \A c \in Channels : gone'[c] = (gone[c] \/ c = In(e))
        BY <2>0, <2>3 DEF PeerClose, TypeOK
      <3> QED
        BY <2>0, <3>1, Owners DEF ClosedInv
    <2> QED
      BY <2>1, <2>2, <2>3 DEF PeerStep
  <1>7. CASE UNCHANGED vars
    BY <1>7 DEF vars, ClosedInv
  <1> QED
    BY <1>1, <1>2, <1>3, <1>4, <1>5, <1>6, <1>7, StepCases DEF Works
--------------------------------------------------------------------------------
(* Why a relay has returned.                                               *)

LEMMA NothingYet ==
  ASSUME ClosedInv, CauseInv, ~Reason
  PROVE  /\ \A r \in Relays : phase[r] # "closed"
         /\ \A c \in Channels : ~fin[c] /\ ~gone[c]
         /\ \A k \in Conns : ~rst[k]
  <1>1. \A r \in Relays : phase[r] # "closed"
    BY DEF CauseInv
  <1>2. \A c \in Channels : ~fin[c]
    BY <1>1, Owners DEF ClosedInv, Reason
  <1>3. \A c \in Channels : ~gone[c]
    BY <1>1, <1>2, Owners DEF ClosedInv
  <1> QED
    BY <1>1, <1>2, <1>3 DEF ClosedInv

LEMMA CauseStep ==
  ASSUME FlowInv, ClosedInv, CauseInv, [Next]_vars
  PROVE  CauseInv'
  <1> USE DEF FlowInv
  <1>1. CASE \E r \in Relays : Fails(r)
    BY <1>1, ReturnCloses DEF CauseInv, Reason
  <1>2. ASSUME NEW r \in Relays, Returns(r)
        PROVE  Reason'
    <2>1. CASE Reason
      BY <1>2, <2>1, ReturnCloses, CloseEffect, Owners DEF Reason
    <2>2. CASE ~Reason
      <3>1. /\ \A p \in Relays : phase[p] # "closed"
            /\ \A c \in Channels : ~fin[c] /\ ~gone[c]
            /\ \A k \in Conns : ~rst[k]
        BY <2>2, NothingYet
      <3>2. \A c \in Channels : ~Ended(c)
        BY <3>1, Topology DEF Ended
      <3>3. ~UserIdFails(r)
        BY <3>1, <3>2 DEF UserIdFails, Channels, Wire, Conns
      <3>4. ~SealEnd(r)
        BY <3>1, <3>2, Owners DEF SealEnd, SealEnds, Conns
      <3>5. ~OpenEnd(r)
        BY <3>1, <3>2, Owners, Topology DEF OpenEnd, OpenEnds, OpenInv
      <3> QED
        BY <1>2, <3>3, <3>4, <3>5 DEF Returns
    <2> QED
      BY <2>1, <2>2
  <1>3. CASE Works
    BY <1>3, WorkEffect, Owners DEF CauseInv, Reason
  <1>4. CASE UNCHANGED vars
    BY <1>4 DEF vars, CauseInv, Reason
  <1> QED
    BY <1>1, <1>2, <1>3, <1>4, StepCases DEF CauseInv

--------------------------------------------------------------------------------
(* What had been forwarded when a relay returned.                          *)

\* Only the relay or the end that owns a socket moves its counters.
LEMMA CountersMove ==
  ASSUME FlowInv, Works
  PROVE  /\ \A c \in Channels : rd'[c] # rd[c] =>
              \/ \E r \in Relays : c \in {PlainIn(r), WireIn(r)} /\ phase[r] # "closed"
              \/ \E e \in Ends : c = In(e) /\ peer[e] = "open"
         /\ \A c \in Channels : wr'[c] # wr[c] =>
              \/ \E r \in Relays : c \in {PlainOut(r), WireOut(r)} /\ phase[r] # "closed"
              \/ \E e \in Ends : c = Out(e) /\ ~fin[Out(e)]
  <1> USE DEF FlowInv, TypeOK, Take, Put
  <1>1. CASE ClientConnect \/ ClientSendUser \/ ServerReadUser \/ ServerDial
    BY <1>1 DEF ClientConnect, ClientSendUser, ServerReadUser, ServerDial, tcp, Relays, WireIn,
                WireOut
  <1>2. ASSUME NEW r \in Relays, SealRead(r) \/ SealHeader(r) \/ SealBody(r)
        PROVE  /\ phase[r] # "closed"
               /\ \A c \in Channels : rd'[c] # rd[c] => c = PlainIn(r)
               /\ \A c \in Channels : wr'[c] # wr[c] => c = WireOut(r)
    BY <1>2 DEF SealRead, SealHeader, SealBody
  <1>3. ASSUME NEW r \in Relays, OpenLength(r) \/ OpenFrame(r) \/ OpenWrite(r)
        PROVE  /\ phase[r] # "closed"
               /\ \A c \in Channels : rd'[c] # rd[c] => c = WireIn(r)
               /\ \A c \in Channels : wr'[c] # wr[c] => c = PlainOut(r)
    BY <1>3 DEF OpenLength, OpenFrame, OpenWrite, Opening
  <1>4. CASE \E c \in Channels : Reset(c)
    BY <1>4 DEF Reset
  <1>5. ASSUME NEW e \in Ends, PeerStep(e)
        PROVE  /\ \A c \in Channels : rd'[c] # rd[c] => c = In(e) /\ peer[e] = "open"
               /\ \A c \in Channels : wr'[c] # wr[c] => c = Out(e) /\ ~fin[Out(e)]
    BY <1>5 DEF PeerStep, PeerSend, PeerShut, PeerReceive, PeerSeeEnd, PeerClose, tcp
  <1> QED
    BY <1>1, <1>2, <1>3, <1>4, <1>5 DEF Works

\* The end of a channel was reached: all that was written has been read.
LEMMA DrainedAtEnd ==
  ASSUME FlowInv, NoReset, NEW c \in Channels, Ended(c)
  PROVE  fin[c] /\ rd[c] = wr[c]
  <1>1. Len(q[c]) = 0
    BY EmptySeq DEF Ended
  <1> QED
    BY <1>1, Topology DEF FlowInv, TypeOK, ChannelInv, NoReset, Ended

\* The route of what end e sends.
LEMMA Route ==
  ASSUME NEW e \in Ends
  PROVE  /\ Sealer(e) \in Relays /\ Opener(e) \in Relays /\ Sealer(e) # Opener(e)
         /\ \A r \in Relays : r = Sealer(e) \/ r = Opener(e)
         /\ Other(e) \in Ends /\ Other(e) # e
         /\ PlainIn(Sealer(e)) = Out(e) /\ WireOut(Sealer(e)) = WireIn(Opener(e))
         /\ PlainOut(Opener(e)) = In(Other(e)) /\ PlainIn(Opener(e)) = Out(Other(e))
         /\ WireIn(Sealer(e)) = WireOut(Opener(e))
         /\ Lead(WireOut(Sealer(e))) = IF e = "app" THEN 3 ELSE 0
  BY DEF Ends, Relays, Sealer, Opener, Other, PlainIn, PlainOut, WireIn, WireOut, In, Out, Lead

\* What DrainInv says of the stream of end e, under its hypothesis.
Drained(e) ==
  LET s == Sealer(e)  o == Opener(e) IN
    /\ phase[s] = "closed" =>
         /\ fin[PlainIn(s)] /\ rd[PlainIn(s)] = wr[PlainIn(s)]
         /\ wr[WireOut(s)] = Lead(WireOut(s)) + 2 * rd[PlainIn(s)]
    /\ phase[o] = "closed" =>
         /\ phase[s] = "closed" /\ rd[WireIn(o)] = wr[WireIn(o)]
         /\ rd[WireIn(o)] = Lead(WireIn(o)) + 2 * wr[PlainOut(o)]
    /\ peer[Other(e)] = "eof" =>
         phase[o] = "closed" /\ rd[PlainOut(o)] = wr[PlainOut(o)]

Sound(e) == ~fault /\ NoReset /\ ~fin[Out(Other(e))]

LEMMA DrainParts == DrainInv <=> \A e \in Ends : Sound(e) => Drained(e)
  BY DEF DrainInv, Sound, Drained

\* The sealer returns on its own only at the end of its plain stream.
LEMMA SealerReturns ==
  ASSUME FlowInv, ClosedInv, NEW e \in Ends, Sound(e), Drained(e), Returns(Sealer(e)),
         phase[Sealer(e)] # "closed"
  PROVE  LET s == Sealer(e) IN
           /\ fin[PlainIn(s)] /\ rd[PlainIn(s)] = wr[PlainIn(s)]
           /\ wr[WireOut(s)] = Lead(WireOut(s)) + 2 * rd[PlainIn(s)]
  <1> USE DEF FlowInv
  <1> DEFINE s == Sealer(e)
             o == Opener(e)
  <1>0. s \in Relays /\ o \in Relays /\ phase[o] # "closed"
    BY Route DEF Drained
  <1>1. ~rst["cs"] /\ ~fin[WireIn(s)] /\ ~Ended(WireIn(s)) /\ \A k \in Conns : ~rst[k]
    BY <1>0, Route, Topology DEF ClosedInv, Sound, NoReset, Conns, Ended
  <1>2. ~UserIdFails(s)
    BY <1>0, <1>1 DEF UserIdFails, WireIn, Relays
  <1>3. ~OpenEnd(s)
    BY <1>0, <1>1, Topology, Owners DEF OpenEnd, OpenEnds, OpenInv
  <1>4. phase[s] = "relay" /\ seal[s].pc = "read" /\ Ended(PlainIn(s))
    BY <1>1, <1>2, <1>3 DEF Returns, SealEnd, SealEnds
  <1>5. fin[PlainIn(s)] /\ rd[PlainIn(s)] = wr[PlainIn(s)]
    BY <1>0, <1>4, DrainedAtEnd, Owners DEF Sound
  <1>6. wr[WireOut(s)] = Lead(WireOut(s)) + 2 * rd[PlainIn(s)]
    BY <1>0, <1>4 DEF SealInv, SealInStep, Relays, WireOut, Lead
  <1> QED
    BY <1>5, <1>6

\* The opener returns on its own only at the end of its wire stream, between
\* two frames, and then the sealer has returned.
LEMMA OpenerReturns ==
  ASSUME FlowInv, ClosedInv, NEW e \in Ends, Sound(e), Drained(e), Returns(Opener(e)),
         phase[Opener(e)] # "closed"
  PROVE  LET s == Sealer(e)  o == Opener(e) IN
           /\ phase[s] = "closed" /\ rd[WireIn(o)] = wr[WireIn(o)]
           /\ rd[WireIn(o)] = Lead(WireIn(o)) + 2 * wr[PlainOut(o)]
  <1> USE DEF FlowInv
  <1> DEFINE s == Sealer(e)
             o == Opener(e)
             n == rd[PlainIn(s)]
  <1>0. s \in Relays /\ o \in Relays
    BY Route
  <1>1. ~rst["cs"] /\ ~Ended(PlainIn(o)) /\ \A k \in Conns : ~rst[k]
    BY <1>0, Route, Topology, Owners DEF Sound, NoReset, Conns, Ended
  <1>2. Ended(WireIn(o)) =>
          phase[s] = "closed" /\ rd[WireIn(o)] = wr[WireIn(o)]
            /\ wr[WireIn(o)] = Lead(WireIn(o)) + 2 * n
    BY <1>0, DrainedAtEnd, Route, Owners DEF ClosedInv, Sound, Drained
  <1>3. ~UserIdFails(o)
    <2> SUFFICES ASSUME UserIdFails(o) PROVE FALSE
      OBVIOUS
    <2>1. o = "server" /\ WireIn(o) = "client_server" /\ Ended(WireIn(o))
      BY <1>0, <1>1 DEF UserIdFails, Relays, WireIn
    <2>2. rd[WireIn(o)] = 0 /\ Lead(WireIn(o)) = 3
      BY <2>1 DEF UserIdFails, OpenInv, Lead
    <2>3. n \in Nat
      BY <1>0, Owners, Scalars
    <2> QED
      BY <1>2, <2>1, <2>2, <2>3
  <1>4. ~SealEnd(o)
    BY <1>0, <1>1 DEF SealEnd, SealEnds
  <1>5. Opening(o) /\ opn[o].pc \in {"len", "frame"} /\ Ended(WireIn(o))
    BY <1>0, <1>1, <1>3, <1>4, Topology, Owners DEF Returns, OpenEnd, OpenEnds, OpenInv
  <1>6. n \in Nat /\ wr[PlainOut(o)] \in Nat /\ rd[WireIn(o)] \in Nat
    BY <1>0, Owners, Scalars
  <1>7. rd[WireIn(o)] = Lead(WireIn(o)) + 2 * wr[PlainOut(o)]
    <2>1. CASE phase[o] = "relay"
      <3>1. OpenInStep(opn[o], rd[WireIn(o)], wr[PlainOut(o)], Lead(WireIn(o)))
        BY <1>0, <2>1 DEF OpenInv, Relays, WireIn, PlainOut, Lead
      <3>2. Lead(WireIn(o)) \in Nat
        BY DEF Lead
      <3> HIDE DEF n, o, s
      <3> QED
        BY <1>2, <1>5, <1>6, <3>1, <3>2 DEF OpenInStep
    <2>2. CASE o = "server" /\ phase[o] = "init"
      <3>1. rd[WireIn(o)] \in {1, 2} /\ Lead(WireIn(o)) = 3
        BY <2>2 DEF OpenInv, WireIn, Lead
      <3> QED
        BY <1>2, <1>5, <1>6, <3>1
    <2> QED
      BY <1>5, <2>1, <2>2 DEF Opening
  <1> QED
    BY <1>2, <1>5, <1>7

\* Whatever makes a stream unsound makes it so for good.
LEMMA SoundBefore ==
  ASSUME FlowInv, [Next]_vars, NEW e \in Ends, Sound(e)'
  PROVE  Sound(e) /\ ~\E r \in Relays : Fails(r)
  <1> USE DEF FlowInv
  <1>0. Out(Other(e)) \in Channels /\ ~fault'
    BY Topology, Owners DEF Sound
  <1>1. ~\E r \in Relays : Fails(r)
    BY <1>0, ReturnCloses
  <1> SUFFICES Sound(e)
    BY <1>1
  <1>2. CASE \E r \in Relays : Returns(r)
    <2> PICK r \in Relays : Returns(r)
      BY <1>2
    <2>1. Close(r) /\ fault' = fault
      BY ReturnCloses
    <2>2. fin[Out(Other(e))] => fin'[Out(Other(e))]
      BY <1>0, <2>1, CloseEffect
    <2>3. rst' = rst
      BY <2>1 DEF Close
    <2> QED
      BY <1>0, <2>1, <2>2, <2>3 DEF Sound, NoReset
  <1>3. CASE Works
    BY <1>0, <1>3, WorkEffect DEF Sound, NoReset
  <1>4. CASE UNCHANGED vars
    BY <1>4 DEF Sound, NoReset, vars
  <1> QED
    BY <1>1, <1>2, <1>3, <1>4, StepCases

LEMMA DrainedReturn ==
  ASSUME FlowInv, ClosedInv, NEW e \in Ends, Sound(e), Drained(e), NEW r \in Relays, Returns(r)
  PROVE  Drained(e)'
  <1> USE DEF FlowInv
  <1> DEFINE s == Sealer(e)
             o == Opener(e)
  <1>0. /\ UNCHANGED <<rd, wr, peer>> /\ phase'[r] = "closed"
        /\ \A p \in Relays : p # r => phase'[p] = phase[p]
        /\ \A c \in Channels : fin[c] => fin'[c]
    BY ReturnCloses, CloseEffect
  <1>1. /\ s \in Relays /\ o \in Relays /\ s # o /\ r \in {s, o}
        /\ PlainIn(s) \in Channels /\ Lead(WireOut(s))' = Lead(WireOut(s))
        /\ Lead(WireIn(o))' = Lead(WireIn(o))
    BY Route, Owners DEF Lead
  <1>2. CASE r = s
    <2>1. phase[s] = "closed" \/ (fin[PlainIn(s)] /\ rd[PlainIn(s)] = wr[PlainIn(s)]
            /\ wr[WireOut(s)] = Lead(WireOut(s)) + 2 * rd[PlainIn(s)])
      BY <1>2, SealerReturns
    <2> QED
      BY <1>0, <1>1, <1>2, <2>1 DEF Drained
  <1>3. CASE r = o
    <2>1. phase[o] = "closed" \/ (phase[s] = "closed" /\ rd[WireIn(o)] = wr[WireIn(o)]
            /\ rd[WireIn(o)] = Lead(WireIn(o)) + 2 * wr[PlainOut(o)])
      BY <1>3, OpenerReturns
    <2> QED
      BY <1>0, <1>1, <1>3, <2>1 DEF Drained
  <1> QED
    BY <1>1, <1>2, <1>3

LEMMA DrainedWork ==
  ASSUME FlowInv, ClosedInv, NEW e \in Ends, Sound(e), Drained(e), Works
  PROVE  Drained(e)'
  <1> USE DEF FlowInv
  <1> DEFINE s == Sealer(e)
             o == Opener(e)
             f == Other(e)
  <1>1. /\ s \in Relays /\ o \in Relays /\ f \in Ends
        /\ {PlainIn(s), WireOut(s), WireIn(o), PlainOut(o)} \subseteq Channels
        /\ PlainIn(s) = Out(e) /\ WireOut(s) = WireIn(o) /\ PlainOut(o) = In(f)
        /\ Lead(WireOut(s))' = Lead(WireOut(s)) /\ Lead(WireIn(o))' = Lead(WireIn(o))
    BY Route, Owners DEF Lead
  <1>2. /\ phase'[s] = "closed" <=> phase[s] = "closed"
        /\ phase'[o] = "closed" <=> phase[o] = "closed"
        /\ fin[PlainIn(s)] => fin'[PlainIn(s)]
    BY <1>1, WorkEffect
  <1>3. phase[s] = "closed" =>
          /\ rd'[PlainIn(s)] = rd[PlainIn(s)] /\ wr'[WireOut(s)] = wr[WireOut(s)]
    BY <1>1, CountersMove, Owners
  <1>4. fin[PlainIn(s)] => wr'[PlainIn(s)] = wr[PlainIn(s)]
    BY <1>1, CountersMove, Owners
  <1>5. phase[o] = "closed" =>
          /\ rd'[WireIn(o)] = rd[WireIn(o)] /\ wr'[PlainOut(o)] = wr[PlainOut(o)]
    BY <1>1, CountersMove, Owners
  <1>6. peer[f] = "eof" => rd'[PlainOut(o)] = rd[PlainOut(o)]
    BY <1>1, CountersMove, Owners
  <1>7. peer'[f] = "eof" /\ peer[f] # "eof" =>
          phase[o] = "closed" /\ rd[PlainOut(o)] = wr[PlainOut(o)] /\ rd' = rd
    <2> SUFFICES ASSUME peer'[f] = "eof", peer[f] # "eof"
                 PROVE  phase[o] = "closed" /\ rd[PlainOut(o)] = wr[PlainOut(o)] /\ rd' = rd
      OBVIOUS
    <2>1. PeerSeeEnd(f)
      <3>1. peer' # peer
        OBVIOUS
      <3>2. ~\E r \in Relays : SealRead(r) \/ SealHeader(r) \/ SealBody(r)
        BY <3>1 DEF SealRead, SealHeader, SealBody
      <3>3. ~\E r \in Relays : OpenLength(r) \/ OpenFrame(r) \/ OpenWrite(r)
        BY <3>1 DEF OpenLength, OpenFrame, OpenWrite
      <3>4. ~(ClientConnect \/ ClientSendUser \/ ServerReadUser) /\ ~\E c \in Channels : Reset(c)
        BY <3>1 DEF ClientConnect, ClientSendUser, ServerReadUser, Reset
      <3>5. ~ServerDial
        BY <1>1 DEF ServerDial, TypeOK
      <3>6. PICK x \in Ends : PeerStep(x)
        BY <3>2, <3>3, <3>4, <3>5 DEF Works
      <3>7. PeerSeeEnd(x) /\ x = f
        BY <1>1, <3>1, <3>6 DEF PeerStep, PeerSend, PeerShut, PeerReceive, PeerSeeEnd, PeerClose, TypeOK
      <3> QED
        BY <3>7
    <2>2. Ended(PlainOut(o)) /\ rd' = rd
      BY <1>1, <2>1 DEF PeerSeeEnd, tcp
    <2>3. fin[PlainOut(o)] /\ rd[PlainOut(o)] = wr[PlainOut(o)]
      BY <1>1, <2>2, DrainedAtEnd DEF Sound
    <2> QED
      BY <1>1, <2>2, <2>3 DEF ClosedInv
  <1> HIDE DEF s, o, f
  <1>8. Drained(e) <=>
          /\ phase[s] = "closed" =>
               /\ fin[PlainIn(s)] /\ rd[PlainIn(s)] = wr[PlainIn(s)]
               /\ wr[WireOut(s)] = Lead(WireOut(s)) + 2 * rd[PlainIn(s)]
          /\ phase[o] = "closed" =>
               /\ phase[s] = "closed" /\ rd[WireIn(o)] = wr[WireIn(o)]
               /\ rd[WireIn(o)] = Lead(WireIn(o)) + 2 * wr[PlainOut(o)]
          /\ peer[f] = "eof" => phase[o] = "closed" /\ rd[PlainOut(o)] = wr[PlainOut(o)]
    BY DEF Drained, s, o, f
  <1>9. Drained(e)' <=>
          /\ phase'[s] = "closed" =>
               /\ fin'[PlainIn(s)] /\ rd'[PlainIn(s)] = wr'[PlainIn(s)]
               /\ wr'[WireOut(s)] = Lead(WireOut(s)) + 2 * rd'[PlainIn(s)]
          /\ phase'[o] = "closed" =>
               /\ phase'[s] = "closed" /\ rd'[WireIn(o)] = wr'[WireIn(o)]
               /\ rd'[WireIn(o)] = Lead(WireIn(o)) + 2 * wr'[PlainOut(o)]
          /\ peer'[f] = "eof" => phase'[o] = "closed" /\ rd'[PlainOut(o)] = wr'[PlainOut(o)]
    BY <1>1 DEF Drained, s, o, f
  <1>10. phase'[o] = "closed" =>
               /\ phase'[s] = "closed" /\ rd'[WireIn(o)] = wr'[WireIn(o)]
               /\ rd'[WireIn(o)] = Lead(WireIn(o)) + 2 * wr'[PlainOut(o)]
    BY <1>1, <1>2, <1>3, <1>5, <1>8
  <1>11. peer'[f] = "eof" => phase'[o] = "closed" /\ rd'[PlainOut(o)] = wr'[PlainOut(o)]
    BY <1>2, <1>5, <1>6, <1>7, <1>8
  <1> QED
    BY <1>2, <1>3, <1>4, <1>8, <1>9, <1>10, <1>11

LEMMA DrainStep ==
  ASSUME FlowInv, ClosedInv, DrainInv, [Next]_vars
  PROVE  DrainInv'
  <1> SUFFICES ASSUME NEW e \in Ends, Sound(e)' PROVE Drained(e)'
    BY DEF DrainInv, Sound, Drained, NoReset, Lead
  <1>1. Sound(e) /\ Drained(e) /\ ~\E r \in Relays : Fails(r)
    BY SoundBefore, DrainParts
  <1>2. CASE UNCHANGED vars
    BY <1>1, <1>2 DEF vars, Drained, Lead
  <1> QED
    BY <1>1, <1>2, StepCases, DrainedReturn, DrainedWork

--------------------------------------------------------------------------------
LEMMA StreamInit == Init => AllowedInv /\ ClosedInv /\ CauseInv /\ DrainInv
  <1> SUFFICES ASSUME Init PROVE AllowedInv /\ ClosedInv /\ CauseInv /\ DrainInv
    OBVIOUS
  <1>1. AllowedInv /\ CauseInv
    BY DEF Init, AllowedInv, CauseInv, Relays, Ends
  <1>2. ClosedInv
    BY Owners DEF Init, ClosedInv, Relays, Ends
  <1>3. DrainInv
    BY Route DEF Init, DrainInv, Ends, Relays
  <1> QED
    BY <1>1, <1>2, <1>3

\* The inductive invariant of the whole tunnel: the tokens in every channel are
\* the consecutive ones between its two positions, the four loops are in step
\* with them, and a relay has returned only for a reason and, where nothing
\* failed, only after it had forwarded the stream that ended.
THEOREM Invariance == Spec => []TunnelInv
  <1>1. Init => TunnelInv
    BY InvInit, StreamInit DEF TunnelInv
  <1>2. TunnelInv /\ [Next]_vars => TunnelInv'
    BY InvStep, AllowedStep, ClosedStep, CauseStep, DrainStep DEF TunnelInv, FlowInv
  <1> QED
    BY <1>1, <1>2, PTL DEF Spec

\* The target is dialled only after the server found the user id in
\* allowed_users, and no later step of the tunnel changes whose it is.
THEOREM AllowedUsersOnly == Spec => []OnlyAllowedUsersReachTarget
  <1>1. TunnelInv => OnlyAllowedUsersReachTarget
    BY DEF TunnelInv, AllowedInv, OnlyAllowedUsersReachTarget
  <1> QED
    BY <1>1, Invariance, PTL

--------------------------------------------------------------------------------
(* A clean end.                                                            *)

LEMMA CompleteAtEnd == TunnelInv => CleanEndIsComplete
  <1> SUFFICES ASSUME TunnelInv, NEW e \in Ends,
                      peer[e] = "eof", ~fin[Out(e)], ~fault, NoReset
               PROVE  fin[Out(Other(e))] /\ got[e] = UpTo(wr[Out(Other(e))])
    BY DEF CleanEndIsComplete
  <1> DEFINE f == Other(e)
             s == Sealer(f)
             o == Opener(f)
  <1>1. f \in Ends /\ Other(f) = e
    BY DEF Ends, Other
  <1>2. Drained(f)
    BY <1>1, DrainParts DEF TunnelInv, Sound
  <1>3. /\ s \in Relays /\ o \in Relays /\ PlainIn(s) = Out(f) /\ PlainOut(o) = In(e)
        /\ WireOut(s) = WireIn(o) /\ Lead(WireIn(o)) \in Nat
        /\ {PlainIn(s), WireOut(s), WireIn(o), PlainOut(o)} \subseteq Channels
    BY <1>1, Route, Owners DEF Lead
  <1>4. /\ fin[PlainIn(s)] /\ rd[PlainIn(s)] = wr[PlainIn(s)]
        /\ wr[WireIn(o)] = Lead(WireIn(o)) + 2 * rd[PlainIn(s)]
        /\ rd[WireIn(o)] = wr[WireIn(o)]
        /\ rd[WireIn(o)] = Lead(WireIn(o)) + 2 * wr[PlainOut(o)]
        /\ rd[PlainOut(o)] = wr[PlainOut(o)]
    BY <1>1, <1>2, <1>3 DEF Drained
  <1>5. /\ rd[PlainIn(s)] \in Nat /\ wr[PlainOut(o)] \in Nat
    BY <1>3, Scalars DEF TunnelInv, FlowInv
  <1> HIDE DEF f, s, o
  <1>6. wr[PlainOut(o)] = wr[PlainIn(s)]
    BY <1>3, <1>4, <1>5
  <1>7. Len(got[e]) = wr[Out(f)]
    BY <1>3, <1>4, <1>6 DEF TunnelInv, FlowInv, EndInv
  <1>8. got[e] = UpTo(Len(got[e]))
    BY InOrder DEF TunnelInv, DeliveredInOrder
  <1> QED
    BY <1>3, <1>4, <1>7, <1>8 DEF f

\* A download or an upload that ends without an error was not cut short: an end
\* that still had its own direction open holds all that the other one sent.
THEOREM CleanEnds == Spec => []CleanEndIsComplete
  BY CompleteAtEnd, Invariance, PTL

--------------------------------------------------------------------------------
(* Nothing is lost between the loops.                                      *)

\* An item whose position in channel c has been written and not been read is in c.
LEMMA Held ==
  ASSUME FlowInv, NoReset, NEW c \in Channels, NEW p \in Nat, rd[c] < p, p <= wr[c]
  PROVE  \E i \in 1 .. Len(q[c]) : IsAt(c, q[c][i], p) /\ q[c][i] \in Token
  <1>1. rd[c] \in Nat /\ wr[c] \in Nat /\ Len(q[c]) \in Nat /\ rd[c] + Len(q[c]) = wr[c]
    BY Topology, LenProperties DEF FlowInv, TypeOK, ChannelInv, NoReset
  <1>2. p - rd[c] \in 1 .. Len(q[c]) /\ rd[c] + (p - rd[c]) = p
    BY <1>1
  <1>3. IsAt(c, q[c][p - rd[c]], rd[c] + (p - rd[c]))
    BY <1>2 DEF FlowInv, ChannelInv
  <1>4. q[c][p - rd[c]] \in Token
    BY <1>2, LenProperties DEF FlowInv, TypeOK
  <1> QED
    BY <1>2, <1>3, <1>4

LEMMA InBuffer ==
  ASSUME FlowInv, NoReset, NEW c \in Plain, NEW n \in Nat, rd[c] < n, n <= wr[c]
  PROVE  n \in Buffered(c, "data")
  <1>1. PICK i \in 1 .. Len(q[c]) : IsAt(c, q[c][i], n)
    BY Held DEF Channels
  <1> QED
    BY <1>1 DEF IsAt, Buffered

LEMMA InFrame ==
  ASSUME FlowInv, NoReset, NEW c \in Wire, NEW n \in Nat \ {0},
         rd[c] < Lead(c) + 2 * n, Lead(c) + 2 * n <= wr[c]
  PROVE  n \in Buffered(c, "body")
  <1>1. Lead(c) \in Nat /\ Lead(c) + 2 * n \in Nat /\ Lead(c) + 2 * n # 1
        /\ c \in Channels /\ c \notin Plain
    BY DEF Lead, Channels, Wire, Plain
  <1>2. PICK i \in 1 .. Len(q[c]) : IsAt(c, q[c][i], Lead(c) + 2 * n) /\ q[c][i] \in Token
    BY <1>1, Held
  <1>3. q[c][i].item \in Nat
    BY <1>2 DEF Token
  <1>4. q[c][i].kind = "body" /\ q[c][i].item = n
    BY <1>1, <1>2, <1>3 DEF IsAt
  <1> QED
    BY <1>4 DEF Buffered

LEMMA AllAccounted == TunnelInv => NothingLost
  <1> SUFFICES ASSUME TunnelInv, NoReset, \A r \in Relays : phase[r] # "closed",
                      NEW e \in Ends, NEW n \in 1 .. wr[Out(e)],
                      n \notin InFlight(e)
               PROVE  n \in 1 .. Len(got[Other(e)])
    BY DEF NothingLost
  <1> USE DEF TunnelInv, FlowInv
  <1> DEFINE s == Sealer(e)
             o == Opener(e)
             f == Other(e)
             l == Lead(WireIn(o))
  <1>1. /\ s \in Relays /\ o \in Relays /\ f \in Ends
        /\ PlainIn(s) = Out(e) /\ WireOut(s) = WireIn(o) /\ PlainOut(o) = In(f)
        /\ l = IF e = "app" THEN 3 ELSE 0
    BY Route
  <1>2. /\ PlainIn(s) \in Plain /\ WireIn(o) \in Wire /\ PlainOut(o) \in Plain
        /\ {PlainIn(s), WireIn(o), PlainOut(o)} \subseteq Channels
    BY <1>1, Topology, Owners
  <1>3. /\ n \notin Buffered(PlainIn(s), "data") /\ n \notin Buffered(WireIn(o), "body")
        /\ n \notin Buffered(PlainOut(o), "data")
        /\ seal[s].pc = "read" \/ seal[s].item # n
        /\ opn[o].pc = "write" => opn[o].item # n
    BY <1>1 DEF InFlight
  <1>4. /\ rd[PlainIn(s)] \in Nat /\ wr[PlainIn(s)] \in Nat
        /\ rd[WireIn(o)] \in Nat /\ wr[WireIn(o)] \in Nat
        /\ rd[PlainOut(o)] \in Nat /\ wr[PlainOut(o)] \in Nat
        /\ n \in Nat \ {0} /\ n <= wr[PlainIn(s)] /\ l \in Nat
    BY <1>1, <1>2, Scalars
  <1>5. seal[s].item = rd[PlainIn(s)] /\ n <= rd[PlainIn(s)]
    BY <1>1, <1>2, <1>3, <1>4, InBuffer DEF SealInv
  <1>6. SealInStep(seal[s], wr[WireIn(o)], l)
    <2>1. CASE e = "target"
      BY <2>1 DEF SealInv, Sealer, Opener, WireIn, Lead
    <2>2. CASE e = "app"
      <3>1. phase["client"] \in {"connect", "uid"} => seal["client"].item = 0
        BY DEF SealInv
      <3>2. phase["client"] \in {"init", "relay"}
        BY <1>4, <1>5, <2>2, <3>1 DEF Sealer, TypeOK, ClientPhases, Relays
      <3>3. wr["client_server"] # 0 /\ s = "client" /\ WireIn(o) = "client_server" /\ l = 3
        BY <1>1, <2>2, <3>2 DEF SealInv, Sealer, Opener, WireIn
      <3> QED
        BY <3>3 DEF SealInv
    <2> QED
      BY <2>1, <2>2 DEF Ends
  <1>7. l + 2 * n <= wr[WireIn(o)]
    <2> HIDE DEF s, o, l
    <2> QED
      BY <1>3, <1>4, <1>5, <1>6 DEF SealInStep
  <1>8. l + 2 * n <= rd[WireIn(o)]
    BY <1>2, <1>3, <1>4, <1>7, InFrame
  <1>9. phase[o] = "relay"
    <2>1. CASE e = "target"
      <3>1. rd["server_client"] # 0
        BY <1>1, <1>4, <1>8, <2>1 DEF Opener, WireIn
      <3> QED
        BY <2>1, <3>1 DEF OpenInv, Opener, TypeOK, ClientPhases, Relays
    <2>2. CASE e = "app"
      <3>1. rd["client_server"] >= 5
        BY <1>1, <1>4, <1>8, <2>2 DEF Opener, WireIn
      <3> QED
        BY <2>2, <3>1 DEF OpenInv, ClosedInv, Opener, TypeOK, ServerPhases, Relays
    <2> QED
      BY <2>1, <2>2 DEF Ends
  <1>10. OpenInStep(opn[o], rd[WireIn(o)], wr[PlainOut(o)], l)
    BY <1>1, <1>9 DEF OpenInv, Relays, WireIn, PlainOut, Lead
  <1>11. n <= wr[PlainOut(o)]
    <2> HIDE DEF s, o, l
    <2> QED
      BY <1>3, <1>4, <1>8, <1>10 DEF OpenInStep
  <1>12. n <= rd[PlainOut(o)]
    BY <1>2, <1>3, <1>4, <1>11, InBuffer
  <1> QED
    BY <1>1, <1>4, <1>12 DEF EndInv

\* While both relays live and nothing is reset, every item sent has arrived or
\* is in a buffer, in a frame or in the hands of a loop.
THEOREM NoItemLost == Spec => []NothingLost
  BY AllAccounted, Invariance, PTL

--------------------------------------------------------------------------------
(* The tunnel implements a pair of byte streams.                           *)

sentBar == [e \in Ends |-> wr[Out(e)]]
shutBar == {e \in Ends : fin[Out(e)]}
endedBar == [e \in Ends |-> Finished(e)]
bar == <<sentBar, shutBar, got, endedBar, fault>>

LEMMA BarIsStream ==
  /\ Stream!streamVars = bar
  /\ (Stream!streamVars)' = bar'
  BY DEF Stream!streamVars, bar, sentBar, shutBar, endedBar

LEMMA PeerIsOther ==
  ASSUME NEW e \in Ends
  PROVE  Stream!Peer(e) = Other(e)
  <1>1. \A o \in Ends : o # e <=> o = Other(e)
    BY DEF Ends, Other
  <1>2. Other(e) \in Ends
    BY Topology
  <1> QED
    BY <1>1, <1>2 DEF Stream!Peer

LEMMA StreamStarts == Init => Stream!Init
  <1> SUFFICES ASSUME Init PROVE Stream!Init
    OBVIOUS
  <1>1. sentBar = [e \in Ends |-> 0]
    BY Owners DEF Init, sentBar
  <1>2. shutBar = {}
    BY Owners DEF Init, shutBar
  <1>3. endedBar = [e \in Ends |-> FALSE]
    BY DEF Init, endedBar, Finished, Ends, Relays
  <1> QED
    BY <1>1, <1>2, <1>3 DEF Init, Stream!Init, sentBar, shutBar, endedBar

\* A relay that returns leaves the streams as they are, but for a target that
\* will then never be dialled.
LEMMA CloseMaps ==
  ASSUME TunnelInv, NEW r \in Relays, Close(r)
  PROVE  /\ sentBar' = sentBar /\ shutBar' = shutBar /\ got' = got
         /\ \A e \in Ends : Finished(e) => Finished(e)'
         /\ ~Finished("app") => ~Finished("app")'
  <1> USE DEF TunnelInv, FlowInv
  <1>1. /\ UNCHANGED <<wr, got, peer>> /\ phase'[r] = "closed"
        /\ \A p \in Relays : p # r => phase'[p] = phase[p]
        /\ \A e \in Ends : fin'[Out(e)] <=> fin[Out(e)]
    <2>1. \A c \in Channels : fin'[c] = (fin[c] \/ c \in {PlainOut(r), WireOut(r)})
      BY CloseEffect
    <2>2. \A e \in Ends : Out(e) \in Channels /\ Out(e) \notin {PlainOut(r), WireOut(r)}
      BY Owners
    <2>3. \A e \in Ends : fin'[Out(e)] <=> fin[Out(e)]
      BY <2>1, <2>2
    <2> QED
      BY <2>3, CloseEffect
  <1>2. sentBar' = sentBar /\ shutBar' = shutBar
    BY <1>1 DEF sentBar, shutBar
  <1>3. \A e \in Ends : Finished(e) => Finished(e)'
    BY <1>1 DEF Finished, Relays
  <1>4. ~Finished("app") => ~Finished("app")'
    BY <1>1 DEF Finished
  <1> QED
    BY <1>1, <1>2, <1>3, <1>4

LEMMA FailMaps ==
  ASSUME TunnelInv, NEW r \in Relays, Fails(r)
  PROVE  Stream!Next
  <1>1. /\ sentBar' = sentBar /\ shutBar' = shutBar /\ got' = got
        /\ \A e \in Ends : Finished(e) => Finished(e)'
        /\ fault' = TRUE
    BY CloseMaps, ReturnCloses, TypeStep DEF TunnelInv, FlowInv, Fails, ClientConnectFails,
       ServerRefuse, ServerDialFails, Crash
  <1> DEFINE dead == {e \in Ends : Finished(e)'}
  <1>2. endedBar' = [e \in Ends |-> endedBar[e] \/ e \in dead]
    <2>1. \A e \in Ends : endedBar[e] = Finished(e) /\ endedBar'[e] = Finished(e)'
      BY DEF endedBar
    <2>2. \A e \in Ends : Finished(e)' = (Finished(e) \/ e \in dead)
      <3> SUFFICES ASSUME NEW e \in Ends PROVE Finished(e)' = (Finished(e) \/ e \in dead)
        OBVIOUS
      <3>1. Finished(e)' \in BOOLEAN /\ Finished(e) \in BOOLEAN
        BY DEF Finished
      <3>2. Finished(e)' <=> Finished(e) \/ e \in dead
        BY <1>1
      <3> QED
        BY <3>1, <3>2
    <2> HIDE DEF dead
    <2> QED
      BY <2>1, <2>2 DEF endedBar
  <1>3. dead \in SUBSET Ends
    OBVIOUS
  <1> HIDE DEF dead
  <1> QED
    BY <1>1, <1>2, <1>3 DEF Stream!Next, Stream!Break, sentBar, shutBar, endedBar

LEMMA ReturnMaps ==
  ASSUME TunnelInv, TunnelInv', NEW r \in Relays, Returns(r)
  PROVE  Stream!Next \/ bar' = bar
  <1>1. /\ sentBar' = sentBar /\ shutBar' = shutBar /\ got' = got /\ fault' = fault
        /\ \A e \in Ends : Finished(e) => Finished(e)'
        /\ ~Finished("app") => ~Finished("app")'
    BY CloseMaps, ReturnCloses
  <1>2. CASE Finished("target") \/ ~Finished("target")'
    <2>1. \A e \in Ends : Finished(e)' = Finished(e)
      <3>1. \A e \in Ends : Finished(e)' \in BOOLEAN /\ Finished(e) \in BOOLEAN
        BY DEF Finished
      <3> QED
        BY <1>1, <1>2, <3>1 DEF Ends
    <2> QED
      BY <1>1, <2>1 DEF bar, endedBar
  <1>3. CASE ~Finished("target") /\ Finished("target")'
    <2>1. Reason
      <3>1. phase'[r] = "closed"
        BY ReturnCloses, CloseEffect DEF TunnelInv, FlowInv
      <3>2. Reason'
        BY <3>1 DEF TunnelInv, CauseInv
      <3>3. \A e \in Ends : fin'[Out(e)] <=> fin[Out(e)]
        BY <1>1 DEF shutBar
      <3> QED
        BY <1>1, <3>2, <3>3 DEF Reason
    <2>2. shutBar # {} \/ fault
      BY <2>1 DEF Reason, shutBar
    <2>3. "target" \in Ends /\ ~endedBar["target"]
      BY <1>3 DEF Ends, endedBar
    <2>4. endedBar' = [endedBar EXCEPT !["target"] = TRUE]
      <3>1. Finished("app")' = Finished("app") /\ Finished("target")' = TRUE
        <4>1. /\ Finished("app")' \in BOOLEAN /\ Finished("app") \in BOOLEAN
              /\ Finished("target")' \in BOOLEAN /\ "app" \in Ends
          BY DEF Finished, Ends
        <4> QED
          BY <1>1, <1>3, <4>1
      <3>2. endedBar' = [e \in Ends |-> IF e = "target" THEN TRUE ELSE Finished(e)]
        BY <3>1 DEF endedBar, Ends
      <3> QED
        BY <3>2 DEF endedBar
    <2>5. Stream!End("target")
      BY <1>1, <2>2, <2>3, <2>4 DEF Stream!End, sentBar, shutBar, endedBar
    <2> QED
      BY <2>3, <2>5 DEF Stream!Next
  <1> QED
    BY <1>2, <1>3

\* The steps of the relays and of the kernel between the ends are invisible.
LEMMA InsideMaps ==
  ASSUME TunnelInv, Works, ~\E e \in Ends : PeerStep(e)
  PROVE  bar' = bar
  <1> USE DEF TunnelInv, FlowInv, TypeOK, tcp, Take, Put
  <1>1. UNCHANGED <<fin, got, fault>>
    BY DEF Works, ClientConnect, ClientSendUser, ServerReadUser, ServerDial, SealRead, SealHeader,
           SealBody, OpenLength, OpenFrame, OpenWrite, Reset
  <1>2. \A e \in Ends : wr'[Out(e)] = wr[Out(e)]
    <2>1. CASE ClientConnect \/ ClientSendUser \/ ServerReadUser \/ ServerDial
      <3>1. wr' = wr \/ Put("client_server", Tok("uid", 0))
        BY <2>1 DEF ClientConnect, ClientSendUser, ServerReadUser, ServerDial
      <3>2. \A c \in Channels : wr'[c] # wr[c] => c = "client_server"
        BY <3>1
      <3> QED
        BY <3>2, Owners DEF Out, Ends
    <2>2. ASSUME NEW r \in Relays, SealRead(r) \/ SealHeader(r) \/ SealBody(r)
          PROVE  \A c \in Channels : wr'[c] # wr[c] => c = WireOut(r)
      BY <2>2 DEF SealRead, SealHeader, SealBody
    <2>3. ASSUME NEW r \in Relays, OpenLength(r) \/ OpenFrame(r) \/ OpenWrite(r)
          PROVE  \A c \in Channels : wr'[c] # wr[c] => c = PlainOut(r)
      BY <2>3 DEF OpenLength, OpenFrame, OpenWrite
    <2>4. CASE \E c \in Channels : Reset(c)
      BY <2>4 DEF Reset
    <2> QED
      BY <2>1, <2>2, <2>3, <2>4, Owners DEF Works
  <1>3. \A e \in Ends : Finished(e)' <=> Finished(e)
    <2>1. CASE ServerDial
      <3>1. /\ phase["server"] = "dial" /\ phase'["server"] = "relay"
            /\ peer'["target"] = "open" /\ peer'["app"] = peer["app"]
        BY <2>1 DEF ServerDial, Ends, Relays
      <3>2. Finished("app")' <=> Finished("app")
        BY <3>1 DEF Finished
      <3>3. peer["target"] = "none" => ~Finished("target")' /\ ~Finished("target")
        BY <3>1 DEF Finished
      <3>4. peer["target"] = "none"
        BY <3>1 DEF ClosedInv
      <3> QED
        BY <3>2, <3>3, <3>4 DEF Ends
    <2>2. CASE ClientConnect
      <3>1. phase["server"] = "none" /\ phase["client"] # "closed" /\ peer' = peer
            /\ phase'["server"] # "none" /\ phase'["server"] # "closed"
        BY <2>2 DEF ClientConnect, OpenInv, Relays
      <3> QED
        BY <3>1 DEF Finished, Ends
    <2>3. CASE ~ServerDial /\ ~ClientConnect
      <3>1. peer' = peer
        BY <2>3 DEF Works, ClientSendUser, ServerReadUser, SealRead, SealHeader, SealBody,
                    OpenLength, OpenFrame, OpenWrite, Reset
      <3>2. phase'["server"] = "none" <=> phase["server"] = "none"
        <4>1. CASE ClientSendUser \/ ServerReadUser
          BY <4>1 DEF ClientSendUser, ServerReadUser, Relays
        <4>2. CASE \E r \in Relays : SealRead(r) \/ SealHeader(r) \/ SealBody(r)
          BY <4>2 DEF SealRead, SealHeader, SealBody, Relays
        <4>3. CASE \E r \in Relays : OpenLength(r) \/ OpenFrame(r) \/ OpenWrite(r)
          BY <4>3 DEF OpenLength, OpenFrame, OpenWrite, Opening, Relays
        <4>4. CASE \E c \in Channels : Reset(c)
          BY <4>4 DEF Reset
        <4> QED
          BY <2>3, <4>1, <4>2, <4>3, <4>4 DEF Works
      <3>3. \A r \in Relays : phase'[r] = "closed" <=> phase[r] = "closed"
        BY WorkEffect
      <3> QED
        BY <3>1, <3>2, <3>3 DEF Finished, Relays
    <2> QED
      BY <2>1, <2>2, <2>3
  <1>4. \A e \in Ends : Finished(e)' = Finished(e)
    <2>1. \A e \in Ends : Finished(e)' \in BOOLEAN /\ Finished(e) \in BOOLEAN
      BY DEF Finished
    <2> QED
      BY <1>3, <2>1
  <1> QED
    BY <1>1, <1>2, <1>4 DEF bar, sentBar, shutBar, endedBar

LEMMA InOrderNext == FlowInv' => DeliveredInOrder'
  BY InOrder, PTL

LEMMA PeerMaps ==
  ASSUME TunnelInv, TunnelInv', NEW e \in Ends, PeerStep(e)
  PROVE  Stream!Next \/ bar' = bar
  <1> USE DEF TunnelInv, FlowInv, TypeOK
  <1>0. /\ UNCHANGED <<phase, fault>> /\ Out(e) \in Channels /\ In(e) \in Channels
        /\ \A x \in Ends : x # e => Out(x) # Out(e) /\ Out(x) \in Channels
    BY Owners DEF PeerStep, PeerSend, PeerShut, PeerReceive, PeerSeeEnd, PeerClose
  <1>a. peer' = peer => endedBar' = endedBar
    BY <1>0 DEF endedBar, Finished
  <1>b. \A x \in Ends : endedBar[x] = Finished(x) /\ Finished(x) \in BOOLEAN
    BY DEF endedBar, Finished
  <1>1. CASE PeerSend(e)
    <2>1. peer' = peer /\ fin' = fin /\ got' = got /\ ~fin[Out(e)]
          /\ wr' = [wr EXCEPT ![Out(e)] = @ + 1]
      BY <1>1 DEF PeerSend, Put
    <2>2. sentBar' = [sentBar EXCEPT ![e] = @ + 1]
      BY <1>0, <2>1 DEF sentBar
    <2>3. shutBar' = shutBar /\ e \notin shutBar
      BY <2>1 DEF shutBar
    <2> QED
      BY <1>0, <1>a, <2>1, <2>2, <2>3 DEF Stream!Next, Stream!Send, sentBar, shutBar, endedBar
  <1>2. CASE PeerShut(e)
    <2>1. UNCHANGED <<peer, wr, got>> /\ fin' = [fin EXCEPT ![Out(e)] = TRUE]
      BY <1>2 DEF PeerShut
    <2>2. shutBar' = shutBar \cup {e} /\ sentBar' = sentBar
      BY <1>0, <2>1 DEF shutBar, sentBar
    <2> QED
      BY <1>0, <1>a, <2>1, <2>2 DEF Stream!Next, Stream!Shut, sentBar, shutBar, endedBar
  <1>3. CASE PeerReceive(e)
    <2>1. UNCHANGED <<peer, wr, fin>> /\ peer[e] = "open"
          /\ got' = [got EXCEPT ![e] = Append(@, Head(q[In(e)]).item)]
      BY <1>3 DEF PeerReceive, Take
    <2>2. Len(got'[e]) = Len(got[e]) + 1 /\ Len(got[e]) \in Nat
          /\ got'[e][Len(got[e]) + 1] = Head(q[In(e)]).item
      <3>1. NetOK /\ CanTake(In(e))
        BY <1>3 DEF PeerReceive, NetOK
      <3>2. Head(q[In(e)]).item \in Nat
        BY <1>0, <3>1, HeadIsToken DEF Token
      <3>3. got'[e] = Append(got[e], Head(q[In(e)]).item) /\ got[e] \in Seq(Nat)
        BY <2>1
      <3> QED
        BY <3>2, <3>3, AppendProperties, LenProperties
    <2>3. Head(q[In(e)]).item = Len(got[e]) + 1
      <3>1. got'[e][Len(got[e]) + 1] = Len(got[e]) + 1
        <4>1. Len(got[e]) + 1 \in 1 .. Len(got'[e])
          BY <2>2
        <4> QED
          BY <4>1 DEF EndInv
      <3> QED
        BY <2>2, <3>1
    <2>4. Len(got[e]) < sentBar[Stream!Peer(e)]
      <3>1. Len(got'[e]) <= wr'[Out(Other(e))]
        BY InOrderNext DEF DeliveredInOrder
      <3>2. wr[Out(Other(e))] \in Nat /\ Other(e) \in Ends
        BY Topology, Owners
      <3>3. sentBar[Stream!Peer(e)] = wr[Out(Other(e))]
        BY <3>2, PeerIsOther DEF sentBar
      <3> QED
        BY <2>1, <2>2, <3>1, <3>2, <3>3
    <2>5. ~endedBar[e]
      BY <2>1, <1>b DEF Finished
    <2>6. got' = [got EXCEPT ![e] = Append(@, Len(@) + 1)]
      BY <2>1, <2>3
    <2>7. sentBar' = sentBar /\ shutBar' = shutBar
      BY <2>1 DEF sentBar, shutBar
    <2>8. Stream!Deliver(e)
      BY <1>0, <1>a, <2>1, <2>4, <2>5, <2>6, <2>7 DEF Stream!Deliver, sentBar, shutBar, endedBar
    <2> QED
      BY <2>8 DEF Stream!Next
  <1>4. CASE PeerSeeEnd(e)
    <2>1. UNCHANGED <<q, rd, wr, fin, gone, rst, got>> /\ peer[e] = "open" /\ Ended(In(e))
      BY <1>4 DEF PeerSeeEnd, tcp
    <2>2. Reason
      BY <1>0, <2>1, NothingYet, Topology DEF Ended
    <2>3. ~endedBar[e]
      BY <2>1, <1>b DEF Finished
    <2>4. endedBar' = [endedBar EXCEPT ![e] = TRUE]
      <3>1. /\ \A x \in Ends : x # e => peer'[x] = peer[x]
            /\ peer'[e] \in {"eof", "err"}
        BY <1>4 DEF PeerSeeEnd
      <3>2. \A x \in Ends : Finished(x)' = IF x = e THEN TRUE ELSE Finished(x)
        BY <1>0, <3>1 DEF Finished
      <3> QED
        BY <3>2 DEF endedBar
    <2>5. sentBar' = sentBar /\ shutBar' = shutBar /\ (shutBar # {} \/ fault)
      BY <2>1, <2>2 DEF sentBar, shutBar, Reason
    <2>6. Stream!End(e)
      BY <1>0, <2>1, <2>3, <2>4, <2>5 DEF Stream!End, sentBar, shutBar, endedBar
    <2> QED
      BY <2>6 DEF Stream!Next
  <1>5. CASE PeerClose(e)
    <2>1. UNCHANGED <<wr, got>> /\ fin' = [fin EXCEPT ![Out(e)] = TRUE]
          /\ peer' = [peer EXCEPT ![e] = "closed"]
      BY <1>5 DEF PeerClose
    <2>2. shutBar' = shutBar \cup {e} /\ sentBar' = sentBar
      BY <1>0, <2>1 DEF shutBar, sentBar
    <2>3. endedBar' = [endedBar EXCEPT ![e] = TRUE]
      <3>1. \A x \in Ends : Finished(x)' = IF x = e THEN TRUE ELSE Finished(x)
        BY <1>0, <2>1 DEF Finished
      <3> QED
        BY <3>1 DEF endedBar
    <2>4. Stream!Leave(e)
      BY <1>0, <2>1, <2>2, <2>3 DEF Stream!Leave, sentBar, shutBar, endedBar
    <2> QED
      BY <2>4 DEF Stream!Next
  <1> QED
    BY <1>1, <1>2, <1>3, <1>4, <1>5 DEF PeerStep

LEMMA StreamStep == TunnelInv /\ TunnelInv' /\ [Next]_vars => [Stream!Next]_(Stream!streamVars)
  <1> SUFFICES ASSUME TunnelInv, TunnelInv', [Next]_vars
               PROVE  Stream!Next \/ bar' = bar
    BY BarIsStream
  <1>1. CASE \E r \in Relays : Returns(r) \/ Fails(r)
    BY <1>1, ReturnMaps, FailMaps
  <1>2. CASE Works
    BY <1>2, InsideMaps, PeerMaps
  <1>3. CASE UNCHANGED vars
    BY <1>3 DEF vars, bar, sentBar, shutBar, endedBar, Finished
  <1> QED
    BY <1>1, <1>2, <1>3, StepCases

\* Every behaviour of the tunnel is one of a pair of byte streams: each end
\* receives in order what the other one sent, nothing after its end, and no
\* stream ends without a reason.
THEOREM ImplementsStream == Spec => Stream!SafeSpec
  BY StreamStarts, StreamStep, Invariance, PTL DEF Spec, Stream!SafeSpec
================================================================================
