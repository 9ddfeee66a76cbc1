------------------------ MODULE ProxiedConnectionProofs ------------------------
(***************************************************************************)
(* Proofs about a whole connection, for every set of visitors, every       *)
(* number of starts and whatever the programs ask for: types, that nobody  *)
(* gets behind the mask without the key, that a prober is turned away as   *)
(* by a web server, and, with Socks5HandshakeProofs, what the handshake    *)
(* promises.                                                               *)
(***************************************************************************)
EXTENDS ProxiedConnection, Socks5HandshakeProofs

\* What one visit owes the invariants.
VisitOK(v, x) ==
  /\ x \in VisitRecord /\ x.setup \in Setups(v) /\ x.cert <= server.starts
  /\ server.mode # "plain" =>
       (\/ x.task \in {"grant", "handler", "served"}
        \/ x.setup.tls /\ x.at = "inside"
        \/ \E i \in 1 .. Len(x.out) : Accepts(x.out[i])
        => x.setup.token = "key")

DoorInv == DoorTypeOK /\ OnlyTheKeyInv

LEMMA Consts == MaxStarts \in Nat \ {0} /\ Proxied \in Visitors
  BY DoorAssumption, ProxiedAssumption DEF Visitors

\* The invariants speak of one visit at a time.
LEMMA InvIsLocal ==
  DoorInv <=>
    /\ server \in [mode : Modes, up : BOOLEAN, starts : 1 .. MaxStarts]
    /\ server.up \/ server.starts < MaxStarts
    /\ visit \in [Visitors -> VisitRecord]
    /\ \A v \in Visitors : VisitOK(v, visit[v])
  BY DEF DoorInv, DoorTypeOK, OnlyTheKeyInv, VisitOK

\* A step of one visitor or its task.
LEMMA BecomesKeeps ==
  ASSUME DoorInv, NEW v \in Visitors, NEW x, VisitOK(v, x), Becomes(v, x)
  PROVE  DoorInv'
  <1>1. /\ server' = server /\ visit' = [visit EXCEPT ![v] = x]
        /\ visit \in [Visitors -> VisitRecord] /\ \A w \in Visitors : VisitOK(w, visit[w])
    BY InvIsLocal DEF Becomes
  <1>2. visit' \in [Visitors -> VisitRecord]
    BY <1>1 DEF VisitOK
  <1>3. \A w \in Visitors : VisitOK(w, visit'[w])
    BY <1>1
  <1>4. \A w \in Visitors : VisitOK(w, visit[w])'
    BY <1>1, <1>3 DEF VisitOK
  <1> QED
    BY <1>1, <1>2, <1>4, InvIsLocal DEF DoorInv, DoorTypeOK, OnlyTheKeyInv, VisitOK

--------------------------------------------------------------------------------
(* The two wires of a visit.                                               *)

Granting(s) == \E i \in 1 .. Len(s) : Accepts(s[i])

LEMMA TailOfOut ==
  ASSUME NEW s \in Seq(OutWire), s # <<>>
  PROVE  Tail(s) \in Seq(OutWire) /\ (Granting(Tail(s)) => Granting(s))
  <1>1. Tail(s) \in Seq(OutWire) /\ Len(Tail(s)) = Len(s) - 1 /\ Len(s) \in Nat
    OBVIOUS
  <1>2. \A i \in 1 .. Len(s) - 1 : Tail(s)[i] = s[i + 1]
    OBVIOUS
  <1>3. ASSUME NEW i \in 1 .. Len(Tail(s)), Accepts(Tail(s)[i])
        PROVE  Granting(s)
    <2>1. i + 1 \in 1 .. Len(s) /\ Tail(s)[i] = s[i + 1]
      BY <1>1, <1>2
    <2> QED
      BY <1>3, <2>1 DEF Granting
  <1> QED
    BY <1>1, <1>3 DEF Granting

LEMMA AppendToOut ==
  ASSUME NEW s \in Seq(OutWire), NEW a \in OutWire
  PROVE  /\ Append(s, a) \in Seq(OutWire)
         /\ Granting(Append(s, a)) => Granting(s) \/ Accepts(a)
  <1>1. Len(Append(s, a)) = Len(s) + 1 /\ Append(s, a)[Len(s) + 1] = a /\ Len(s) \in Nat
    OBVIOUS
  <1>2. \A i \in 1 .. Len(s) : Append(s, a)[i] = s[i]
    OBVIOUS
  <1>3. ASSUME NEW i \in 1 .. Len(Append(s, a)), Accepts(Append(s, a)[i])
        PROVE  Granting(s) \/ Accepts(a)
    <2>1. CASE i = Len(s) + 1
      BY <1>1, <1>3, <2>1
    <2>2. CASE i \in 1 .. Len(s)
      BY <1>2, <1>3, <2>2 DEF Granting
    <2> QED
      BY <1>1, <2>1, <2>2
  <1> QED
    BY <1>3 DEF Granting

LEMMA NothingGrants == <<>> \in Seq(OutWire) /\ ~Granting(<<>>)
  BY DEF Granting

\* The invariant as the actions use it.
LEMMA ReadInv ==
  ASSUME DoorInv, NEW v \in Visitors
  PROVE  /\ visit[v] \in VisitRecord /\ visit[v].setup \in Setups(v)
         /\ visit[v].cert <= server.starts
         /\ server \in [mode : Modes, up : BOOLEAN, starts : 1 .. MaxStarts]
         /\ server.mode # "plain" =>
              (\/ visit[v].task \in {"grant", "handler", "served"}
               \/ visit[v].setup.tls /\ visit[v].at = "inside"
               \/ Granting(visit[v].out)
               => visit[v].setup.token = "key")
  BY InvIsLocal DEF VisitOK, Granting

--------------------------------------------------------------------------------
(* The visitor's steps.                                                    *)

LEMMA DialKeeps ==
  ASSUME DoorInv, NEW v \in Visitors, Dial(v)
  PROVE  DoorInv'
  <1> DEFINE x == visit[v]
             y1 == [x EXCEPT !.at = "failed"]
             y2 == [x EXCEPT !.at = "failed", !.task = "backlog"]
             y3 == [x EXCEPT !.task = "backlog", !.in = Opening(x.setup),
                 !.at = IF x.setup.tls THEN "hello" ELSE IF v \in Clients THEN "inside" ELSE "answer"]
             y4 == [x EXCEPT !.at = "silent", !.task = "backlog"]
  <1>1. Opening(x.setup) \in Seq(InWire)
    BY DEF Opening, InWire
  <1>2. VisitOK(v, y1) /\ VisitOK(v, y2) /\ VisitOK(v, y4)
    BY ReadInv DEF VisitOK, VisitRecord, Granting
  <1>3. VisitOK(v, y3)
    <2>1. y3 \in VisitRecord
      BY <1>1, ReadInv DEF VisitRecord
    <2>2. y3.setup = x.setup /\ y3.cert = x.cert /\ y3.out = x.out /\ y3.task = "backlog"
          /\ ~(x.setup.tls /\ y3.at = "inside")
      BY ReadInv DEF VisitRecord
    <2> QED
      BY <2>1, <2>2, ReadInv DEF VisitOK, Granting
  <1>4. Becomes(v, y1) \/ Becomes(v, y2) \/ Becomes(v, y3) \/ Becomes(v, y4)
    BY DEF Dial
  <1> QED
    BY <1>2, <1>3, <1>4, BecomesKeeps

LEMMA CheckCertKeeps ==
  ASSUME DoorInv, NEW v \in Visitors, CheckCert(v)
  PROVE  DoorInv'
  <1> DEFINE x == visit[v]
             y == IF Trusts(x.setup, x.cert)
                  THEN [x EXCEPT !.at = "request", !.out = Tail(@), !.in = Append(@, "finished")]
                  ELSE [x EXCEPT !.at = "failed"]
  <1>1. x.in \in Seq(InWire) /\ x.out \in Seq(OutWire) /\ x.out # <<>>
    BY ReadInv DEF CheckCert, VisitRecord
  <1>2. Append(x.in, "finished") \in Seq(InWire)
    BY <1>1 DEF InWire
  <1>3. VisitOK(v, y)
    BY <1>1, <1>2, ReadInv, TailOfOut DEF VisitOK, VisitRecord, Granting
  <1> QED
    BY <1>3, BecomesKeeps DEF CheckCert

LEMMA LibraryRefusesKeeps ==
  ASSUME DoorInv, NEW v \in Visitors, LibraryRefuses(v)
  PROVE  DoorInv'
  <1>1. VisitOK(v, [visit[v] EXCEPT !.at = "failed"])
    BY ReadInv DEF VisitOK, VisitRecord, Granting
  <1> QED
    BY <1>1, BecomesKeeps DEF LibraryRefuses

LEMMA SendRequestKeeps ==
  ASSUME DoorInv, NEW v \in Visitors, SendRequest(v)
  PROVE  DoorInv'
  <1> DEFINE x == visit[v]
  <1>1. x.in \in Seq(InWire) /\ Upgrade(x.setup) \in Seq(InWire)
    <2>1. <<"req1", "req2">> \in Seq(InWire) /\ <<"req">> \in Seq(InWire)
          /\ <<"uid">> \in Seq(InWire) /\ <<>> \in Seq(InWire)
      BY DEF InWire
    <2>2. (IF x.setup.split THEN <<"req1", "req2">> ELSE <<"req">>) \in Seq(InWire)
          /\ (IF x.setup.eager THEN <<"uid">> ELSE <<>>) \in Seq(InWire)
      BY <2>1
    <2>3. Upgrade(x.setup) \in Seq(InWire)
      BY <2>2 DEF Upgrade
    <2> QED
      BY <2>3, ReadInv DEF VisitRecord
  <1>2. x.in \o Upgrade(x.setup) \in Seq(InWire)
    BY <1>1
  <1>3. VisitOK(v, [x EXCEPT !.at = "answer", !.in = @ \o Upgrade(x.setup)])
    BY <1>2, ReadInv DEF VisitOK, VisitRecord, Granting
  <1> QED
    BY <1>3, BecomesKeeps DEF SendRequest

\* What the visitor takes for a grant was one.
LEMMA ReadAnswerKeeps ==
  ASSUME DoorInv, NEW v \in Visitors, ReadAnswer(v)
  PROVE  DoorInv'
  <1> DEFINE x == visit[v]
  <1>1. x.in \in Seq(InWire) /\ x.out \in Seq(OutWire) /\ x.out # <<>>
    BY ReadInv DEF ReadAnswer, VisitRecord
  <1>2. Append(x.in, "uid") \in Seq(InWire)
    BY <1>1 DEF InWire
  <1>3. CASE ~Accepts(Head(x.out))
    <2>1. VisitOK(v, [x EXCEPT !.at = "turned", !.out = Tail(@)])
      BY <1>1, ReadInv, TailOfOut DEF VisitOK, VisitRecord, Granting
    <2> QED
      BY <1>3, <2>1, BecomesKeeps DEF ReadAnswer
  <1>4. CASE Accepts(Head(x.out))
    <2>1. Granting(x.out)
      BY <1>1, <1>4 DEF Granting
    <2> DEFINE y == [x EXCEPT !.at = "inside", !.out = Tail(@),
                              !.in = IF x.setup.eager THEN @ ELSE Append(@, "uid")]
    <2>2. VisitOK(v, y)
      BY <1>1, <1>2, <2>1, ReadInv, TailOfOut DEF VisitOK, VisitRecord, Granting
    <2> QED
      BY <1>4, <2>2, BecomesKeeps DEF ReadAnswer
  <1> QED
    BY <1>3, <1>4

LEMMA SeesEndKeeps ==
  ASSUME DoorInv, NEW v \in Visitors, SeesEnd(v)
  PROVE  DoorInv'
  <1>1. <<>> \in Seq(InWire)
    OBVIOUS
  <1>2. [visit[v] EXCEPT !.at = "failed", !.in = <<>>, !.out = <<>>] \in VisitRecord
    BY <1>1, ReadInv, NothingGrants DEF VisitRecord
  <1>3. VisitOK(v, [visit[v] EXCEPT !.at = "failed", !.in = <<>>, !.out = <<>>])
    BY <1>2, ReadInv, NothingGrants DEF VisitOK, VisitRecord, Granting
  <1> QED
    BY <1>3, BecomesKeeps DEF SeesEnd

LEMMA LeavesKeeps ==
  ASSUME DoorInv, NEW v \in Visitors, Leaves(v)
  PROVE  DoorInv'
  <1>1. VisitOK(v, [visit[v] EXCEPT !.at = "left"])
    BY ReadInv DEF VisitOK, VisitRecord, Granting
  <1> QED
    BY <1>1, BecomesKeeps DEF Leaves

--------------------------------------------------------------------------------
(* The server's steps.                                                     *)

LEMMA AcceptKeeps ==
  ASSUME DoorInv, NEW v \in Visitors, Accept(v)
  PROVE  DoorInv'
  <1>1. VisitOK(v, [visit[v] EXCEPT !.task = IF server.mode = "plain" THEN "handler" ELSE "tls"])
    BY ReadInv DEF VisitOK, VisitRecord, Granting
  <1> QED
    BY <1>1, BecomesKeeps DEF Accept

\* A task that is dropped leaves nothing behind that could grant.
LEMMA AcceptFailsKeeps ==
  ASSUME DoorInv, AcceptFails
  PROVE  DoorInv'
  <1>1. server' \in [mode : Modes, up : BOOLEAN, starts : 1 .. MaxStarts]
        /\ server'.mode = server.mode /\ server'.starts = server.starts
        /\ server'.starts < MaxStarts
    BY InvIsLocal DEF AcceptFails
  <1>2. ASSUME NEW v \in Visitors
        PROVE  visit'[v] \in VisitRecord /\ VisitOK(v, visit[v])'
    <2>1. visit'[v] = visit[v] \/ visit'[v] = [visit[v] EXCEPT !.task = "ended"]
      BY DEF AcceptFails
    <2> QED
      BY <1>1, <2>1, ReadInv DEF VisitOK, VisitRecord, Granting
  <1>3. visit' \in [Visitors -> VisitRecord]
    BY <1>2 DEF AcceptFails
  <1> QED
    BY <1>1, <1>2, <1>3, InvIsLocal DEF DoorInv, DoorTypeOK, OnlyTheKeyInv, VisitOK

LEMMA RestartKeeps ==
  ASSUME DoorInv, Restart
  PROVE  DoorInv'
  <1>0. /\ server \in [mode : Modes, up : BOOLEAN, starts : 1 .. MaxStarts]
        /\ server.starts < MaxStarts /\ visit \in [Visitors -> VisitRecord]
        /\ server' = [server EXCEPT !.up = TRUE, !.starts = @ + 1] /\ visit' = visit
    BY InvIsLocal DEF Restart
  <1>1. /\ server' \in [mode : Modes, up : BOOLEAN, starts : 1 .. MaxStarts]
        /\ server'.up /\ server'.mode = server.mode /\ server'.starts = server.starts + 1
        /\ server.starts \in Nat /\ visit' = visit
    <2>1. server.starts \in Nat /\ server.starts + 1 \in 1 .. MaxStarts
      BY <1>0, Consts
    <2>2. server' \in [mode : Modes, up : BOOLEAN, starts : 1 .. MaxStarts]
      BY <1>0, <2>1
    <2>3. server'.up = TRUE /\ server'.mode = server.mode /\ server'.starts = server.starts + 1
      BY <1>0
    <2> QED
      BY <1>0, <2>1, <2>2, <2>3
  <1>2. \A v \in Visitors : visit[v].cert \in Nat
    BY ReadInv, Consts DEF VisitRecord
  <1>3. \A v \in Visitors : VisitOK(v, visit[v])'
    BY <1>1, <1>2, ReadInv DEF VisitOK, Granting
  <1> QED
    BY <1>0, <1>1, <1>3, InvIsLocal DEF DoorInv, DoorTypeOK, OnlyTheKeyInv, VisitOK

LEMMA TlsAcceptKeeps ==
  ASSUME DoorInv, NEW v \in Visitors, TlsAccept(v)
  PROVE  DoorInv'
  <1> DEFINE x == visit[v]
             y == [x EXCEPT !.task = "finish", !.in = Tail(@), !.cert = server.starts,
                            !.out = <<"cert">>]
             z == [x EXCEPT !.task = "ended"]
  <1>1. Tail(x.in) \in Seq(InWire) /\ <<"cert">> \in Seq(OutWire) /\ ~Granting(<<"cert">>)
    BY ReadInv DEF TlsAccept, VisitRecord, OutWire, Granting, Accepts
  <1>2. server.starts \in 0 .. MaxStarts /\ server.starts <= server.starts
    BY ReadInv, Consts
  <1>3. y \in VisitRecord
    BY <1>1, <1>2, ReadInv DEF VisitRecord
  <1>4. y.setup = x.setup /\ y.cert = server.starts /\ y.out = <<"cert">> /\ y.task = "finish"
        /\ y.at = x.at
    BY ReadInv DEF VisitRecord
  <1>5. VisitOK(v, y)
    BY <1>1, <1>2, <1>3, <1>4, ReadInv DEF VisitOK, Granting
  <1>6. VisitOK(v, z)
    BY ReadInv DEF VisitOK, VisitRecord, Granting
  <1> QED
    BY <1>5, <1>6, BecomesKeeps DEF TlsAccept

LEMMA TlsAcceptedKeeps ==
  ASSUME DoorInv, NEW v \in Visitors, TlsAccepted(v)
  PROVE  DoorInv'
  <1>1. Tail(visit[v].in) \in Seq(InWire)
    BY ReadInv DEF TlsAccepted, VisitRecord
  <1>2. VisitOK(v, [visit[v] EXCEPT !.task = "request", !.in = Tail(@)])
    BY <1>1, ReadInv DEF VisitOK, VisitRecord, Granting
  <1> QED
    BY <1>2, BecomesKeeps DEF TlsAccepted

\* The only way to a grant is the key.
LEMMA ReadUpgradeKeeps ==
  ASSUME DoorInv, NEW v \in Visitors, ReadUpgrade(v)
  PROVE  DoorInv'
  <1> DEFINE x == visit[v]
  <1>1. PICK n \in 1 .. Len(x.in) :
          Becomes(v, [x EXCEPT
            !.task = IF detect_ghost_auth({x.in[i] : i \in 1 .. n}, x.setup.token)
                     THEN "grant" ELSE "turn",
            !.in = SubSeq(@, n + 1, Len(@))])
    BY DEF ReadUpgrade
  <1> DEFINE found == detect_ghost_auth({x.in[i] : i \in 1 .. n}, x.setup.token)
             y == [x EXCEPT !.task = IF found THEN "grant" ELSE "turn",
                            !.in = SubSeq(@, n + 1, Len(@))]
  <1>2. found => x.setup.token = "key"
    BY DEF detect_ghost_auth
  <1>3. SubSeq(x.in, n + 1, Len(x.in)) \in Seq(InWire)
    BY ReadInv DEF VisitRecord
  <1> HIDE DEF found
  <1>4. y \in VisitRecord
    BY <1>3, ReadInv DEF VisitRecord
  <1>5. /\ y.setup = x.setup /\ y.cert = x.cert /\ y.out = x.out /\ y.at = x.at
        /\ y.task = (IF found THEN "grant" ELSE "turn")
    BY ReadInv DEF VisitRecord
  <1>6. VisitOK(v, y)
    BY <1>2, <1>4, <1>5, ReadInv DEF VisitOK, Granting
  <1>7. Becomes(v, y)
    BY <1>1 DEF found
  <1> QED
    BY <1>6, <1>7, BecomesKeeps

\* An answer of the server to x that sends its task to `to`.
LEMMA AnswerKeeps ==
  ASSUME DoorInv, NEW v \in Visitors, NEW a \in OutWire, NEW to \in {"ended", "handler"},
         to = "handler" \/ Accepts(a) => visit[v].task = "grant",
         Becomes(v, [visit[v] EXCEPT !.task = to, !.out = Append(@, a)])
  PROVE  DoorInv'
  <1> DEFINE x == visit[v]
             y == [x EXCEPT !.task = to, !.out = Append(@, a)]
  <1>1. x.out \in Seq(OutWire)
    BY ReadInv DEF VisitRecord
  <1>2. y \in VisitRecord
    BY <1>1, AppendToOut, ReadInv DEF VisitRecord
  <1>3. /\ y.setup = x.setup /\ y.cert = x.cert /\ y.out = Append(x.out, a) /\ y.at = x.at
        /\ y.task = to
    BY ReadInv DEF VisitRecord
  <1>4. Granting(y.out) => Granting(x.out) \/ Accepts(a)
    BY <1>1, <1>3, AppendToOut
  <1>5. VisitOK(v, y)
    BY <1>2, <1>3, <1>4, ReadInv DEF VisitOK, Granting
  <1> QED
    BY <1>5, BecomesKeeps

LEMMA TurnAwayKeeps ==
  ASSUME DoorInv, NEW v \in Visitors, TurnAway(v)
  PROVE  DoorInv'
  BY AnswerKeeps DEF TurnAway, OutWire, Accepts

LEMMA GrantKeeps ==
  ASSUME DoorInv, NEW v \in Visitors, Grant(v)
  PROVE  DoorInv'
  BY AnswerKeeps DEF Grant, OutWire

LEMMA LibraryGrantsKeeps ==
  ASSUME DoorInv, NEW v \in Visitors, LibraryGrants(v)
  PROVE  DoorInv'
  BY AnswerKeeps DEF LibraryGrants, OutWire

LEMMA ReadUserIdKeeps ==
  ASSUME DoorInv, NEW v \in Visitors, ReadUserId(v)
  PROVE  DoorInv'
  <1> DEFINE x == visit[v]
             y == [x EXCEPT !.in = Tail(@), !.task = IF Head(x.in) = "uid" THEN "served" ELSE "ended"]
  <1>1. Tail(x.in) \in Seq(InWire) /\ x.task = "handler"
    BY ReadInv DEF ReadUserId, VisitRecord
  <1>2. y \in VisitRecord
    BY <1>1, ReadInv DEF VisitRecord
  <1>3. y.setup = x.setup /\ y.cert = x.cert /\ y.out = x.out /\ y.at = x.at
    BY ReadInv DEF VisitRecord
  <1>4. VisitOK(v, y)
    BY <1>1, <1>2, <1>3, ReadInv DEF VisitOK, Granting
  <1> QED
    BY <1>4, BecomesKeeps DEF ReadUserId

LEMMA TaskSeesEndKeeps ==
  ASSUME DoorInv, NEW v \in Visitors, TaskSeesEnd(v)
  PROVE  DoorInv'
  <1> DEFINE y == [visit[v] EXCEPT !.task = "ended", !.in = <<>>, !.out = <<>>]
  <1>1. <<>> \in Seq(InWire)
    OBVIOUS
  <1>2. y \in VisitRecord
    BY <1>1, ReadInv, NothingGrants DEF VisitRecord
  <1>3. y.setup = visit[v].setup /\ y.cert = visit[v].cert /\ y.out = <<>> /\ y.task = "ended"
        /\ y.at = visit[v].at
    BY ReadInv DEF VisitRecord
  <1>4. VisitOK(v, y)
    BY <1>2, <1>3, ReadInv, NothingGrants DEF VisitOK, Granting
  <1> QED
    BY <1>4, BecomesKeeps DEF TaskSeesEnd

--------------------------------------------------------------------------------
(* The door, from its first state on.                                      *)

LEMMA DoorStarts ==
  ASSUME DoorInit
  PROVE  DoorInv
  <1>1. /\ server \in [mode : Modes, up : BOOLEAN, starts : 1 .. MaxStarts]
        /\ server.up
    <2>1. server \in [mode : Modes, up : {TRUE}, starts : {1}]
      BY DEF DoorInit
    <2>2. 1 \in 1 .. MaxStarts
      BY Consts
    <2> QED
      BY <2>1, <2>2
  <1>2. ASSUME NEW v \in Visitors
        PROVE  visit[v] \in VisitRecord /\ VisitOK(v, visit[v])
    <2>1. PICK w \in Visitors : \E s \in Setups(w) : visit[v] = Visit(s)
      BY DEF DoorInit
    <2>2. PICK s \in Setups(w) : visit[v] = Visit(s)
      BY <2>1
    <2>3. visit[v].setup \in Setups(v) /\ visit[v].setup = s
      BY <2>2 DEF DoorInit, Visit
    <2>4. <<>> \in Seq(InWire) /\ 0 \in 0 .. MaxStarts
      BY Consts
    <2>5. visit[v] \in VisitRecord
      BY <2>2, <2>3, <2>4, NothingGrants DEF Visit, VisitRecord
    <2>6. visit[v].cert = 0 /\ visit[v].task = "none" /\ visit[v].at = "idle" /\ visit[v].out = <<>>
      BY <2>2 DEF Visit
    <2>7. visit[v].cert <= server.starts
      BY <1>1, <2>6, Consts
    <2> QED
      BY <2>3, <2>5, <2>6, <2>7, NothingGrants DEF VisitOK, Granting
  <1>3. visit \in [Visitors -> VisitRecord]
    BY <1>2 DEF DoorInit
  <1> QED
    BY <1>1, <1>2, <1>3, InvIsLocal

LEMMA StepKeeps ==
  ASSUME DoorInv, [ConnNext]_connVars
  PROVE  DoorInv'
  <1>1. CASE UNCHANGED doorVars
    BY <1>1 DEF doorVars, DoorInv, DoorTypeOK, OnlyTheKeyInv
  <1>2. CASE GoToServer
    BY <1>2, Consts, DialKeeps DEF GoToServer
  <1>3. CASE DoorStep
    <2>1. ASSUME NEW v \in Visitors, VisitorStep(v)
          PROVE  DoorInv'
      BY <2>1, CheckCertKeeps, LibraryRefusesKeeps, SendRequestKeeps, ReadAnswerKeeps, SeesEndKeeps
      DEF VisitorStep
    <2>2. ASSUME NEW v \in Visitors, TaskStep(v)
          PROVE  DoorInv'
      BY <2>2, TlsAcceptKeeps, TlsAcceptedKeeps, ReadUpgradeKeeps, TurnAwayKeeps, GrantKeeps,
         LibraryGrantsKeeps, ReadUserIdKeeps, TaskSeesEndKeeps
      DEF TaskStep
    <2>3. ASSUME NEW v \in Outsiders, Dial(v) \/ Leaves(v)
          PROVE  DoorInv'
      BY <2>3, DialKeeps, LeavesKeeps DEF Visitors
    <2> QED
      BY <1>3, <2>1, <2>2, <2>3, AcceptKeeps, AcceptFailsKeeps, RestartKeeps DEF DoorStep
  <1> QED
    BY <1>1, <1>2, <1>3 DEF ConnNext, connVars, TunnelFails

--------------------------------------------------------------------------------
(* The prober's visit.                                                     *)

\* A step of one visitor or its task owes ProbeInv that visitor's place only.
LEMMA ProbeBecomes ==
  ASSUME DoorInv, ProbeInv, NEW v \in Visitors, NEW x, Becomes(v, x),
         x.setup = visit[v].setup,
         server.mode # "plain" /\ server.up /\ Prober(v) /\ Probing(visit[v]) => Probing(x)
  PROVE  ProbeInv'
  <1>1. /\ server' = server /\ visit' = [visit EXCEPT ![v] = x]
        /\ visit \in [Visitors -> VisitRecord]
    BY InvIsLocal DEF Becomes
  <1>2. ASSUME NEW w \in Visitors, server.mode # "plain", server.up, server.starts = 1, Prober(w)'
        PROVE  Probing(visit'[w])
    <2>1. CASE w = v
      <3>1. visit'[v] = x /\ Prober(v)
        BY <1>1, <1>2, <2>1 DEF Prober
      <3>2. Probing(visit[v])
        BY <1>2, <3>1 DEF ProbeInv
      <3> QED
        BY <1>2, <2>1, <3>1, <3>2
    <2>2. CASE w # v
      <3>1. visit'[w] = visit[w] /\ Prober(w)
        BY <1>1, <1>2, <2>2 DEF Prober
      <3> QED
        BY <1>2, <3>1 DEF ProbeInv
    <2> QED
      BY <2>1, <2>2
  <1>3. ASSUME NEW w \in Visitors, server.mode # "plain", server.up, server.starts = 1, Prober(w)'
        PROVE  Probing(visit[w])'
    <2>1. Probing(visit'[w])
      BY <1>2, <1>3
    <2> QED
      BY <2>1 DEF Probing
  <1> QED
    BY <1>1, <1>3 DEF ProbeInv

\* A prober is one of the plain outsiders.
LEMMA ProberFacts ==
  ASSUME DoorInv, NEW v \in Visitors, Prober(v)
  PROVE  /\ visit[v] \in VisitRecord /\ v \notin Clients /\ visit[v].setup.who = "outsider"
         /\ visit[v].setup.tls /\ visit[v].setup.token # "key"
         /\ ~visit[v].setup.split /\ ~visit[v].setup.eager
  <1>1. v \in Outsiders /\ v \notin Clients
    BY DoorAssumption DEF Prober
  <1>2. visit[v] \in VisitRecord /\ visit[v].setup \in Setups(v)
    BY ReadInv
  <1>3. visit[v].setup.token # "key"
    BY DEF Prober
  <1>4. visit[v].setup.who = "outsider"
    BY <1>1, <1>2, <1>3 DEF Setups, Of
  <1> QED
    BY <1>1, <1>2, <1>3, <1>4 DEF Prober

\* The wires of a prober hold at most two records.
LEMMA Wires ==
  /\ Append(<<>>, "finished") = <<"finished">> /\ Append(<<>>, "301") = <<"301">>
  /\ <<>> \o <<"req">> = <<"req">> /\ <<"finished">> \o <<"req">> = <<"finished", "req">>
  /\ Head(<<"hello">>) = "hello" /\ Tail(<<"hello">>) = <<>> /\ Tail(<<"cert">>) = <<>>
  /\ Tail(<<"finished">>) = <<>> /\ Tail(<<"finished", "req">>) = <<"req">>
  /\ Head(<<"301">>) = "301" /\ Len(<<"req">>) = 1 /\ SubSeq(<<"req">>, 2, 1) = <<>>
  /\ <<"req">> \o <<>> = <<"req">>
  /\ <<"cert">> # <<>> /\ <<"hello">> # <<>> /\ <<"301">> # <<>> /\ <<"req">> # <<>>
  <1>1. Append(<<>>, "finished") = <<"finished">> /\ Append(<<>>, "301") = <<"301">>
    OBVIOUS
  <1>2. <<>> \o <<"req">> = <<"req">>
    OBVIOUS
  <1>3. <<"finished">> \o <<"req">> = <<"finished", "req">>
    <2> DEFINE s == <<"finished">>
               t == <<"req">>
               u == <<"finished", "req">>
    <2>1. /\ s \in Seq(InWire) /\ Len(s) = 1 /\ s[1] = "finished"
          /\ t \in Seq(InWire) /\ Len(t) = 1 /\ t[1] = "req"
      BY DEF InWire
    <2>2. u \in Seq(InWire) /\ Len(u) = 2 /\ u[1] = "finished" /\ u[2] = "req"
      BY DEF InWire
    <2> HIDE DEF s, t, u
    <2>3. /\ s \o t \in Seq(InWire) /\ Len(s \o t) = Len(s) + Len(t)
          /\ \A i \in 1 .. Len(s) + Len(t) : (s \o t)[i] = IF i <= Len(s) THEN s[i] ELSE t[i - Len(s)]
      BY <2>1, ConcatProperties
    <2>4. (s \o t)[1] = u[1] /\ (s \o t)[2] = u[2] /\ Len(s \o t) = 2
      BY <2>1, <2>2, <2>3
    <2>5. \A i \in 1 .. Len(s \o t) : (s \o t)[i] = u[i]
      BY <2>4
    <2>6. s \o t = u
      BY <2>2, <2>3, <2>4, <2>5, SeqEqual
    <2> QED
      BY <2>6 DEF s, t, u
  <1>4. /\ Head(<<"hello">>) = "hello" /\ Tail(<<"hello">>) = <<>> /\ Tail(<<"cert">>) = <<>>
        /\ Tail(<<"finished">>) = <<>>
    OBVIOUS
  <1>5. Tail(<<"finished", "req">>) = <<"req">>
    OBVIOUS
  <1>6. Head(<<"301">>) = "301" /\ Len(<<"req">>) = 1
    OBVIOUS
  <1>7. SubSeq(<<"req">>, 2, 1) = <<>>
    BY SubSeqEmpty
  <1>8. <<"req">> \o <<>> = <<"req">>
    OBVIOUS
  <1>9. <<"cert">> # <<>> /\ <<"hello">> # <<>> /\ <<"301">> # <<>> /\ <<"req">> # <<>>
    OBVIOUS
  <1> QED
    BY <1>1, <1>2, <1>3, <1>4, <1>5, <1>6, <1>7, <1>8, <1>9

\* A prober dials, or keeps silent.
LEMMA DialProbes ==
  ASSUME DoorInv, ProbeInv, NEW v \in Visitors, Dial(v)
  PROVE  ProbeInv'
  <1> DEFINE x == visit[v]
             y == [x EXCEPT !.task = "backlog", !.in = Opening(x.setup),
               !.at = IF x.setup.tls THEN "hello" ELSE IF v \in Clients THEN "inside" ELSE "answer"]
             z == [x EXCEPT !.at = "silent", !.task = "backlog"]
  <1>0. x \in VisitRecord /\ x.at = "idle"
    BY ReadInv DEF Dial
  <1>1. CASE ~server.up /\ Becomes(v, [x EXCEPT !.at = "failed"])
    BY <1>0, <1>1, ProbeBecomes DEF VisitRecord
  <1>2. CASE v \in Clients /\ Becomes(v, [x EXCEPT !.at = "failed", !.task = "backlog"])
    BY <1>0, <1>2, ProbeBecomes, DoorAssumption DEF VisitRecord, Prober
  <1>3. CASE Becomes(v, y)
    <2>1. y.setup = x.setup
      BY <1>0 DEF VisitRecord
    <2>2. ASSUME Prober(v), Probing(x) PROVE Probing(y)
      <3>1. x.setup.tls /\ Opening(x.setup) = <<"hello">> /\ x.out = <<>>
        BY <1>0, <2>2, ProberFacts DEF Opening, Probing
      <3>2. y.at = "hello" /\ y.task = "backlog" /\ y.in = <<"hello">> /\ y.out = <<>>
        BY <1>0, <3>1 DEF VisitRecord
      <3> QED
        BY <3>2 DEF Probing
    <2> QED
      BY <1>3, <2>1, <2>2, ProbeBecomes
  <1>4. CASE Becomes(v, z)
    <2>1. z.setup = x.setup
      BY <1>0 DEF VisitRecord
    <2>2. Probing(x) => Probing(z)
      BY <1>0 DEF VisitRecord, Probing
    <2> QED
      BY <1>4, <2>1, <2>2, ProbeBecomes
  <1> QED
    BY <1>1, <1>2, <1>3, <1>4 DEF Dial

\* It trusts every certificate, sends one record, and has an answer before the end.
LEMMA VisitorProbes ==
  ASSUME DoorInv, ProbeInv, NEW v \in Visitors, VisitorStep(v)
  PROVE  ProbeInv'
  <1> DEFINE x == visit[v]
  <1>0. x \in VisitRecord
    BY ReadInv
  <1>1. CASE CheckCert(v)
    <2> DEFINE y == IF Trusts(x.setup, x.cert)
                    THEN [x EXCEPT !.at = "request", !.out = Tail(@), !.in = Append(@, "finished")]
                    ELSE [x EXCEPT !.at = "failed"]
    <2>1. Becomes(v, y) /\ x.at = "hello" /\ x.out # <<>>
      BY <1>1 DEF CheckCert
    <2>2. y.setup = x.setup
      BY <1>0 DEF VisitRecord
    <2>3. ASSUME Prober(v), Probing(x) PROVE Probing(y)
      <3>1. Trusts(x.setup, x.cert)
        BY <2>3, ProberFacts DEF Trusts
      <3>2. x.task = "finish" /\ x.in = <<>> /\ x.out = <<"cert">>
        BY <2>1, <2>3 DEF Probing
      <3>3. y.at = "request" /\ y.task = "finish" /\ y.out = <<>> /\ y.in = <<"finished">>
        BY <1>0, <3>1, <3>2, Wires DEF VisitRecord
      <3> QED
        BY <3>3 DEF Probing
    <2> QED
      BY <2>1, <2>2, <2>3, ProbeBecomes
  <1>2. CASE LibraryRefuses(v)
    <2>1. [x EXCEPT !.at = "failed"].setup = x.setup /\ ~Prober(v)
      BY <1>0, <1>2, ProberFacts DEF VisitRecord, LibraryRefuses
    <2> QED
      BY <1>2, <2>1, ProbeBecomes DEF LibraryRefuses
  <1>3. CASE SendRequest(v)
    <2> DEFINE y == [x EXCEPT !.at = "answer", !.in = @ \o Upgrade(x.setup)]
    <2>1. Becomes(v, y) /\ x.at = "request"
      BY <1>3 DEF SendRequest
    <2>2. y.setup = x.setup
      BY <1>0 DEF VisitRecord
    <2>3. ASSUME Prober(v), Probing(x) PROVE Probing(y)
      <3>1. Upgrade(x.setup) = <<"req">>
        BY <2>3, ProberFacts, Wires DEF Upgrade
      <3>2. /\ x.out = <<>>
            /\ \/ x.task = "finish" /\ x.in = <<"finished">>
               \/ x.task = "request" /\ x.in = <<>>
        BY <2>1, <2>3 DEF Probing
      <3>3. /\ y.at = "answer" /\ y.out = <<>> /\ y.task = x.task
            /\ y.in = x.in \o <<"req">>
        BY <1>0, <3>1, <3>2 DEF VisitRecord
      <3> QED
        BY <3>2, <3>3, Wires DEF Probing
    <2> QED
      BY <2>1, <2>2, <2>3, ProbeBecomes
  <1>4. CASE ReadAnswer(v)
    <2> DEFINE y == [x EXCEPT !.at = "turned", !.out = Tail(@)]
               z == [x EXCEPT !.at = "inside", !.out = Tail(@),
                              !.in = IF x.setup.eager THEN @ ELSE Append(@, "uid")]
    <2>1. x.at = "answer" /\ x.out # <<>>
      BY <1>4 DEF ReadAnswer
    <2>2. CASE ~Accepts(Head(x.out))
      <3>1. Becomes(v, y) /\ y.setup = x.setup /\ y.at = "turned"
        BY <1>0, <1>4, <2>2 DEF ReadAnswer, VisitRecord
      <3> QED
        BY <3>1, ProbeBecomes DEF Probing
    <2>3. CASE Accepts(Head(x.out))
      <3>1. Becomes(v, z) /\ z.setup = x.setup
        BY <1>0, <1>4, <2>3 DEF ReadAnswer, VisitRecord
      <3>2. ~Probing(x)
        BY <2>1, <2>3, Wires DEF Probing, Accepts
      <3> QED
        BY <3>1, <3>2, ProbeBecomes
    <2> QED
      BY <2>2, <2>3
  <1>5. CASE SeesEnd(v)
    <2> DEFINE y == [x EXCEPT !.at = "failed", !.in = <<>>, !.out = <<>>]
    <2>1. Becomes(v, y) /\ y.setup = x.setup
      BY <1>0, <1>5 DEF SeesEnd, VisitRecord
    <2>2. ~Probing(x)
      BY <1>5, Wires DEF SeesEnd, Probing
    <2> QED
      BY <2>1, <2>2, ProbeBecomes
  <1> QED
    BY <1>1, <1>2, <1>3, <1>4, <1>5 DEF VisitorStep

LEMMA LeavesProbes ==
  ASSUME DoorInv, ProbeInv, NEW v \in Visitors, Leaves(v)
  PROVE  ProbeInv'
  <1> DEFINE y == [visit[v] EXCEPT !.at = "left"]
  <1>1. Becomes(v, y) /\ y.setup = visit[v].setup /\ y.at = "left"
    BY ReadInv DEF Leaves, VisitRecord
  <1> QED
    BY <1>1, ProbeBecomes DEF Probing

LEMMA AcceptProbes ==
  ASSUME DoorInv, ProbeInv, NEW v \in Visitors, Accept(v)
  PROVE  ProbeInv'
  <1> DEFINE x == visit[v]
             y == [x EXCEPT !.task = IF server.mode = "plain" THEN "handler" ELSE "tls"]
  <1>1. Becomes(v, y) /\ x.task = "backlog" /\ x \in VisitRecord
    BY ReadInv DEF Accept
  <1>2. y.setup = x.setup /\ y.at = x.at /\ y.in = x.in /\ y.out = x.out
        /\ (server.mode # "plain" => y.task = "tls")
    BY <1>1 DEF VisitRecord
  <1>3. server.mode # "plain" /\ Probing(x) => Probing(y)
    BY <1>1, <1>2 DEF Probing
  <1> QED
    BY <1>1, <1>2, <1>3, ProbeBecomes

\* Its task takes each record in turn and ends with the redirect.
LEMMA TaskProbes ==
  ASSUME DoorInv, ProbeInv, NEW v \in Visitors, TaskStep(v)
  PROVE  ProbeInv'
  <1> DEFINE x == visit[v]
  <1>0. x \in VisitRecord
    BY ReadInv
  <1>1. CASE TlsAccept(v)
    <2> DEFINE y == [x EXCEPT !.task = "finish", !.in = Tail(@), !.cert = server.starts,
                              !.out = <<"cert">>]
               z == [x EXCEPT !.task = "ended"]
    <2>1. x.task = "tls" /\ x.in # <<>> /\ (Becomes(v, y) \/ (Becomes(v, z) /\ Head(x.in) # "hello"))
      BY <1>1 DEF TlsAccept
    <2>2. /\ y.setup = x.setup /\ y.at = x.at /\ y.in = Tail(x.in) /\ y.out = <<"cert">>
          /\ y.task = "finish" /\ z.setup = x.setup /\ z.at = x.at
      BY <1>0 DEF VisitRecord
    <2>3. Probing(x) => Probing(y) /\ (Head(x.in) # "hello" => Probing(z))
      BY <2>1, <2>2, Wires DEF Probing
    <2> QED
      BY <2>1, <2>2, <2>3, ProbeBecomes
  <1>2. CASE TlsAccepted(v)
    <2> DEFINE y == [x EXCEPT !.task = "request", !.in = Tail(@)]
    <2>1. x.task = "finish" /\ x.in # <<>> /\ Becomes(v, y)
      BY <1>2 DEF TlsAccepted
    <2>2. y.setup = x.setup /\ y.at = x.at /\ y.in = Tail(x.in) /\ y.out = x.out /\ y.task = "request"
      BY <1>0 DEF VisitRecord
    <2>3. Probing(x) => Probing(y)
      BY <2>1, <2>2, Wires DEF Probing
    <2> QED
      BY <2>1, <2>2, <2>3, ProbeBecomes
  <1>3. CASE ReadUpgrade(v)
    <2>1. PICK n \in 1 .. Len(x.in) :
            Becomes(v, [x EXCEPT
              !.task = IF detect_ghost_auth({x.in[i] : i \in 1 .. n}, x.setup.token)
                       THEN "grant" ELSE "turn",
              !.in = SubSeq(@, n + 1, Len(@))])
      BY <1>3 DEF ReadUpgrade
    <2> DEFINE found == detect_ghost_auth({x.in[i] : i \in 1 .. n}, x.setup.token)
               y == [x EXCEPT !.task = IF found THEN "grant" ELSE "turn",
                              !.in = SubSeq(@, n + 1, Len(@))]
    <2>2. Becomes(v, y) /\ (found => x.setup.token = "key") /\ x.task = "request"
      BY <1>3, <2>1 DEF detect_ghost_auth, ReadUpgrade
    <2> HIDE DEF found
    <2>3. /\ y.setup = x.setup /\ y.at = x.at /\ y.in = SubSeq(x.in, n + 1, Len(x.in))
          /\ y.out = x.out /\ y.task = (IF found THEN "grant" ELSE "turn")
      BY <1>0 DEF VisitRecord
    <2>4. ASSUME Prober(v), Probing(x) PROVE Probing(y)
      <3>1. y.task = "turn"
        BY <2>2, <2>3, <2>4, ProberFacts
      <3>2. CASE x.at = "request" /\ x.in = <<>>
        BY <3>2
      <3>3. CASE x.at = "answer" /\ x.in = <<"req">> /\ x.out = <<>>
        <4>1. n = 1 /\ Len(x.in) = 1
          BY <3>3, Wires
        <4>2. y.in = <<>>
          BY <2>3, <3>3, <4>1, Wires
        <4> QED
          BY <2>3, <3>1, <3>3, <4>2 DEF Probing
      <3> QED
        BY <2>2, <2>3, <2>4, <3>2, <3>3 DEF Probing
    <2> QED
      BY <2>2, <2>3, <2>4, ProbeBecomes
  <1>4. CASE TurnAway(v)
    <2> DEFINE y == [x EXCEPT !.task = "ended", !.out = Append(@, "301")]
    <2>1. x.task = "turn" /\ Becomes(v, y)
      BY <1>4 DEF TurnAway
    <2>2. y.setup = x.setup /\ y.at = x.at /\ y.in = x.in /\ y.out = Append(x.out, "301")
          /\ y.task = "ended"
      BY <1>0 DEF VisitRecord
    <2>3. Probing(x) => Probing(y)
      BY <2>1, <2>2, Wires DEF Probing
    <2> QED
      BY <2>1, <2>2, <2>3, ProbeBecomes
  <1>5. CASE Grant(v)
    <2> DEFINE y == [x EXCEPT !.task = "handler", !.out = Append(@, "101")]
    <2>1. x.task = "grant" /\ Becomes(v, y) /\ y.setup = x.setup /\ y.at = x.at
      BY <1>0, <1>5 DEF Grant, VisitRecord
    <2>2. Probing(x) => Probing(y)
      BY <2>1 DEF Probing
    <2> QED
      BY <2>1, <2>2, ProbeBecomes
  <1>6. CASE LibraryGrants(v)
    <2> DEFINE y == [x EXCEPT !.task = "ended", !.out = Append(@, "200")]
    <2>1. x.task = "grant" /\ Becomes(v, y) /\ y.setup = x.setup /\ y.at = x.at
      BY <1>0, <1>6 DEF LibraryGrants, VisitRecord
    <2>2. Probing(x) => Probing(y)
      BY <2>1 DEF Probing
    <2> QED
      BY <2>1, <2>2, ProbeBecomes
  <1>7. CASE ReadUserId(v)
    <2> DEFINE y == [x EXCEPT !.in = Tail(@), !.task = IF Head(x.in) = "uid" THEN "served" ELSE "ended"]
    <2>1. x.task = "handler" /\ Becomes(v, y) /\ y.setup = x.setup /\ y.at = x.at
      BY <1>0, <1>7 DEF ReadUserId, VisitRecord
    <2>2. Probing(x) => Probing(y)
      BY <2>1 DEF Probing
    <2> QED
      BY <2>1, <2>2, ProbeBecomes
  <1>8. CASE TaskSeesEnd(v)
    <2> DEFINE y == [x EXCEPT !.task = "ended", !.in = <<>>, !.out = <<>>]
    <2>1. x.at \in {"failed", "turned", "left"} /\ Becomes(v, y) /\ y.setup = x.setup /\ y.at = x.at
      BY <1>0, <1>8 DEF TaskSeesEnd, VisitRecord
    <2>2. Probing(x) => Probing(y)
      BY <2>1 DEF Probing
    <2> QED
      BY <2>1, <2>2, ProbeBecomes
  <1> QED
    BY <1>1, <1>2, <1>3, <1>4, <1>5, <1>6, <1>7, <1>8 DEF TaskStep

\* The inductive step; a process that died has started more than once.
LEMMA ProbeStep ==
  ASSUME DoorInv, ProbeInv, [ConnNext]_connVars
  PROVE  ProbeInv'
  <1>1. CASE UNCHANGED doorVars
    BY <1>1 DEF doorVars, ProbeInv, Prober, Probing
  <1>2. CASE GoToServer
    BY <1>2, Consts, DialProbes DEF GoToServer
  <1>3. CASE DoorStep
    <2>1. ASSUME NEW v \in Outsiders, Dial(v) \/ Leaves(v)
          PROVE  ProbeInv'
      BY <2>1, DialProbes, LeavesProbes DEF Visitors
    <2>2. CASE AcceptFails
      BY <2>2, InvIsLocal DEF AcceptFails, ProbeInv
    <2>3. CASE Restart
      <3>1. server.starts \in Nat \ {0} /\ server'.starts = server.starts + 1
        BY <2>3, InvIsLocal, Consts DEF Restart
      <3>2. server'.starts # 1
        BY <3>1
      <3> QED
        BY <3>2 DEF ProbeInv
    <2> QED
      BY <1>3, <2>1, <2>2, <2>3, VisitorProbes, AcceptProbes, TaskProbes DEF DoorStep
  <1> QED
    BY <1>1, <1>2, <1>3 DEF ConnNext, connVars, TunnelFails

LEMMA ProbeStarts ==
  ASSUME DoorInit
  PROVE  ProbeInv
  <1>1. ASSUME NEW v \in Visitors
        PROVE  Probing(visit[v])
    <2>1. PICK w \in Visitors : \E s \in Setups(w) : visit[v] = Visit(s)
      BY DEF DoorInit
    <2> QED
      BY <2>1 DEF Visit, Probing
  <1> QED
    BY <1>1 DEF ProbeInv

--------------------------------------------------------------------------------
(* The theorems.                                                           *)

\* The types of the door and the grants on their way (ghost-server lib.rs:95 and what
\* its tasks do, tunnel.rs:217).
THEOREM DoorInvariance == ConnSpec => [](DoorTypeOK /\ OnlyTheKeyInv)
  <1>1. ConnInit => DoorInv
    BY DoorStarts DEF ConnInit
  <1>2. DoorInv /\ [ConnNext]_connVars => DoorInv'
    BY StepKeeps
  <1> QED
    BY <1>1, <1>2, PTL DEF ConnSpec, DoorInv

\* Behind the mask nobody is let in without the key (ghost-server lib.rs:112), for every
\* number of visitors, cuts of the requests and restarts.
THEOREM KeyOpens == ConnSpec => []OnlyTheKeyOpens
  <1>1. DoorTypeOK /\ OnlyTheKeyInv => OnlyTheKeyOpens
    BY DEF OnlyTheKeyInv, OnlyTheKeyOpens
  <1> QED
    BY <1>1, DoorInvariance, PTL

\* Types, what each side of the handshake has said and heard (ghost-client lib.rs:98),
\* the grants on their way and where a prober is (ghost-server lib.rs:95).
THEOREM ConnInvariance == ConnSpec => []ConnInv
  <1>1. ConnInit => ConnInv
    BY HandshakeStarts, DoorStarts, ProbeStarts DEF ConnInit, ConnInv, DoorInv
  <1>2. ConnInv /\ [ConnNext]_connVars => ConnInv'
    <2> SUFFICES ASSUME ConnInv, [ConnNext]_connVars PROVE ConnInv'
      OBVIOUS
    <2>1. HandInv /\ DoorInv /\ ProbeInv
      BY DEF ConnInv, DoorInv
    <2>2. [Next]_vars \/ TunnelEnds
      BY DEF ConnNext, connVars, GoToServer, TunnelFails
    <2>3. HandInv' /\ DoorInv' /\ ProbeInv'
      BY <2>1, <2>2, HandshakeStep, TunnelEndsKeeps, StepKeeps, ProbeStep
    <2> QED
      BY <2>3 DEF ConnInv, DoorInv
  <1> QED
    BY <1>1, <1>2, PTL DEF ConnSpec

\* A tunnel is the one that was asked for, and starts with the byte after the request
\* (ghost-client lib.rs:98), for all names and whatever the program sends early.
THEOREM TunnelAsAsked == ConnSpec => []TunnelIsAsked
  <1>1. ConnInv => TunnelIsAsked
    BY AskedFor DEF ConnInv
  <1> QED
    BY <1>1, ConnInvariance, PTL

\* A connected program has a tunnel, or had one that has ended, and nothing of the
\* handshake left to read (ghost-tun socks5.rs:56).
THEOREM ConnectedToTunnel == ConnSpec => []ConnectedIsTunnel
  <1>1. ConnInv => ConnectedIsTunnel
    BY Connected DEF ConnInv
  <1> QED
    BY <1>1, ConnInvariance, PTL

\* An application that stays and whose CONNECT, well formed, failed in the handshake
\* asked for a name of 255 bytes (ghost-client lib.rs:160) or for one that is not
\* UTF-8 (lib.rs:152), for all lengths of names.
THEOREM AppServed == ConnSpec => []AppIsServed
  <1>1. ConnInv => AppIsServed
    BY DEF ConnInv, HandInv
  <1> QED
    BY <1>1, ConnInvariance, PTL

\* A patient prober is turned away as by a web server (ghost-server lib.rs:112), for
\* every number of visitors.
THEOREM ProbeAnswered == ConnSpec => []ProbeIsAnswered
  <1>1. ConnInv => ProbeIsAnswered
    <2> SUFFICES ASSUME ConnInv, server.mode # "plain", NEW v \in Outsiders, visit[v].at = "failed",
                        visit[v].setup.tls, visit[v].setup.token # "key",
                        ~visit[v].setup.split, ~visit[v].setup.eager, server.up
                 PROVE  server.starts > 1
      BY DEF ProbeIsAnswered
    <2>1. ~(Prober(v) /\ Probing(visit[v])) /\ Prober(v) /\ v \in Visitors
      BY DEF Probing, Prober, Visitors
    <2>2. server.starts # 1
      BY <2>1 DEF ConnInv, ProbeInv
    <2>3. server.starts \in Nat \ {0}
      BY InvIsLocal, Consts DEF ConnInv, DoorInv
    <2> QED
      BY <2>2, <2>3
  <1> QED
    BY <1>1, ConnInvariance, PTL
================================================================================
