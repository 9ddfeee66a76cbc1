------------------------------ MODULE VpnAppProofs ------------------------------
(***************************************************************************)
(* Proofs about the mobile app as a whole: its Dart service and Android    *)
(* service over the Rust bridge, for any number of tasks, taps, stops from *)
(* outside and kills.  What is proved of the bridge is used here.          *)
(***************************************************************************)
EXTENDS VpnApp, ProxyBridgeProofs

Codes == {"stopped", "connecting", "connected", "error"}
Messages == {"connect", "disconnect"} \cup Codes

\* Sequences as the two queues use them.
LEMMA AppendEffect ==
  ASSUME NEW S, NEW s \in Seq(S), NEW x \in S
  PROVE  /\ Append(s, x) \in Seq(S) /\ Len(Append(s, x)) = Len(s) + 1 /\ Len(s) \in Nat
         /\ Append(s, x)[Len(s) + 1] = x
         /\ \A i \in 1 .. Len(s) : Append(s, x)[i] = s[i]
  OBVIOUS

LEMMA TailEffect ==
  ASSUME NEW S, NEW s \in Seq(S), s # <<>>
  PROVE  /\ Tail(s) \in Seq(S) /\ Len(Tail(s)) = Len(s) - 1 /\ Len(s) \in Nat \ {0}
         /\ Head(s) = s[1] /\ Head(s) \in S
         /\ \A i \in 1 .. Len(s) - 1 : Tail(s)[i] = s[i + 1]
  OBVIOUS

\* A result is posted at the end of the inbox ...
LEMMA PostEffect ==
  ASSUME inbox \in Seq(Messages), NEW m \in Messages, inbox' = Append(inbox, m)
  PROVE  /\ inbox' \in Seq(Messages)
         /\ \A x : Posted(x)' => Posted(x) \/ x = m
         /\ \A i, j \in 1 .. Len(inbox') :
              inbox'[i] = inbox'[j] => i = j \/ inbox'[i] = m \/ (i \in 1 .. Len(inbox) /\ j \in 1 .. Len(inbox))
  <1>1. /\ inbox' \in Seq(Messages) /\ Len(inbox') = Len(inbox) + 1 /\ Len(inbox) \in Nat
        /\ inbox'[Len(inbox) + 1] = m
        /\ \A i \in 1 .. Len(inbox) : inbox'[i] = inbox[i]
    BY AppendEffect
  <1>2. \A i \in 1 .. Len(inbox') : i \in 1 .. Len(inbox) \/ i = Len(inbox) + 1
    BY <1>1
  <1>3. \A x : Posted(x)' => Posted(x) \/ x = m
    BY <1>1, <1>2 DEF Posted
  <1> QED
    BY <1>1, <1>2, <1>3

\* ... and delivered from its front.
LEMMA DeliverEffect ==
  ASSUME inbox \in Seq(Messages), NEW m, Delivered(m)
  PROVE  /\ inbox' \in Seq(Messages) /\ m \in Messages /\ Posted(m)
         /\ \A x : Posted(x)' => Posted(x)
         /\ Len(inbox') = Len(inbox) - 1 /\ Len(inbox) \in Nat \ {0} /\ inbox[1] = m
         /\ \A i \in 1 .. Len(inbox) - 1 : inbox'[i] = inbox[i + 1]
  <1>1. /\ inbox' \in Seq(Messages) /\ Len(inbox') = Len(inbox) - 1 /\ Len(inbox) \in Nat \ {0}
        /\ m = inbox[1] /\ m \in Messages
        /\ \A i \in 1 .. Len(inbox) - 1 : inbox'[i] = inbox[i + 1]
    BY TailEffect DEF Delivered
  <1>2. \A x : Posted(x)' => Posted(x)
    <2> SUFFICES ASSUME NEW x, Posted(x)' PROVE Posted(x)
      OBVIOUS
    <2>1. PICK i \in 1 .. Len(inbox) - 1 : inbox'[i] = x
      BY <1>1 DEF Posted
    <2>2. i + 1 \in 1 .. Len(inbox) /\ inbox[i + 1] = x
      BY <1>1, <2>1
    <2> QED
      BY <2>2 DEF Posted
  <1>3. Posted(m)
    BY <1>1 DEF Posted
  <1> QED
    BY <1>1, <1>2, <1>3

LEMMA AskedPosted ==
  Asked <=> poll # "none" \/ \E x : Posted(x) /\ x \notin Callers
  BY DEF Asked, Posted

--------------------------------------------------------------------------------
(* The steps of the app.                                                   *)

LEMMA AppCases ==
  ASSUME AppNext
  PROVE  \/ TapConnect \/ TapDisconnect \/ Prepare \/ CallStart \/ StartReturns \/ StartVpn
         \/ CallUndo \/ UndoReturns \/ StopVpn \/ CallStop \/ StopReturns
         \/ PollReads \/ PollPosts \/ PollReturns \/ ServiceStarts \/ ServiceStops
         \/ (\E c \in Callers : Post(c)) \/ Bridge \/ BridgeFails \/ StoppedOutside \/ ProcessDies
  BY DEF AppNext, Connect, Disconnect, Poll, Service

\* What the app does to the bridge is a step of the bridge, unless the process dies.
LEMMA StepOfBridge ==
  ASSUME [AppNext]_appVars
  PROVE  [Next]_vars \/ ProcessDies
  <1> USE AppAssumption DEF appVars, Next
  <1>1. CASE \/ TapConnect \/ TapDisconnect \/ Prepare \/ StartReturns \/ StartVpn
             \/ UndoReturns \/ StopVpn \/ StopReturns
    BY <1>1 DEF TapConnect, TapDisconnect, Prepare, StartReturns, StartVpn, UndoReturns, StopVpn,
                StopReturns
  <1>2. CASE \/ PollReads \/ PollPosts \/ PollReturns \/ ServiceStarts \/ ServiceStops
             \/ (\E c \in Callers : Post(c)) \/ StoppedOutside
    BY <1>2 DEF PollReads, PollPosts, PollReturns, ServiceStarts, ServiceStops, Post, StoppedOutside
  <1>3. CASE CallStart \/ CallUndo \/ CallStop
    BY <1>3 DEF CallStart, CallUndo, CallStop
  <1>4. CASE Bridge \/ BridgeFails
    BY <1>4 DEF Bridge, BridgeFails
  <1>5. CASE UNCHANGED appVars
    BY <1>5
  <1> QED
    BY <1>1, <1>2, <1>3, <1>4, <1>5, AppCases

\* Nothing of the bridge survives a kill.
LEMMA DiesKeepsBridge ==
  ASSUME BridgeInv, ProcessDies
  PROVE  BridgeInv'
  <1>0. TypeOK /\ BornInv
    BY DEF BridgeInv
  <1>1. /\ status' = "stopped" /\ running' = FALSE /\ handle' = None /\ port' = None
        /\ aborted' = aborted /\ overlap' = FALSE
        /\ \A t \in Tasks : task'[t] = IF task[t] = "unborn" THEN "unborn" ELSE "dropped"
        /\ \A c \in Callers : call'[c].pc = "fresh" /\ call'[c].mine = None /\ ~call'[c].undo
    BY DEF ProcessDies
  <1>2. \A t \in Tasks : ~Live(t)' /\ t # None
    BY <1>1 DEF Live, Dead, Tasks, None
  <1>3. TypeOK'
    <2>1. task' \in [Tasks -> Dead \cup {"new", "polled", "started", "listening", "failing", "erred"}]
      BY DEF ProcessDies, Dead
    <2>2. call' \in [Callers -> CallRecord]
      BY DEF ProcessDies, CallRecord, Returned
    <2> QED
      BY <1>0, <1>1, <2>1, <2>2 DEF TypeOK, CallRecord
  <1>4. PortInv' /\ BornInv' /\ RuntimeInv' /\ ConnectingInv'
    BY <1>0, <1>1, <1>2 DEF PortInv, BornInv, RuntimeInv, ConnectingInv, In
  <1>5. OneCall' /\ OneTask' /\ RunningInv'
    <2>1. \A c \in Callers : ~Busy(c)' /\ ~In(c, {"take", "undone"})'
      BY <1>1 DEF Busy, In, Returned
    <2>2. OneCall' /\ RunningInv'
      BY <1>1, <1>2, <2>1 DEF OneCall, RunningInv
    <2>3. OneTask'
      BY <1>1, <1>2 DEF OneTask, In, At
    <2> QED
      BY <2>2, <2>3
  <1> QED
    BY <1>3, <1>4, <1>5 DEF BridgeInv, CalmInv

LEMMA BridgeInApp ==
  ASSUME BridgeInv, [AppNext]_appVars
  PROVE  BridgeInv'
  BY StepOfBridge, BridgeStep, DiesKeepsBridge

--------------------------------------------------------------------------------
(* Types.                                                                  *)

FlowRecord ==
  [connect : {"idle", "prepare", "start", "starting", "startvpn", "undo", "undoing", "thrown"},
   disconnect : {"idle", "stopvpn", "stop", "stopping"}]
TallyRecord == [taps : 0 .. MaxTaps, stops : 0 .. MaxStops, kills : 0 .. MaxKills]

AppTypes ==
  /\ ui \in {"disconnected", "connecting", "connected", "error"}
  /\ poller \in BOOLEAN /\ vpn \in BOOLEAN
  /\ flow \in FlowRecord /\ poll \in Codes \cup {"none"}
  /\ inbox \in Seq(Messages) /\ intents \in Seq({"connect", "disconnect"})
  /\ count \in TallyRecord

LEMMA AppTypeParts == AppTypeOK <=> TypeOK /\ AppTypes
  <1>1. Messages = {"connect", "disconnect", "stopped", "connecting", "connected", "error"}
    BY DEF Messages, Codes
  <1>2. Codes \cup {"none"} = {"none", "stopped", "connecting", "connected", "error"}
    BY DEF Codes
  <1>3. {poller, vpn} \subseteq BOOLEAN <=> poller \in BOOLEAN /\ vpn \in BOOLEAN
    OBVIOUS
  <1> QED
    BY <1>1, <1>2, <1>3 DEF AppTypeOK, AppTypes, FlowRecord, TallyRecord

\* connect() or disconnect() goes on to its next await.
LEMMA FlowMoves ==
  ASSUME flow \in FlowRecord
  PROVE  /\ \A p \in {"idle", "prepare", "start", "starting", "startvpn", "undo", "undoing",
                     "thrown"} :
              LET f == [flow EXCEPT !.connect = p]
              IN  f \in FlowRecord /\ f.connect = p /\ f.disconnect = flow.disconnect
         /\ \A p \in {"idle", "stopvpn", "stop", "stopping"} :
              LET f == [flow EXCEPT !.disconnect = p]
              IN  f \in FlowRecord /\ f.disconnect = p /\ f.connect = flow.connect
  BY DEF FlowRecord

LEMMA TypeApp ==
  ASSUME AppTypes, TypeOK, AppNext
  PROVE  AppTypes'
  <1> USE DEF AppTypes
  <1>1. CASE TapConnect \/ TapDisconnect
    <2>1. count' \in TallyRecord
      BY <1>1, AppAssumption DEF TapConnect, TapDisconnect, Tap, TallyRecord
    <2> QED
      BY <1>1, <2>1, FlowMoves DEF TapConnect, TapDisconnect
  <1>2. CASE Prepare
    BY <1>2, FlowMoves DEF Prepare, Consent, ConnectThrows
  <1>3. CASE CallStart \/ CallUndo \/ CallStop
    BY <1>3, FlowMoves DEF CallStart, CallUndo, CallStop
  <1>4. CASE StartReturns
    BY <1>4, FlowMoves, DeliverEffect DEF StartReturns, ConnectThrows
  <1>5. CASE UndoReturns \/ StopReturns
    BY <1>5, FlowMoves, DeliverEffect DEF UndoReturns, StopReturns
  <1>6. CASE StartVpn
    <2>1. CASE SendIntent("connect") /\ poller' = TRUE /\ flow' = [flow EXCEPT !.connect = "idle"]
      BY <1>6, <2>1, FlowMoves, AppendEffect DEF StartVpn, SendIntent
    <2>2. CASE flow' = [flow EXCEPT !.connect = "undo"] /\ UNCHANGED <<intents, poller>>
      BY <1>6, <2>2, FlowMoves DEF StartVpn
    <2> QED
      BY <1>6, <2>1, <2>2 DEF StartVpn
  <1>7. CASE StopVpn
    BY <1>7, FlowMoves, AppendEffect DEF StopVpn, SendIntent
  <1>8. CASE PollReads
    BY <1>8 DEF PollReads, TypeOK, Codes
  <1>9. CASE PollPosts
    <2>1. poll \in Messages
      BY <1>9 DEF PollPosts, Messages
    <2> QED
      BY <1>9, <2>1, PostEffect DEF PollPosts
  <1>10. CASE PollReturns
    <2>1. PICK code \in Codes :
            /\ Delivered(code) /\ ui' = Shown(code)
            /\ poller' = (poller /\ code \notin {"stopped", "error"})
      BY <1>10 DEF PollReturns, Codes
    <2>2. ui' \in {"disconnected", "connecting", "connected", "error"} /\ poller' \in BOOLEAN
      BY <2>1 DEF Shown, Codes
    <2>3. inbox' \in Seq(Messages)
      BY <2>1, DeliverEffect
    <2> QED
      BY <1>10, <2>2, <2>3 DEF PollReturns
  <1>11. CASE ServiceStarts \/ ServiceStops
    <2>1. intents' \in Seq({"connect", "disconnect"})
      BY <1>11, TailEffect DEF ServiceStarts, ServiceStops
    <2>2. vpn' \in BOOLEAN
      BY <1>11 DEF ServiceStarts, ServiceStops
    <2> QED
      BY <1>11, <2>1, <2>2 DEF ServiceStarts, ServiceStops
  <1>12. CASE \E c \in Callers : Post(c)
    <2> PICK c \in Callers : Post(c)
      BY <1>12
    <2>1. c \in Messages /\ inbox' = Append(inbox, c)
      BY AppAssumption DEF Post, Messages
    <2>2. inbox' \in Seq(Messages)
      BY <2>1, PostEffect
    <2> QED
      BY <2>2 DEF Post
  <1>13. CASE Bridge \/ BridgeFails
    BY <1>13 DEF Bridge, BridgeFails, app
  <1>14. CASE StoppedOutside
    <2>1. count' \in TallyRecord
      BY <1>14, AppAssumption DEF StoppedOutside, TallyRecord
    <2> QED
      BY <1>14, <2>1 DEF StoppedOutside
  <1>15. CASE ProcessDies
    <2>1. count' \in TallyRecord
      BY <1>15, AppAssumption DEF ProcessDies, TallyRecord
    <2>2. flow' \in FlowRecord /\ vpn' \in BOOLEAN
      BY <1>15 DEF ProcessDies, FlowRecord
    <2>3. inbox' \in Seq(Messages) /\ intents' \in Seq({"connect", "disconnect"})
      BY <1>15 DEF ProcessDies
    <2> QED
      BY <1>15, <2>1, <2>2, <2>3 DEF ProcessDies
  <1> QED
    BY <1>1, <1>2, <1>3, <1>4, <1>5, <1>6, <1>7, <1>8, <1>9, <1>10, <1>11, <1>12, <1>13, <1>14,
       <1>15, AppCases

LEMMA AppTypeStep ==
  ASSUME AppTypeOK, BridgeInv, [AppNext]_appVars
  PROVE  AppTypeOK'
  <1>1. TypeOK'
    BY BridgeInApp DEF BridgeInv
  <1>2. AppTypes'
    <2>1. CASE AppNext
      BY <2>1, TypeApp, AppTypeParts
    <2>2. CASE UNCHANGED appVars
      BY <2>2, AppTypeParts DEF appVars, app, AppTypes
    <2> QED
      BY <2>1, <2>2
  <1>3. (AppTypeOK <=> TypeOK /\ AppTypes)'
    BY AppTypeParts, PTL
  <1> QED
    BY <1>1, <1>2, <1>3

--------------------------------------------------------------------------------
(* Calls and their results.                                                *)

LEMMA CallFrame ==
  ASSUME TypeOK, NEW c \in Callers, CallAction(c)
  PROVE  /\ \A d \in Callers : d # c => call'[d] = call[d]
         /\ CallStep(c) => Busy(c)
  <1>1. \A d \in Callers : d # c => call'[d] = call[d]
    <2>1. CASE StartSpawn(c)
      BY <2>1, SpawnEffect
    <2>2. CASE StartTimesOut(c) \/ StartFails(c)
      BY <2>2, TimeOutEffect, FailEffect
    <2>3. CASE \/ StartCheck(c) \/ StartClaim(c) \/ StartPanics(c) \/ StartKeep(c) \/ StartBound(c)
               \/ StartReport(c) \/ StopTake(c) \/ StopLower(c) \/ StopSettle(c)
      <3>1. \E pc : Goto(c, pc)
        BY <2>3 DEF StartCheck, StartClaim, StartPanics, StartKeep, StartBound, StartReport, StopTake,
                    StopLower, StopSettle
      <3> QED
        BY <3>1, GotoEffect
    <2> QED
      BY <2>1, <2>2, <2>3, CallCases
  <1>2. CallStep(c) => Busy(c)
    BY DEF CallStep, StartStep, StopStep, StartClaim, StartPanics, StartSpawn, StartKeep, StartBound,
           StartTimesOut, StartReport, StartFails, StopLower, StopSettle, At, Busy, Returned
  <1> QED
    BY <1>1, <1>2

\* Nothing of a call moves.
LEMMA CallsStay ==
  ASSUME CallInv, UNCHANGED <<call, inbox>>, \A c \in Callers : Awaits(c)' <=> Awaits(c)
  PROVE  CallInv'
  BY DEF CallInv, Posted

\* connect() or disconnect() calls the bridge.
LEMMA CallBegins ==
  ASSUME CallInv, NEW c \in Callers, ~Awaits(c), Awaits(c)', UNCHANGED inbox,
         \A d \in Callers : d # c => call'[d] = call[d] /\ (Awaits(d)' <=> Awaits(d))
  PROVE  CallInv'
  BY DEF CallInv, Posted

\* The result of the call is delivered to the flow that waits for it.
LEMMA CallEnds ==
  ASSUME CallInv, inbox \in Seq(Messages), NEW c \in Callers, Delivered(c), ~Awaits(c)',
         UNCHANGED call, \A d \in Callers : d # c => (Awaits(d)' <=> Awaits(d))
  PROVE  CallInv'
  <1>1. /\ Posted(c) /\ \A x : Posted(x)' => Posted(x)
        /\ Len(inbox') = Len(inbox) - 1 /\ Len(inbox) \in Nat \ {0} /\ inbox[1] = c
        /\ \A i \in 1 .. Len(inbox) - 1 : inbox'[i] = inbox[i + 1]
    BY DeliverEffect
  <1>2. ~Posted(c)'
    <2> SUFFICES ASSUME NEW i \in 1 .. Len(inbox) - 1, inbox'[i] = c PROVE FALSE
      BY <1>1 DEF Posted
    <2>1. inbox[i + 1] = inbox[1] /\ i + 1 \in 1 .. Len(inbox) /\ 1 \in 1 .. Len(inbox)
      BY <1>1
    <2>2. i + 1 = 1
      BY <1>1, <2>1 DEF CallInv
    <2> QED
      BY <2>2
  <1>3. \A i, j \in 1 .. Len(inbox') : inbox'[i] = inbox'[j] /\ inbox'[i] \in Callers => i = j
    <2> SUFFICES ASSUME NEW i \in 1 .. Len(inbox) - 1, NEW j \in 1 .. Len(inbox) - 1,
                        inbox'[i] = inbox'[j], inbox'[i] \in Callers
                 PROVE  i = j
      BY <1>1
    <2>1. /\ inbox[i + 1] = inbox[j + 1] /\ inbox[i + 1] \in Callers
          /\ i + 1 \in 1 .. Len(inbox) /\ j + 1 \in 1 .. Len(inbox)
      BY <1>1
    <2>2. i + 1 = j + 1
      BY <2>1 DEF CallInv
    <2> QED
      BY <2>2
  <1>4. ASSUME NEW d \in Callers
        PROVE  /\ ~Awaits(d)' => call'[d].pc \in Returned
               /\ Posted(d)' => Awaits(d)' /\ call'[d].pc \in Returned
    BY <1>1, <1>2 DEF CallInv
  <1> QED
    BY <1>3, <1>4 DEF CallInv

\* The bridge goes on with a call.
LEMMA CallGoesOn ==
  ASSUME CallInv, NEW c \in Callers, Busy(c), UNCHANGED <<flow, inbox>>,
         \A d \in Callers : d # c => call'[d] = call[d]
  PROVE  CallInv'
  <1>1. Awaits(c) /\ ~Posted(c)
    BY DEF CallInv, Busy
  <1> QED
    BY <1>1 DEF CallInv, Posted, Awaits

LEMMA CallInvStep ==
  ASSUME AppTypeOK, CallInv, AppNext
  PROVE  CallInv'
  <1>0. TypeOK /\ AppTypes /\ inbox \in Seq(Messages) /\ flow \in FlowRecord
    BY AppTypeParts DEF AppTypes
  <1>a. Callers = {"connect", "disconnect"}
    BY AppAssumption
  <1>1. CASE TapConnect \/ TapDisconnect \/ Prepare \/ StartVpn \/ StopVpn
    <2>1. UNCHANGED <<call, inbox>>
      BY <1>1 DEF TapConnect, TapDisconnect, Prepare, StartVpn, StopVpn, vars
    <2>2. /\ flow.connect \notin {"starting", "undoing"} \/ flow'.connect = flow.connect
          /\ flow'.connect \notin {"starting", "undoing"} \/ flow'.connect = flow.connect
          /\ flow.disconnect # "stopping" \/ flow'.disconnect = flow.disconnect
          /\ flow'.disconnect # "stopping" \/ flow'.disconnect = flow.disconnect
      <3>1. CASE Prepare
        <4>1. \/ flow' = [flow EXCEPT !.connect = "thrown"]
              \/ flow' = [flow EXCEPT !.connect = "start"]
              \/ flow' = [flow EXCEPT !.connect = "idle"]
          BY <3>1 DEF Prepare, Consent, ConnectThrows
        <4>2. flow.connect = "prepare"
          BY <3>1 DEF Prepare
        <4>3. flow'.connect \in {"thrown", "start", "idle"} /\ flow'.disconnect = flow.disconnect
          BY <1>0, <4>1 DEF FlowRecord
        <4> QED
          BY <4>2, <4>3
      <3>2. CASE TapConnect \/ TapDisconnect
        BY <1>0, <3>2 DEF FlowRecord, TapConnect, TapDisconnect, NotConnecting
      <3>3. CASE StartVpn \/ StopVpn
        BY <1>0, <3>3 DEF FlowRecord, StartVpn, StopVpn
      <3> QED
        BY <1>1, <3>1, <3>2, <3>3
    <2>3. \A c \in Callers : Awaits(c)' <=> Awaits(c)
      BY <2>2 DEF Awaits
    <2> QED
      BY <2>1, <2>3, CallsStay
  <1>2. CASE PollReads \/ ServiceStarts \/ ServiceStops \/ StoppedOutside \/ BridgeFails
    <2>1. UNCHANGED <<call, inbox, flow>>
      BY <1>2 DEF PollReads, ServiceStarts, ServiceStops, StoppedOutside, BridgeFails, TaskAcceptFails,
                  vars, app
    <2> QED
      BY <2>1, CallsStay DEF Awaits
  <1>3. CASE CallStart \/ CallUndo
    <2>1. /\ ~Awaits("connect") /\ Awaits("connect")' /\ UNCHANGED inbox
          /\ Awaits("disconnect")' <=> Awaits("disconnect")
      BY <1>0, <1>3 DEF FlowRecord, CallStart, CallUndo, Awaits
    <2>2. CallAction("connect")
      BY <1>3 DEF CallStart, CallUndo, CallAction
    <2>3. \A d \in Callers : d # "connect" => call'[d] = call[d]
      BY <1>0, <1>a, <2>2, CallFrame
    <2> QED
      BY <1>a, <2>1, <2>3, CallBegins
  <1>4. CASE CallStop
    <2>1. /\ ~Awaits("disconnect") /\ Awaits("disconnect")' /\ UNCHANGED inbox
          /\ Awaits("connect")' <=> Awaits("connect")
      BY <1>0, <1>4 DEF FlowRecord, CallStop, Awaits
    <2>2. CallAction("disconnect")
      BY <1>4 DEF CallStop, CallAction
    <2>3. \A d \in Callers : d # "disconnect" => call'[d] = call[d]
      BY <1>0, <1>a, <2>2, CallFrame
    <2> QED
      BY <1>a, <2>1, <2>3, CallBegins
  <1>5. CASE StartReturns \/ UndoReturns
    <2>1. /\ Delivered("connect") /\ ~Awaits("connect")' /\ UNCHANGED call
          /\ Awaits("disconnect")' <=> Awaits("disconnect")
      BY <1>0, <1>5 DEF FlowRecord, StartReturns, ConnectThrows, UndoReturns, Awaits, vars
    <2> QED
      BY <1>0, <1>a, <2>1, CallEnds
  <1>6. CASE StopReturns
    <2>1. /\ Delivered("disconnect") /\ ~Awaits("disconnect")' /\ UNCHANGED call
          /\ Awaits("connect")' <=> Awaits("connect")
      BY <1>0, <1>6 DEF FlowRecord, StopReturns, Awaits, vars
    <2> QED
      BY <1>0, <1>a, <2>1, CallEnds
  <1>7. CASE PollReturns
    <2>1. PICK code \in Codes : Delivered(code)
      BY <1>7 DEF PollReturns, Codes
    <2>2. UNCHANGED <<call, flow>>
      BY <1>7 DEF PollReturns, vars
    <2>3. /\ \A x : Posted(x)' => Posted(x)
          /\ Len(inbox') = Len(inbox) - 1 /\ Len(inbox) \in Nat \ {0}
          /\ \A i \in 1 .. Len(inbox) - 1 : inbox'[i] = inbox[i + 1]
      BY <1>0, <2>1, DeliverEffect
    <2>4. \A i, j \in 1 .. Len(inbox') : inbox'[i] = inbox'[j] /\ inbox'[i] \in Callers => i = j
      <3> SUFFICES ASSUME NEW i \in 1 .. Len(inbox) - 1, NEW j \in 1 .. Len(inbox) - 1,
                          inbox'[i] = inbox'[j], inbox'[i] \in Callers
                   PROVE  i = j
        BY <2>3
      <3>1. /\ inbox[i + 1] = inbox[j + 1] /\ inbox[i + 1] \in Callers
            /\ i + 1 \in 1 .. Len(inbox) /\ j + 1 \in 1 .. Len(inbox)
        BY <2>3
      <3>2. i + 1 = j + 1
        BY <3>1 DEF CallInv
      <3> QED
        BY <3>2
    <2> QED
      BY <2>2, <2>3, <2>4 DEF CallInv, Awaits
  <1>8. CASE PollPosts \/ \E c \in Callers : Post(c)
    <2>1. PICK m \in Messages :
            /\ inbox' = Append(inbox, m)
            /\ m \in Callers => Awaits(m) /\ call[m].pc \in Returned /\ ~Posted(m)
      <3>1. CASE PollPosts
        BY <1>0, <1>a, <3>1 DEF PollPosts, AppTypes, Messages, Codes
      <3>2. CASE \E c \in Callers : Post(c)
        BY <1>a, <3>2 DEF Post, Awaits, Posted, Messages
      <3> QED
        BY <1>8, <3>1, <3>2
    <2>2. UNCHANGED <<call, flow>>
      BY <1>8 DEF PollPosts, Post, vars
    <2>3. /\ \A x : Posted(x)' => Posted(x) \/ x = m
          /\ inbox' \in Seq(Messages) /\ Len(inbox') = Len(inbox) + 1 /\ Len(inbox) \in Nat
          /\ inbox'[Len(inbox) + 1] = m /\ \A i \in 1 .. Len(inbox) : inbox'[i] = inbox[i]
      BY <1>0, <2>1, PostEffect, AppendEffect
    <2>4. \A i, j \in 1 .. Len(inbox') : inbox'[i] = inbox'[j] /\ inbox'[i] \in Callers => i = j
      <3> SUFFICES ASSUME NEW i \in 1 .. Len(inbox'), NEW j \in 1 .. Len(inbox'),
                          inbox'[i] = inbox'[j], inbox'[i] \in Callers
                   PROVE  i = j
        OBVIOUS
      <3>1. CASE i \in 1 .. Len(inbox) /\ j \in 1 .. Len(inbox)
        BY <2>3, <3>1 DEF CallInv
      <3>2. CASE i = Len(inbox) + 1 /\ j \in 1 .. Len(inbox)
        BY <2>1, <2>3, <3>2 DEF Posted
      <3>3. CASE i \in 1 .. Len(inbox) /\ j = Len(inbox) + 1
        BY <2>1, <2>3, <3>3 DEF Posted
      <3>4. CASE i = Len(inbox) + 1 /\ j = Len(inbox) + 1
        BY <3>4
      <3> QED
        BY <2>3, <3>1, <3>2, <3>3, <3>4
    <2> QED
      BY <2>1, <2>2, <2>3, <2>4 DEF CallInv, Awaits
  <1>9. CASE Bridge
    <2>1. UNCHANGED <<flow, inbox>>
      BY <1>9 DEF Bridge, app
    <2>2. CASE \E c \in Callers : CallStep(c)
      <3> PICK c \in Callers : CallStep(c)
        BY <2>2
      <3>1. Busy(c) /\ \A d \in Callers : d # c => call'[d] = call[d]
        BY <1>0, CallFrame DEF CallAction
      <3> QED
        BY <2>1, <3>1, CallGoesOn
    <2>3. CASE \E t \in Tasks : TaskStep(t)
      <3>1. UNCHANGED call
        BY <1>0, <2>3, TaskEffect DEF TaskAction
      <3> QED
        BY <2>1, <3>1, CallsStay DEF Awaits
    <2> QED
      BY <1>9, <2>2, <2>3 DEF Bridge
  <1>10. CASE ProcessDies
    <2>1. inbox' = <<>> /\ \A c \in Callers : call'[c].pc = "fresh"
      BY <1>10 DEF ProcessDies
    <2> QED
      BY <2>1 DEF CallInv, Posted, Returned
  <1> QED
    BY <1>1, <1>2, <1>3, <1>4, <1>5, <1>6, <1>7, <1>8, <1>9, <1>10, AppCases

--------------------------------------------------------------------------------
(* Connecting and disconnecting, while nothing overlaps and nobody kills.  *)

Before ==
  /\ AppTypeOK /\ BridgeInv /\ CallInv
  /\ Followed /\ ConnectInv /\ StartInv /\ OffInv

LEMMA BeforeGives ==
  ASSUME Before
  PROVE  /\ TypeOK /\ AppTypes /\ Calm0 /\ Unhurried
         /\ inbox \in Seq(Messages) /\ flow \in FlowRecord
         /\ Callers = {"connect", "disconnect"}
  BY AppTypeParts, AppAssumption DEF Before, AppTypes, Followed, BridgeInv, CalmInv, Calm0

\* A kill and an overlap are not forgotten.
LEMMA FollowedStays ==
  ASSUME AppTypeOK, BridgeInv, [AppNext]_appVars, Followed'
  PROVE  Followed /\ ~ProcessDies
  <1>1. TypeOK /\ count \in TallyRecord
    BY AppTypeParts DEF AppTypes
  <1>2. count'.kills = count.kills \/ count'.kills = count.kills + 1
    <2> USE <1>1 DEF TallyRecord
    <2>1. CASE TapConnect \/ TapDisconnect
      BY <2>1 DEF TapConnect, TapDisconnect, Tap
    <2>2. CASE \/ Prepare \/ CallStart \/ StartReturns \/ StartVpn \/ CallUndo \/ UndoReturns
               \/ StopVpn \/ CallStop \/ StopReturns \/ PollReads \/ PollPosts \/ PollReturns
      BY <2>2 DEF Prepare, CallStart, StartReturns, StartVpn, CallUndo, UndoReturns, StopVpn, CallStop,
                  StopReturns, PollReads, PollPosts, PollReturns
    <2>3. CASE \/ ServiceStarts \/ ServiceStops \/ (\E c \in Callers : Post(c)) \/ Bridge
               \/ BridgeFails \/ UNCHANGED appVars
      BY <2>3 DEF ServiceStarts, ServiceStops, Post, Bridge, BridgeFails, app, appVars
    <2>4. CASE StoppedOutside \/ ProcessDies
      BY <2>4 DEF StoppedOutside, ProcessDies
    <2> QED
      BY <2>1, <2>2, <2>3, <2>4, AppCases
  <1>3. count.kills \in Nat
    BY <1>1, AppAssumption DEF TallyRecord
  <1>4. count.kills = 0 /\ count'.kills = 0
    BY <1>2, <1>3 DEF Followed
  <1>5. ~ProcessDies
    <2> SUFFICES ASSUME ProcessDies PROVE FALSE
      OBVIOUS
    <2>1. count' = [count EXCEPT !.kills = @ + 1]
      BY DEF ProcessDies
    <2>2. count'.kills = count.kills + 1
      BY <1>1, <2>1 DEF TallyRecord
    <2> QED
      BY <1>4, <2>2
  <1>6. ~overlap
    BY <1>1, <1>5, StepOfBridge, OverlapStays DEF Followed
  <1> QED
    BY <1>4, <1>5, <1>6 DEF Followed

LEMMA AskedLess ==
  ASSUME UNCHANGED poll, \A x : Posted(x)' => Posted(x) \/ x \in Callers, Asked'
  PROVE  Asked
  <1>1. (Asked <=> poll # "none" \/ \E x : Posted(x) /\ x \notin Callers)'
    BY AskedPosted, PTL
  <1> QED
    BY <1>1, AskedPosted

\* While connect() is under way nobody polls and nobody disconnects.
LEMMA ConnectStep ==
  ASSUME Before, AppNext, ~ProcessDies
  PROVE  ConnectInv'
  <1>0. /\ ConnectInv /\ Unhurried /\ inbox \in Seq(Messages) /\ flow \in FlowRecord
        /\ Callers = {"connect", "disconnect"} /\ TypeOK
    BY BeforeGives DEF Before
  <1>1. CASE TapConnect \/ TapDisconnect \/ Prepare \/ StartVpn
    <2>1. UNCHANGED <<poll, inbox>>
      BY <1>1 DEF TapConnect, TapDisconnect, Prepare, StartVpn
    <2>2. Asked' <=> Asked
      BY <2>1 DEF Asked
    <2> QED
      BY <1>0, <1>1, <2>2 DEF ConnectInv, TapConnect, TapDisconnect, Prepare, Consent,
                              ConnectThrows, StartVpn, FlowRecord
  <1>2. CASE CallStart \/ CallUndo \/ CallStop \/ StopVpn
    <2>1. UNCHANGED <<poll, inbox, ui, poller>>
      BY <1>2 DEF CallStart, CallUndo, CallStop, StopVpn
    <2>2. Asked' <=> Asked
      BY <2>1 DEF Asked
    <2> QED
      BY <1>0, <1>2, <2>1, <2>2 DEF ConnectInv, CallStart, CallUndo, CallStop, StopVpn, FlowRecord
  <1>3. CASE StartReturns \/ UndoReturns \/ StopReturns
    <2>1. Asked' => Asked
      BY <1>0, <1>3, DeliverEffect, AskedLess DEF StartReturns, UndoReturns, StopReturns
    <2> QED
      BY <1>0, <1>3, <2>1 DEF ConnectInv, StartReturns, ConnectThrows, UndoReturns, StopReturns,
                              FlowRecord
  <1>4. CASE PollReads
    BY <1>0, <1>4 DEF ConnectInv, PollReads
  <1>5. CASE PollPosts
    <2>1. Asked
      BY <1>5 DEF PollPosts, Asked
    <2> QED
      BY <1>0, <1>5, <2>1 DEF ConnectInv, PollPosts
  <1>6. CASE PollReturns
    <2>1. PICK code \in Codes :
            /\ Delivered(code) /\ ui' = Shown(code)
            /\ poller' = (poller /\ code \notin {"stopped", "error"})
      BY <1>6 DEF PollReturns, Codes
    <2>2. Asked
      BY <1>0, <2>1, DeliverEffect, AskedPosted DEF Codes
    <2>3. flow'.connect = "idle"
      BY <1>0, <1>6, <2>2 DEF ConnectInv, PollReturns
    <2>4. ui' \in {"disconnected", "error"} => ~poller'
      BY <2>1 DEF Shown, Codes
    <2> QED
      BY <2>3, <2>4 DEF ConnectInv
  <1>7. CASE \E c \in Callers : Post(c)
    <2> PICK c \in Callers : Post(c)
      BY <1>7
    <2>1. c \in Messages /\ inbox' = Append(inbox, c) /\ UNCHANGED <<ui, poller, flow, poll>>
      BY <1>0 DEF Post, Messages
    <2>2. Asked' => Asked
      BY <1>0, <2>1, PostEffect, AskedLess
    <2> QED
      BY <1>0, <2>1, <2>2 DEF ConnectInv
  <1>8. CASE ServiceStarts \/ ServiceStops \/ Bridge \/ BridgeFails \/ StoppedOutside
    <2>1. UNCHANGED <<poll, inbox, ui, poller, flow>>
      BY <1>8 DEF ServiceStarts, ServiceStops, Bridge, BridgeFails, StoppedOutside, app
    <2> QED
      BY <1>0, <2>1 DEF ConnectInv, Asked
  <1> QED
    BY <1>1, <1>2, <1>3, <1>4, <1>5, <1>6, <1>7, <1>8, AppCases

\* What a step of a bridge call does to its place and to the status, while nothing
\* overlaps.
LEMMA CallMoves ==
  ASSUME Calm0, NEW c \in Callers, CallStep(c), ~overlap'
  PROVE  \/ At(c, "claim") /\ call'[c].pc = "spawn" /\ status' = "connecting"
         \/ /\ call[c].pc \in {"spawn", "keep", "wait"}
            /\ call'[c].pc \in {"keep", "wait", "report", "panicked"}
            /\ status' = status
         \/ At(c, "report") /\ call'[c].pc = "up" /\ status' = "connected"
         \/ At(c, "lower") /\ call'[c].pc = "settle" /\ status' = status
         \/ At(c, "settle") /\ call'[c].pc = "down" /\ status' = "stopped"
  <1>0. /\ ~StartTimesOut(c) /\ ~StartFails(c) /\ ~At(c, "take") /\ ~call[c].undo /\ TypeOK
    BY CallAlone DEF CallAction, Calm0, OneCall, In, At
  <1>1. CASE StartClaim(c)
    BY <1>0, <1>1, GotoEffect DEF StartClaim
  <1>2. CASE StartSpawn(c)
    BY <1>0, <1>2, SpawnEffect DEF At, static
  <1>3. CASE StartPanics(c) \/ StartKeep(c) \/ StartBound(c)
    BY <1>0, <1>3, GotoEffect DEF StartPanics, StartKeep, StartBound, At, static
  <1>4. CASE StartReport(c)
    BY <1>0, <1>4, GotoEffect DEF StartReport
  <1>5. CASE StopLower(c)
    BY <1>0, <1>5, GotoEffect DEF StopLower
  <1>6. CASE StopSettle(c)
    <2>1. Goto(c, "down") /\ At(c, "settle") /\ status' = "stopped"
      BY <1>0, <1>6 DEF StopSettle
    <2> QED
      BY <1>0, <2>1, GotoEffect
  <1> QED
    BY <1>0, <1>1, <1>2, <1>3, <1>4, <1>5, <1>6 DEF CallStep, StartStep, StopStep

\* start_reliz_proxy returns at once only when the proxy is up.
LEMMA NoopIsConnected ==
  ASSUME Calm0, NEW c \in Callers, StartCheck(c), ~overlap'
  PROVE  /\ call'[c].pc \in {"noop", "claim"} /\ status' = status
         /\ call'[c].pc = "noop" => status = "connected"
  <1>1. /\ call'[c].pc = IF running THEN "noop" ELSE "claim"
        /\ status' = status
    BY GotoEffect DEF StartCheck, static, Calm0
  <1>2. Quiet
    BY CallAlone DEF CallAction
  <1>3. running => status = "connected"
    <2> SUFFICES ASSUME running PROVE status = "connected"
      OBVIOUS
    <2>1. PICK t \in Tasks : Begun(t)
      BY <1>2 DEF Calm0, RunningInv, Quiet, At, Returned
    <2> QED
      BY <1>2, <2>1, CalmQuiet DEF Live, Dead, Begun
  <1> QED
    BY <1>1, <1>3

\* The status of a task is never Stopped.
LEMMA TaskStatus ==
  ASSUME TypeOK, NEW t \in Tasks, TaskAction(t)
  PROVE  status' = "stopped" => status = "stopped"
  BY TaskEffect

LEMMA StartInvStep ==
  ASSUME Before, AppNext, ~ProcessDies, ~overlap'
  PROVE  StartInv'
  <1>0. /\ ConnectInv /\ StartInv /\ flow \in FlowRecord /\ Calm0 /\ TypeOK
        /\ Callers = {"connect", "disconnect"} /\ CallInv
    BY BeforeGives DEF Before
  <1>1. CASE TapConnect \/ TapDisconnect \/ Prepare \/ StartVpn \/ StopVpn
    <2>1. /\ UNCHANGED <<call, status>>
          /\ flow'.connect \in {flow.connect, "prepare", "start", "idle", "undo", "thrown"}
      BY <1>0, <1>1 DEF TapConnect, TapDisconnect, Prepare, Consent, ConnectThrows, StartVpn, StopVpn,
                        FlowRecord, vars
    <2> QED
      BY <1>0, <2>1 DEF StartInv
  <1>2. CASE StartReturns
    <2>1. /\ UNCHANGED <<call, status>>
          /\ flow'.connect \in {"startvpn", "idle", "thrown"} /\ flow.connect = "starting"
      BY <1>0, <1>2 DEF StartReturns, ConnectThrows, FlowRecord, vars
    <2> QED
      BY <1>0, <2>1 DEF StartInv
  <1>3. CASE UndoReturns \/ StopReturns
    <2>1. UNCHANGED <<call, status>> /\ flow'.connect \in {flow.connect, "idle"}
      BY <1>0, <1>3 DEF UndoReturns, StopReturns, FlowRecord, vars
    <2> QED
      BY <1>0, <2>1 DEF StartInv
  <1>4. CASE \/ PollReads \/ PollPosts \/ PollReturns \/ ServiceStarts \/ ServiceStops
             \/ (\E c \in Callers : Post(c)) \/ StoppedOutside
    <2>1. UNCHANGED <<call, status, flow>>
      BY <1>4 DEF PollReads, PollPosts, PollReturns, ServiceStarts, ServiceStops, Post, StoppedOutside,
                  vars
    <2> QED
      BY <1>0, <2>1 DEF StartInv
  <1>5. CASE CallStart
    <2>1. StartCheck("connect") /\ flow'.connect = "starting"
      BY <1>0, <1>5 DEF CallStart, FlowRecord
    <2>2. call'["disconnect"] = call["disconnect"]
      BY <1>0, <2>1, CallFrame DEF CallAction
    <2>3. /\ call'["connect"].pc \in {"noop", "claim"}
          /\ call'["connect"].pc = "noop" => status' = "connected"
      BY <1>0, <2>1, NoopIsConnected
    <2> QED
      BY <1>0, <2>1, <2>2, <2>3 DEF StartInv
  <1>6. CASE CallUndo
    <2>1. StopTake("connect") /\ flow'.connect = "undoing"
      BY <1>0, <1>6 DEF CallUndo, FlowRecord
    <2>2. call'["disconnect"] = call["disconnect"]
      BY <1>0, <2>1, CallFrame DEF CallAction
    <2> QED
      BY <1>0, <2>1, <2>2 DEF StartInv
  <1>7. CASE CallStop
    <2>1. StopTake("disconnect") /\ flow'.connect = "idle"
      BY <1>0, <1>7 DEF CallStop, FlowRecord, ConnectInv
    <2>2. call'["disconnect"].pc = "lower"
      BY <1>0, <2>1, GotoEffect DEF StopTake
    <2> QED
      BY <2>1, <2>2 DEF StartInv
  <1>8. CASE Bridge \/ BridgeFails
    <2>0. UNCHANGED flow
      BY <1>8 DEF Bridge, BridgeFails, app
    <2>1. CASE CallStep("connect")
      <3>1. call'["disconnect"] = call["disconnect"]
        BY <1>0, <2>1, CallFrame DEF CallAction
      <3>2. Awaits("connect")
        BY <1>0, <2>1, CallFrame DEF CallAction, CallInv, Busy
      <3> QED
        BY <1>0, <2>0, <2>1, <3>1, <3>2, CallMoves DEF StartInv, At, Awaits
    <2>2. CASE CallStep("disconnect")
      <3>1. call'["connect"] = call["connect"]
        BY <1>0, <2>2, CallFrame DEF CallAction
      <3>2. Awaits("disconnect")
        BY <1>0, <2>2, CallFrame DEF CallAction, CallInv, Busy
      <3>3. flow.connect = "idle"
        BY <1>0, <3>2 DEF ConnectInv, Awaits
      <3> QED
        BY <1>0, <2>0, <2>2, <3>1, <3>3, CallMoves DEF StartInv, At
    <2>3. CASE \E t \in Tasks : TaskAction(t)
      BY <1>0, <2>0, <2>3, TaskEffect, TaskStatus DEF StartInv
    <2> QED
      BY <1>0, <1>8, <2>1, <2>2, <2>3 DEF Bridge, BridgeFails, TaskAction
  <1> QED
    BY <1>1, <1>2, <1>3, <1>4, <1>5, <1>6, <1>7, <1>8, AppCases

\* Disconnected is shown or about to be.
Showing ==
  \/ flow.disconnect = "stopping" \/ ui = "disconnected"
  \/ poll = "stopped" \/ Posted("stopped") \/ (poller /\ status = "stopped")

LEMMA OffParts == OffInv <=> (flow.disconnect = "stop" => VpnGoes) /\ (Showing => TasksGo /\ VpnGoes)
  BY DEF OffInv, Showing

\* connect() has the poller stopped and the button disabled.
LEMMA ConnectHides ==
  ASSUME Before, flow.connect # "idle"
  PROVE  ~Showing /\ flow.disconnect = "idle"
  <1>1. ui = "connecting" /\ ~poller /\ ~Asked /\ flow.disconnect = "idle"
    BY DEF Before, ConnectInv
  <1>2. "stopped" \notin Callers
    BY BeforeGives
  <1> QED
    BY <1>1, <1>2, AskedPosted DEF Showing

\* Only a start brings a task up.
LEMMA TasksGoOn ==
  ASSUME TypeOK, NEW c \in Callers, CallAction(c), ~StartSpawn(c), TasksGo
  PROVE  TasksGo'
  <1>1. UNCHANGED task /\ aborted \subseteq aborted'
    BY CallCases DEF StartCheck, StartClaim, StartPanics, StartKeep, StartBound, StartTimesOut,
                     StartReport, StartFails, StopTake, StopLower, StopSettle
  <1> QED
    BY <1>1 DEF TasksGo, Live

\* An intent to disconnect is the last of those on their way, until it is delivered.
LEMMA VpnGoesOn ==
  ASSUME AppTypes, VpnGoes, ServiceStarts \/ ServiceStops \/ StoppedOutside
  PROVE  VpnGoes'
  <1>1. CASE StoppedOutside
    BY <1>1 DEF StoppedOutside, VpnGoes
  <1>2. CASE ServiceStarts \/ ServiceStops
    <2>1. /\ intents \in Seq({"connect", "disconnect"}) /\ intents # <<>> /\ intents' = Tail(intents)
          /\ Head(intents) = "disconnect" => vpn' = FALSE
      BY <1>2 DEF AppTypes, ServiceStarts, ServiceStops
    <2>2. /\ intents' \in Seq({"connect", "disconnect"}) /\ Len(intents') = Len(intents) - 1
          /\ Len(intents) \in Nat \ {0} /\ Head(intents) = intents[1]
          /\ \A i \in 1 .. Len(intents) - 1 : intents'[i] = intents[i + 1]
      BY <2>1, TailEffect
    <2>3. intents[Len(intents)] = "disconnect"
      BY <2>1 DEF VpnGoes
    <2>4. CASE intents' = <<>>
      <3>1. Len(intents') = 0
        BY <2>4
      <3>2. Len(intents) = 1
        BY <2>2, <3>1
      <3> QED
        BY <2>1, <2>2, <2>3, <2>4, <3>2 DEF VpnGoes
    <2>5. CASE intents' # <<>>
      <3>1. Len(intents') # 0
        BY <2>2, <2>5
      <3>2. /\ Len(intents') \in 1 .. Len(intents) - 1
            /\ Len(intents') + 1 = Len(intents)
        BY <2>2, <3>1
      <3>3. intents'[Len(intents')] = intents[Len(intents)]
        BY <2>2, <3>2
      <3> QED
        BY <2>3, <2>5, <3>3 DEF VpnGoes
    <2> QED
      BY <2>4, <2>5
  <1> QED
    BY <1>1, <1>2

LEMMA OffStep ==
  ASSUME Before, AppNext, ~ProcessDies, ~overlap'
  PROVE  OffInv'
  <1>0. /\ ConnectInv /\ StartInv /\ OffInv /\ CallInv /\ Calm0 /\ TypeOK /\ AppTypes
        /\ flow \in FlowRecord /\ inbox \in Seq(Messages)
        /\ Callers = {"connect", "disconnect"}
    BY BeforeGives DEF Before
  <1>00. /\ flow.disconnect = "stop" => VpnGoes
         /\ Showing => TasksGo /\ VpnGoes
    BY <1>0, OffParts
  <1> SUFFICES (flow'.disconnect = "stop" => VpnGoes') /\ (Showing' => TasksGo' /\ VpnGoes')
    <2>1. (OffInv <=> (flow.disconnect = "stop" => VpnGoes) /\ (Showing => TasksGo /\ VpnGoes))'
      BY OffParts, PTL
    <2> QED
      BY <2>1
  <1>1. CASE TapConnect \/ TapDisconnect \/ Prepare
    <2>1. /\ UNCHANGED <<task, aborted, intents, vpn, poll, inbox, poller, status>>
          /\ flow'.disconnect \in {flow.disconnect, "stopvpn"}
          /\ ui' = "disconnected" => ui = "disconnected"
      BY <1>0, <1>1 DEF TapConnect, TapDisconnect, Prepare, Consent, ConnectThrows, FlowRecord,
                        vars, static
    <2>2. /\ Showing' => Showing
          /\ TasksGo' <=> TasksGo
          /\ VpnGoes' <=> VpnGoes
      BY <2>1 DEF Showing, Posted, TasksGo, Live, VpnGoes
    <2> QED
      BY <1>00, <2>1, <2>2
  <1>2. CASE CallStart \/ CallUndo
    <2>1. /\ UNCHANGED <<poll, inbox, poller, status, ui, intents, vpn>>
          /\ flow'.disconnect = flow.disconnect /\ flow.connect # "idle"
      BY <1>0, <1>2 DEF CallStart, CallUndo, StartCheck, StopTake, static, FlowRecord
    <2>2. ~Showing' /\ flow'.disconnect # "stop"
      BY <2>1, ConnectHides DEF Showing, Posted
    <2> QED
      BY <2>2
  <1>3. CASE StartReturns \/ UndoReturns
    <2>1. /\ UNCHANGED <<poll, poller, status>> /\ ui' \in {ui, "error"} /\ Delivered("connect")
          /\ flow'.disconnect = flow.disconnect /\ flow.connect # "idle"
      BY <1>0, <1>3 DEF StartReturns, ConnectThrows, UndoReturns, vars, static, FlowRecord
    <2>2. Posted("stopped")' => Posted("stopped")
      BY <1>0, <2>1, DeliverEffect
    <2>3. ~Showing' /\ flow'.disconnect # "stop"
      BY <2>1, <2>2, ConnectHides DEF Showing
    <2> QED
      BY <2>3
  <1>4. CASE StartVpn
    <2>1. /\ UNCHANGED <<poll, inbox, status, ui>>
          /\ flow'.disconnect = flow.disconnect /\ flow.connect = "startvpn"
      BY <1>0, <1>4 DEF StartVpn, vars, static, FlowRecord
    <2>2. status # "stopped"
      <3>1. call["connect"].pc # "claim"
        BY <1>0, <2>1 DEF CallInv, Awaits, Returned
      <3> QED
        BY <1>0, <2>1, <3>1 DEF StartInv
    <2>3. ~Showing' /\ flow'.disconnect # "stop"
      BY <2>1, <2>2, ConnectHides DEF Showing, Posted
    <2> QED
      BY <2>3
  <1>5. CASE StopVpn
    <2>1. VpnGoes'
      <3>1. intents' = Append(intents, "disconnect") /\ intents \in Seq({"connect", "disconnect"})
        BY <1>0, <1>5 DEF StopVpn, SendIntent, AppTypes
      <3>2. /\ Len(intents') = Len(intents) + 1 /\ Len(intents) \in Nat
            /\ intents'[Len(intents) + 1] = "disconnect"
        BY <3>1, AppendEffect
      <3>3. intents' # <<>>
        BY <3>2
      <3> QED
        BY <3>2, <3>3 DEF VpnGoes
    <2>2. /\ UNCHANGED <<task, aborted, poll, inbox, poller, status, ui>> /\ flow'.disconnect = "stop"
      BY <1>0, <1>5 DEF StopVpn, vars, static, FlowRecord
    <2>3. (Showing' => Showing) /\ (TasksGo => TasksGo')
      BY <2>2 DEF Showing, Posted, TasksGo, Live
    <2> QED
      BY <1>00, <2>1, <2>3
  <1>6. CASE CallStop
    <2>1. /\ StopTake("disconnect") /\ UNCHANGED <<intents, vpn>> /\ flow.disconnect = "stop"
          /\ flow'.disconnect = "stopping"
      BY <1>0, <1>6 DEF CallStop, FlowRecord
    <2>2. TasksGo'
      <3>1. Quiet
        BY <1>0, <2>1, CallAlone DEF CallAction
      <3>2. /\ UNCHANGED task /\ aborted' = aborted \cup ({handle} \ {None})
        BY <2>1 DEF StopTake
      <3>3. None \notin Tasks
        BY DEF None, Tasks
      <3> QED
        BY <1>0, <3>1, <3>2, <3>3, CalmQuiet DEF TasksGo, Live
    <2>3. VpnGoes'
      BY <1>00, <2>1 DEF VpnGoes
    <2> QED
      BY <2>1, <2>2, <2>3
  <1>7. CASE StopReturns
    <2>1. /\ UNCHANGED <<task, aborted, intents, vpn>> /\ flow.disconnect = "stopping"
          /\ flow'.disconnect = "idle"
      BY <1>0, <1>7 DEF StopReturns, vars, FlowRecord
    <2> QED
      BY <1>00, <2>1 DEF Showing, TasksGo, Live, VpnGoes
  <1>8. CASE PollReads
    <2>1. /\ UNCHANGED <<task, aborted, intents, vpn, flow, ui, inbox, poller, status>>
          /\ poller /\ poll' = status
      BY <1>8 DEF PollReads, vars, static
    <2>2. Showing' => Showing
      BY <2>1 DEF Showing, Posted
    <2> QED
      BY <1>00, <2>1, <2>2 DEF TasksGo, Live, VpnGoes
  <1>9. CASE PollPosts
    <2>1. /\ UNCHANGED <<task, aborted, intents, vpn, flow, ui, poller, status>>
          /\ inbox' = Append(inbox, poll) /\ poll \in Messages /\ poll' = "none"
      BY <1>0, <1>9 DEF PollPosts, vars, static, AppTypes, Messages
    <2>2. Posted("stopped")' => Posted("stopped") \/ poll = "stopped"
      BY <1>0, <2>1, PostEffect
    <2>3. Showing' => Showing
      BY <2>1, <2>2 DEF Showing
    <2> QED
      BY <1>00, <2>1, <2>3 DEF TasksGo, Live, VpnGoes
  <1>10. CASE PollReturns
    <2>1. PICK code \in Codes :
            /\ Delivered(code) /\ ui' = Shown(code)
            /\ poller' = (poller /\ code \notin {"stopped", "error"})
      BY <1>10 DEF PollReturns, Codes
    <2>2. UNCHANGED <<task, aborted, intents, vpn, flow, poll, status>>
      BY <1>10 DEF PollReturns, vars, static
    <2>3. Posted(code) /\ (Posted("stopped")' => Posted("stopped"))
      BY <1>0, <2>1, DeliverEffect
    <2>4. ui' = "disconnected" => code = "stopped"
      BY <2>1 DEF Shown, Codes
    <2>5. Showing' => Showing
      BY <2>1, <2>2, <2>3, <2>4 DEF Showing
    <2> QED
      BY <1>00, <2>2, <2>5 DEF TasksGo, Live, VpnGoes
  <1>11. CASE ServiceStarts \/ ServiceStops \/ StoppedOutside
    <2>1. UNCHANGED <<task, aborted, flow, ui, inbox, poll, poller, status>>
      BY <1>11 DEF ServiceStarts, ServiceStops, StoppedOutside, vars, static
    <2>2. Showing' => Showing
      BY <2>1 DEF Showing, Posted
    <2> QED
      BY <1>0, <1>00, <1>11, <2>1, <2>2, VpnGoesOn DEF TasksGo, Live
  <1>12. CASE \E c \in Callers : Post(c)
    <2> PICK c \in Callers : Post(c)
      BY <1>12
    <2>1. /\ UNCHANGED <<task, aborted, intents, vpn, flow, ui, poll, poller, status>>
          /\ inbox' = Append(inbox, c) /\ c \in Messages /\ c # "stopped"
      BY <1>0 DEF Post, vars, static, Messages
    <2>2. Posted("stopped")' => Posted("stopped")
      BY <1>0, <2>1, PostEffect
    <2>3. Showing' => Showing
      BY <2>1, <2>2 DEF Showing
    <2> QED
      BY <1>00, <2>1, <2>3 DEF TasksGo, Live, VpnGoes
  <1>13. CASE Bridge \/ BridgeFails
    <2>0. UNCHANGED <<ui, poller, flow, poll, inbox, intents, vpn>>
      BY <1>13 DEF Bridge, BridgeFails, app
    <2>1. CASE CallStep("connect")
      <3>1. flow.connect # "idle"
        BY <1>0, <2>1, CallFrame DEF CallAction, CallInv, Busy, Awaits
      <3>2. ~Showing' /\ flow'.disconnect # "stop"
        BY <2>0, <3>1, ConnectHides, <1>0 DEF Showing, Posted, ConnectInv
      <3> QED
        BY <3>2
    <2>2. CASE CallStep("disconnect")
      <3>1. flow.disconnect = "stopping" /\ Showing
        BY <1>0, <2>2, CallFrame DEF CallAction, CallInv, Busy, Awaits, Showing
      <3>2. ~StartSpawn("disconnect")
        BY <1>0 DEF StartInv, StartSpawn, At
      <3>3. TasksGo'
        BY <1>0, <1>00, <2>2, <3>1, <3>2, TasksGoOn DEF CallAction
      <3> QED
        BY <1>00, <2>0, <3>1, <3>3 DEF VpnGoes
    <2>3. CASE \E t \in Tasks : TaskAction(t)
      <3>1. /\ UNCHANGED aborted /\ \A u \in Tasks : Live(u)' => Live(u)
            /\ status' = "stopped" => status = "stopped"
        BY <1>0, <2>3, TaskEffect DEF Live
      <3>2. Showing' => Showing
        BY <2>0, <3>1 DEF Showing, Posted
      <3> QED
        BY <1>00, <2>0, <3>1, <3>2 DEF TasksGo, VpnGoes
    <2> QED
      BY <1>0, <1>13, <2>1, <2>2, <2>3 DEF Bridge, BridgeFails, TaskAction
  <1> QED
    BY <1>1, <1>2, <1>3, <1>4, <1>5, <1>6, <1>7, <1>8, <1>9, <1>10, <1>11, <1>12, <1>13, AppCases

--------------------------------------------------------------------------------
(* The theorems.                                                           *)

LEMMA AppStarts == AppInit => AppInv
  <1> SUFFICES ASSUME AppInit PROVE AppInv
    OBVIOUS
  <1>1. /\ Init /\ ui = "disconnected" /\ poller = FALSE
        /\ flow.connect = "idle" /\ flow.disconnect = "idle"
        /\ poll = "none" /\ inbox = <<>> /\ intents = <<>> /\ vpn = FALSE
    BY DEF AppInit
  <1>2. /\ \A c \in Callers : call[c].pc = "fresh"
        /\ \A t \in Tasks : task[t] = "unborn"
    BY <1>1 DEF Init
  <1>3. BridgeInv
    BY <1>1, BridgeInit
  <1>4. AppTypes
    <2>1. flow \in FlowRecord
      BY DEF AppInit, FlowRecord
    <2>2. count \in TallyRecord
      BY AppAssumption DEF AppInit, TallyRecord
    <2>3. inbox \in Seq(Messages) /\ intents \in Seq({"connect", "disconnect"})
      BY <1>1
    <2> QED
      BY <1>1, <2>1, <2>2, <2>3 DEF AppTypes
  <1>5. \A x : ~Posted(x)
    BY <1>1 DEF Posted
  <1>6. CallInv
    BY <1>1, <1>2, <1>5 DEF CallInv, Returned
  <1>7. ConnectInv
    BY <1>1 DEF ConnectInv
  <1>8. StartInv
    BY <1>1, <1>2, AppAssumption DEF StartInv
  <1>9. OffInv
    <2>1. TasksGo /\ VpnGoes
      BY <1>1, <1>2 DEF TasksGo, VpnGoes, Live, Dead
    <2> QED
      BY <2>1, OffParts
  <1> QED
    BY <1>3, <1>4, <1>6, <1>7, <1>8, <1>9, AppTypeParts DEF AppInv, BridgeInv

LEMMA AppStep == AppInv /\ [AppNext]_appVars => AppInv'
  <1> SUFFICES ASSUME AppInv, [AppNext]_appVars PROVE AppInv'
    OBVIOUS
  <1>0. AppTypeOK /\ BridgeInv /\ CallInv
    BY DEF AppInv
  <1>1. AppTypeOK' /\ BridgeInv'
    BY <1>0, AppTypeStep, BridgeInApp
  <1>2. CASE AppNext
    <2>1. CallInv'
      BY <1>0, <1>2, CallInvStep
    <2>2. ASSUME Followed'
          PROVE  ConnectInv' /\ StartInv' /\ OffInv'
      <3>1. Followed /\ ~ProcessDies
        BY <1>0, <2>2, FollowedStays
      <3>2. Before /\ ~overlap'
        BY <2>2, <3>1 DEF AppInv, Before, Followed
      <3> QED
        BY <1>2, <3>1, <3>2, ConnectStep, StartInvStep, OffStep
    <2> QED
      BY <1>1, <2>1, <2>2 DEF AppInv
  <1>3. CASE UNCHANGED appVars
    <2>1. UNCHANGED <<status, running, handle, task, aborted, port, call, overlap>>
          /\ UNCHANGED <<ui, poller, flow, poll, inbox, intents, vpn, count>>
      BY <1>3 DEF appVars, vars, app
    <2>2. CallInv'
      BY <1>0, <2>1 DEF CallInv, Posted, Awaits
    <2>3. (Followed => ConnectInv /\ StartInv /\ OffInv) => (Followed' => ConnectInv' /\ StartInv' /\ OffInv')
      BY <2>1 DEF Followed, ConnectInv, StartInv, OffInv, Posted, Asked, TasksGo, VpnGoes, Live
    <2> QED
      BY <1>1, <2>2, <2>3 DEF AppInv
  <1> QED
    BY <1>2, <1>3

\* The inductive invariant of the app: the bridge's own, that a call's result is
\* posted once to the flow that awaits it, and, while nothing overlaps and nobody
\* kills, what connect() and disconnect() have reached when.
THEOREM AppInvariance == AppSpec => []AppInv
  BY AppStarts, AppStep, PTL DEF AppSpec

\* Every variable of the app keeps its type, also across a kill of the process:
\* every code the bridge reports has a state in which the app shows it.
THEOREM AppTypeCorrect == AppSpec => []AppTypeOK
  BY AppInvariance, PTL DEF AppInv

\* The statics of the bridge are left as consistent by the calls of the app, and by
\* a kill, as by any other threads: what the bridge promises holds in the app.
THEOREM BridgeHoldsInApp ==
  AppSpec => [](ListenerIsKnown /\ RunningIsAlive /\ NoStuckConnecting)
  <1>1. BridgeInv => ListenerIsKnown /\ RunningIsAlive /\ NoStuckConnecting
    BY InvKnown, InvAlive, InvNotStuck
  <1> QED
    BY <1>1, AppInvariance, PTL DEF AppInv

\* When disconnect() is done, or the poller has shown Disconnected, the port is
\* closed and the VPN is down, provided that Connect is not tapped while a
\* disconnect() or a poll is under way: proxy_service.dart does not prevent that,
\* and the property fails when it happens.
THEOREM OffWhenDisconnected == Unhurried => (AppSpec => []DisconnectedIsOff)
  <1> SUFFICES ASSUME Unhurried PROVE AppSpec => []DisconnectedIsOff
    OBVIOUS
  <1>1. AppInv => DisconnectedIsOff
    <2> SUFFICES ASSUME AppInv, Rest, ~overlap, count.kills = 0, ui = "disconnected"
                 PROVE  port = None /\ ~vpn
      BY DEF DisconnectedIsOff
    <2>1. TasksGo /\ VpnGoes /\ TypeOK /\ PortInv
      BY OffParts DEF AppInv, Followed, Showing, BridgeInv
    <2>2. ~vpn
      BY <2>1 DEF VpnGoes, Rest
    <2>3. \A t \in Tasks : task[t] # "listening"
      BY <2>1 DEF Rest, Quiet, Settled, TasksGo, Live, Dead
    <2> QED
      BY <2>1, <2>2, <2>3 DEF PortInv, TypeOK
  <1> QED
    BY <1>1, AppInvariance, PTL
================================================================================
