--------------------------- MODULE ProxyBridgeProofs ---------------------------
(***************************************************************************)
(* Proofs about the bridge of the mobile app, for any number of threads    *)
(* that call it and any number of tasks, whether or not a bind may fail,   *)
(* a start may time out and a runtime may not be built.                    *)
(***************************************************************************)
EXTENDS ProxyBridge, TLAPS

\* The call of one thread goes on; the others stay where they are.
LEMMA GotoEffect ==
  ASSUME TypeOK, NEW c \in Callers, NEW pc, Goto(c, pc)
  PROVE  /\ call'[c].pc = pc /\ call'[c].mine = call[c].mine /\ call'[c].undo = call[c].undo
         /\ \A d \in Callers : d # c => call'[d] = call[d]
  BY DEF TypeOK, Goto

LEMMA SpawnEffect ==
  ASSUME TypeOK, NEW c \in Callers, StartSpawn(c)
  PROVE  \E t \in Tasks :
           /\ task[t] = "unborn" /\ At(c, "spawn")
           /\ task' = [task EXCEPT ![t] = "new"]
           /\ call'[c].pc = "keep" /\ call'[c].mine = t /\ call'[c].undo = call[c].undo
           /\ \A d \in Callers : d # c => call'[d] = call[d]
           /\ UNCHANGED <<static, aborted, port, overlap>>
  <1> PICK t \in Tasks :
         /\ task[t] = "unborn"
         /\ task' = [task EXCEPT ![t] = "new"]
         /\ call' = [call EXCEPT ![c].pc = "keep", ![c].mine = t]
    BY DEF StartSpawn
  <1>1. /\ call'[c].pc = "keep" /\ call'[c].mine = t /\ call'[c].undo = call[c].undo
        /\ \A d \in Callers : d # c => call'[d] = call[d]
    BY DEF TypeOK
  <1> QED
    BY <1>1 DEF StartSpawn

LEMMA TimeOutEffect ==
  ASSUME TypeOK, NEW c \in Callers, StartTimesOut(c)
  PROVE  /\ call'[c].pc = "take" /\ call'[c].mine = call[c].mine /\ call'[c].undo
         /\ \A d \in Callers : d # c => call'[d] = call[d]
  BY DEF TypeOK, StartTimesOut

LEMMA FailEffect ==
  ASSUME TypeOK, NEW c \in Callers, StartFails(c)
  PROVE  /\ call'[c].pc = "failed" /\ call'[c].mine = call[c].mine /\ ~call'[c].undo
         /\ \A d \in Callers : d # c => call'[d] = call[d]
  BY DEF TypeOK, StartFails

\* The steps of a call: those that begin one and those that go on with one.
CallAction(c) == StartCheck(c) \/ StopTake(c) \/ CallStep(c)
TaskAction(t) == TaskStep(t) \/ TaskAcceptFails(t)

LEMMA NextCases ==
  ASSUME Next
  PROVE  (\E c \in Callers : CallAction(c)) \/ \E t \in Tasks : TaskAction(t)
  BY DEF Next, CallAction, TaskAction

LEMMA CallCases ==
  ASSUME NEW c \in Callers, CallAction(c)
  PROVE  \/ StartCheck(c) \/ StartClaim(c) \/ StartPanics(c) \/ StartSpawn(c)
         \/ StartKeep(c) \/ StartBound(c) \/ StartTimesOut(c) \/ StartReport(c) \/ StartFails(c)
         \/ StopTake(c) \/ StopLower(c) \/ StopSettle(c)
  BY DEF CallAction, CallStep, StartStep, StopStep

LEMMA TaskCases ==
  ASSUME NEW t \in Tasks, TaskAction(t)
  PROVE  \/ TaskPolled(t) \/ TaskBegins(t) \/ TaskBinds(t) \/ TaskBindFails(t)
         \/ TaskAcceptFails(t) \/ TaskReports(t) \/ TaskEnds(t) \/ TaskDrops(t)
  BY DEF TaskAction, TaskStep

--------------------------------------------------------------------------------
(* Types.                                                                  *)

CallRecord ==
  [pc : Returned \cup {"claim", "spawn", "keep", "wait", "report", "take",
                       "lower", "settle", "undone"},
   mine : Tasks \cup {None}, undo : BOOLEAN]

LEMMA CallType ==
  ASSUME TypeOK, NEW c \in Callers, CallAction(c)
  PROVE  call' \in [Callers -> CallRecord]
  <1> USE DEF TypeOK, Returned, CallRecord
  <1>1. CASE StartCheck(c)
    BY <1>1 DEF StartCheck, Goto
  <1>2. CASE \/ StartClaim(c) \/ StartPanics(c) \/ StartKeep(c) \/ StartBound(c)
             \/ StartReport(c)
    BY <1>2 DEF StartClaim, StartPanics, StartKeep, StartBound, StartReport, Goto
  <1>3. CASE StartSpawn(c)
    <2> PICK t \in Tasks : call' = [call EXCEPT ![c].pc = "keep", ![c].mine = t]
      BY <1>3 DEF StartSpawn
    <2> QED
      OBVIOUS
  <1>4. CASE StartTimesOut(c) \/ StartFails(c)
    BY <1>4 DEF StartTimesOut, StartFails
  <1>5. CASE StopTake(c) \/ StopLower(c) \/ StopSettle(c)
    BY <1>5 DEF StopTake, StopLower, StopSettle, Goto
  <1> QED
    BY <1>1, <1>2, <1>3, <1>4, <1>5, CallCases

LEMMA TypeCall ==
  ASSUME TypeOK, NEW c \in Callers, CallAction(c)
  PROVE  TypeOK'
  <1>0. call' \in [Callers -> CallRecord]
    BY CallType
  <1> USE DEF TypeOK, CallRecord, static, MayCall
  <1>1. CASE \/ StartCheck(c) \/ StartClaim(c) \/ StartPanics(c) \/ StartBound(c)
             \/ StartReport(c) \/ StartFails(c)
    BY <1>0, <1>1 DEF StartCheck, StartClaim, StartPanics, StartBound, StartReport, StartFails,
                      Quiet
  <1>2. CASE StartSpawn(c)
    <2>1. task' \in [Tasks -> Dead \cup {"new", "polled", "started", "listening", "failing", "erred"}]
      BY <1>2 DEF StartSpawn
    <2> QED
      BY <1>0, <1>2, <2>1 DEF StartSpawn
  <1>3. CASE StartKeep(c) \/ StartTimesOut(c)
    BY <1>0, <1>3 DEF StartKeep, StartTimesOut
  <1>4. CASE StopTake(c)
    <2>1. aborted' \subseteq Tasks /\ overlap' \in BOOLEAN
      BY <1>4 DEF StopTake, Quiet
    <2> QED
      BY <1>0, <1>4, <2>1 DEF StopTake
  <1>5. CASE StopLower(c) \/ StopSettle(c)
    BY <1>0, <1>5 DEF StopLower, StopSettle
  <1> QED
    BY <1>1, <1>2, <1>3, <1>4, <1>5, CallCases

LEMMA TypeTask ==
  ASSUME TypeOK, NEW t \in Tasks, TaskAction(t)
  PROVE  TypeOK'
  <1> USE DEF TypeOK, static
  <1>1. task' \in [Tasks -> Dead \cup {"new", "polled", "started", "listening", "failing", "erred"}]
    BY TaskCases DEF TaskPolled, TaskBegins, TaskBinds, TaskBindFails, TaskAcceptFails, TaskReports,
                     TaskEnds, TaskDrops, Dead
  <1>2. UNCHANGED <<handle, aborted, call, overlap>>
    BY TaskCases DEF TaskPolled, TaskBegins, TaskBinds, TaskBindFails, TaskAcceptFails, TaskReports,
                     TaskEnds, TaskDrops
  <1>3. /\ status' \in {status, "error"} /\ running' \in {running, TRUE, FALSE}
        /\ port' \in {port, None, t}
    BY TaskCases DEF TaskPolled, TaskBegins, TaskBinds, TaskBindFails, TaskAcceptFails, TaskReports,
                     TaskEnds, TaskDrops
  <1> QED
    BY <1>1, <1>2, <1>3

LEMMA TypeInit == Init => TypeOK
  <1> SUFFICES ASSUME Init PROVE TypeOK
    OBVIOUS
  <1>1. /\ status = "stopped" /\ running = FALSE /\ handle = None /\ port = None
        /\ aborted = {} /\ overlap = FALSE
    BY DEF Init
  <1>2. task \in [Tasks -> Dead \cup {"new", "polled", "started", "listening", "failing", "erred"}]
    BY DEF Init, Dead
  <1>3. call \in [Callers -> CallRecord]
    BY DEF Init, CallRecord, Returned
  <1> QED
    BY <1>1, <1>2, <1>3 DEF TypeOK, CallRecord

LEMMA TypeStep == TypeOK /\ [Next]_vars => TypeOK'
  BY TypeCall, TypeTask, NextCases DEF vars, static, TypeOK

\* Every variable of the bridge keeps its type, whatever calls and tasks overlap.
THEOREM BridgeTypeCorrect == Spec => []TypeOK
  BY TypeInit, TypeStep, PTL DEF Spec

--------------------------------------------------------------------------------
(* What holds whatever overlaps.                                           *)

LEMMA PortStep ==
  ASSUME TypeOK, PortInv, [Next]_vars
  PROVE  PortInv'
  <1> USE DEF TypeOK, PortInv
  <1>1. CASE \E c \in Callers : CallAction(c)
    <2> PICK c \in Callers : CallAction(c)
      BY <1>1
    <2>1. port' = port
      BY CallCases DEF StartCheck, StartClaim, StartPanics, StartSpawn, StartKeep, StartBound, StartTimesOut,
         StartReport, StartFails, StopTake, StopLower, StopSettle
    <2>2. \A t \in Tasks : task'[t] = "listening" <=> task[t] = "listening"
      BY CallCases DEF StartCheck, StartClaim, StartPanics, StartSpawn, StartKeep, StartBound, StartTimesOut,
         StartReport, StartFails, StopTake, StopLower, StopSettle
    <2> QED
      BY <2>1, <2>2
  <1>2. CASE \E t \in Tasks : TaskAction(t)
    <2> PICK t \in Tasks : TaskAction(t)
      BY <1>2
    <2>0. None \notin Tasks
      BY DEF None, Tasks
    <2>1. CASE TaskPolled(t) \/ TaskBegins(t) \/ TaskBindFails(t) \/ TaskReports(t) \/ TaskEnds(t)
      BY <2>1 DEF TaskPolled, TaskBegins, TaskBindFails, TaskReports, TaskEnds, static
    <2>2. CASE TaskBinds(t) \/ TaskAcceptFails(t) \/ TaskDrops(t)
      BY <2>0, <2>2 DEF TaskBinds, TaskAcceptFails, TaskDrops
    <2> QED
      BY <2>1, <2>2, TaskCases
  <1>3. CASE UNCHANGED vars
    BY <1>3 DEF vars
  <1> QED
    BY <1>1, <1>2, <1>3, NextCases

LEMMA BornStep ==
  ASSUME TypeOK, BornInv, [Next]_vars
  PROVE  BornInv'
  <1> USE DEF BornInv, In
  <1>0. None \notin Tasks
    BY DEF None, Tasks
  <1>1. CASE \E c \in Callers : CallAction(c)
    <2> PICK c \in Callers : CallAction(c)
      BY <1>1
    <2>1. CASE StartSpawn(c)
      <3> PICK t \in Tasks :
           /\ task[t] = "unborn" /\ At(c, "spawn")
           /\ task' = [task EXCEPT ![t] = "new"]
           /\ call'[c].pc = "keep" /\ call'[c].mine = t /\ call'[c].undo = call[c].undo
           /\ \A d \in Callers : d # c => call'[d] = call[d]
           /\ UNCHANGED <<static, aborted, port, overlap>>
        BY <2>1, SpawnEffect
      <3>1. \A u \in Tasks : task'[u] = "unborn" => u # t /\ task[u] = "unborn"
        BY DEF TypeOK
      <3>2. UNCHANGED <<handle, aborted>> /\ call'[c].mine = t /\ call'[c].pc = "keep"
        BY DEF static
      <3> QED
        BY <3>1, <3>2
    <2>2. CASE StartKeep(c)
      <3>1. /\ handle' = call[c].mine /\ UNCHANGED <<task, aborted>> /\ Goto(c, "wait") /\ At(c, "keep")
        BY <2>2 DEF StartKeep
      <3>2. /\ call'[c].pc = "wait" /\ call'[c].mine = call[c].mine
            /\ \A d \in Callers : d # c => call'[d] = call[d]
        BY <3>1, GotoEffect
      <3> QED
        BY <3>1, <3>2 DEF At
    <2>3. ASSUME NEW pc, Goto(c, pc), UNCHANGED task,
                 pc \in {"keep", "wait", "report"} => call[c].pc \in {"keep", "wait", "report"},
                 handle' \in {handle, None}, aborted' \subseteq aborted \cup ({handle} \ {None})
          PROVE  BornInv'
      <3>1. /\ call'[c].pc = pc /\ call'[c].mine = call[c].mine /\ call'[c].undo = call[c].undo
            /\ \A d \in Callers : d # c => call'[d] = call[d]
        BY <2>3, GotoEffect
      <3> QED
        BY <1>0, <2>3, <3>1
    <2>4. CASE StartTimesOut(c) \/ StartFails(c)
      <3>1. /\ call'[c].mine = call[c].mine /\ call'[c].pc \notin {"keep", "wait", "report"}
            /\ \A d \in Callers : d # c => call'[d] = call[d]
        <4>1. CASE StartTimesOut(c)
          BY <4>1, TimeOutEffect
        <4>2. CASE StartFails(c)
          BY <4>2, FailEffect
        <4> QED
          BY <2>4, <4>1, <4>2
      <3>2. UNCHANGED <<handle, aborted, task>>
        BY <2>4 DEF StartTimesOut, StartFails, static
      <3> QED
        BY <3>1, <3>2
    <2>5. CASE StopTake(c)
      BY <2>3, <2>5 DEF StopTake
    <2>6. CASE StartCheck(c)
      BY <2>3, <2>6 DEF StartCheck, static
    <2>7. CASE \/ StartClaim(c) \/ StartPanics(c) \/ StartBound(c) \/ StartReport(c)
               \/ StopLower(c)
      BY <2>3, <2>7 DEF StartClaim, StartPanics, StartBound, StartReport, StopLower, static, At
    <2>8. CASE StopSettle(c)
      BY <2>3, <2>8 DEF StopSettle
    <2> QED
      BY <2>1, <2>2, <2>4, <2>5, <2>6, <2>7, <2>8, CallCases
  <1>2. CASE \E t \in Tasks : TaskAction(t)
    <2> PICK t \in Tasks : TaskAction(t)
      BY <1>2
    <2>1. UNCHANGED <<handle, aborted, call>>
      BY TaskCases DEF TaskPolled, TaskBegins, TaskBinds, TaskBindFails, TaskAcceptFails, TaskReports,
                       TaskEnds, TaskDrops, static
    <2>2. \A u \in Tasks : task'[u] = "unborn" => task[u] = "unborn"
      BY TaskCases DEF TaskPolled, TaskBegins, TaskBinds, TaskBindFails, TaskAcceptFails, TaskReports,
                       TaskEnds, TaskDrops, TypeOK
    <2> QED
      BY <2>1, <2>2
  <1>3. CASE UNCHANGED vars
    BY <1>3 DEF vars, static
  <1> QED
    BY <1>1, <1>2, <1>3, NextCases

\* The flag is raised by a task.
LEMMA RuntimeStep ==
  ASSUME TypeOK, RuntimeInv, [Next]_vars
  PROVE  RuntimeInv'
  <1> USE DEF RuntimeInv, NoRuntime
  <1>1. CASE \E c \in Callers : CallAction(c)
    <2> PICK c \in Callers : CallAction(c)
      BY <1>1
    <2>1. running' \in {running, FALSE}
      BY CallCases DEF StartCheck, StartClaim, StartPanics, StartSpawn, StartKeep, StartBound,
         StartTimesOut, StartReport, StartFails, StopTake, StopLower, StopSettle, static
    <2>2. CASE StartSpawn(c)
      <3> PICK t \in Tasks : task' = [task EXCEPT ![t] = "new"]
        BY <2>2 DEF StartSpawn
      <3>1. task'[t] # "unborn"
        BY DEF TypeOK
      <3> QED
        BY <3>1
    <2>3. CASE task' = task
      BY <2>1, <2>3
    <2> QED
      BY <2>2, <2>3, CallCases DEF StartCheck, StartClaim, StartPanics, StartKeep, StartBound,
         StartTimesOut, StartReport, StartFails, StopTake, StopLower, StopSettle
  <1>2. CASE \E t \in Tasks : TaskAction(t)
    <2> PICK t \in Tasks : TaskAction(t)
      BY <1>2
    <2>1. task'[t] # "unborn"
      BY TaskCases DEF TaskPolled, TaskBegins, TaskBinds, TaskBindFails, TaskAcceptFails, TaskReports,
                       TaskEnds, TaskDrops, TypeOK
    <2> QED
      BY <2>1
  <1>3. CASE UNCHANGED vars
    BY <1>3 DEF vars, static
  <1> QED
    BY <1>1, <1>2, <1>3, NextCases

LEMMA ConnectingStep ==
  ASSUME TypeOK, RuntimeInv, ConnectingInv, [Next]_vars
  PROVE  ConnectingInv'
  <1> USE DEF ConnectingInv, In
  <1>1. CASE \E c \in Callers : CallAction(c)
    <2> PICK c \in Callers : CallAction(c)
      BY <1>1
    <2>1. CASE StartSpawn(c)
      <3>1. call'[c].pc = "keep"
        BY <2>1, SpawnEffect
      <3> QED
        BY <3>1
    <2>2. CASE StartTimesOut(c)
      <3>1. call'[c].pc = "take"
        BY <2>2, TimeOutEffect
      <3> QED
        BY <3>1
    <2>3. CASE StartReport(c) \/ StartFails(c) \/ StopSettle(c)
      BY <2>3 DEF StartReport, StartFails, StopSettle
    <2>4. CASE StartClaim(c) \/ StartKeep(c) \/ StartBound(c) \/ StopTake(c) \/ StopLower(c)
      <3>1. PICK pc \in {"spawn", "wait", "report", "lower", "settle"} : Goto(c, pc)
        BY <2>4 DEF StartClaim, StartKeep, StartBound, StopTake, StopLower
      <3>2. call'[c].pc = pc
        BY <3>1, GotoEffect
      <3> QED
        BY <3>1, <3>2
    <2>5. CASE StartCheck(c)
      <3>1. Goto(c, IF running THEN "noop" ELSE "claim") /\ task' = task
        BY <2>5 DEF StartCheck
      <3>2. /\ call'[c].pc = IF running THEN "noop" ELSE "claim"
            /\ \A d \in Callers : d # c => call'[d] = call[d]
            /\ call[c].pc \in Returned /\ status' = status
        BY <2>5, <3>1, GotoEffect DEF StartCheck, MayCall, static
      <3>3. CASE \E d \in Callers :
                   In(d, {"spawn", "keep", "wait", "report", "take", "lower", "settle"})
        BY <3>2, <3>3 DEF Returned
      <3>4. CASE NoRuntime /\ \E d \in Callers : In(d, {"panicked", "claim"})
        <4>1. NoRuntime' /\ call'[c].pc = "claim"
          BY <3>1, <3>2, <3>4 DEF RuntimeInv, NoRuntime
        <4> QED
          BY <4>1
      <3> QED
        BY <3>2, <3>3, <3>4
    <2>6. CASE StartPanics(c)
      <3>1. Goto(c, "panicked") /\ NoRuntime /\ task' = task
        BY <2>6 DEF StartPanics
      <3>2. call'[c].pc = "panicked" /\ NoRuntime'
        BY <3>1, GotoEffect DEF NoRuntime
      <3> QED
        BY <3>2
    <2> QED
      BY <2>1, <2>2, <2>3, <2>4, <2>5, <2>6, CallCases
  <1>2. CASE \E t \in Tasks : TaskAction(t)
    <2> PICK t \in Tasks : TaskAction(t)
      BY <1>2
    <2>1. task[t] # "unborn" /\ call' = call /\ status' \in {status, "error"}
      BY TaskCases DEF TaskPolled, TaskBegins, TaskBinds, TaskBindFails, TaskAcceptFails,
                       TaskReports, TaskEnds, TaskDrops, static
    <2> QED
      BY <2>1 DEF NoRuntime
  <1>3. CASE UNCHANGED vars
    BY <1>3 DEF vars, static, NoRuntime
  <1> QED
    BY <1>1, <1>2, <1>3, NextCases
--------------------------------------------------------------------------------
(* One thing at a time.                                                    *)

Calm0 == TypeOK /\ BornInv /\ OneCall /\ OneTask /\ RunningInv /\ ~overlap

\* As long as nothing overlaps, a call begins when all is quiet and goes on
\* alone.
LEMMA CallAlone ==
  ASSUME Calm0, NEW c \in Callers, CallAction(c), ~overlap'
  PROVE  /\ \A d \in Callers : d # c => ~Busy(d) /\ call'[d] = call[d]
         /\ StartCheck(c) \/ StopTake(c) => Quiet
         /\ ~StartTimesOut(c) /\ ~StartFails(c)
         /\ ~In(c, {"take", "undone"})' /\ ~call'[c].undo
  <1> USE DEF Calm0, OneCall
  <1>1. ~StartTimesOut(c) /\ ~StartFails(c)
    BY DEF StartTimesOut, StartFails, At, In
  <1>2. StartCheck(c) \/ StopTake(c) => Quiet
    BY DEF StartCheck, StopTake, MayCall, At, In
  <1> DEFINE places == {"noop", "claim", "panicked", "spawn", "wait", "report", "up", "lower",
                        "settle", "down"}
  <1>3. (\E pc \in places : Goto(c, pc)) \/ StartSpawn(c)
    <2>1. CASE \/ StartCheck(c) \/ StartClaim(c) \/ StartPanics(c) \/ StartKeep(c)
               \/ StartBound(c) \/ StartReport(c)
      BY <2>1 DEF StartCheck, StartClaim, StartPanics, StartKeep, StartBound, StartReport
    <2>2. CASE StopTake(c) \/ StopLower(c)
      BY <2>2 DEF StopTake, StopLower
    <2>3. CASE StopSettle(c)
      BY <2>3 DEF StopSettle
    <2> QED
      BY <1>1, <2>1, <2>2, <2>3, CallCases
  <1>4. /\ \A d \in Callers : d # c => call'[d] = call[d]
        /\ call'[c].pc \notin {"take", "undone"} /\ call'[c].undo = call[c].undo
    <2>1. CASE StartSpawn(c)
      BY <2>1, SpawnEffect
    <2>2. ASSUME NEW pc \in places, Goto(c, pc)
          PROVE  /\ \A d \in Callers : d # c => call'[d] = call[d]
                 /\ call'[c].pc \notin {"take", "undone"} /\ call'[c].undo = call[c].undo
      BY <2>2, GotoEffect
    <2> QED
      BY <1>3, <2>1, <2>2
  <1>5. StartCheck(c) \/ StopTake(c) \/ Busy(c)
    BY <1>1, CallCases DEF StartClaim, StartPanics, StartSpawn, StartKeep, StartBound, StartReport, StopLower,
                           StopSettle, At, Busy, Returned
  <1>6. \A d \in Callers : d # c => ~Busy(d)
    BY <1>2, <1>5 DEF Quiet, Busy
  <1> QED
    BY <1>1, <1>2, <1>4, <1>6 DEF In

LEMMA OneCallStep ==
  ASSUME Calm0, NEW c \in Callers, CallAction(c), ~overlap'
  PROVE  OneCall'
  <1>1. \A d \in Callers : d # c => ~Busy(d)'
    BY CallAlone DEF Busy, Returned
  <1>2. \A d \in Callers : ~In(d, {"take", "undone"})' /\ ~call'[d].undo
    BY CallAlone DEF Calm0, OneCall, In
  <1> QED
    BY <1>1, <1>2 DEF OneCall

\* What OneTask asks of the call under way, and of the task when there is none.
CallOK(c) ==
  /\ In(c, {"claim", "spawn"}) => \A t \in Tasks : ~Live(t)
  /\ In(c, {"keep", "wait", "report"}) =>
       \A t \in Tasks : Live(t) => t = call[c].mine /\ t \notin aborted
  /\ In(c, {"wait", "report"}) => handle = call[c].mine
  /\ At(c, "report") => Resolved(call[c].mine)
  /\ In(c, {"lower", "settle"}) => \A t \in Tasks : Live(t) => t \in aborted

AtRest ==
  \A t \in Tasks : Live(t) /\ t \notin aborted =>
    handle = t /\ Resolved(t) /\ (task[t] = "listening" => status = "connected")

LEMMA OneTaskParts ==
  OneTask <=> /\ \A t, u \in Tasks : Live(t) /\ Live(u) => t = u
              /\ \A c \in Callers : CallOK(c)
              /\ (\A c \in Callers : ~Busy(c)) => AtRest
  BY DEF OneTask, CallOK, AtRest

\* It is enough to look at the call that goes on.
LEMMA OneTaskBy ==
  ASSUME Calm0, NEW c \in Callers, CallAction(c), ~overlap',
         \A t, u \in Tasks : Live(t)' /\ Live(u)' => t = u,
         CallOK(c)', ~Busy(c)' => AtRest'
  PROVE  OneTask'
  <1>1. \A d \in Callers : d # c => ~Busy(d)'
    BY CallAlone DEF Busy, Returned
  <1>2. \A d \in Callers : d # c => CallOK(d)'
    BY <1>1 DEF CallOK, In, At, Busy, Returned
  <1> QED
    BY <1>2 DEF OneTask, CallOK, AtRest

LEMMA CalmQuiet ==
  ASSUME Calm0, Quiet, NEW t \in Tasks, Live(t)
  PROVE  task[t] = "listening" /\ t \notin aborted /\ handle = t /\ running /\ status = "connected"
  <1>1. task[t] = "listening" /\ t \notin aborted
    BY DEF Quiet, Settled, Live
  <1>2. AtRest
    BY OneTaskParts DEF Calm0, Quiet, Busy
  <1> QED
    BY <1>1, <1>2 DEF AtRest, Calm0, RunningInv, Begun

\* The steps of a call.
LEMMA CalmStart ==
  ASSUME Calm0, NEW c \in Callers, ~overlap', CallAction(c),
         StartCheck(c) \/ StartClaim(c) \/ StartPanics(c) \/ StartSpawn(c) \/ StartKeep(c)
           \/ StartBound(c) \/ StartReport(c)
  PROVE  OneTask' /\ RunningInv'
  <1> USE DEF Calm0
  <1>0. /\ \A d \in Callers : d # c => ~Busy(d) /\ call'[d] = call[d]
        /\ StartCheck(c) => Quiet
        /\ \A t, u \in Tasks : Live(t) /\ Live(u) => t = u
        /\ CallOK(c)
    BY CallAlone, OneTaskParts
  <1>1. CASE StartCheck(c)
    <2>1. /\ UNCHANGED <<status, running, handle, task, aborted>>
          /\ Goto(c, IF running THEN "noop" ELSE "claim") /\ Quiet
      BY <1>0, <1>1 DEF StartCheck, static
    <2>2. call'[c].pc = IF running THEN "noop" ELSE "claim"
      BY <2>1, GotoEffect
    <2>3. ~running => \A t \in Tasks : ~Live(t)
      BY <2>1, CalmQuiet
    <2>4. CallOK(c)'
      BY <2>1, <2>2, <2>3 DEF CallOK, In, At, Live
    <2>5. AtRest'
      BY <2>1, CalmQuiet DEF AtRest, Live, Resolved
    <2>6. OneTask'
      BY <1>0, <2>1, <2>4, <2>5, OneTaskBy DEF Live
    <2>7. \A d \in Callers : ~At(d, "lower")
      BY <2>1 DEF Quiet, At, Returned
    <2> QED
      BY <2>1, <2>6, <2>7 DEF RunningInv, Live, Begun
  <1>2. CASE StartClaim(c)
    <2>1. /\ UNCHANGED <<running, handle, task, aborted>> /\ Goto(c, "spawn") /\ At(c, "claim")
      BY <1>2 DEF StartClaim
    <2>2. call'[c].pc = "spawn"
      BY <2>1, GotoEffect
    <2>3. \A t \in Tasks : ~Live(t)
      BY <1>0, <2>1 DEF CallOK, In, At
    <2>4. CallOK(c)' /\ Busy(c)'
      BY <2>1, <2>2, <2>3 DEF CallOK, In, At, Live, Busy, Returned
    <2>5. OneTask'
      BY <1>0, <2>1, <2>4, OneTaskBy DEF Live
    <2>6. ~running
      BY <1>0, <2>1, <2>3 DEF RunningInv, Begun, Live, Dead, At, Busy, Returned
    <2> QED
      BY <2>1, <2>3, <2>5, <2>6 DEF RunningInv, Live
  <1>3. CASE StartSpawn(c)
    <2> PICK t \in Tasks :
         /\ task[t] = "unborn" /\ At(c, "spawn")
         /\ task' = [task EXCEPT ![t] = "new"]
         /\ call'[c].pc = "keep" /\ call'[c].mine = t /\ call'[c].undo = call[c].undo
         /\ \A d \in Callers : d # c => call'[d] = call[d]
         /\ UNCHANGED <<static, aborted, port, overlap>>
      BY <1>3, SpawnEffect
    <2>1. \A u \in Tasks : ~Live(u)
      BY <1>0 DEF CallOK, In, At
    <2>2. /\ task'[t] = "new" /\ \A u \in Tasks : u # t => task'[u] = task[u]
          /\ t \notin aborted /\ UNCHANGED <<status, running, handle, aborted>>
      BY DEF TypeOK, BornInv, static
    <2>3. \A u \in Tasks : Live(u)' => u = t
      BY <2>1, <2>2 DEF Live
    <2>4. CallOK(c)' /\ Busy(c)'
      BY <2>2, <2>3 DEF CallOK, In, At, Busy, Returned
    <2>5. OneTask'
      BY <2>3, <2>4, OneTaskBy
    <2>6. ~running
      BY <1>0, <2>1 DEF RunningInv, Begun, Live, Dead, At, Busy, Returned
    <2> QED
      BY <2>2, <2>3, <2>5, <2>6 DEF RunningInv, Begun
  <1>4. CASE StartKeep(c) \/ StartBound(c) \/ StartReport(c)
    <2>1. PICK pc \in {"wait", "report", "up"} : Goto(c, pc)
      BY <1>4 DEF StartKeep, StartBound, StartReport
    <2>2. call'[c].pc = pc /\ call'[c].mine = call[c].mine
      BY <2>1, GotoEffect
    <2>3. /\ In(c, {"keep", "wait", "report"})
          /\ UNCHANGED <<running, task, aborted>>
          /\ handle' \in {handle, call[c].mine}
      BY <1>4 DEF StartKeep, StartBound, StartReport, At, In, static
    <2>4. \A t \in Tasks : Live(t) => t = call[c].mine /\ t \notin aborted
      BY <1>0, <2>3 DEF CallOK
    <2>5. handle' = call[c].mine /\ (pc \in {"report", "up"} => Resolved(call[c].mine))
      <3>1. CASE StartKeep(c)
        <4>1. pc = "wait"
          BY <2>2, <3>1, GotoEffect DEF StartKeep
        <4> QED
          BY <3>1, <4>1 DEF StartKeep
      <3>2. CASE StartBound(c)
        BY <1>0, <3>2 DEF StartBound, CallOK, In, At, static
      <3>3. CASE StartReport(c)
        BY <1>0, <3>3 DEF StartReport, CallOK, In, At
      <3> QED
        BY <1>4, <3>1, <3>2, <3>3
    <2>6. CallOK(c)'
      BY <2>2, <2>3, <2>4, <2>5 DEF CallOK, In, At, Live, Resolved
    <2>7. ~Busy(c)' => AtRest'
      <3> SUFFICES ASSUME ~Busy(c)' PROVE AtRest'
        OBVIOUS
      <3>1. pc = "up"
        BY <2>2 DEF Busy, Returned
      <3>2. StartReport(c)
        <4>1. call'[c].pc = "up"
          BY <2>2, <3>1
        <4>2. ~StartKeep(c) /\ ~StartBound(c)
          BY <4>1, GotoEffect DEF StartKeep, StartBound
        <4> QED
          BY <1>4, <4>2
      <3>3. status' = "connected"
        BY <3>2 DEF StartReport
      <3> QED
        BY <2>3, <2>4, <2>5, <3>1, <3>3 DEF AtRest, Live, Resolved
    <2>8. OneTask'
      BY <1>0, <2>3, <2>6, <2>7, OneTaskBy DEF Live
    <2>9. \A d \in Callers : ~At(d, "lower")
      BY <1>0, <2>3 DEF In, At, Busy, Returned
    <2> QED
      BY <2>3, <2>8, <2>9 DEF RunningInv, Live, Begun
  <1>5. CASE StartPanics(c)
    <2>1. /\ UNCHANGED <<running, handle, task, aborted>> /\ Goto(c, "panicked")
          /\ At(c, "spawn")
      BY <1>5 DEF StartPanics, static
    <2>2. call'[c].pc = "panicked"
      BY <2>1, GotoEffect
    <2>3. \A t \in Tasks : ~Live(t)
      BY <1>0, <2>1 DEF CallOK, In, At
    <2>4. CallOK(c)' /\ AtRest'
      BY <2>1, <2>2, <2>3 DEF CallOK, AtRest, In, At, Live
    <2>5. OneTask'
      BY <1>0, <2>1, <2>4, OneTaskBy DEF Live
    <2>6. ~running
      BY <1>0, <2>1, <2>3 DEF RunningInv, Begun, Live, Dead, At, Busy, Returned
    <2> QED
      BY <2>1, <2>3, <2>5, <2>6 DEF RunningInv, Live
  <1> QED
    BY <1>1, <1>2, <1>3, <1>4, <1>5

LEMMA CalmStop ==
  ASSUME Calm0, NEW c \in Callers, ~overlap', CallAction(c),
         StopTake(c) \/ StopLower(c) \/ StopSettle(c)
  PROVE  OneTask' /\ RunningInv'
  <1> USE DEF Calm0
  <1>0. /\ \A d \in Callers : d # c => ~Busy(d) /\ call'[d] = call[d]
        /\ StopTake(c) => Quiet
        /\ \A t, u \in Tasks : Live(t) /\ Live(u) => t = u
        /\ CallOK(c)
    BY CallAlone, OneTaskParts
  <1>1. CASE StopTake(c)
    <2>1. /\ UNCHANGED <<status, running, task>> /\ Goto(c, "lower") /\ Quiet
          /\ aborted' = aborted \cup ({handle} \ {None})
      BY <1>0, <1>1 DEF StopTake
    <2>2. call'[c].pc = "lower"
      BY <2>1, GotoEffect
    <2>3. \A t \in Tasks : Live(t) => task[t] = "listening" /\ t \in aborted'
      <3>1. None \notin Tasks
        BY DEF None, Tasks
      <3> QED
        BY <2>1, <3>1, CalmQuiet
    <2>4. CallOK(c)' /\ Busy(c)'
      BY <2>1, <2>2, <2>3 DEF CallOK, In, At, Live, Busy, Returned
    <2>5. OneTask'
      BY <1>0, <2>1, <2>4, OneTaskBy DEF Live
    <2> QED
      BY <2>1, <2>2, <2>3, <2>5 DEF RunningInv, Live, At
  <1>2. CASE StopLower(c)
    <2>1. /\ UNCHANGED <<task, aborted>> /\ running' = FALSE /\ Goto(c, "settle") /\ At(c, "lower")
      BY <1>2 DEF StopLower
    <2>2. call'[c].pc = "settle"
      BY <2>1, GotoEffect
    <2>3. \A t \in Tasks : Live(t) => t \in aborted
      BY <1>0, <2>1 DEF CallOK, In, At
    <2>4. CallOK(c)' /\ Busy(c)'
      BY <2>1, <2>2, <2>3 DEF CallOK, In, At, Live, Busy, Returned
    <2>5. OneTask'
      BY <1>0, <2>1, <2>4, OneTaskBy DEF Live
    <2> QED
      BY <2>1, <2>3, <2>5 DEF RunningInv, Live
  <1>3. CASE StopSettle(c)
    <2>1. /\ UNCHANGED <<running, task, aborted>> /\ Goto(c, "down") /\ At(c, "settle")
      BY <1>3 DEF StopSettle, OneCall
    <2>2. call'[c].pc = "down"
      BY <2>1, GotoEffect
    <2>3. \A t \in Tasks : Live(t) => t \in aborted
      BY <1>0, <2>1 DEF CallOK, In, At
    <2>4. CallOK(c)' /\ AtRest'
      BY <2>1, <2>2, <2>3 DEF CallOK, AtRest, In, At, Live
    <2>5. OneTask'
      BY <1>0, <2>1, <2>4, OneTaskBy DEF Live
    <2>6. \A d \in Callers : ~At(d, "lower")
      BY <1>0, <2>1 DEF At, Busy, Returned
    <2> QED
      BY <2>1, <2>5, <2>6 DEF RunningInv, Live, Begun
  <1> QED
    BY <1>1, <1>2, <1>3

\* The steps of a task.
LEMMA TaskEffect ==
  ASSUME TypeOK, NEW t \in Tasks, TaskAction(t)
  PROVE  /\ UNCHANGED <<handle, aborted, call, overlap>>
         /\ \A u \in Tasks : u # t => task'[u] = task[u]
         /\ Live(t) /\ (Resolved(t) => Resolved(t)')
         /\ status' = status \/ (status' = "error" /\ task[t] = "failing" /\ task'[t] = "erred")
         /\ \/ task[t] = "new" /\ task'[t] = "polled" /\ t \notin aborted /\ running' = running
            \/ task[t] = "polled" /\ task'[t] = "started" /\ running' = TRUE
            \/ task[t] = "started" /\ task'[t] = "listening" /\ running' = running
            \/ Begun(t) /\ task'[t] \in {"failing", "erred"} /\ running' = running
            \/ task'[t] = "ended" /\ running' = FALSE
            \/ task'[t] = "dropped" /\ t \in aborted /\ running' = running
  <1> USE DEF TypeOK, static, Live, Dead, Resolved, Begun
  <1>1. CASE TaskPolled(t) \/ TaskBegins(t)
    BY <1>1 DEF TaskPolled, TaskBegins
  <1>2. CASE TaskBinds(t) \/ TaskBindFails(t) \/ TaskAcceptFails(t)
    BY <1>2 DEF TaskBinds, TaskBindFails, TaskAcceptFails
  <1>3. CASE TaskReports(t) \/ TaskEnds(t) \/ TaskDrops(t)
    BY <1>3 DEF TaskReports, TaskEnds, TaskDrops
  <1> QED
    BY <1>1, <1>2, <1>3, TaskCases

LEMMA CalmTask ==
  ASSUME Calm0, NEW t \in Tasks, TaskAction(t)
  PROVE  OneCall' /\ OneTask' /\ RunningInv'
  <1> USE DEF Calm0
  <1>0. /\ UNCHANGED <<handle, aborted, call>>
        /\ \A u \in Tasks : u # t => task'[u] = task[u]
        /\ Live(t) /\ (Resolved(t) => Resolved(t)')
    BY TaskEffect
  <1>1. OneCall'
    BY <1>0 DEF OneCall, Busy, In
  <1>2. \A u \in Tasks : Live(u)' => u = t
    BY <1>0 DEF OneTask, Live
  <1>3. \A u \in Tasks : Resolved(u) => Resolved(u)'
    BY <1>0 DEF Resolved
  <1>4. ASSUME NEW c \in Callers
        PROVE  CallOK(c)'
    <2>1. CallOK(c)
      BY OneTaskParts
    <2>2. At(c, "report") => call[c].mine \in Tasks
      BY DEF BornInv, In, At
    <2> QED
      BY <1>0, <1>2, <1>3, <2>1, <2>2 DEF CallOK, In, At
  <1>5. ASSUME \A c \in Callers : ~Busy(c)'
        PROVE  AtRest'
    <2>1. \A c \in Callers : ~Busy(c)
      BY <1>0, <1>5 DEF Busy
    <2>2. AtRest
      BY <2>1, OneTaskParts
    <2>3. t \notin aborted =>
            handle = t /\ Resolved(t) /\ (task'[t] = "listening" => status' = "connected")
      BY <1>0, <2>2, TaskEffect DEF AtRest, Resolved, Begun
    <2> QED
      BY <1>0, <1>2, <2>3 DEF AtRest
  <1>6. OneTask'
    BY <1>2, <1>4, <1>5, OneTaskParts DEF OneTask, CallOK, AtRest
  <1>7. Live(t)' /\ t \notin aborted /\ Begun(t)' => running'
    <2>1. t \notin aborted /\ Begun(t) => running
      BY <1>0 DEF RunningInv
    <2>2. CASE task[t] = "polled" /\ running' = TRUE
      BY <2>2
    <2>3. CASE Begun(t) /\ running' = running
      BY <2>1, <2>3
    <2> QED
      BY <2>2, <2>3, TaskEffect DEF Begun, Live, Dead
  <1>8. Live(t)' /\ t \in aborted => task'[t] \in {"listening", "failing", "erred"}
    BY <1>0, TaskEffect DEF RunningInv, Begun, Live, Dead
  <1>9. running' => (\E c \in Callers : At(c, "lower")') \/ \E u \in Tasks \ aborted : Begun(u)'
    <2>1. CASE task[t] = "polled" /\ task'[t] = "started"
      BY <1>0, <2>1 DEF RunningInv, Begun
    <2>2. CASE running' /\ running' = running
      <3>1. CASE \E c \in Callers : At(c, "lower")
        BY <1>0, <3>1 DEF At
      <3>2. CASE \E u \in Tasks \ aborted : Begun(u)
        <4> PICK u \in Tasks \ aborted : Begun(u)
          BY <3>2
        <4>1. Begun(u)'
          BY <1>0, <2>2, TaskEffect DEF Begun
        <4> QED
          BY <4>1
      <3> QED
        BY <2>2, <3>1, <3>2 DEF RunningInv
    <2> QED
      BY <2>1, <2>2, TaskEffect
  <1>10. RunningInv'
    BY <1>0, <1>2, <1>7, <1>8, <1>9 DEF RunningInv
  <1> QED
    BY <1>1, <1>6, <1>10

--------------------------------------------------------------------------------
(* The theorems.                                                           *)

LEMMA BridgeInit == Init => BridgeInv
  <1> SUFFICES ASSUME Init PROVE BridgeInv
    OBVIOUS
  <1>1. /\ status = "stopped" /\ running = FALSE /\ handle = None /\ port = None
        /\ aborted = {} /\ overlap = FALSE
        /\ \A t \in Tasks : task[t] = "unborn"
        /\ \A c \in Callers : call[c].pc = "fresh" /\ call[c].mine = None /\ call[c].undo = FALSE
    BY DEF Init
  <1>2. None \notin Tasks
    BY DEF None, Tasks
  <1>3. PortInv /\ BornInv /\ RuntimeInv /\ ConnectingInv
    BY <1>1, <1>2 DEF PortInv, BornInv, RuntimeInv, ConnectingInv, In
  <1>4. OneCall /\ RunningInv
    BY <1>1 DEF OneCall, RunningInv, Busy, In, Live, Dead, Returned
  <1>5. OneTask
    BY <1>1 DEF OneTask, Busy, In, At, Live, Dead, Returned
  <1> QED
    BY <1>3, <1>4, <1>5, TypeInit DEF BridgeInv, CalmInv

\* An overlap is never forgotten.
LEMMA OverlapStays ==
  ASSUME TypeOK, [Next]_vars, ~overlap'
  PROVE  ~overlap
  <1>1. CASE \E c \in Callers : CallAction(c)
    BY <1>1, CallCases DEF StartCheck, StartClaim, StartPanics, StartSpawn, StartKeep, StartBound, StartTimesOut,
       StartReport, StartFails, StopTake, StopLower, StopSettle, MayCall
  <1>2. CASE \E t \in Tasks : TaskAction(t)
    BY <1>2, TaskEffect
  <1>3. CASE UNCHANGED vars
    BY <1>3 DEF vars
  <1> QED
    BY <1>1, <1>2, <1>3, NextCases

LEMMA CalmStep ==
  ASSUME TypeOK, BornInv, CalmInv, [Next]_vars
  PROVE  CalmInv'
  <1> SUFFICES ASSUME ~overlap' PROVE OneCall' /\ OneTask' /\ RunningInv'
    BY DEF CalmInv
  <1>0. Calm0
    BY OverlapStays DEF Calm0, CalmInv
  <1>1. CASE \E c \in Callers : CallAction(c)
    <2> PICK c \in Callers : CallAction(c)
      BY <1>1
    <2>1. OneCall' /\ ~StartTimesOut(c) /\ ~StartFails(c)
      BY <1>0, OneCallStep, CallAlone
    <2> QED
      BY <1>0, <2>1, CalmStart, CalmStop, CallCases
  <1>2. CASE \E t \in Tasks : TaskAction(t)
    BY <1>0, <1>2, CalmTask
  <1>3. CASE UNCHANGED vars
    BY <1>0, <1>3 DEF Calm0, vars, static, OneCall, OneTask, RunningInv, Busy, In, At, Live,
                      Resolved, Begun
  <1> QED
    BY <1>1, <1>2, <1>3, NextCases

LEMMA BridgeStep == BridgeInv /\ [Next]_vars => BridgeInv'
  BY TypeStep, PortStep, BornStep, RuntimeStep, ConnectingStep, CalmStep DEF BridgeInv

\* The inductive invariant of the bridge: what holds whatever overlaps, and
\* what the statics say of the one task that lives while nothing does.
THEOREM BridgeInvariance == Spec => []BridgeInv
  BY BridgeInit, BridgeStep, PTL DEF Spec

LEMMA InvNotStuck == BridgeInv => NoStuckConnecting
  BY DEF BridgeInv, ConnectingInv, NoStuckConnecting, In, At, Returned

LEMMA CalmGives ==
  ASSUME BridgeInv, Calm
  PROVE  Calm0 /\ PortInv /\ Quiet
  BY DEF BridgeInv, CalmInv, Calm0, Calm

LEMMA InvKnown == BridgeInv => ListenerIsKnown
  <1> SUFFICES ASSUME BridgeInv, Calm, port # None
               PROVE  status = "connected" /\ running /\ handle = port
    BY DEF ListenerIsKnown
  <1>1. port \in Tasks /\ Live(port)
    BY CalmGives DEF Calm0, TypeOK, PortInv, Live, Dead
  <1> QED
    BY <1>1, CalmGives, CalmQuiet

LEMMA InvAlive == BridgeInv => RunningIsAlive
  <1> SUFFICES ASSUME BridgeInv, Calm, running
               PROVE  port # None
    BY DEF RunningIsAlive
  <1>1. PICK t \in Tasks : Begun(t)
    BY CalmGives DEF Calm0, RunningInv, Quiet, At, Returned
  <1>2. task[t] = "listening"
    BY <1>1, CalmGives, CalmQuiet DEF Live, Dead, Begun
  <1>3. port = t
    BY <1>2, CalmGives DEF PortInv
  <1> QED
    BY <1>3 DEF None, Tasks

\* PROXY_STATUS is not left at Connecting: when every call of start_reliz_proxy
\* and stop_proxy has returned, some store behind it replaced it, whatever calls
\* and tasks overlapped, or a start panicked for want of a runtime.
THEOREM NeverStuckConnecting == Spec => []NoStuckConnecting
  BY InvNotStuck, BridgeInvariance, PTL

\* Without overlapping calls, a listener at rest is the task whose handle is
\* kept in TASK, under Connected and with PROXY_RUNNING up: stop_proxy reaches it.
THEOREM KnownListener == Spec => []ListenerIsKnown
  BY InvKnown, BridgeInvariance, PTL

\* Without overlapping calls, PROXY_RUNNING at rest means a task that listens: a
\* start that returns at once on the flag is not a start that is refused for ever.
THEOREM AliveWhenRunning == Spec => []RunningIsAlive
  BY InvAlive, BridgeInvariance, PTL
================================================================================
