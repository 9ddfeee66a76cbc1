------------------------------ MODULE ProxyBridge ------------------------------
(***************************************************************************)
(* The Rust half of the mobile app (ghost_flutter/rust/src/api.rs): calls  *)
(* of start_reliz_proxy and stop_proxy from any thread, the background     *)
(* tasks they spawn and abort, and the statics they share.                 *)
(*                                                                         *)
(* A call is a sequence of steps with one access to a static each.  A task *)
(* runs reliz_client::run_with_ready: it awaits nothing before it listens  *)
(* and nothing after it failed, so an abort takes effect only before its   *)
(* first poll or while it accepts, and a poll that has begun goes on.      *)
(***************************************************************************)
EXTENDS Naturals, FiniteSets

CONSTANTS
  Callers,      \* threads that call the bridge
  MaxTasks,     \* bound on the tasks ever spawned
  BindMayFail,  \* some other socket may hold 127.0.0.1:10808
  MayTimeOut,   \* the runtime may need more than 5 s to poll a new task
  BuildMayFail  \* the runtime may be refused its threads

ASSUME BridgeAssumption ==
  /\ MaxTasks \in Nat
  /\ {BindMayFail, MayTimeOut, BuildMayFail} \subseteq BOOLEAN

Tasks == 1 .. MaxTasks
None == 0

VARIABLES
  status,   \* PROXY_STATUS
  running,  \* PROXY_RUNNING
  handle,   \* TASK: the task whose JoinHandle it holds
  task,     \* task[t]: how far the background task has got
  aborted,  \* tasks whose handle was told to abort
  port,     \* the task that holds the listener
  call,     \* call[c]: the call of thread c, and the task it spawned
  overlap   \* history: a call was made, or timed out, while something was under way

static == <<status, running, handle>>
vars == <<status, running, handle, task, aborted, port, call, overlap>>

Returned == {"fresh", "noop", "up", "down", "failed", "panicked"}
Dead == {"unborn", "ended", "dropped"}

TypeOK ==
  /\ status \in {"stopped", "connecting", "connected", "error"}
  /\ running \in BOOLEAN
  /\ handle \in Tasks \cup {None} /\ port \in Tasks \cup {None}
  /\ task \in [Tasks -> Dead \cup {"new", "polled", "started", "listening", "failing", "erred"}]
  /\ aborted \subseteq Tasks
  /\ call \in [Callers ->
       [pc : Returned \cup {"claim", "spawn", "keep", "wait", "report", "take",
                            "lower", "settle", "undone"},
        mine : Tasks \cup {None}, undo : BOOLEAN]]
  /\ overlap \in BOOLEAN

Init ==
  /\ status = "stopped" /\ running = FALSE /\ handle = None
  /\ task = [t \in Tasks |-> "unborn"] /\ aborted = {} /\ port = None
  /\ call = [c \in Callers |-> [pc |-> "fresh", mine |-> None, undo |-> FALSE]]
  /\ overlap = FALSE

\* Every task is over, or listens and will go on doing so.
Settled == \A t \in Tasks : task[t] \in Dead \/ (task[t] = "listening" /\ t \notin aborted)

Quiet == Settled /\ \A c \in Callers : call[c].pc \in Returned

\* A call may begin at any time.
MayCall(c) ==
  /\ call[c].pc \in Returned
  /\ overlap' = (overlap \/ ~Quiet)

At(c, pc) == call[c].pc = pc
Goto(c, pc) == call' = [call EXCEPT ![c].pc = pc]

--------------------------------------------------------------------------------
(* start_reliz_proxy.                                                      *)

\* The bound MaxTasks: a start that gets as far as the spawn finds room for it.
Room ==
  Cardinality({c \in Callers : call[c].pc \in {"claim", "spawn"}})
    < Cardinality({t \in Tasks : task[t] = "unborn"})

StartCheck(c) ==
  /\ MayCall(c) /\ Room
  /\ Goto(c, IF running THEN "noop" ELSE "claim")
  /\ UNCHANGED <<static, task, aborted, port>>

StartClaim(c) ==
  /\ At(c, "claim") /\ Goto(c, "spawn")
  /\ status' = "connecting"
  /\ UNCHANGED <<running, handle, task, aborted, port, overlap>>

\* The first use of the runtime builds it, at the latest with the first task.
NoRuntime == \A t \in Tasks : task[t] = "unborn"

\* runtime() panics: the call ends with an exception, and Connecting stays.
StartPanics(c) ==
  /\ At(c, "spawn") /\ BuildMayFail /\ NoRuntime
  /\ Goto(c, "panicked")
  /\ UNCHANGED <<static, task, aborted, port, overlap>>

StartSpawn(c) ==
  /\ At(c, "spawn")
  /\ \E t \in Tasks :
       /\ task[t] = "unborn" /\ \A u \in Tasks : task[u] = "unborn" => t <= u
       /\ task' = [task EXCEPT ![t] = "new"]
       /\ call' = [call EXCEPT ![c].pc = "keep", ![c].mine = t]
  /\ UNCHANGED <<static, aborted, port, overlap>>

\* A handle that was there is dropped: its task is detached, not aborted.
StartKeep(c) ==
  /\ At(c, "keep") /\ Goto(c, "wait")
  /\ handle' = call[c].mine
  /\ UNCHANGED <<status, running, task, aborted, port, overlap>>

\* ready_rx is resolved: by the signal, or because its sender was dropped.
Resolved(t) == task[t] \notin {"new", "polled", "started"}

\* The outcome of the receiver is not looked at, only that of the timeout.
StartBound(c) ==
  /\ At(c, "wait") /\ Resolved(call[c].mine)
  /\ Goto(c, "report")
  /\ UNCHANGED <<static, task, aborted, port, overlap>>

StartTimesOut(c) ==
  /\ At(c, "wait") /\ MayTimeOut
  /\ call' = [call EXCEPT ![c].pc = "take", ![c].undo = TRUE]
  /\ overlap' = TRUE
  /\ UNCHANGED <<static, task, aborted, port>>

\* Mutant: returns 0 and leaves the status.
StartReportSilent(c) ==
  /\ At(c, "report") /\ Goto(c, "up")
  /\ UNCHANGED <<static, task, aborted, port, overlap>>

StartReport(c) ==
  /\ At(c, "report") /\ Goto(c, "up")
  /\ status' = "connected"
  /\ UNCHANGED <<running, handle, task, aborted, port, overlap>>

StartFails(c) ==
  /\ At(c, "undone")
  /\ call' = [call EXCEPT ![c].pc = "failed", ![c].undo = FALSE]
  /\ status' = "error"
  /\ UNCHANGED <<running, handle, task, aborted, port, overlap>>

--------------------------------------------------------------------------------
(* stop_proxy, also called by a start that timed out.                      *)

\* Mutant: takes the handle and drops it, which detaches the task.
StopTakeDetaches(c) ==
  /\ \/ At(c, "take") /\ UNCHANGED overlap
     \/ MayCall(c)
  /\ Goto(c, "lower")
  /\ handle' = None
  /\ UNCHANGED <<status, running, task, aborted, port>>

\* Mutant: waits until there is a handle to take.
StopTakeWaits(c) ==
  /\ \/ At(c, "take") /\ UNCHANGED overlap
     \/ MayCall(c)
  /\ handle # None /\ Goto(c, "lower")
  /\ handle' = None
  /\ aborted' = aborted \cup {handle}
  /\ UNCHANGED <<status, running, task, port>>

\* Mutant: aborts what it took without looking whether that is a handle.
StopTakeUnchecked(c) ==
  /\ \/ At(c, "take") /\ UNCHANGED overlap
     \/ MayCall(c)
  /\ Goto(c, "lower")
  /\ handle' = None
  /\ aborted' = aborted \cup {handle}
  /\ UNCHANGED <<status, running, task, port>>

StopTake(c) ==
  /\ \/ At(c, "take") /\ UNCHANGED overlap
     \/ MayCall(c)
  /\ Goto(c, "lower")
  /\ handle' = None
  /\ aborted' = aborted \cup ({handle} \ {None})
  /\ UNCHANGED <<status, running, task, port>>

\* Mutant: leaves the flag to the task.
StopLowerNot(c) ==
  /\ At(c, "lower") /\ Goto(c, "settle")
  /\ UNCHANGED <<static, task, aborted, port, overlap>>

StopLower(c) ==
  /\ At(c, "lower") /\ Goto(c, "settle")
  /\ running' = FALSE
  /\ UNCHANGED <<status, handle, task, aborted, port, overlap>>

StopSettle(c) ==
  /\ At(c, "settle") /\ Goto(c, IF call[c].undo THEN "undone" ELSE "down")
  /\ status' = "stopped"
  /\ UNCHANGED <<running, handle, task, aborted, port, overlap>>

--------------------------------------------------------------------------------
(* The background task.                                                    *)

TaskPolled(t) ==
  /\ task[t] = "new" /\ t \notin aborted
  /\ task' = [task EXCEPT ![t] = "polled"]
  /\ UNCHANGED <<static, aborted, port, call, overlap>>

TaskBegins(t) ==
  /\ task[t] = "polled"
  /\ task' = [task EXCEPT ![t] = "started"]
  /\ running' = TRUE
  /\ UNCHANGED <<status, handle, aborted, port, call, overlap>>

TaskBinds(t) ==
  /\ task[t] = "started" /\ port = None
  /\ port' = t
  /\ task' = [task EXCEPT ![t] = "listening"]
  /\ UNCHANGED <<static, aborted, call, overlap>>

TaskBindFails(t) ==
  /\ task[t] = "started" /\ (BindMayFail \/ port # None)
  /\ task' = [task EXCEPT ![t] = "failing"]
  /\ UNCHANGED <<static, aborted, port, call, overlap>>

\* An error of accept() ends run_with_ready, and the listener with it.
TaskAcceptFails(t) ==
  /\ task[t] = "listening"
  /\ port' = None
  /\ task' = [task EXCEPT ![t] = "failing"]
  /\ UNCHANGED <<static, aborted, call, overlap>>

TaskReports(t) ==
  /\ task[t] = "failing"
  /\ task' = [task EXCEPT ![t] = "erred"]
  /\ status' = "error"
  /\ UNCHANGED <<running, handle, aborted, port, call, overlap>>

TaskEnds(t) ==
  /\ task[t] = "erred"
  /\ task' = [task EXCEPT ![t] = "ended"]
  /\ running' = FALSE
  /\ UNCHANGED <<status, handle, aborted, port, call, overlap>>

\* Mutant: an abort that finds the task not yet polled is forgotten.
TaskDropsListening(t) ==
  /\ t \in aborted /\ task[t] = "listening"
  /\ task' = [task EXCEPT ![t] = "dropped"]
  /\ port' = IF port = t THEN None ELSE port
  /\ UNCHANGED <<static, aborted, call, overlap>>

TaskDrops(t) ==
  /\ t \in aborted /\ task[t] \in {"new", "listening"}
  /\ task' = [task EXCEPT ![t] = "dropped"]
  /\ port' = IF port = t THEN None ELSE port
  /\ UNCHANGED <<static, aborted, call, overlap>>

--------------------------------------------------------------------------------
StartStep(c) ==
  \/ StartClaim(c) \/ StartPanics(c) \/ StartSpawn(c) \/ StartKeep(c) \/ StartBound(c)
  \/ StartTimesOut(c) \/ StartReport(c) \/ StartFails(c)

StopStep(c) ==
  \/ At(c, "take") /\ StopTake(c)
  \/ StopLower(c) \/ StopSettle(c)

CallStep(c) == StartStep(c) \/ StopStep(c)

TaskStep(t) ==
  \/ TaskPolled(t) \/ TaskBegins(t) \/ TaskBinds(t) \/ TaskBindFails(t)
  \/ TaskReports(t) \/ TaskEnds(t) \/ TaskDrops(t)

Next ==
  \/ \E c \in Callers : StartCheck(c) \/ StopTake(c) \/ CallStep(c)
  \/ \E t \in Tasks : TaskStep(t) \/ TaskAcceptFails(t)

Spec == Init /\ [][Next]_vars

\* Threads run and the runtime polls its tasks; nobody has to call anything,
\* and accept() need not fail.
Fairness ==
  /\ \A c \in Callers : WF_vars(CallStep(c))
  /\ \A t \in Tasks : WF_vars(TaskStep(t))

FairSpec == Spec /\ Fairness

--------------------------------------------------------------------------------
(* The inductive invariant.  What the statics say of the tasks is known    *)
(* only as long as no two things were under way at once: CalmInv.          *)

Live(t) == task[t] \notin Dead
Busy(c) == call[c].pc \notin Returned
In(c, pcs) == call[c].pc \in pcs

PortInv == \A t \in Tasks : port = t <=> task[t] = "listening"

\* Nobody knows a task before it is spawned.
BornInv ==
  /\ \A t \in Tasks : task[t] = "unborn" =>
       t \notin aborted /\ handle # t /\ \A c \in Callers : call[c].mine # t
  /\ \A c \in Callers : In(c, {"keep", "wait", "report"}) => call[c].mine \in Tasks

\* Without a runtime nothing runs.
RuntimeInv == NoRuntime => ~running

\* A call that is to store another status stands behind Connecting, or one that
\* panicked and has not got as far again.
ConnectingInv ==
  status = "connecting" =>
    \/ \E c \in Callers : In(c, {"spawn", "keep", "wait", "report", "take", "lower", "settle"})
    \/ NoRuntime /\ \E c \in Callers : In(c, {"panicked", "claim"})

\* One call at a time, and no start that timed out.
OneCall ==
  /\ \A c, d \in Callers : Busy(c) /\ Busy(d) => c = d
  /\ \A c \in Callers : ~In(c, {"take", "undone"}) /\ ~call[c].undo

\* The only task that is not over is the one of the start under way, the one
\* that was just aborted, or the one whose handle is kept.
OneTask ==
  /\ \A t, u \in Tasks : Live(t) /\ Live(u) => t = u
  /\ \A c \in Callers :
       /\ In(c, {"claim", "spawn"}) => \A t \in Tasks : ~Live(t)
       /\ In(c, {"keep", "wait", "report"}) =>
            \A t \in Tasks : Live(t) => t = call[c].mine /\ t \notin aborted
       /\ In(c, {"wait", "report"}) => handle = call[c].mine
       /\ At(c, "report") => Resolved(call[c].mine)
       /\ In(c, {"lower", "settle"}) => \A t \in Tasks : Live(t) => t \in aborted
  /\ \A t \in Tasks : Live(t) /\ t \notin aborted /\ (\A c \in Callers : ~Busy(c)) =>
       handle = t /\ Resolved(t) /\ (task[t] = "listening" => status = "connected")

\* PROXY_RUNNING is up while a task is between its first line and its end, but
\* for a task that stop_proxy aborted.
Begun(t) == task[t] \in {"started", "listening", "failing", "erred"}

RunningInv ==
  /\ \A t \in Tasks : Live(t) /\ t \notin aborted /\ Begun(t) => running
  /\ \A t \in Tasks : Live(t) /\ t \in aborted =>
       task[t] \in {"listening", "failing", "erred"}
  /\ running => (\E c \in Callers : At(c, "lower")) \/ \E t \in Tasks \ aborted : Begun(t)

CalmInv == ~overlap => OneCall /\ OneTask /\ RunningInv

BridgeInv == TypeOK /\ PortInv /\ BornInv /\ RuntimeInv /\ ConnectingInv /\ CalmInv

--------------------------------------------------------------------------------
(* Properties.                                                             *)

\* Nothing is under way and nothing ever overlapped.
Calm == Quiet /\ ~overlap

\* Without overlapping calls, a proxy that listens at rest is one that
\* get_proxy_status and is_proxy_running report and that stop_proxy can reach,
\* whatever failed before.
ListenerIsKnown ==
  Calm /\ port # None => status = "connected" /\ running /\ handle = port

\* Without overlapping calls, is_proxy_running at rest means that a task listens:
\* start_reliz_proxy, which returns at once on the flag, can be tried again.
RunningIsAlive == Calm /\ running => port # None

\* Connected is stored only after a real bind (api.rs:12): at rest it means that
\* somebody listens.
ConnectedIsListening == Calm /\ status = "connected" => port # None

\* The status is not left at Connecting by whatever calls and tasks overlapped, but
\* by a start that panicked (api.rs:51), and then nothing was ever spawned.
NoStuckConnecting ==
  (\A c \in Callers : call[c].pc \in Returned) /\ status = "connecting" =>
    NoRuntime /\ \E c \in Callers : At(c, "panicked")

\* stop_proxy aborts the background task (api.rs:14): without overlapping calls
\* the listener goes, unless somebody starts again.
StopStops ==
  \A c \in Callers :
    At(c, "down") /\ handle = None /\ ~overlap ~> port = None \/ handle # None

\* A call returns, whether the bind succeeds, fails or is never attempted.
CallsReturn ==
  \A c \in Callers : call[c].pc \notin Returned ~> call[c].pc \in Returned

\* What was aborted ends, at whatever point of its life the abort found it.
AbortedEnds == \A t \in Tasks : t \in aborted ~> task[t] \in Dead
================================================================================
