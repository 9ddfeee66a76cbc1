------------------------------ MODULE TunLifecycle ------------------------------
(***************************************************************************)
(* The life of ghost-tun on Android.  RelizVpnService establishes a TUN    *)
(* interface and hands the number of its descriptor to start_tun, which    *)
(* spawns TunProcessor::run on the runtime; stop_tun asks for its abort    *)
(* and the service closes the descriptor at once.  The main loop is        *)
(* dropped at its next await, sessions and writer are tasks of their own   *)
(* and go on, and all of them use the number (TunDevice keeps a RawFd),    *)
(* whatever file it names by then.                                         *)
(*                                                                         *)
(* A TUN is known by the order in which it was established.                *)
(***************************************************************************)
EXTENDS Naturals, FiniteSets

CONSTANTS
  MaxTuns,      \* bound on the TUN interfaces established
  MaxCommands,  \* bound on what is asked of the service
  Numbers,      \* the descriptor numbers that come into play
  MaxOther,     \* bound on the files other parts of the process open
  MaxOpen,      \* bound on the sessions of a TUN at a time
  MaxQueued     \* bound on the packets a session leaves to the writer

ASSUME LifecycleAssumption ==
  /\ {MaxTuns, MaxCommands, MaxOther, MaxOpen, MaxQueued} \subseteq Nat
  /\ Numbers \subseteq Nat /\ IsFiniteSet(Numbers) /\ 0 \notin Numbers

VARIABLES
  svc,      \* RelizVpnService: its place in a callback, running, tun, its end
  file,     \* what each number names
  handle,   \* TUN_TASK
  aborted,  \* tasks whose abort was asked for
  loop,     \* the task of start_tun: the main loop of run()
  fd,       \* the number its TunDevice uses
  watched,  \* the TUNs in the runtime's epoll, each with the device that put it there
  ready,    \* its writer knows the descriptor as writable
  open,     \* sessions, that is, their senders to the writer
  queued,   \* packets in the writer's channel
  writer,   \* tun_write_task
  count,    \* TUNs established, commands given and other files opened so far
  reused    \* history: a number was given out while a device still used it

tasks == <<loop, fd, watched, ready, open, queued, writer>>
vars == <<svc, file, handle, aborted, tasks, count, reused>>

None == 0
Tuns == 1 .. MaxTuns
Other == MaxTuns + 1

TypeOK ==
  /\ svc \in [pc : {"idle", "start", "stop", "close"}, running : BOOLEAN,
              tun : Numbers \cup {None}, fate : {"none", "due", "dying"}]
  /\ file \in [Numbers -> Tuns \cup {None, Other}]
  /\ handle \in Tuns \cup {None} /\ aborted \subseteq Tuns
  /\ loop \in [Tuns -> {"unborn", "spawned", "begins", "waits", "polls", "joins",
                    "ended", "failed"}]
  /\ fd \in [Tuns -> Numbers \cup {None}]
  /\ watched \in [Tuns -> Tuns \cup {None}] /\ ready \subseteq Tuns
  /\ open \in [Tuns -> 0 .. MaxOpen] /\ queued \in [Tuns -> 0 .. MaxQueued + MaxOpen]
  /\ writer \in [Tuns -> {"unborn", "runs", "ended"}]
  /\ count \in [tuns : 0 .. MaxTuns, commands : 0 .. MaxCommands, other : 0 .. MaxOther]
  /\ reused \in BOOLEAN

Init ==
  /\ svc = [pc |-> "idle", running |-> FALSE, tun |-> None, fate |-> "none"]
  /\ file = [n \in Numbers |-> None] /\ handle = None /\ aborted = {}
  /\ loop = [t \in Tuns |-> "unborn"] /\ fd = [t \in Tuns |-> None]
  /\ watched = [t \in Tuns |-> None] /\ ready = {}
  /\ open = [t \in Tuns |-> 0] /\ queued = [t \in Tuns |-> 0]
  /\ writer = [t \in Tuns |-> "unborn"]
  /\ count = [tuns |-> 0, commands |-> 0, other |-> 0] /\ reused = FALSE

--------------------------------------------------------------------------------
(* The process's descriptors.                                              *)

\* A task that may still use the number: a loop or the writer it spawned.
Alive(t) == loop[t] \notin {"unborn", "ended", "failed"} \/ writer[t] = "runs"

\* The kernel gives out the lowest number that is free.
Lowest(n) == file[n] = None /\ \A m \in Numbers : m < n => file[m] # None

Give(n, f) ==
  /\ Lowest(n) /\ file' = [file EXCEPT ![n] = f]
  /\ reused' = (reused \/ \E t \in Tuns : Alive(t) /\ fd[t] = n)

\* Sockets of the proxy, files of the app.
OtherOpens ==
  /\ count.other < MaxOther /\ count' = [count EXCEPT !.other = @ + 1]
  /\ \E n \in Numbers : Give(n, Other)
  /\ UNCHANGED <<svc, handle, aborted, tasks>>

OtherCloses ==
  /\ \E n \in Numbers : file[n] = Other /\ file' = [file EXCEPT ![n] = None]
  /\ UNCHANGED <<svc, handle, aborted, tasks, count, reused>>

--------------------------------------------------------------------------------
(* RelizVpnService, on the app's main thread.                              *)

Command == svc.pc = "idle" /\ count.commands < MaxCommands

\* stopVpn from its start, and where a callback goes on with it.
Stopping(s) == [s EXCEPT !.pc = "stop", !.running = FALSE]

\* startVpn up to the fields it sets: not when running, and establish() may fail.
Establish ==
  /\ Command /\ ~svc.running
  /\ \/ /\ svc' = Stopping(svc) /\ UNCHANGED <<file, reused>>
        /\ count' = [count EXCEPT !.commands = @ + 1]
     \/ /\ count.tuns < MaxTuns
        /\ count' = [count EXCEPT !.commands = @ + 1, !.tuns = @ + 1]
        /\ \E n \in Numbers :
             /\ Give(n, count'.tuns)
             /\ svc' = [svc EXCEPT !.pc = "start", !.running = TRUE, !.tun = n]
  /\ UNCHANGED <<handle, aborted, tasks>>

\* start_tun spawns and keeps the handle, unless the library does not load.
StartTun ==
  /\ svc.pc = "start"
  /\ \/ /\ svc' = Stopping(svc) /\ UNCHANGED <<handle, loop, fd>>
     \/ LET t == count.tuns IN
        /\ handle' = t
        /\ loop' = [loop EXCEPT ![t] = "spawned"] /\ fd' = [fd EXCEPT ![t] = svc.tun]
        /\ svc' = [svc EXCEPT !.pc = "idle"]
  /\ UNCHANGED <<file, aborted, watched, ready, open, queued, writer, count, reused>>

\* ACTION_DISCONNECT from the app or the notification, and onRevoke.
Stop ==
  /\ Command /\ svc' = Stopping(svc)
  /\ count' = [count EXCEPT !.commands = @ + 1]
  /\ UNCHANGED <<file, handle, aborted, tasks, reused>>

\* onDestroy, some time after stopSelf; a start that was on its way comes before it.
Destroy ==
  /\ svc.pc = "idle" /\ svc.fate = "due"
  /\ svc' = [Stopping(svc) EXCEPT !.fate = "dying"]
  /\ UNCHANGED <<file, handle, aborted, tasks, count, reused>>

\* Mutant: lets go of the handle without an abort.
StopTunDetaches ==
  /\ svc.pc = "stop" /\ svc' = [svc EXCEPT !.pc = "close"]
  /\ handle' = None /\ UNCHANGED aborted
  /\ UNCHANGED <<file, tasks, count, reused>>

StopTun ==
  /\ svc.pc = "stop" /\ svc' = [svc EXCEPT !.pc = "close"]
  /\ handle' = None /\ aborted' = aborted \cup ({handle} \ {None})
  /\ UNCHANGED <<file, tasks, count, reused>>

\* Mutant: forgets to close what it has.
CloseTunForgotten ==
  /\ svc.pc = "close"
  /\ svc' = [svc EXCEPT !.pc = "idle", !.tun = None,
                        !.fate = IF @ = "dying" THEN "none" ELSE "due"]
  /\ UNCHANGED <<file, handle, aborted, tasks, count, reused>>

CloseTun ==
  /\ svc.pc = "close"
  /\ file' = [n \in Numbers |-> IF n = svc.tun THEN None ELSE file[n]]
  /\ svc' = [svc EXCEPT !.pc = "idle", !.tun = None,
                        !.fate = IF @ = "dying" THEN "none" ELSE "due"]
  /\ UNCHANGED <<handle, aborted, tasks, count, reused>>

--------------------------------------------------------------------------------
(* The tasks of TUN t.                                                     *)

\* What its descriptor number names by now.
At(t) == file[fd[t]]

\* The reactor tells this device of the TUN that its number names.
Registered(t) == At(t) \in Tuns /\ watched[At(t)] = t

\* Mutant: reads a descriptor left blocking, so that a wait is no await.
LoopDroppedUnlessReading(t) ==
  /\ t \in aborted /\ loop[t] \in {"spawned", "joins"}
  /\ loop' = [loop EXCEPT ![t] = "ended"]
  /\ UNCHANGED <<svc, file, handle, aborted, fd, watched, ready, open, queued, writer, count, reused>>

\* An aborted task is dropped between two polls; its device, tun_tx and NAT table
\* go with it.
LoopDropped(t) ==
  /\ t \in aborted /\ loop[t] \in {"spawned", "waits", "joins"}
  /\ loop' = [loop EXCEPT ![t] = "ended"]
  /\ UNCHANGED <<svc, file, handle, aborted, fd, watched, ready, open, queued, writer, count, reused>>

LoopPolled(t) ==
  /\ t \notin aborted /\ loop[t] = "spawned"
  /\ loop' = [loop EXCEPT ![t] = "begins"]
  /\ UNCHANGED <<svc, file, handle, aborted, fd, watched, ready, open, queued, writer, count, reused>>

\* TunDevice::new, and the writer.  It fails on a closed number, and may fail on any
\* file (fcntl, epoll_ctl); a TUN is in the epoll once, so a second device that comes
\* to it fails.  start_tun's task logs the error, and nobody else hears of it.
LoopBegins(t) ==
  /\ loop[t] = "begins"
  /\ \/ loop' = [loop EXCEPT ![t] = "failed"] /\ UNCHANGED <<writer, watched>>
     \/ /\ At(t) # None /\ (At(t) \in Tuns => watched[At(t)] = None)
        /\ loop' = [loop EXCEPT ![t] = "waits"]
        /\ writer' = [writer EXCEPT ![t] = "runs"]
        /\ watched' = [u \in Tuns |-> IF u = At(t) THEN t ELSE watched[u]]
  /\ UNCHANGED <<svc, file, handle, aborted, fd, ready, open, queued, count, reused>>

\* The reactor wakes a loop that registered.
LoopWakes(t) ==
  /\ t \notin aborted /\ loop[t] = "waits" /\ Registered(t)
  /\ loop' = [loop EXCEPT ![t] = "polls"]
  /\ UNCHANGED <<svc, file, handle, aborted, fd, watched, ready, open, queued, writer, count, reused>>

\* A packet was read, of whatever TUN the number names; a SYN opens a session.
LoopReads(t) ==
  /\ loop[t] = "polls" /\ At(t) \in Tuns
  /\ open[t] < MaxOpen /\ queued[t] <= MaxQueued
  /\ open' = [open EXCEPT ![t] = @ + 1]
  /\ UNCHANGED <<svc, file, handle, aborted, loop, fd, watched, ready, queued, writer, count, reused>>

\* Mutant: takes "would block" for the end of the file.
LoopPausesForGood(t) ==
  /\ loop[t] = "polls" /\ At(t) # None
  /\ loop' = [loop EXCEPT ![t] = "joins"]
  /\ UNCHANGED <<svc, file, handle, aborted, fd, watched, ready, open, queued, writer, count, reused>>

\* Nothing to read.  From a closed number read() returns an error, which leaves the
\* device ready: the loop goes on within its poll and is not dropped.
LoopPauses(t) ==
  /\ loop[t] = "polls" /\ At(t) # None
  /\ loop' = [loop EXCEPT ![t] = "waits"]
  /\ UNCHANGED <<svc, file, handle, aborted, fd, watched, ready, open, queued, writer, count, reused>>

\* Another file that is at its end; run() then waits for the writer, to which it
\* holds a sender itself.
LoopJoins(t) ==
  /\ loop[t] = "polls" /\ At(t) = Other
  /\ loop' = [loop EXCEPT ![t] = "joins"]
  /\ UNCHANGED <<svc, file, handle, aborted, fd, watched, ready, open, queued, writer, count, reused>>

SessionSends(t) ==
  /\ open[t] > 0 /\ queued[t] < MaxQueued
  /\ queued' = [queued EXCEPT ![t] = @ + 1]
  /\ UNCHANGED <<svc, file, handle, aborted, loop, fd, watched, ready, open, writer, count, reused>>

\* With a FIN, or a RST when SOCKS5 failed.
SessionEnds(t) ==
  /\ open[t] > 0 /\ open' = [open EXCEPT ![t] = @ - 1]
  /\ queued' = [queued EXCEPT ![t] = @ + 1]
  /\ UNCHANGED <<svc, file, handle, aborted, loop, fd, watched, ready, writer, count, reused>>

\* The reactor reports the TUN writable, as long as it is registered.
Writable(t) ==
  /\ writer[t] = "runs" /\ Registered(t)
  /\ ready' = ready \cup {t}
  /\ UNCHANGED <<svc, file, handle, aborted, loop, fd, watched, open, queued, writer, count, reused>>

\* Written to what the number names, or an error; another file may not take it, and
\* the writer then waits for a report.
Write(t) ==
  /\ writer[t] = "runs" /\ queued[t] > 0 /\ t \in ready
  /\ \/ queued' = [queued EXCEPT ![t] = @ - 1] /\ UNCHANGED ready
     \/ At(t) = Other /\ ready' = ready \ {t} /\ UNCHANGED queued
  /\ UNCHANGED <<svc, file, handle, aborted, loop, fd, watched, open, writer, count, reused>>

\* Mutant: a device that owns its descriptor and closes the number with itself.
WriterEndsAndCloses(t) ==
  /\ writer[t] = "runs" /\ queued[t] = 0 /\ open[t] = 0 /\ loop[t] = "ended"
  /\ writer' = [writer EXCEPT ![t] = "ended"]
  /\ watched' = [u \in Tuns |-> IF u = At(t) THEN None ELSE watched[u]]
  /\ file' = [file EXCEPT ![fd[t]] = None]
  /\ UNCHANGED <<svc, handle, aborted, loop, fd, ready, open, queued, count, reused>>

\* All senders are gone, and the device with the last of its two owners.  Dropping
\* its AsyncFd takes the number, whatever it names, out of the epoll.
WriterEnds(t) ==
  /\ writer[t] = "runs" /\ queued[t] = 0 /\ open[t] = 0 /\ loop[t] = "ended"
  /\ writer' = [writer EXCEPT ![t] = "ended"]
  /\ watched' = [u \in Tuns |-> IF u = At(t) THEN None ELSE watched[u]]
  /\ UNCHANGED <<svc, file, handle, aborted, loop, fd, ready, open, queued, count, reused>>

--------------------------------------------------------------------------------
Callback == StartTun \/ StopTun \/ CloseTun

Loop(t) == LoopDropped(t) \/ LoopPolled(t) \/ LoopBegins(t) \/ LoopPauses(t)

Next ==
  \/ Establish \/ Stop \/ Destroy \/ Callback \/ OtherOpens \/ OtherCloses
  \/ \E t \in Tuns :
       \/ Loop(t) \/ LoopWakes(t) \/ LoopReads(t) \/ LoopJoins(t)
       \/ SessionSends(t) \/ SessionEnds(t) \/ Writable(t) \/ Write(t) \/ WriterEnds(t)

Spec == Init /\ [][Next]_vars

\* A callback runs to its end, destruction comes, tasks are polled, and a session
\* ends when its queue was dropped with the NAT table: it shuts its stream down, and
\* the proxy's relay then ends both directions (GhostTunnel!RelaysReleased).
FairSpec ==
  /\ Spec /\ WF_vars(Callback) /\ WF_vars(Destroy)
  /\ \A t \in Tuns :
       /\ WF_vars(Loop(t)) /\ WF_vars(Writable(t)) /\ WF_vars(Write(t)) /\ WF_vars(WriterEnds(t))
       /\ WF_vars(loop[t] = "ended" /\ SessionEnds(t))

--------------------------------------------------------------------------------
(* The inductive invariant.                                                *)

\* A session that ends leaves one packet in the place it held.
QueueInv == \A t \in Tuns : open[t] + queued[t] <= MaxOpen + MaxQueued

\* The one TUN that is open is the last one established, under svc.tun.
OpenInv ==
  /\ \A n \in Numbers : file[n] \in Tuns <=> n = svc.tun
  /\ svc.tun # None => file[svc.tun] = count.tuns
  /\ svc.running => svc.tun # None
  /\ svc.pc = "start" => svc.running
  /\ svc.pc = "idle" => (svc.tun # None => svc.running)
  /\ svc.pc \in {"stop", "close"} => ~svc.running

\* The handle is that of the open TUN, whose loop goes on or never could begin; of
\* the others there was no loop, or its abort was asked for.
HandleInv ==
  /\ handle # None =>
       /\ handle = count.tuns /\ handle \notin aborted
       /\ svc.tun # None /\ fd[handle] = svc.tun
       /\ loop[handle] \in {"spawned", "begins", "waits", "polls", "failed"}
  /\ \A t \in Tuns \ aborted : t # handle => loop[t] = "unborn"
  /\ \A t \in aborted : t <= count.tuns /\ (svc.pc = "start" => t # count.tuns)
  /\ svc.pc \in {"start", "close"} => handle = None
  /\ svc.pc = "idle" => (svc.running <=> handle # None)

\* A number that was never reused names the TUN of the device that uses it, or
\* nothing: no device takes another one's TUN out of the epoll.
LentInv ==
  /\ \A t \in Tuns : Alive(t) => fd[t] \in Numbers
  /\ ~reused =>
       /\ \A t \in Tuns : Alive(t) => At(t) \in {t, None}
       /\ handle # None /\ loop[handle] \in {"waits", "polls"} => watched[handle] = handle

LifeInv == TypeOK /\ QueueInv /\ OpenInv /\ HandleInv /\ LentInv

--------------------------------------------------------------------------------
(* Properties.                                                             *)

\* Between two callbacks the service has one TUN open while it runs and none when it
\* does not, whatever failed, was repeated or crossed the destruction.
TunIsReleased ==
  svc.pc = "idle" =>
    {n \in Numbers : file[n] \in Tuns} = IF svc.running THEN {svc.tun} ELSE {}

\* A loop that nobody asked to stop is the one stop_tun would find, and it belongs to
\* the TUN that is open: none is left behind by a start, a failure or a restart.  And
\* it goes on, unless its device could not be made (TunDevice::new).
LoopIsKnown ==
  svc.pc = "idle" =>
    \A t \in Tuns \ aborted :
      /\ loop[t] # "unborn" <=> handle = t /\ svc.running /\ fd[t] = svc.tun
      /\ loop[t] \notin {"joins", "ended"}

\* While the VPN is up its TUN is read: the loop is there, on its TUN, and the reactor
\* wakes it; or TunDevice::new failed, which start_tun only logs.  Not so when its
\* number was given out while an older device still held it: the end of that one's
\* writer takes the new TUN out of the epoll.
RunningTunIsRead ==
  svc.pc = "idle" /\ svc.running /\ ~reused =>
    /\ handle \in Tuns /\ file[svc.tun] = handle /\ fd[handle] = svc.tun
    /\ \/ loop[handle] \in {"spawned", "begins", "failed"}
       \/ loop[handle] \in {"waits", "polls"} /\ Registered(handle)

\* Caught by the close: the loop within a poll, reading errors, or the writer before
\* a report that does not come any more.
Caught(t) ==
  \/ loop[t] = "polls" /\ At(t) = None
  \/ writer[t] = "runs" /\ t \notin ready

\* A stopped ghost-tun comes to its end, with all its sessions and packets, unless the
\* close of the descriptor caught it.
StoppedEnds ==
  \A t \in Tuns :
    t \in aborted ~> (~Alive(t) /\ open[t] = 0 /\ queued[t] = 0) \/ Caught(t)
================================================================================
