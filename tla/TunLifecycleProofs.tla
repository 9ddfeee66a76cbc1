-------------------------- MODULE TunLifecycleProofs --------------------------
(***************************************************************************)
(* Proofs about the life of ghost-tun, for any number of TUNs, commands,   *)
(* descriptor numbers, sessions and packets.                               *)
(***************************************************************************)
EXTENDS TunLifecycle, TLAPS

LEMMA Bounds ==
  /\ MaxTuns \in Nat /\ MaxCommands \in Nat /\ MaxOther \in Nat /\ MaxOpen \in Nat
  /\ MaxQueued \in Nat
  BY LifecycleAssumption

LEMMA Apart ==
  /\ None \notin Numbers /\ None \notin Tuns /\ Other \notin Tuns /\ Other # None
  /\ Tuns \subseteq Nat /\ Numbers \subseteq Nat
  BY LifecycleAssumption, Bounds DEF None, Tuns, Other

\* What the tasks of one TUN do, and what the service and the process do.
TaskAction(t) ==
  \/ Loop(t) \/ LoopWakes(t) \/ LoopReads(t) \/ LoopJoins(t)
  \/ SessionSends(t) \/ SessionEnds(t) \/ Writable(t) \/ Write(t) \/ WriterEnds(t)

ServiceAction == Establish \/ Stop \/ Destroy \/ StartTun \/ StopTun \/ CloseTun

LEMMA NextCases ==
  ASSUME Next
  PROVE  ServiceAction \/ OtherOpens \/ OtherCloses \/ \E t \in Tuns : TaskAction(t)
  BY DEF Next, Callback, ServiceAction, TaskAction

LEMMA TaskCases ==
  ASSUME NEW t \in Tuns, TaskAction(t)
  PROVE  \/ LoopDropped(t) \/ LoopPolled(t) \/ LoopBegins(t) \/ LoopPauses(t) \/ LoopWakes(t)
         \/ LoopReads(t) \/ LoopJoins(t) \/ SessionSends(t) \/ SessionEnds(t) \/ Writable(t)
         \/ Write(t) \/ WriterEnds(t)
  BY DEF TaskAction, Loop

--------------------------------------------------------------------------------
(* What a task may change.                                                 *)

LoopState == {"unborn", "spawned", "begins", "waits", "polls", "joins", "ended", "failed"}

\* The loop is dropped, polled, goes on or gives up; only its begin and the end of
\* the writer change who is watched.
LEMMA TaskEffect ==
  ASSUME TypeOK, NEW t \in Tuns, TaskAction(t)
  PROVE  /\ UNCHANGED <<svc, file, handle, aborted, fd, count, reused>>
         /\ \A u \in Tuns : u # t => loop'[u] = loop[u] /\ writer'[u] = writer[u]
         /\ \/ loop'[t] = loop[t]
            \/ loop[t] \in {"spawned", "waits", "joins"} /\ t \in aborted /\ loop'[t] = "ended"
            \/ loop[t] = "spawned" /\ loop'[t] = "begins"
            \/ loop[t] = "begins" /\ loop'[t] = "waits"
            \/ loop[t] = "begins" /\ loop'[t] = "failed"
            \/ loop[t] = "waits" /\ loop'[t] = "polls"
            \/ loop[t] = "polls" /\ loop'[t] = "waits"
            \/ loop[t] = "polls" /\ loop'[t] = "joins" /\ At(t) = Other
         /\ \/ writer'[t] = writer[t]
            \/ loop[t] = "begins" /\ writer'[t] = "runs"
            \/ writer[t] = "runs" /\ writer'[t] = "ended"
         /\ \A u \in Tuns : watched'[u] # watched[u] => u = At(t) /\ Alive(t)
         /\ loop[t] = "begins" /\ loop'[t] = "waits" /\ At(t) = t => watched'[t] = t
         /\ watched'[t] # watched[t] => loop[t] \in {"begins", "ended"}
  <1> USE DEF TypeOK
  <1>1. CASE LoopDropped(t) \/ LoopPolled(t) \/ LoopPauses(t)
    BY <1>1 DEF LoopDropped, LoopPolled, LoopPauses
  <1>2. CASE LoopBegins(t)
    BY <1>2 DEF LoopBegins, Alive
  <1>3. CASE LoopWakes(t) \/ LoopReads(t) \/ LoopJoins(t)
    BY <1>3 DEF LoopWakes, LoopReads, LoopJoins
  <1>4. CASE SessionSends(t) \/ SessionEnds(t) \/ Writable(t) \/ Write(t)
    BY <1>4 DEF SessionSends, SessionEnds, Writable, Write
  <1>5. CASE WriterEnds(t)
    BY <1>5 DEF WriterEnds, Alive
  <1> QED
    BY <1>1, <1>2, <1>3, <1>4, <1>5, TaskCases

\* A packet takes the place it was given, or that of its session.
LEMMA TaskQueue ==
  ASSUME TypeOK, QueueInv, NEW t \in Tuns, TaskAction(t)
  PROVE  /\ QueueInv'
         /\ open' \in [Tuns -> 0 .. MaxOpen] /\ queued' \in [Tuns -> 0 .. MaxQueued + MaxOpen]
  <1>0. /\ open \in [Tuns -> 0 .. MaxOpen] /\ queued \in [Tuns -> 0 .. MaxQueued + MaxOpen]
        /\ \A u \in Tuns : open[u] + queued[u] <= MaxOpen + MaxQueued
        /\ \A u \in Tuns : open[u] \in Nat /\ queued[u] \in Nat
    BY Bounds DEF TypeOK, QueueInv
  <1> DEFINE Moved ==
        /\ open' \in [Tuns -> Nat] /\ queued' \in [Tuns -> Nat]
        /\ \A u \in Tuns : u # t => open'[u] = open[u] /\ queued'[u] = queued[u]
        /\ open'[t] <= MaxOpen /\ open'[t] + queued'[t] <= MaxOpen + MaxQueued
  <1>1. Moved
    <2>0. open \in [Tuns -> Nat] /\ queued \in [Tuns -> Nat] /\ open[t] <= MaxOpen
      BY <1>0, Bounds
    <2>1. CASE LoopReads(t)
      BY <1>0, <2>0, <2>1, Bounds DEF LoopReads
    <2>2. CASE SessionSends(t)
      BY <1>0, <2>0, <2>2, Bounds DEF SessionSends
    <2>3. CASE SessionEnds(t)
      BY <1>0, <2>0, <2>3, Bounds DEF SessionEnds
    <2>4. CASE Write(t)
      BY <1>0, <2>0, <2>4, Bounds DEF Write
    <2>5. CASE \/ LoopDropped(t) \/ LoopPolled(t) \/ LoopBegins(t) \/ LoopPauses(t) \/ LoopWakes(t)
               \/ LoopJoins(t) \/ Writable(t) \/ WriterEnds(t)
      <3>1. UNCHANGED <<open, queued>>
        BY <2>5 DEF LoopDropped, LoopPolled, LoopBegins, LoopPauses, LoopWakes, LoopJoins, Writable,
                    WriterEnds
      <3> QED
        BY <1>0, <2>0, <3>1
    <2> QED
      BY <2>1, <2>2, <2>3, <2>4, <2>5, TaskCases
  <1>2. \A u \in Tuns : open'[u] \in Nat /\ queued'[u] \in Nat
    BY <1>1
  <1>3. \A u \in Tuns : open'[u] <= MaxOpen /\ open'[u] + queued'[u] <= MaxOpen + MaxQueued
    BY <1>0, <1>1
  <1>4. \A u \in Tuns : open'[u] \in 0 .. MaxOpen /\ queued'[u] \in 0 .. MaxQueued + MaxOpen
    BY <1>2, <1>3, Bounds
  <1> QED
    BY <1>1, <1>3, <1>4 DEF QueueInv

LEMMA TypeTask ==
  ASSUME TypeOK, QueueInv, NEW t \in Tuns, TaskAction(t)
  PROVE  TypeOK' /\ QueueInv'
  <1>1. UNCHANGED <<svc, file, handle, aborted, fd, count, reused>>
    BY TaskEffect
  <1>2. /\ QueueInv'
        /\ open' \in [Tuns -> 0 .. MaxOpen] /\ queued' \in [Tuns -> 0 .. MaxQueued + MaxOpen]
    BY TaskQueue
  <1>3. /\ loop' \in [Tuns -> LoopState] /\ writer' \in [Tuns -> {"unborn", "runs", "ended"}]
        /\ watched' \in [Tuns -> Tuns \cup {None}] /\ ready' \subseteq Tuns
    <2> USE DEF TypeOK, LoopState
    <2>1. CASE LoopDropped(t) \/ LoopPolled(t) \/ LoopPauses(t)
      BY <2>1 DEF LoopDropped, LoopPolled, LoopPauses
    <2>2. CASE LoopBegins(t)
      BY <2>2 DEF LoopBegins
    <2>3. CASE LoopWakes(t) \/ LoopReads(t) \/ LoopJoins(t)
      BY <2>3 DEF LoopWakes, LoopReads, LoopJoins
    <2>4. CASE SessionSends(t) \/ SessionEnds(t) \/ Writable(t) \/ Write(t)
      BY <2>4 DEF SessionSends, SessionEnds, Writable, Write
    <2>5. CASE WriterEnds(t)
      BY <2>5 DEF WriterEnds
    <2> QED
      BY <2>1, <2>2, <2>3, <2>4, <2>5, TaskCases
  <1> QED
    BY <1>1, <1>2, <1>3 DEF TypeOK, LoopState

--------------------------------------------------------------------------------
(* What the service and the rest of the process do.                        *)

SvcRecord == [pc : {"idle", "start", "stop", "close"}, running : BOOLEAN,
              tun : Numbers \cup {None}, fate : {"none", "due", "dying"}]
CountRecord == [tuns : 0 .. MaxTuns, commands : 0 .. MaxCommands, other : 0 .. MaxOther]

LEMMA StoppingEffect ==
  ASSUME svc \in SvcRecord
  PROVE  /\ Stopping(svc) \in SvcRecord
         /\ Stopping(svc).pc = "stop" /\ ~Stopping(svc).running
         /\ Stopping(svc).tun = svc.tun /\ Stopping(svc).fate = svc.fate
  BY DEF Stopping, SvcRecord

\* startVpn: it fails, or a new TUN is open under a number that was free.
LEMMA EstablishEffect ==
  ASSUME TypeOK, Establish
  PROVE  /\ svc.pc = "idle" /\ ~svc.running /\ UNCHANGED <<handle, aborted, tasks>>
         /\ svc' \in SvcRecord /\ count' \in CountRecord
         /\ \/ /\ svc'.pc = "stop" /\ ~svc'.running /\ svc'.tun = svc.tun
               /\ count'.tuns = count.tuns /\ UNCHANGED <<file, reused>>
            \/ /\ svc'.pc = "start" /\ svc'.running /\ svc'.tun \in Numbers
               /\ count'.tuns = count.tuns + 1 /\ count'.tuns \in Tuns
               /\ Give(svc'.tun, count'.tuns)
  <1> USE Bounds, Apart DEF TypeOK, SvcRecord, CountRecord
  <1>1. /\ svc.pc = "idle" /\ ~svc.running /\ UNCHANGED <<handle, aborted, tasks>>
        /\ count.commands < MaxCommands
    BY DEF Establish, Command
  <1>2. CASE /\ svc' = Stopping(svc) /\ UNCHANGED <<file, reused>>
             /\ count' = [count EXCEPT !.commands = @ + 1]
    <2>1. count' \in CountRecord /\ count'.tuns = count.tuns
      BY <1>1, <1>2
    <2> QED
      BY <1>1, <1>2, <2>1, StoppingEffect
  <1>3. ASSUME NEW n \in Numbers, count.tuns < MaxTuns,
               count' = [count EXCEPT !.commands = @ + 1, !.tuns = @ + 1],
               Give(n, count'.tuns),
               svc' = [svc EXCEPT !.pc = "start", !.running = TRUE, !.tun = n]
        PROVE  /\ svc' \in SvcRecord /\ count' \in CountRecord
               /\ svc'.pc = "start" /\ svc'.running /\ svc'.tun \in Numbers
               /\ count'.tuns = count.tuns + 1 /\ count'.tuns \in Tuns
               /\ Give(svc'.tun, count'.tuns)
    <2>0. count' = [tuns |-> count.tuns + 1, commands |-> count.commands + 1, other |-> count.other]
      BY <1>3
    <2>1. count' \in CountRecord /\ count'.tuns = count.tuns + 1
      <3>1. count.tuns + 1 \in 0 .. MaxTuns /\ count.commands + 1 \in 0 .. MaxCommands
            /\ count.other \in 0 .. MaxOther
        BY <1>1, <1>3
      <3> QED
        BY <2>0, <3>1
    <2>2. count'.tuns \in Tuns
      BY <1>3, <2>1 DEF Tuns
    <2>3. svc' \in SvcRecord /\ svc'.pc = "start" /\ svc'.running /\ svc'.tun = n
      BY <1>3
    <2> QED
      BY <1>3, <2>1, <2>2, <2>3
  <1> QED
    BY <1>1, <1>2, <1>3 DEF Establish

LEMMA StopEffect ==
  ASSUME TypeOK, Stop \/ Destroy
  PROVE  /\ svc.pc = "idle" /\ UNCHANGED <<file, handle, aborted, tasks, reused>>
         /\ svc' \in SvcRecord /\ svc'.pc = "stop" /\ ~svc'.running /\ svc'.tun = svc.tun
         /\ count' \in CountRecord /\ count'.tuns = count.tuns
  <1>1. svc \in SvcRecord /\ count \in CountRecord
    BY DEF TypeOK, SvcRecord, CountRecord
  <1>2. CASE Stop
    <2>1. count' \in CountRecord /\ count'.tuns = count.tuns
      BY <1>1, <1>2, Bounds DEF Stop, Command, CountRecord
    <2> QED
      BY <1>1, <1>2, <2>1, StoppingEffect DEF Stop, Command
  <1>3. CASE Destroy
    <2>1. /\ svc' \in SvcRecord /\ svc'.pc = "stop" /\ ~svc'.running /\ svc'.tun = svc.tun
      BY <1>1, <1>3, StoppingEffect DEF Destroy, SvcRecord
    <2> QED
      BY <1>1, <1>3, <2>1 DEF Destroy
  <1> QED
    BY <1>2, <1>3

LEMMA StartTunEffect ==
  ASSUME TypeOK, OpenInv, StartTun
  PROVE  /\ svc.pc = "start"
         /\ UNCHANGED <<file, aborted, watched, ready, open, queued, writer, count, reused>>
         /\ svc' \in SvcRecord /\ svc'.tun = svc.tun
         /\ svc.tun \in Numbers /\ count.tuns \in Tuns
         /\ \/ svc'.pc = "stop" /\ ~svc'.running /\ UNCHANGED <<handle, loop, fd>>
            \/ /\ svc'.pc = "idle" /\ svc'.running /\ handle' = count.tuns
               /\ loop' = [loop EXCEPT ![count.tuns] = "spawned"]
               /\ fd' = [fd EXCEPT ![count.tuns] = svc.tun]
  <1>1. svc \in SvcRecord
    BY DEF TypeOK, SvcRecord
  <1>2. /\ svc.pc = "start" /\ svc.running
        /\ UNCHANGED <<file, aborted, watched, ready, open, queued, writer, count, reused>>
    BY DEF StartTun, OpenInv
  <1>3. svc.tun \in Numbers /\ count.tuns \in Tuns
    BY <1>1, <1>2 DEF OpenInv, SvcRecord
  <1>4. CASE svc' = Stopping(svc) /\ UNCHANGED <<handle, loop, fd>>
    BY <1>1, <1>2, <1>3, <1>4, StoppingEffect
  <1>5. CASE /\ svc' = [svc EXCEPT !.pc = "idle"] /\ handle' = count.tuns
             /\ loop' = [loop EXCEPT ![count.tuns] = "spawned"]
             /\ fd' = [fd EXCEPT ![count.tuns] = svc.tun]
    <2>1. svc' \in SvcRecord /\ svc'.pc = "idle" /\ svc'.running /\ svc'.tun = svc.tun
      BY <1>1, <1>2, <1>5 DEF SvcRecord
    <2> QED
      BY <1>2, <1>3, <1>5, <2>1
  <1> QED
    BY <1>4, <1>5 DEF StartTun

LEMMA StopTunEffect ==
  ASSUME TypeOK, StopTun
  PROVE  /\ svc.pc = "stop" /\ UNCHANGED <<file, tasks, count, reused>>
         /\ svc' \in SvcRecord /\ svc'.pc = "close" /\ svc'.tun = svc.tun
         /\ svc'.running = svc.running
         /\ handle' = None /\ aborted' = aborted \cup ({handle} \ {None})
  <1>1. /\ svc' \in SvcRecord /\ svc'.pc = "close" /\ svc'.tun = svc.tun
        /\ svc'.running = svc.running
    BY DEF TypeOK, StopTun, SvcRecord
  <1> QED
    BY <1>1 DEF StopTun

LEMMA CloseTunEffect ==
  ASSUME TypeOK, CloseTun
  PROVE  /\ svc.pc = "close" /\ UNCHANGED <<handle, aborted, tasks, count, reused>>
         /\ svc' \in SvcRecord /\ svc'.pc = "idle" /\ svc'.tun = None
         /\ svc'.running = svc.running
         /\ file' = [n \in Numbers |-> IF n = svc.tun THEN None ELSE file[n]]
  <1>1. /\ svc' \in SvcRecord /\ svc'.pc = "idle" /\ svc'.tun = None
        /\ svc'.running = svc.running
    BY DEF TypeOK, CloseTun, SvcRecord
  <1> QED
    BY <1>1 DEF CloseTun

\* The rest of the process opens and closes files that are no TUNs.
LEMMA OtherEffect ==
  ASSUME TypeOK, OtherOpens \/ OtherCloses
  PROVE  /\ UNCHANGED <<svc, handle, aborted, tasks>>
         /\ count' \in CountRecord /\ count'.tuns = count.tuns
         /\ \E n \in Numbers :
              \/ Give(n, Other)
              \/ file[n] = Other /\ file' = [file EXCEPT ![n] = None] /\ reused' = reused
  <1>1. count \in CountRecord
    BY DEF TypeOK, CountRecord
  <1>2. CASE OtherOpens
    <2>1. count' \in CountRecord /\ count'.tuns = count.tuns
      BY <1>1, <1>2, Bounds DEF OtherOpens, CountRecord
    <2> QED
      BY <1>2, <2>1 DEF OtherOpens
  <1>3. CASE OtherCloses
    BY <1>1, <1>3 DEF OtherCloses
  <1> QED
    BY <1>2, <1>3

LEMMA GiveEffect ==
  ASSUME TypeOK, NEW n \in Numbers, NEW f \in Tuns \cup {Other}, Give(n, f)
  PROVE  /\ file[n] = None /\ file' \in [Numbers -> Tuns \cup {None, Other}]
         /\ file'[n] = f /\ \A m \in Numbers : m # n => file'[m] = file[m]
         /\ reused' \in BOOLEAN
         /\ ~reused' => ~reused /\ \A t \in Tuns : Alive(t) => fd[t] # n
  BY DEF TypeOK, Give, Lowest

--------------------------------------------------------------------------------
(* The inductive invariant, part by part.                                  *)

LEMMA TypeService ==
  ASSUME TypeOK, OpenInv, ServiceAction \/ OtherOpens \/ OtherCloses
  PROVE  TypeOK'
  <1> USE DEF TypeOK, SvcRecord, CountRecord, LoopState, tasks
  <1>1. CASE Establish
    <2>1. file' \in [Numbers -> Tuns \cup {None, Other}] /\ reused' \in BOOLEAN
      BY <1>1, EstablishEffect, GiveEffect
    <2>2. UNCHANGED <<handle, aborted, tasks>> /\ svc' \in SvcRecord /\ count' \in CountRecord
      BY <1>1, EstablishEffect
    <2> QED
      BY <2>1, <2>2
  <1>2. CASE Stop \/ Destroy
    BY <1>2, StopEffect
  <1>3. CASE StartTun
    <2>1. /\ UNCHANGED <<file, aborted, watched, ready, open, queued, writer, count, reused>>
          /\ svc' \in SvcRecord
      BY <1>3, StartTunEffect
    <2>2. /\ handle' \in Tuns \cup {None} /\ fd' \in [Tuns -> Numbers \cup {None}]
          /\ loop' \in [Tuns -> LoopState]
      BY <1>3, StartTunEffect
    <2> QED
      BY <2>1, <2>2
  <1>4. CASE StopTun
    BY <1>4, StopTunEffect
  <1>5. CASE CloseTun
    <2>1. file' \in [Numbers -> Tuns \cup {None, Other}]
      BY <1>5, CloseTunEffect
    <2> QED
      BY <1>5, <2>1, CloseTunEffect
  <1>6. CASE OtherOpens \/ OtherCloses
    <2>1. file' \in [Numbers -> Tuns \cup {None, Other}] /\ reused' \in BOOLEAN
      BY <1>6, OtherEffect, GiveEffect
    <2> QED
      BY <1>6, <2>1, OtherEffect
  <1> QED
    BY <1>1, <1>2, <1>3, <1>4, <1>5, <1>6 DEF ServiceAction

LEMMA OpenStep ==
  ASSUME TypeOK, OpenInv, [Next]_vars
  PROVE  OpenInv'
  <1> USE DEF OpenInv
  <1>1. CASE Establish
    <2>1. CASE svc'.pc = "stop"
      BY <1>1, <2>1, EstablishEffect, Apart
    <2>2. CASE svc'.pc = "start"
      <3>1. /\ svc'.running /\ svc'.tun \in Numbers /\ count'.tuns \in Tuns
            /\ Give(svc'.tun, count'.tuns) /\ svc.pc = "idle" /\ ~svc.running
        BY <1>1, <2>2, EstablishEffect
      <3>2. \A n \in Numbers : file[n] \notin Tuns
        BY <3>1, Apart
      <3>3. /\ file'[svc'.tun] = count'.tuns
            /\ \A m \in Numbers : m # svc'.tun => file'[m] = file[m]
        BY <3>1, GiveEffect
      <3> QED
        BY <2>2, <3>1, <3>2, <3>3, Apart
    <2> QED
      BY <1>1, <2>1, <2>2, EstablishEffect
  <1>2. CASE Stop \/ Destroy
    BY <1>2, StopEffect
  <1>3. CASE StartTun
    BY <1>3, StartTunEffect
  <1>4. CASE StopTun
    BY <1>4, StopTunEffect
  <1>5. CASE CloseTun
    BY <1>5, CloseTunEffect, Apart
  <1>6. CASE OtherOpens \/ OtherCloses
    <2>0. svc.tun \in Numbers \cup {None}
      BY DEF TypeOK
    <2>1. \A n \in Numbers :
            (file'[n] \in Tuns <=> file[n] \in Tuns) /\ (file[n] \in Tuns => file'[n] = file[n])
      <3>1. PICK n \in Numbers :
              \/ Give(n, Other)
              \/ file[n] = Other /\ file' = [file EXCEPT ![n] = None] /\ reused' = reused
        BY <1>6, OtherEffect
      <3>2. file[n] \notin Tuns /\ file'[n] \notin Tuns /\ \A m \in Numbers : m # n => file'[m] = file[m]
        <4>1. CASE Give(n, Other)
          <5>1. file[n] = None /\ file'[n] = Other /\ \A m \in Numbers : m # n => file'[m] = file[m]
            BY <4>1, GiveEffect
          <5> QED
            BY <5>1, Apart
        <4>2. CASE file[n] = Other /\ file' = [file EXCEPT ![n] = None]
          <5>1. file'[n] = None /\ \A m \in Numbers : m # n => file'[m] = file[m]
            BY <4>2 DEF TypeOK
          <5> QED
            BY <4>2, <5>1, Apart
        <4> QED
          BY <3>1, <4>1, <4>2
      <3> QED
        BY <3>2
    <2> QED
      BY <1>6, <2>0, <2>1, OtherEffect
  <1>7. CASE \E t \in Tuns : TaskAction(t)
    BY <1>7, TaskEffect
  <1>8. CASE UNCHANGED vars
    BY <1>8 DEF vars
  <1> QED
    BY <1>1, <1>2, <1>3, <1>4, <1>5, <1>6, <1>7, <1>8, NextCases DEF ServiceAction

\* The loop of the handle goes on: its TUN is open, and nobody asked for its abort.
LEMMA HandleGoesOn ==
  ASSUME TypeOK, OpenInv, HandleInv, NEW t \in Tuns, TaskAction(t), handle # None
  PROVE  /\ At(handle) = handle
         /\ loop'[handle] \in {"spawned", "begins", "waits", "polls", "failed"}
  <1>1. handle \in Tuns /\ At(handle) = handle
    BY DEF TypeOK, OpenInv, HandleInv, At
  <1>2. Other # handle
    BY <1>1, Apart
  <1>3. CASE t = handle
    BY <1>1, <1>2, <1>3, TaskEffect DEF HandleInv
  <1>4. CASE t # handle
    BY <1>1, <1>4, TaskEffect DEF HandleInv
  <1> QED
    BY <1>1, <1>3, <1>4

LEMMA HandleStep ==
  ASSUME TypeOK, OpenInv, HandleInv, [Next]_vars
  PROVE  HandleInv'
  <1>0. /\ handle \in Tuns \cup {None} /\ aborted \subseteq Tuns /\ None \notin Tuns
        /\ Tuns \subseteq Nat /\ count.tuns \in Nat
    BY Apart, Bounds DEF TypeOK
  <1> USE DEF HandleInv, tasks
  <1>1. CASE Establish
    <2>1. UNCHANGED <<handle, aborted, loop, fd>> /\ handle = None
      BY <1>1, EstablishEffect
    <2>2. \A t \in aborted : t <= count'.tuns /\ (svc'.pc = "start" => t # count'.tuns)
      BY <1>0, <1>1, EstablishEffect
    <2>3. svc'.pc \in {"stop", "start"}
      BY <1>1, EstablishEffect
    <2> QED
      BY <2>1, <2>2, <2>3
  <1>2. CASE Stop \/ Destroy
    BY <1>2, StopEffect
  <1>3. CASE StartTun
    <2>1. CASE svc'.pc = "stop"
      BY <1>3, <2>1, StartTunEffect
    <2>2. CASE svc'.pc = "idle"
      <3>1. /\ handle' = count.tuns /\ count.tuns \in Tuns /\ svc'.running
            /\ UNCHANGED <<aborted, count>> /\ svc'.tun = svc.tun /\ svc.tun \in Numbers
            /\ handle = None /\ count.tuns \notin aborted
        BY <1>3, <2>2, StartTunEffect
      <3>2. /\ loop'[count.tuns] = "spawned" /\ fd'[count.tuns] = svc.tun
            /\ \A t \in Tuns : t # count.tuns => loop'[t] = loop[t]
        BY <1>3, <2>2, StartTunEffect DEF TypeOK
      <3> QED
        BY <1>0, <2>2, <3>1, <3>2, Apart
    <2> QED
      BY <1>3, <2>1, <2>2, StartTunEffect
  <1>4. CASE StopTun
    <2>1. /\ handle' = None /\ aborted' = aborted \cup ({handle} \ {None})
          /\ svc'.pc = "close" /\ UNCHANGED <<loop, count>>
      BY <1>4, StopTunEffect
    <2>2. \A t \in aborted' : t <= count.tuns
      BY <1>0, <2>1
    <2> QED
      BY <1>0, <2>1, <2>2
  <1>5. CASE CloseTun
    <2>1. /\ UNCHANGED <<handle, aborted, loop, fd, count>> /\ handle = None
          /\ svc'.pc = "idle" /\ ~svc'.running
      BY <1>5, CloseTunEffect DEF OpenInv
    <2> QED
      BY <2>1
  <1>6. CASE OtherOpens \/ OtherCloses
    BY <1>6, OtherEffect
  <1>7. CASE \E t \in Tuns : TaskAction(t)
    <2> PICK t \in Tuns : TaskAction(t)
      BY <1>7
    <2>1. UNCHANGED <<svc, handle, aborted, fd, count>>
      BY TaskEffect
    <2>2. \A u \in Tuns \ aborted : u # handle => loop'[u] = "unborn"
      BY TaskEffect
    <2> QED
      BY <2>1, <2>2, HandleGoesOn
  <1>8. CASE UNCHANGED vars
    BY <1>8 DEF vars
  <1> QED
    BY <1>1, <1>2, <1>3, <1>4, <1>5, <1>6, <1>7, <1>8, NextCases DEF ServiceAction

\* A task that has ended uses its number no more, and none begins to but at its spawn.
LEMMA AliveShrinks ==
  ASSUME TypeOK, NEW t \in Tuns, TaskAction(t), NEW u \in Tuns, Alive(u)'
  PROVE  Alive(u)
  BY TaskEffect DEF Alive

LEMMA LentTask ==
  ASSUME TypeOK, OpenInv, HandleInv, LentInv, NEW t \in Tuns, TaskAction(t)
  PROVE  LentInv'
  <1>1. UNCHANGED <<file, handle, fd, reused>>
    BY TaskEffect
  <1>2. \A u \in Tuns : Alive(u)' => fd'[u] \in Numbers
    BY <1>1, AliveShrinks DEF LentInv
  <1>3. ~reused' => \A u \in Tuns : Alive(u)' => At(u)' \in {u, None}
    BY <1>1, AliveShrinks DEF LentInv, At
  <1>4. ASSUME ~reused', handle' # None, loop'[handle'] \in {"waits", "polls"}
        PROVE  watched'[handle'] = handle'
    <2>1. /\ handle' = handle /\ handle \in Tuns /\ ~reused
          /\ loop[handle] \in {"waits", "polls"} => watched[handle] = handle
      BY <1>1, <1>4 DEF TypeOK, LentInv
    <2>2. CASE t = handle
      <3>1. At(t) = t /\ loop[t] \in {"spawned", "begins", "waits", "polls", "failed"}
        BY <1>4, <2>1, <2>2, HandleGoesOn DEF HandleInv
      <3>2. loop[t] \in {"waits", "polls"} \/ (loop[t] = "begins" /\ loop'[t] = "waits")
        BY <1>4, <2>1, <2>2, TaskEffect
      <3>3. loop[t] \in {"waits", "polls"} => watched'[t] = watched[t]
        BY TaskEffect
      <3> QED
        BY <2>1, <2>2, <3>1, <3>2, <3>3, TaskEffect
    <2>3. CASE t # handle
      <3>1. watched[handle] = handle
        BY <1>4, <2>1, <2>3, TaskEffect
      <3>2. Alive(t) => At(t) # handle
        BY <1>1, <1>4, <2>1, <2>3, Apart DEF LentInv
      <3> QED
        BY <2>1, <3>1, <3>2, TaskEffect
    <2> QED
      BY <2>2, <2>3
  <1> QED
    BY <1>2, <1>3, <1>4 DEF LentInv

LEMMA LentStep ==
  ASSUME TypeOK, OpenInv, HandleInv, LentInv, [Next]_vars
  PROVE  LentInv'
  <1> USE DEF tasks
  <1>1. ASSUME NEW n \in Numbers, NEW f \in Tuns \cup {Other}, Give(n, f), UNCHANGED tasks,
               handle' = handle
        PROVE  LentInv'
    <2>1. \A t \in Tuns : Alive(t)' <=> Alive(t)
      BY <1>1 DEF Alive
    <2>2. ~reused' => ~reused /\ \A t \in Tuns : Alive(t) => fd[t] # n
      BY <1>1, GiveEffect
    <2>3. \A m \in Numbers : m # n => file'[m] = file[m]
      BY <1>1, GiveEffect
    <2> QED
      BY <1>1, <2>1, <2>2, <2>3 DEF LentInv, At
  <1>2. ASSUME UNCHANGED <<handle, tasks, reused>>, \A n \in Numbers : file'[n] \in {file[n], None}
        PROVE  LentInv'
    <2>1. \A t \in Tuns : Alive(t)' <=> Alive(t)
      BY <1>2 DEF Alive
    <2> QED
      BY <1>2, <2>1 DEF LentInv, At
  <1>3. CASE Establish
    <2>1. CASE UNCHANGED <<file, reused>>
      BY <1>2, <1>3, <2>1, EstablishEffect
    <2>2. CASE svc'.tun \in Numbers /\ count'.tuns \in Tuns /\ Give(svc'.tun, count'.tuns)
      BY <1>1, <1>3, <2>2, EstablishEffect
    <2> QED
      BY <1>3, <2>1, <2>2, EstablishEffect
  <1>4. CASE Stop \/ Destroy
    BY <1>2, <1>4, StopEffect
  <1>5. CASE StartTun
    <2>1. CASE UNCHANGED <<handle, loop, fd>>
      BY <1>2, <1>5, <2>1, StartTunEffect
    <2>2. CASE /\ handle' = count.tuns /\ loop' = [loop EXCEPT ![count.tuns] = "spawned"]
               /\ fd' = [fd EXCEPT ![count.tuns] = svc.tun]
      <3>1. /\ UNCHANGED <<file, writer, watched, reused>> /\ svc.tun \in Numbers
            /\ count.tuns \in Tuns /\ file[svc.tun] = count.tuns
        BY <1>5, StartTunEffect, Apart DEF OpenInv
      <3>2. /\ loop'[count.tuns] = "spawned" /\ fd'[count.tuns] = svc.tun
            /\ \A t \in Tuns : t # count.tuns => loop'[t] = loop[t] /\ fd'[t] = fd[t]
        BY <2>2, <3>1 DEF TypeOK
      <3>3. \A t \in Tuns : t # count.tuns => (Alive(t)' <=> Alive(t))
        BY <3>1, <3>2 DEF Alive
      <3> QED
        BY <2>2, <3>1, <3>2, <3>3 DEF LentInv, At
    <2> QED
      BY <1>5, <2>1, <2>2, StartTunEffect
  <1>6. CASE StopTun
    <2>1. handle' = None /\ UNCHANGED <<file, tasks, reused>>
      BY <1>6, StopTunEffect
    <2>2. \A t \in Tuns : Alive(t)' <=> Alive(t)
      BY <2>1 DEF Alive
    <2> QED
      BY <2>1, <2>2 DEF LentInv, At
  <1>7. CASE CloseTun
    BY <1>2, <1>7, CloseTunEffect
  <1>8. CASE OtherOpens \/ OtherCloses
    <2>1. PICK n \in Numbers :
            \/ Give(n, Other)
            \/ file[n] = Other /\ file' = [file EXCEPT ![n] = None] /\ reused' = reused
      BY <1>8, OtherEffect
    <2>2. CASE Give(n, Other)
      BY <1>1, <1>8, <2>2, OtherEffect
    <2>3. CASE file' = [file EXCEPT ![n] = None] /\ reused' = reused
      <3>1. \A m \in Numbers : file'[m] \in {file[m], None}
        BY <2>3 DEF TypeOK
      <3> QED
        BY <1>2, <1>8, <2>3, <3>1, OtherEffect
    <2> QED
      BY <2>1, <2>2, <2>3
  <1>9. CASE \E t \in Tuns : TaskAction(t)
    BY <1>9, LentTask
  <1>10. CASE UNCHANGED vars
    BY <1>2, <1>10 DEF vars
  <1> QED
    BY <1>3, <1>4, <1>5, <1>6, <1>7, <1>8, <1>9, <1>10, NextCases DEF ServiceAction

LEMMA LifeInit == Init => LifeInv
  <1> SUFFICES ASSUME Init PROVE LifeInv
    OBVIOUS
  <1> USE Bounds, Apart DEF Init
  <1>1. TypeOK
    <2>1. /\ file \in [Numbers -> Tuns \cup {None, Other}] /\ fd \in [Tuns -> Numbers \cup {None}]
          /\ open \in [Tuns -> 0 .. MaxOpen] /\ queued \in [Tuns -> 0 .. MaxQueued + MaxOpen]
      OBVIOUS
    <2>2. count \in [tuns : 0 .. MaxTuns, commands : 0 .. MaxCommands, other : 0 .. MaxOther]
      OBVIOUS
    <2> QED
      BY <2>1, <2>2 DEF TypeOK
  <1>2. QueueInv
    BY DEF QueueInv
  <1>3. OpenInv /\ HandleInv
    BY DEF OpenInv, HandleInv
  <1>4. LentInv
    BY DEF LentInv, Alive
  <1> QED
    BY <1>1, <1>2, <1>3, <1>4 DEF LifeInv

LEMMA LifeStep == LifeInv /\ [Next]_vars => LifeInv'
  <1> SUFFICES ASSUME LifeInv, [Next]_vars PROVE LifeInv'
    OBVIOUS
  <1>0. TypeOK /\ QueueInv /\ OpenInv /\ HandleInv /\ LentInv
    BY DEF LifeInv
  <1>1. CASE ServiceAction \/ OtherOpens \/ OtherCloses
    <2>1. UNCHANGED <<open, queued>>
      BY <1>0, <1>1, EstablishEffect, StopEffect, StartTunEffect, StopTunEffect, CloseTunEffect,
         OtherEffect DEF ServiceAction, tasks
    <2> QED
      BY <1>0, <1>1, <2>1, TypeService, OpenStep, HandleStep, LentStep DEF LifeInv, QueueInv
  <1>2. CASE \E t \in Tuns : TaskAction(t)
    BY <1>0, <1>2, TypeTask, OpenStep, HandleStep, LentStep DEF LifeInv
  <1>3. CASE UNCHANGED vars
    <2>1. TypeOK' /\ QueueInv'
      BY <1>0, <1>3 DEF TypeOK, QueueInv, vars, tasks
    <2> QED
      BY <1>0, <2>1, OpenStep, HandleStep, LentStep DEF LifeInv
  <1> QED
    BY <1>1, <1>2, <1>3, NextCases

--------------------------------------------------------------------------------
(* The theorems.                                                           *)

\* The inductive invariant of the TUN's life: types, places in the writer's queue,
\* the open TUN, the kept handle, and the numbers devices use.
THEOREM LifeInvariance == Spec => []LifeInv
  BY LifeInit, LifeStep, PTL DEF Spec

\* Every variable keeps its type: the numbers of devices and handles name TUNs that
\* were established, and the writer's queue has room for the last packet of each
\* session, so that no session waits for it when it ends.
THEOREM LifeTypeCorrect == Spec => []TypeOK
  BY LifeInvariance, PTL DEF LifeInv

\* stopVpn closes what startVpn established, on every path: between two callbacks
\* of RelizVpnService its TUN is open if and only if it runs.
THEOREM TunReleased == Spec => []TunIsReleased
  <1>1. LifeInv => TunIsReleased
    <2> SUFFICES ASSUME LifeInv, svc.pc = "idle"
                 PROVE  {n \in Numbers : file[n] \in Tuns} = IF svc.running THEN {svc.tun} ELSE {}
      BY DEF TunIsReleased
    <2>1. {n \in Numbers : file[n] \in Tuns} = {n \in Numbers : n = svc.tun}
      BY DEF LifeInv, OpenInv
    <2>2. (svc.running <=> svc.tun # None) /\ svc.tun \in Numbers \cup {None}
      BY DEF LifeInv, OpenInv, TypeOK
    <2> QED
      BY <2>1, <2>2, Apart
  <1> QED
    BY <1>1, LifeInvariance, PTL

\* TUN_TASK holds the handle of every loop that stop_tun has not aborted: no start,
\* failure or restart leaves one behind, and such a loop ends by itself only when its
\* TunDevice could not be made.
THEOREM KnownLoop == Spec => []LoopIsKnown
  <1>1. LifeInv => LoopIsKnown
    <2> SUFFICES ASSUME LifeInv, svc.pc = "idle", NEW t \in Tuns \ aborted
                 PROVE  /\ loop[t] # "unborn" <=> handle = t /\ svc.running /\ fd[t] = svc.tun
                        /\ loop[t] \notin {"joins", "ended"}
      BY DEF LoopIsKnown
    <2>1. CASE t = handle
      BY <2>1, Apart DEF LifeInv, HandleInv
    <2>2. CASE t # handle
      BY <2>2 DEF LifeInv, HandleInv
    <2> QED
      BY <2>1, <2>2
  <1> QED
    BY <1>1, LifeInvariance, PTL

\* While the service runs and no number in use was given out again, the loop of its
\* TUN is there, on its descriptor, and registered with the reactor, unless its
\* TunDevice could not be made.
THEOREM RunningIsRead == Spec => []RunningTunIsRead
  <1>1. LifeInv => RunningTunIsRead
    BY Apart DEF LifeInv, TypeOK, OpenInv, HandleInv, LentInv, RunningTunIsRead, Registered, At
  <1> QED
    BY <1>1, LifeInvariance, PTL
================================================================================
