--------------------------------- MODULE VpnApp ---------------------------------
(***************************************************************************)
(* The mobile app: ProxyService (Dart, one event loop), the Rust bridge it *)
(* calls (ProxyBridge) and the Android VpnService it starts and stops.     *)
(*                                                                         *)
(*      taps -> connect / disconnect --call--> bridge --reply--> inbox     *)
(*                      |                                                  *)
(*                      +--intent--> RelizVpnService (TUN, ghost-tun)      *)
(*                                                                         *)
(* connect() and disconnect() are sequences of awaits; between two of them *)
(* the event loop may run anything else.  A bridge call runs on a worker   *)
(* thread, which posts its result when it has it: results of two calls may *)
(* be posted in either order, and are then delivered in that order.        *)
(***************************************************************************)
EXTENDS ProxyBridge, Sequences

CONSTANTS
  MaxTaps,   \* bound on the user's taps of the button
  MaxStops,  \* bound on the stops of the VPN from outside the app
  MaxKills,  \* bound on the kills of the process
  Unhurried  \* Connect is tapped only when no disconnect() or poll is under way

ASSUME AppAssumption ==
  /\ Callers = {"connect", "disconnect"}
  /\ {MaxTaps, MaxStops, MaxKills} \subseteq Nat
  /\ Unhurried \in BOOLEAN

VARIABLES
  ui,       \* _state.status
  poller,   \* _statusPoller is set
  flow,     \* where connect() and disconnect() wait
  poll,     \* the status a getProxyStatus has read and not yet posted
  inbox,    \* results posted to the event loop
  intents,  \* intents on their way to the service
  vpn,      \* the service's `running`: the TUN interface and ghost-tun are up
  count     \* taps, stops from outside and kills so far

app == <<ui, poller, flow, poll, inbox, intents, vpn, count>>
appVars == <<vars, app>>

\* Mutant: has no case for Stopped.
ShownRaw(code) == code

Shown(code) == IF code = "stopped" THEN "disconnected" ELSE code

AppTypeOK ==
  /\ TypeOK
  /\ ui \in {"disconnected", "connecting", "connected", "error"}
  /\ {poller, vpn} \subseteq BOOLEAN
  /\ flow \in [connect : {"idle", "prepare", "start", "starting", "startvpn", "undo", "undoing",
                          "thrown"},
               disconnect : {"idle", "stopvpn", "stop", "stopping"}]
  /\ poll \in {"none", "stopped", "connecting", "connected", "error"}
  /\ inbox \in Seq({"connect", "disconnect", "stopped", "connecting", "connected", "error"})
  /\ intents \in Seq({"connect", "disconnect"})
  /\ count \in [taps : 0 .. MaxTaps, stops : 0 .. MaxStops, kills : 0 .. MaxKills]

AppInit ==
  /\ Init
  /\ ui = "disconnected" /\ poller = FALSE
  /\ flow = [connect |-> "idle", disconnect |-> "idle"]
  /\ poll = "none" /\ inbox = <<>> /\ intents = <<>> /\ vpn = FALSE
  /\ count = [taps |-> 0, stops |-> 0, kills |-> 0]

\* A poll callback waits for getProxyStatus.
Asked == poll # "none" \/ \E i \in 1 .. Len(inbox) : inbox[i] \notin Callers

Tap == count.taps < MaxTaps /\ count' = [count EXCEPT !.taps = @ + 1]

--------------------------------------------------------------------------------
(* connect().                                                              *)

\* connect() is not under way; "thrown" if an exception ended the last one.
NotConnecting == flow.connect \in {"idle", "thrown"}

\* The button is disabled while Connecting is shown.  A poll may show Disconnected,
\* and with it the button, before disconnect() is done.  Bound: one connect() and
\* one disconnect() are followed at a time; the code does not refuse a second one.
TapConnect ==
  /\ Tap /\ ui \in {"disconnected", "error"} /\ NotConnecting
  /\ Unhurried => flow.disconnect = "idle" /\ ~Asked
  /\ ui' = "connecting" /\ flow' = [flow EXCEPT !.connect = "prepare"]
  /\ UNCHANGED <<vars, poller, poll, inbox, intents, vpn>>

\* What prepareVpn answers, at once or when the user has closed the system's dialog ...
Consent(granted) ==
  IF granted THEN flow' = [flow EXCEPT !.connect = "start"] /\ UNCHANGED ui
             ELSE flow' = [flow EXCEPT !.connect = "idle"] /\ ui' = "error"

\* ... and an exception that no one catches: connect() ends as it stands.
ConnectThrows == flow' = [flow EXCEPT !.connect = "thrown"] /\ UNCHANGED ui

\* VpnService.prepare or startActivityForResult may throw (MainActivity.kt:44, 48).
Prepare ==
  /\ flow.connect = "prepare" /\ (ConnectThrows \/ \E granted \in BOOLEAN : Consent(granted))
  /\ UNCHANGED <<vars, poller, poll, inbox, intents, vpn, count>>

CallStart ==
  /\ flow.connect = "start" /\ StartCheck("connect")
  /\ flow' = [flow EXCEPT !.connect = "starting"]
  /\ UNCHANGED <<ui, poller, poll, inbox, intents, vpn, count>>

\* Posting the result: the call has returned and connect() still waits for it.
Post(c) ==
  /\ IF c = "connect" THEN flow.connect \in {"starting", "undoing"} ELSE flow.disconnect = "stopping"
  /\ call[c].pc \in Returned /\ \A i \in 1 .. Len(inbox) : inbox[i] # c
  /\ inbox' = Append(inbox, c)
  /\ UNCHANGED <<vars, ui, poller, flow, poll, intents, vpn, count>>

Delivered(m) == inbox # <<>> /\ Head(inbox) = m /\ inbox' = Tail(inbox)

\* Mutant: a nonzero code ends connect() and is not shown.
StartReturnsUnshown ==
  /\ flow.connect = "starting" /\ Delivered("connect")
  /\ flow' = [flow EXCEPT !.connect = CASE call["connect"].pc = "failed" -> "idle"
                                       [] call["connect"].pc = "panicked" -> "thrown"
                                       [] OTHER -> "startvpn"]
  /\ UNCHANGED <<vars, ui, poller, poll, intents, vpn, count>>

StartReturns ==
  /\ flow.connect = "starting" /\ Delivered("connect")
  /\ LET outcome == call["connect"].pc IN
       \/ outcome = "panicked" /\ ConnectThrows
       \/ outcome = "failed" /\ ui' = "error" /\ flow' = [flow EXCEPT !.connect = "idle"]
       \/ /\ outcome \notin {"panicked", "failed"}
          /\ flow' = [flow EXCEPT !.connect = "startvpn"] /\ UNCHANGED ui
  /\ UNCHANGED <<vars, poller, poll, intents, vpn, count>>

\* MainActivity's startVpn and stopVpn.
SendIntent(action) == intents' = Append(intents, action)

StartVpn ==
  /\ flow.connect = "startvpn"
  /\ \/ /\ SendIntent("connect") /\ poller' = TRUE
        /\ flow' = [flow EXCEPT !.connect = "idle"]
     \/ /\ flow' = [flow EXCEPT !.connect = "undo"]           \* startForegroundService throws
        /\ UNCHANGED <<intents, poller>>
  /\ UNCHANGED <<vars, ui, poll, inbox, vpn, count>>

CallUndo ==
  /\ flow.connect = "undo" /\ StopTake("connect")
  /\ flow' = [flow EXCEPT !.connect = "undoing"]
  /\ UNCHANGED <<ui, poller, poll, inbox, intents, vpn, count>>

UndoReturns ==
  /\ flow.connect = "undoing" /\ Delivered("connect")
  /\ ui' = "error" /\ flow' = [flow EXCEPT !.connect = "idle"]
  /\ UNCHANGED <<vars, poller, poll, intents, vpn, count>>

--------------------------------------------------------------------------------
(* disconnect().                                                           *)

TapDisconnect ==
  /\ Tap /\ ui = "connected" /\ flow.disconnect = "idle"
  /\ flow' = [flow EXCEPT !.disconnect = "stopvpn"]
  /\ UNCHANGED <<vars, ui, poller, poll, inbox, intents, vpn>>

\* Mutant: stops the proxy and forgets the service.
StopVpnForgotten ==
  /\ flow.disconnect = "stopvpn"
  /\ flow' = [flow EXCEPT !.disconnect = "stop"]
  /\ UNCHANGED <<vars, ui, poller, poll, inbox, intents, vpn, count>>

\* The app is in the foreground when it is tapped, so startService does not throw.
StopVpn ==
  /\ flow.disconnect = "stopvpn"
  /\ SendIntent("disconnect")
  /\ flow' = [flow EXCEPT !.disconnect = "stop"]
  /\ UNCHANGED <<vars, ui, poller, poll, inbox, vpn, count>>

CallStop ==
  /\ flow.disconnect = "stop" /\ StopTake("disconnect")
  /\ flow' = [flow EXCEPT !.disconnect = "stopping"]
  /\ UNCHANGED <<ui, poller, poll, inbox, intents, vpn, count>>

StopReturns ==
  /\ flow.disconnect = "stopping" /\ Delivered("disconnect")
  /\ flow' = [flow EXCEPT !.disconnect = "idle"]
  /\ ui' = "disconnected" /\ poller' = FALSE
  /\ UNCHANGED <<vars, poll, intents, vpn, count>>

--------------------------------------------------------------------------------
(* The status poller: one callback at a time is in flight.                 *)

PollReads ==
  /\ poller /\ ~Asked
  /\ poll' = status
  /\ UNCHANGED <<vars, ui, poller, flow, inbox, intents, vpn, count>>

PollPosts ==
  /\ poll # "none"
  /\ inbox' = Append(inbox, poll) /\ poll' = "none"
  /\ UNCHANGED <<vars, ui, poller, flow, intents, vpn, count>>

\* The rest of the callback, also of one whose timer was cancelled meanwhile.
PollReturns ==
  \E code \in {"stopped", "connecting", "connected", "error"} :
    /\ Delivered(code)
    /\ ui' = Shown(code)
    /\ poller' = (poller /\ code \notin {"stopped", "error"})
    /\ UNCHANGED <<vars, flow, poll, intents, vpn, count>>

--------------------------------------------------------------------------------
(* RelizVpnService and the operating system.                               *)

\* onStartCommand; establish() or the native library may fail, and then the
\* service stops itself.
ServiceStarts ==
  /\ intents # <<>> /\ Head(intents) = "connect" /\ intents' = Tail(intents)
  /\ vpn' \in IF vpn THEN {TRUE} ELSE BOOLEAN
  /\ UNCHANGED <<vars, ui, poller, flow, poll, inbox, count>>

ServiceStops ==
  /\ intents # <<>> /\ Head(intents) = "disconnect" /\ intents' = Tail(intents)
  /\ vpn' = FALSE
  /\ UNCHANGED <<vars, ui, poller, flow, poll, inbox, count>>

\* onRevoke, or the button of the notification.
StoppedOutside ==
  /\ vpn /\ vpn' = FALSE
  /\ count.stops < MaxStops /\ count' = [count EXCEPT !.stops = @ + 1]
  /\ UNCHANGED <<vars, ui, poller, flow, poll, inbox, intents>>

\* The process dies with all statics and the Dart isolate; a service that was
\* started is sticky and starts again, with no intent and nobody else.
ProcessDies ==
  /\ count.kills < MaxKills /\ count' = [count EXCEPT !.kills = @ + 1]
  /\ status' = "stopped" /\ running' = FALSE /\ handle' = None /\ port' = None
  /\ task' = [t \in Tasks |-> IF task[t] = "unborn" THEN "unborn" ELSE "dropped"]
  /\ call' = [c \in Callers |-> [pc |-> "fresh", mine |-> None, undo |-> FALSE]]
  /\ overlap' = FALSE
  /\ ui' = "disconnected" /\ poller' = FALSE
  /\ flow' = [connect |-> "idle", disconnect |-> "idle"]
  /\ poll' = "none" /\ inbox' = <<>> /\ intents' = <<>>
  /\ vpn' \in IF vpn THEN BOOLEAN ELSE {FALSE}
  /\ UNCHANGED aborted

--------------------------------------------------------------------------------
Connect ==
  \/ Prepare \/ CallStart \/ StartReturns \/ StartVpn \/ CallUndo \/ UndoReturns
Disconnect == StopVpn \/ CallStop \/ StopReturns
Poll == PollReads \/ PollPosts \/ PollReturns
Service == ServiceStarts \/ ServiceStops

Bridge ==
  /\ \/ \E c \in Callers : CallStep(c)
     \/ \E t \in Tasks : TaskStep(t)
  /\ UNCHANGED app

BridgeFails == (\E t \in Tasks : TaskAcceptFails(t)) /\ UNCHANGED app

AppNext ==
  \/ TapConnect \/ TapDisconnect
  \/ Connect \/ Disconnect \/ Poll \/ Service
  \/ \E c \in Callers : Post(c)
  \/ Bridge \/ BridgeFails
  \/ StoppedOutside \/ ProcessDies

AppSpec == AppInit /\ [][AppNext]_appVars

\* The event loop, the worker threads, the runtime and the service run, the
\* 500 ms timer fires, and the user answers the consent dialog.
AppFairness ==
  /\ WF_appVars(Connect) /\ WF_appVars(Disconnect) /\ WF_appVars(Service)
  /\ WF_appVars(PollReads) /\ WF_appVars(PollPosts) /\ WF_appVars(PollReturns)
  /\ \A c \in Callers : WF_appVars(Post(c)) /\ WF_appVars(CallStep(c) /\ UNCHANGED app)
  /\ \A t \in Tasks : WF_appVars(TaskStep(t) /\ UNCHANGED app)

AppFairSpec == AppSpec /\ AppFairness

--------------------------------------------------------------------------------
(* The inductive invariant.                                                *)

Posted(m) == \E i \in 1 .. Len(inbox) : inbox[i] = m

\* connect() or disconnect() waits for the bridge call c.
Awaits(c) ==
  IF c = "connect" THEN flow.connect \in {"starting", "undoing"} ELSE flow.disconnect = "stopping"

\* A call is under way only while its flow waits for it, and its result is posted
\* once, after it has returned.
CallInv ==
  /\ \A c \in Callers :
       /\ ~Awaits(c) => call[c].pc \in Returned
       /\ Posted(c) => Awaits(c) /\ call[c].pc \in Returned
  /\ \A i, j \in 1 .. Len(inbox) : inbox[i] = inbox[j] /\ inbox[i] \in Callers => i = j

\* The run of the app that DisconnectedIsOff speaks of.
Followed == Unhurried /\ ~overlap /\ count.kills = 0

\* connect() runs alone: no disconnect() and no poll that could show another state.
ConnectInv ==
  /\ flow.connect # "idle" =>
       ui = "connecting" /\ ~poller /\ ~Asked /\ flow.disconnect = "idle"
  /\ ui \in {"disconnected", "error"} => ~poller

\* A start that was called has replaced Stopped before connect() starts the poller,
\* and disconnect() makes no other call than that of stop_proxy.
StartInv ==
  /\ flow.connect = "starting" =>
       call["connect"].pc \in
         {"noop", "claim", "spawn", "keep", "wait", "report", "up", "panicked"}
  /\ flow.connect \in {"starting", "startvpn"} /\ call["connect"].pc # "claim" =>
       status # "stopped"
  /\ call["disconnect"].pc \in {"fresh", "lower", "settle", "down"}

\* What is left of the proxy and of the VPN is on its way down.
TasksGo == \A t \in Tasks : Live(t) => t \in aborted
VpnGoes == IF intents = <<>> THEN ~vpn ELSE intents[Len(intents)] = "disconnect"

\* Disconnected is shown, or about to be shown, only when that is so.
OffInv ==
  /\ flow.disconnect = "stop" => VpnGoes
  /\ \/ flow.disconnect = "stopping" \/ ui = "disconnected"
     \/ poll = "stopped" \/ Posted("stopped") \/ (poller /\ status = "stopped")
     => TasksGo /\ VpnGoes

AppInv ==
  /\ AppTypeOK /\ BridgeInv /\ CallInv
  /\ Followed => ConnectInv /\ StartInv /\ OffInv

--------------------------------------------------------------------------------
(* Properties.                                                             *)

\* Nothing is in flight but the next tick of the poller.
Rest ==
  /\ Quiet /\ NotConnecting /\ flow.disconnect = "idle"
  /\ ~Asked /\ inbox = <<>> /\ intents = <<>>

\* It is the status of the VPN connection (proxy_state.dart:1): when the app says
\* Disconnected and nothing is in flight, the port is closed and the VPN is down,
\* whatever connects, failures and polls came before.  Not so when bridge calls
\* overlapped, which may leave is_proxy_running up, and not when the process was
\* killed: the sticky service then comes back without the app.
DisconnectedIsOff ==
  Rest /\ ~poller /\ ~overlap /\ count.kills = 0 /\ ui = "disconnected" =>
    port = None /\ ~vpn

\* The button comes back: Connecting is left, whether by success or by error, but
\* when prepare() or startRelizProxy threw (proxy_service.dart:55, 65).
ConnectingEnds == ui = "connecting" ~> ui # "connecting" \/ flow.connect = "thrown"

\* The status mirrors the bridge (proxy_state.dart:1): Connected is not shown
\* when the bridge is at rest in another state and nobody asks it any more.
ConnectedIsMirrored == Rest /\ ~poller /\ ui = "connected" => status = "connected"
================================================================================
