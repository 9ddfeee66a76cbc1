# A TLA+ development of Reliz Protocol (Ghost)

TLA+ models of the Ghost proxy, the TLC runs that check them and the theorems
TLAPS proves about them.  Everything here is translated from the Rust, Dart,
Kotlin and shell sources of the repository; where a README or a comment says
something else than the code does, the model follows the code and a run shows
the difference.

## 1. The system

A packet or a byte goes through these parts (the first two rows only on Android):

    kernel TCP -> TUN fd -> ghost-tun -> SOCKS5 -> ghost-client -> Ghost frames
                                            -> ghost-server -> target host

| component | state it keeps | operations | talks to |
|---|---|---|---|
| ghost-common `lib.rs` | none | encode/decode of `TargetAddr` and `GhostFrame`, configs | used by client and server |
| ghost-common `stealth.rs` | none | padding length, packet-size normalisation, fragment lists | used by `GhostFrame::with_random_padding` |
| ghost-crypto | the key | encrypt, decrypt, `derive_key` | used by client and server |
| ghost-client `lib.rs` | the listener; one task per connection | bind, ready signal, accept, SOCKS5 handshake | app or ghost-tun, `tunnel.rs`, the Flutter bridge |
| ghost-client `tunnel.rs` | per connection: two sockets, two loops under `select!` | connect, Reality handshake, user id, init frame, upload, download | app, server |
| ghost-client `fragment.rs` | how many octets are still to be fragmented | `poll_write` in small chunks | the socket under `tunnel.rs` |
| ghost-server `lib.rs` | allowed users, TLS acceptor | accept, Reality authentication, dispatch | clients, `handler.rs` |
| ghost-server `handler.rs` | per connection: two sockets, two loops under `select!` | user id check, init frame, dial, upload, download | client, target |
| ghost-tun `lib.rs`, `tcp_session.rs` | the NAT table; per flow: a channel, sequence numbers | read a packet, create/feed/finish a session, write packets | kernel (TUN), SOCKS5 |
| ghost-tun `socks5.rs` | none | SOCKS5 CONNECT as a client | ghost-client |
| ghost-reality | JA4 lists, auth key | token creation and checking, TLS wrapper | library variants of what client and server do; neither binary uses it |
| `ghost_flutter/rust/src/api.rs` | `STATUS`, `RUNNING`, `TASK`, `TUN_TASK` | start/stop proxy, start/stop TUN | Dart, ghost-client, ghost-tun |
| `proxy_service.dart`, `vpn_controller.dart` | UI state, timers | connect, disconnect, poll | api.rs, Kotlin |
| `RelizVpnService.kt`, `MainActivity.kt` | the TUN interface, pending permission result | start, stop, revoke, restart | Android, GhostTunBridge |
| `deploy/ghost.sh` | the config file | setup, mask, key, status | systemd, ghost-server |

What is hard in it: two loops of each relay share a `select!`, so that the end
of one direction cancels the other at any await; four such loops in two
processes make one stream; TCP closes and resets in the middle of that; the
userspace TCP of ghost-tun has to stay in step with a kernel that retransmits;
tasks are spawned and never joined; a status is published from several places
without a lock; a VPN service restarts without the proxy it depends on; the
program is granted its CONNECT before anybody asked the server; and the server's
door is open to visitors that keep silent, send half a request or stay for no
answer, and closes for all of them when one `accept()` fails.

## 2. What makes each part correct

* **Tunnel (client, server).**  Each end receives a prefix of what the other one
  sent; both relays stay on a frame boundary; a suspended loop loses nothing; a
  clean end of stream means completeness, unless the end had half-closed itself;
  only a user of `allowed_users` reaches a target; both relays return once a
  reason to end exists.
* **ghost-tun NAT.**  A packet belongs to the session of its own connection,
  though keys are reused; no byte crosses between connections; a SOCKS5 stream
  has no gap; a kernel connection is fed by one stream; every SYN is answered, and
  the answer arrives unless its write to the TUN fails.
* **SOCKS5 handshake.**  The tunnel opens for the address asked for, at the first
  byte after the request; an application that stays is served unless the proxy
  refuses what it asks, or cannot take its name; a grant is understood; a granted
  connection whose way to the server fails is ended; nobody waits for ever.
* **Life of ghost-tun.**  Whatever is started, stopped, revoked or destroyed, and
  whatever of it fails, no TUN and no loop is left behind; a running VPN has its
  TUN read, unless the device over it could not be made; what was stopped ends.
* **Rust bridge.**  Status, flag and handle describe the listener; a stop closes
  the port; every call returns; an aborted task ends.
* **App.**  Disconnected means off, Connected mirrors the bridge, Connecting is
  left, unless an exception that no one catches ended `connect()`.
* **Codec.**  Decoding inverts encoding, padding included; a frame that is cut
  short is an error and not a shorter frame.
* **Wire and fragmentation.**  Whatever the fragments, the short writes and the
  short reads, the receiver gets whole messages in order, all of them unless
  there was a reset, and rejects none; a write that began ends.
* **The server's door (Reality).**  Only the key gets a visitor past the mask, or
  makes it believe so, wherever its request is cut; a prober gets the redirect; a
  connection of the proxy is refused, served or ended, whoever else is there and
  also when the server dies; a client set up as documented is let in.
* **Deployment script.**  `config_get` returns what `config_set` stored and other
  lines stay as they are.  As it is, bash does not even parse the script: the
  double quote in `startswith('"')` at `ghost.sh:201` ends the string the Python
  program is in.

## 3. Modules

| module | what it is | source |
|---|---|---|
| `DuplexStream` | abstract: a pair of byte streams that may fail and end | what SOCKS5 programs rely on |
| `GhostTunnel` | both relays, the three TCP connections, the two ends | ghost-client `tunnel.rs`, ghost-server `handler.rs`, accept loop of `lib.rs` |
| `MCGhostTunnel` | instance for TLC | |
| `GhostTunnelProofs` | theorems: the invariants of `GhostTunnel`, and that it implements `DuplexStream` | |
| `MessageChannel` | abstract: whole messages in order, up to where the sender stopped | what the relays rely on |
| `FrameLink`, `MCFrameLink` | one direction of the wire, octet by octet: codec, sealing, lengths, fragments, short writes and reads | ghost-common `lib.rs`, ghost-crypto, `fragment.rs`, `tunnel.rs`, `handler.rs` |
| `FrameLinkProofs` | theorems: the codec, the wire, and that it implements `MessageChannel` | |
| `TunNat` | NAT table, sessions and their tasks, the kernel around them | ghost-tun `lib.rs`, `tcp_session.rs` |
| `MCTunNat`, `TunNatProofs` | instance; theorems | |
| `Socks5Handshake` | the proxy's handshake, byte by byte | ghost-client `lib.rs`, ghost-tun `socks5.rs` |
| `ServerDoor` | the server from accept to the user id, plain, Reality or the library's; its visitors; crash and restart | ghost-server `lib.rs`, `connect_reality` of `tunnel.rs`, ghost-reality |
| `ProxiedConnection`, `MCProxiedConnection` | composes the two: from a program's greeting to the server's handler | ghost-client `lib.rs`, `tunnel.rs` |
| `Socks5HandshakeProofs`, `ProxiedConnectionProofs` | theorems: the handshake; the door and the whole connection | |
| `TunLifecycle`, `MCTunLifecycle` | the VPN service's descriptor and the tasks of ghost-tun that use its number | `RelizVpnService.kt`, `rust/src/api.rs`, ghost-tun `lib.rs`, `device.rs` |
| `TunLifecycleProofs` | theorems about it | |
| `ProxyBridge`, `MCProxyBridge` | calls and tasks of the proxy | `rust/src/api.rs`, accept loop of ghost-client `lib.rs` |
| `VpnApp`, `MCVpnApp` | extends `ProxyBridge` by the Dart service and the Android service | `proxy_service.dart`, `RelizVpnService.kt`, the button of `home_screen.dart` |
| `ProxyBridgeProofs`, `VpnAppProofs` | theorems: the bridge alone; the bridge within the app | |

`VpnApp` composes the app with the bridge by extending it: the flows `connect`
and `disconnect` are its two callers.  `GhostTunnel` composes client, server,
TCP and both ends in one module, because a tunnel has no meaning without any of
them, and implements `DuplexStream`.  `FrameLink` implements `MessageChannel` and is
what lets `GhostTunnel` treat a `write_all` as one token.  `ProxiedConnection`
extends both `Socks5Handshake` and `ServerDoor`: with the grant written, the proxy's
handler becomes a visitor of the server (`GoToServer`).  The handshake ends where
`GhostTunnel` begins (its `Init`: the success reply has been sent), the door where
the relay of the server does (the user id has been looked up); the program `tun`
is what a session of `TunNat` runs in state `connect`.

### How state and actions correspond to the code

**GhostTunnel.**  The variables `q`, `rd`, `wr`, `fin`, `gone`, `rst` are the
kernel's side of the three connections: what is buffered in each direction, how
much was ever read and written, who has shut down or closed what, and which
connection was reset.  `rd` and `wr` are counters no code holds; they let an
invariant speak of positions.  `phase[r]` is where `proxy_through_ghost` or
`handle_connection` stands before and after its loops, `seal[r]` and `opn[r]`
the await at which its two loops stand and the payload they hold.  One action
is one await: a read, a `write_all` of the length, a `write_all` of the frame, a
write of the payload.  Since `select!` drops the losing loop at any of them,
`SealEnd` and `OpenEnd` of one loop close the relay whatever the other one is
doing.  A plain token is what one `read` returned; a wire token is what one
`write_all` wrote.  `read_exact` takes whole tokens, because a relay never has
another boundary to find as long as `FramesAligned` holds; a token of the wrong
kind leads to `bad`, the decode error.  Encryption is what makes `OpenFrame`
accept only the very frame whose length was read.

**FrameLink.**  `writer` is the `write_all` that is under way: the user id, the
length or the body of a frame, and the octets that are left of it.  `PollWrite`
is one `poll_write` of `FragmentedStream`: it offers TCP at most `Chunk` octets
and TCP takes some of them (`net`); `frag` is `remaining_frag_bytes`.  `reader`
is the receiver's `read_exact`, one `Read` per read of the socket, and `Use`
what follows it.  `Encode` and `Decode` are the codec, with octets of `Base`
values in place of 256; `EncodeAddr` is written by the address's type and
`AddrSize`, `DecodeAddr` read it back with each of the code's underflow checks.
Nonce and tag are an octet each that no other octet is equal to, so that
`Decrypt` accepts what was sealed as a whole and nothing else, which is what an
AEAD promises.  `LinkAssumption` says that the user id is not empty (it has 16
octets; a receiver would have an empty one before it is written) and that the longest frames have a length of
two octets: with 256 values, 8192 octets from one read, addresses of at most 259
octets, 255 of padding and 45 for the rest, they do by far; the code does not check
it.  The user is an allowed one; `GhostTunnel` has the other case.

**TunNat.**  `up` and `down` are the packets read from and queued for the TUN
device (`tun_tx`), `nat` the HashMap, `sess[s]` a spawned `run_tcp_session` with
its channel `chan`, what it gave to SOCKS5 `out`, its `next_server_seq`, and its
two tasks `a` (`socks_to_tun`) and `b` (`data_to_socks`).  A session's number is
the order in which it was spawned.  `On...` are the branches of `handle_tcp`.
The kernel is external: an RFC 793 endpoint, reduced to the states that matter
here, that retransmits what is not acknowledged.  ghost-tun never acknowledges
anything but the SYN, so that is everything else.  The number `gen` of a
connection stands for its initial sequence number, and a packet whose sequence
number is that of another connection is refused by the kernel as TCP does.

**TunLifecycle.**  A TUN is known by the order in which it was established, and
`file` says what each descriptor number names: nothing, a TUN, or a file of
somebody else.  `svc` is the main thread's place in `startVpn` and `stopVpn`, with
the fields `running` and `tun`; `fate` is the `onDestroy` that follows a
`stopSelf`.  `handle` is `TUN_TASK`.  For each TUN, `loop` is the task of
`start_tun` (`waits` at an await of `read`, where an abort takes effect; `polls`
between two awaits, where it does not; `joins` at the end of `run`; `failed` when
`TunDevice::new` returned an error, which `start_tun`'s task only logs: `TUN_TASK`
and the service know nothing of it), `writer` its
`tun_write_task`, `open` and `queued` the sessions and the packets they left it.
`fd` is the `RawFd` of the device, which goes on naming whatever the kernel has put
there.  `watched` is the epoll: the kernel removes a file that is closed, and
dropping an `AsyncFd` removes whatever its number names at that moment
(`WriterEnds`).  `LoopBegins` makes the device: that may fail for any of the calls of
`TunDevice::new`, and must fail when the number is closed, or when the file it names
is in the epoll already, put there by an older device whose number was given out
again (`EEXIST`).  What happens inside a session is `TunNat`.  The native methods are
taken as bound (see section 7).

**Socks5Handshake.**  Bytes are numbers, and every `read_exact` is an action.
`ask` is what the program wants and how it behaves; an eager one sends
greeting, request and payload without waiting.  A name is text or not: in one that
is not, a byte is `NoText`, at which `String::from_utf8` fails and the handler
returns without an answer (`ReadAddr`).

**ServerDoor.**  `visit[v]` has both sides of a connection: `at` is the await of
`proxy_through_ghost` and `connect_reality` (or where another visitor is), `task`
that of the server's task, `in` and `out` the TLS records between them, or what
one write puts into a plain connection.  `ReadUpgrade` is the one `read` that
`detect_ghost_auth` gets to see: it takes any number of the records that have
arrived, and what it takes beyond the request is lost.  Certificates are numbered
by the starts of the process, since each start makes a new one; `key` is a
client's `reality_auth_key`, read as the number of the certificate it is the
fingerprint of, as the server's own key (`ServersKey`) or as no key at all.
`AcceptFails` is the `?` behind `accept()`: `main` returns and the runtime drops
every task.  A socket closed with unread bytes resets, so an answer on its way may
be lost (`SeesEnd`).  Which outsiders there are is in `Setups`; their TCP, TLS and
patience are external.

**ProxiedConnection.**  No variables of its own.  `Scene` bounds the combinations
of what the program asks with how the visitors are set up.  `TunnelFails` is the
error of `proxy_through_ghost` (the user id, the dial, the server's certificate or
its answer): the handler drops the program's stream (`TunnelEnds`), and the program
sees the end after what it has still to read, or is cut where it stands, since a
socket closed with unread bytes resets (`ProgramSeesEnd`, `ProgramIsCut`).

**ProxyBridge.**  A call is the sequence of its accesses to `STATUS`, `RUNNING`
and `TASK`, one per action, since threads interleave there.  A task is the
`async` block that runs `run_with_ready`; it awaits nothing before it listens
(the bind is synchronous), so an abort takes effect before its first poll or in
`accept`.  `overlap` is a history variable: some call was made, or timed out,
while another call or an unfinished task was under way.  `StartPanics` is the
`expect` of `runtime()`, which builds the runtime at the first use of it: nobody
catches the panic, the call ends in an exception and leaves Connecting stored.
`BuildMayFail` is its switch; `NoRuntime` takes the runtime as there once a task was
spawned, also after a kill, so that of all builds only the first one may fail.

**VpnApp.**  `flow` is the await at which `connect()` and `disconnect()` stand,
`inbox` the results posted to the event loop in order, `poll` a status that a
worker thread has read and not yet posted, `intents` what Android has not yet
given to the service.  `PollReturns` is the rest of the timer's callback.
`prepare()` and `startRelizProxy` are awaited outside any `try`
(`proxy_service.dart:55`, `65`); `ConnectThrows` is what an exception of either
does: `connect()` ends as it stands (`thrown`), with Connecting shown and the button
disabled.  The user answers the consent dialog, one way or the other.

## 4. Runs

Twelve runs; eight pass, four show where the code does not do what the
repository says.  Bounds are constants of the modules, named in the guards that
use them.

| run | module, cfg | bounds | shows |
|---|---|---|---|
| `tunnel` | `MCGhostTunnel`, `GhostTunnel.cfg` | `Cap` 2, 3 items from the app and 1 from the target, two users, one allowed | safety of a tunnel, its inductive invariant (with the types), refinement of `DuplexStream!FairSpec`, relays return |
| `frame` | `MCFrameLink`, `FrameLink.cfg` | octets of 8 values, 3 addresses, payloads of 1 to 9 octets, padding up to 2, an init and a data frame, 5 octets fragmented by 2, 4 octets in TCP | refinement of `MessageChannel!FairSpec` (so no frame is rejected), codec, writes end |
| `nat` | `MCTunNat`, `TunNat.cfg` | 2 connections on a key, 3 sessions, 2 segments, 1 retransmission, 1 lost write | the inductive invariant (types in it), no cross-talk, no gap |
| `nat_one` | `TunNatOne.cfg` | 1 connection, 2 sessions, 3 segments up, 2 down, 2 retransmissions, 1 lost write | one stream down, completeness up, SYNs answered unless the answer was lost |
| `tun` | `MCTunLifecycle`, `TunLifecycle.cfg` | 2 TUNs, 4 commands, 2 numbers, 1 file of others, 1 session and 1 queued packet at a time | the inductive invariant; nothing is left behind, a running TUN is read unless its device failed, what was stopped ends |
| `bridge` | `MCProxyBridge`, `ProxyBridge.cfg` | 2 threads, 2 tasks | the inductive invariant; everything of section 2 for the bridge |
| `bridge_connected` | `ProxyBridgeConnected.cfg` | 1 thread, 1 task | **violated**: Connected only after a real bind |
| `app` | `MCVpnApp`, `VpnApp.cfg` | 3 taps, 3 tasks, 1 stop from outside, 1 kill | the inductive invariant; Disconnected is off, Connecting ends unless an exception ended `connect()` |
| `app_stale` | `VpnAppStale.cfg` | 2 taps, 1 task | **violated**: the shown status mirrors the bridge |
| `connection` | `MCProxiedConnection`, `ProxiedConnection.cfg` | names of 1, 254 and 255 bytes, UTF-8 or not, every address type, 4 method lists, 3 commands, SOCKS4 and 5; one other visitor, three kinds of server, 2 starts | the inductive invariant; the handshake for every legal program, the key, the redirect, nobody waits for ever, a failed way to the server ends the program's connection |
| `socks_tun` | `ProxiedConnectionTun.cfg` | ghost-tun as the program, plain server | **violated**: a grant is understood |
| `reality_keyed` | `ProxiedConnectionKeyed.cfg` | one start, no other visitor | **violated**: a client with the server's key is let in |

### Why the bounds are enough

* *Tunnel.*  With `Cap` 2 a channel can hold a header without its frame, a frame
  followed by the next header, and be full, so every loop can be suspended at
  every await.  Three items from the app are two that fill the last channel and
  one that blocks before it; both directions are made of the same loops, and the
  item of the other one is what a half-close can cost.
  Safety is proved for every bound, of this run and of those below; that the
  cases occur within them matters to liveness.
* *Frame.*  `Base` 8 makes lengths of more than seven octets use both of their
  digits, which frames of every kind here do; 5 octets fragmented by 2 end the
  fragments within the body of the init frame, on a fragment of one octet, when
  TCP took whole ones, and elsewhere when it did not; a frame never fits TCP's
  4 octets.  All three address types occur, with names of 7 octets, the longest.
* *NAT.*  Two connections are what it takes for old and new to meet on a key,
  and three sessions let a repeated SYN open a second one for either.  Keys
  meet only in the two queues, which are first in first out, so one key shows
  what two would; the theorems hold for every set of keys.
* *Life of ghost-tun.*  Two TUNs and two numbers are what it takes for an old task to
  meet a closed number, the same number for the next TUN or for another file, and
  another number; four commands are start, stop, start, stop, with destruction and
  repeated stops between them.
* *Bridge.*  Two calls and two tasks give every pair that can race: start and
  start, start and stop, two stops, a time-out against another call's task.  The
  bound `MaxTasks` is in the guard of `StartCheck` (`Room`): a start that is let
  in always finds a task for it.
* *App.*  Connect, disconnect, connect again, with one failure from outside at
  any moment.  One `connect()` and one `disconnect()` are followed at a time,
  although the code would let a second one begin.
* *Connection.*  The lengths 254 and 255 are the two sides of the buffer's limit.
  One other visitor is what it takes to keep the proxy's connection waiting, two
  starts to change the certificate; the last start does not fail.  `OneOfAKind`
  combines any program with a client without TLS, any client with a scanner, and
  any outsider with a program that does not get to the server: neither side of a
  pair can see what the others vary.  Safety is proved for every combination.

`CHECK_DEADLOCK FALSE` is set everywhere: a tunnel that is over, a proxy at rest
and an app nobody touches really stop, and so do models whose bounds are used up.

### Conditions of some properties

* `ListenerIsKnown`, `RunningIsAlive` and `StopStops` speak of calls that did not
  overlap (`~overlap`).  With overlapping calls they fail: the task raises the
  flag after `stop_proxy` lowered it (`api.rs:91`), and a second start overwrites
  and thereby detaches the handle of the first (`api.rs:102`), whose listener no
  stop then reaches.
* `DisconnectedIsOff` leaves out a process that was killed, and `app` assumes
  `Unhurried`: Connect is tapped when neither `disconnect()` nor a poll is under
  way.  Otherwise the late end of `disconnect()` shows Disconnected over a new
  connection (`proxy_service.dart:106`).
* `NoStuckConnecting` and `ConnectingEnds` name the exceptions: a start that panicked
  because the runtime could not be built (`api.rs:51`), and a `connect()` that an
  exception ended, that one or one of `prepare()` (`proxy_service.dart:55`, `65`).
  After either the status, or the screen, stays at Connecting.
* `AppIsServed` names what the proxy closes without a reply: a name of 255 bytes and
  one that is not UTF-8 (`ghost-client/src/lib.rs:151`, `152`).
* `CleanEndIsComplete` is about an end that has not half-closed; that is all the
  `select!` leaves of `copy_bidirectional`.
* `ProbeIsAnswered` is about a request in one record: of one in two the server may
  read the first, answer, and close over the second, which resets the connection.
  `KeyedClientIsLetIn` speaks of the first start of the server, the best case.
* `LoopIsKnown` and `RunningTunIsRead` name one exception: `TunDevice::new` failed
  (`device.rs:16`, `20`, `23`), which `start_tun` only logs (`api.rs:166`).  The VPN is
  then up, with a handle under `TUN_TASK`, and nobody reads its TUN.
* `RunningTunIsRead` leaves out a number that was given out while an older device
  still used it (`reused`): when that device's writer ends, it takes the TUN of the
  running VPN out of the epoll, and the new loop is never woken again.
* `StoppedEnds` leaves out what the close catches (`Caught`): a loop within a poll
  reads errors without an await that would yield (`ghost-tun/src/lib.rs:64`), and a
  writer that has not yet been told that the TUN is writable never will be.
* `DownstreamIsOneStream` and `UpstreamButLast` speak of the first connection of a
  key (`gen <= 1`), `SynAnswered` is checked for one connection per key; the second
  part of section 7 says what happens with two.  `SynAnswered` names its exception
  (`AnswerLost`): the session has answered and the write of its answer to the TUN
  failed (`ghost-tun/src/lib.rs:49`).  Then the answer is lost for good.

### Fairness

* *Tunnel.*  `WF` for setup, for each of the four loops, for the kernel's delivery
  of a reset and for the reads of the two ends: tokio polls a future that was
  woken, and both futures of a `select!` are polled.  Nobody has to send, shut
  down, close or crash, and no read has a time-out.
* *Frame.*  `WF` for the write under way and for the receiver: both tasks are
  polled, and TCP takes octets when it has room.  Nobody has to send a frame.
* *NAT.*  `WF` for the packet loop, the writer task, and per session for the
  connect (it returns, one way or the other) and the upload task.  The download
  task is not fair: the remote side need not answer.  The kernel need do nothing.
* *Life of ghost-tun.*  `WF` for the callback under way and for `onDestroy`, for each
  loop and writer, for the reactor, and for the end of a session whose queue was
  dropped with the NAT table: it shuts its stream down, after which both relays
  return (`RelaysReleased` of `GhostTunnel`).  Nobody need start or stop the VPN.
* *Bridge.*  `WF` for the steps of a call that has begun and for the steps of a
  task, since threads and runtime run; `accept()` need not fail, nobody need call.
* *App.*  In addition the event loop handles what was posted, the 500 ms timer
  fires, the service gets its intents, and the user answers the consent dialog.
* *Connection.*  Both sides of the handshake run, so do the proxy's steps to the
  server and the server's accept loop and task for it.  A program may leave at any
  time and need not; no other visitor has to do anything, and a server that died
  need not be started again.

## 5. Proofs

Every invariant a passing run checks is a theorem, for all values of the constants
that satisfy the assumptions of the modules, and so is the safety part of both
refinements.  The assumptions are:

| assumption | says |
|---|---|
| `ConfigAssumption` | `AllowedUsers` is a subset of `Users`, `Cap` is positive, `MaxSent` gives a number for each end |
| `LinkAssumption` | the shape of addresses, a user id, the longest frames have a length of two octets (section 3) |
| `NatAssumption` | the outcomes are "ok" and "fail", the bounds are numbers |
| `LifecycleAssumption` | the bounds are numbers; descriptor numbers are finitely many, none of them 0, which stands for no number |
| `BridgeAssumption`, `AppAssumption` | the bounds are numbers, the switches Boolean; the app's callers are its two flows |
| `HandshakeAssumption` | a program is an app or ghost-tun, a name has 1 to 255 bytes |
| `DoorAssumption`, `ProxiedAssumption` | clients are not outsiders, the modes are the three, there is a start; the proxy's connection is the only client |

TLC evaluates them in the runs.  An invariant that is checked is seldom inductive:
what follows says what each proof adds and why.  The inductive invariants are
definitions of the modules they are about and are checked by the runs (`TunnelInv`,
`StreamInv`, `LifeInv`, `BridgeInv`, `AppInv`, `ConnInv`), with one exception that is
named.  Each proof has one lemma per action, or per group of actions that leave the
same part alone, and joins them in a lemma about `Next`.

**`GhostTunnelProofs`**: `TypeCorrect`, `FlowInvariance`, `InOrderDelivery`,
`FramesStayAligned`, `Invariance`, `AllowedUsersOnly`, `CleanEnds`, `NoItemLost`,
`ImplementsStream`.  What an end has received says nothing about what is buffered, so
`FlowInv` adds that every token is what its position in its stream says (`ChannelInv`,
`IsAt`), that the seal loop has written exactly the tokens of the items it has read
but for what it owes of the one it holds (`SealInv`), that the open loop has written
exactly the items of the frames it has read (`OpenInv`), and that an end holds what it
has read (`EndInv`).  Positions are `rd` and `wr`; on the way to the server three
tokens (user id, init header, init frame) precede the frames (`Lead`).  Taking and
putting a token keep `ChannelInv` (`ChannelTake`, `ChannelPut`), a reset only cuts the
tail of a channel (`ChannelReset`), closing changes no position (`CloseStep`), and each
step of a loop keeps it in step (`SealStep`, `OpenStep`).

`FlowInv` says nothing of an end.  `TunnelInv` adds that past the lookup a connection
is one of an allowed user (`AllowedInv`), that sockets are closed by their owner only
(`ClosedInv`), that a relay has returned for a reason only (`CauseInv`), and what a
clean end needs (`DrainInv`): as long as nothing failed and the other end goes on
sending, a relay that has returned had read its stream to the end and forwarded all of
it, and the relay behind it had not returned before.  `CleanEndIsComplete` and
`NothingLost` are `DrainInv` and `FlowInv` put together along the four hops.
`ImplementsStream` is `Spec => Stream!SafeSpec`: what an end sends or receives is a
step of `DuplexStream`, a shutdown is its half-close, a fault its fault, and the steps
of the relays are stutters; that a stream only finishes for a reason is `CauseInv`,
with `ClosedInv` for the sockets between.

**`FrameLinkProofs`**: `LinkInvariance`, `LinkTypeCorrect`, `CodecSafe`,
`NothingRejected`, `ImplementsMessages`.  First the codec: `Decode` of what `Encode`
returns is the message, whatever the padding, for every address `LinkAssumption`
allows, and a frame that is cut short is an error, or the same message without its
padding when only padding is missing (`CodecIsPrefixSafe`).  Then the wire.  `LinkInv` says that there are the frames `F` of
all messages begun, the offsets `P` at which they lie, the octets `W` they make and a
count `v` of those handed to TCP, such that the sender is at the end of `F` with the
rest of `W` left to write (`Sending`), and what the receiver holds and what TCP holds
are the octets of `W` from the beginning of the next message on (`Receiving`).  They
are bound variables since `sent` has the messages only, and padding is not part of a
message; TLC would have to enumerate them, so `LinkInv` is defined in the proof module
and is the one inductive invariant no run evaluates.  A message is then complete
exactly at an offset of `P`, is that of `F` there, and is decoded to it: nothing is
rejected, and the receiver's step is the `Receive` of `MessageChannel`.

**`TunNatProofs`**: `NatInvariance`, `NatTypeCorrect`, `TableIsNewest`, `NoCrossTalk`,
`StreamInvariance`, `NoGap`, `OneStreamDown`, `AllButLast`.  That no payload crosses:
packets, resets apart, stand in the queue in the order of their connections and none is
older than a session of its key (`UpInv`); a packet other than a SYN has a session of
its own connection (`UpInv`, `ConnInv`, `DownInv`), because a connection sends only
SYNs until a session of its own answered; sessions of a key are ordered as their
connections (`SessInv`); the table points at the newest session (`NatIsNewest`).  So
the session a payload meets is at least as new as its own, by `UpInv` not newer, hence
its own, and its channel and stream hold nothing else (`QueueIsOwn`, `UpstreamIsOwn`).

That nothing is missing in a stream: `GapInv` follows a segment from the kernel to the
stream.  A segment that is queued has those before it ahead of it in the queue or in
the session that will get it (`TableInv`, `InOrder`), a SYN that will open a session
still has all of them behind it (`SynInv`, `ConnectingInv`), and what a session has
queued before its connect returned stays queued (`WaitingInv`, `QueueHasNoGap`).

That one stream feeds a connection, and that a stream closed in good order has it all:
`SingleInv`, for the first connection of a key.  There nothing but SYNs precedes a SYN,
so that only one session is ever made (`OneSession`); a FIN has every segment ahead of
it or in the session already (`AllBeforeFin`), and `data_to_socks` ends only when its
queue is empty and the table has let go (`DoneInv`).

**`TunLifecycleProofs`**: `LifeInvariance`, `LifeTypeCorrect`, `TunReleased`,
`KnownLoop`, `RunningIsRead`.  Descriptor numbers outlive what they name, so the
invariant ties three views together: the one open TUN is the last one established and
is under `svc.tun` (`OpenInv`); the handle is that of its loop, and every other loop
was asked to abort (`HandleInv`); a device whose number was never given out again
names its own TUN or nothing, hence takes none but its own out of the epoll
(`LentInv`).  A loop that `failed` keeps its handle and its TUN, which is the exception
both `LoopIsKnown` and `RunningTunIsRead` name.  `QueueInv` bounds what the sessions leave.

**`ProxyBridgeProofs`**: `BridgeTypeCorrect`, `BridgeInvariance`,
`NeverStuckConnecting`, `KnownListener`, `AliveWhenRunning`.  The port is that of the
one task that listens (`PortInv`), nobody knows a task that is not spawned (`BornInv`),
and behind Connecting there is a call that has still to store a status
(`ConnectingInv`), or one that panicked before there was a runtime, without which the
flag is down (`RuntimeInv`); these hold however calls overlap.  As long as they did not
(`CalmInv`), there is one call (`OneCall`) and one task that is not over, which is that
of the call, the one just aborted or the one under the handle (`OneTask`), and
`PROXY_RUNNING` follows it (`RunningInv`).

**`VpnAppProofs`**: `AppInvariance`, `AppTypeCorrect`, `BridgeHoldsInApp`,
`OffWhenDisconnected`.  The app's steps are steps of the bridge or leave it alone, so
`BridgeInv` holds in it, and the lemmas of `ProxyBridgeProofs` are cited.  `CallInv`
says that a bridge call is under way only while its flow waits for it, and that its
result is posted once.  `ConnectInv`, `StartInv` and `OffInv` hold as long as the run is
one `DisconnectedIsOff` speaks of (`Followed`): whatever shows Disconnected, or is about
to (a poll that has read Stopped, a posted result), has nothing behind it but tasks and
intents that are on their way down.  `Unhurried`, the switch of section 4, is a
hypothesis of `OffWhenDisconnected`; without it the statement is false.

**`Socks5HandshakeProofs`**: lemmas, about a single step, for the composition.
`HandInv` follows the bytes: what is on its way to the proxy is the part of the
program's speech that it has not read (`SpeechInv`, `Position`), what the proxy
believes is what the program asked (`ProxyInv`), and what is on its way back is the
answer to it, of which the program has not yet read this much (`AnswerInv`).  A name
that is not UTF-8 has one answer only, that to the greeting (`Refused`).

**`ProxiedConnectionProofs`**: `DoorInvariance`, `KeyOpens`, `ConnInvariance`,
`TunnelAsAsked`, `ConnectedToTunnel`, `AppServed`, `ProbeAnswered`.  `OnlyTheKeyOpens`
looks at tasks and at what visitors believe; in between is the answer on the wire, so
`OnlyTheKeyInv` adds that a grant in `out` is for the key.  `ProbeInv` has the prober
and its task step by step, with the records between them, since an answer is lost only
if its task ends with something unread.  `ConnInv` joins them with `HandInv`: a step is
one of the handshake, of the door, `GoToServer`, or `TunnelFails`, and each of the first
two leaves the other's part alone.

Only model-checked: liveness (the progress `ImplementsFairStream` and
`ImplementsChannel` add to the two theorems about `SafeSpec`; `RelaysReleased`,
`SynAnswered`, `StopStops`, `CallsReturn`, `AbortedEnds`, `ConnectingEnds`,
`ConnectionSettles`, `WriteReturns`, `StoppedEnds`), which needs fairness and ENABLED,
beyond the prover.  The runs that show a violation show it on an instance, which is all
that it takes.

## 6. What is not modelled

* JSON and key derivation.  TLS is its order of messages and its certificate in
  `ServerDoor`, the connection it wraps in `GhostTunnel`, which also leaves out that
  `write_all` on a rustls stream is not followed by a flush.  The wire from server
  to client, which has the same frames and no fragments, is not repeated in
  `FrameLink`.
* The stealth helpers, which only their unit tests call, the JA4 lists, which
  nothing calls, and `ghost.sh`, which does not run (section 2).
* Time-outs of TCP itself, and silent peers: a relay waits for them for ever.
* IPv6 and UDP packets (dropped by the code), checksums.
* `VpnApp` sees `start_tun` and `stop_tun` only as the service's state; `TunLifecycle`
  has them, without the app.
* Connections a stopped proxy had already accepted: their tasks are spawned
  without a handle and live on, so only the listener belongs to the status.
* A process whose runtime could not be built although it could before the process was
  killed (`NoRuntime`, section 3); a consent dialog whose answer is lost with its
  activity.
* A second `connect()` or consent dialog while one is under way, which takes two
  taps before `RustLib.init` has returned (`proxy_service.dart:48`) and leaves the
  first owner of `pendingResult` waiting (`MainActivity.kt:52`); the session clock,
  widgets and notifications.
* What follows the user id on the library's server, which has no handler yet
  (`reality_server.rs:135`); `socks5_udp_associate`, which nothing calls; generated
  bindings; build scripts; the end-to-end test's own reduced server.

## 7. Where code and documentation disagree

Shown by a run (the text that is contradicted is in `PROJECT.json`):

1. `bridge_connected`: a bind that fails drops the sender of the ready signal, and
   the dropped sender resolves the receiver (`api.rs:105`): Connected.
2. `app_stale`: a poll in flight shows Connected after `disconnect()`.
3. `socks_tun`: `socks5_connect` reads the address type twice (`socks5.rs:57`) and
   never gets through to `ghost-client`.  `TunNat`'s outcome "ok" therefore stands
   for a proxy whose bound address begins with a byte that looks like a type.
4. `reality_keyed`: the README has the client's `reality_auth_key` be the server's
   (`README.md:137`).  The client takes it for the fingerprint of a certificate that
   the server makes anew at each start (`tunnel.rs:291`, `ghost-server/src/lib.rs:159`)
   and gives up; with the fingerprint instead, its token has 36 digits of a fixed
   text (`tunnel.rs:238`) where the server wants the 64 of its key (`lib.rs:204`), and
   it is shown the redirect.

Seen while modelling, not kept as a run:

* The `select!` of `handler.rs:182` and `tunnel.rs:203` ends both directions when one
  ends, where `handler.rs:6` and `README.md:86` speak of `copy_bidirectional`: a client
  that half-closes after its request sees a clean end while the answer is still
  coming.
* A holder of the key whose request arrives in two parts is shown the redirect
  (`ghost-server/src/lib.rs:109`), and what comes with the request in one read is lost.
* The acknowledgement number never advances (`tcp_session.rs:151`), so the kernel
  sends everything again, and the SOCKS5 stream gets bytes twice.
* A VPN that is restarted before the sessions of the last one have ended gets the
  same descriptor number, and loses its registration when they end: it is up, and
  its TUN is not read (`RunningTunIsRead` without `~reused`; 14 steps).
* `start_tun` returns at once, although its comment says that it blocks until
  `stop_tun` (`api.rs:151`).
* A payload on a FIN is not forwarded (`ghost-tun/src/lib.rs:165`).
* A session whose connect failed leaves its table entry, and the next SYN on the
  key is ignored (`tcp_session.rs:117`): `SynAnswered` fails with two connections.
* A SYN-ACK or RST whose write to the TUN failed (`ghost-tun/src/lib.rs:49`) is never
  sent again, and the SYN that the kernel repeats for it is ignored, because the
  entry stays (`lib.rs:143`): the connection waits until the kernel gives up.
* A ghost-tun whose device could not be made is logged and nothing else
  (`api.rs:166`): the VPN stays up and its TUN is not read.  A quick restart may get
  there: an old device that begins late registers the new TUN under the reused
  number, and `AsyncFd::new` of the new device finds it registered.
* An exception of `prepare()` or of `startRelizProxy`, which panics when the runtime
  cannot be built, leaves the app at Connecting, with the button disabled
  (`proxy_service.dart:55`, `65`).
* A reset of an old connection removes the entry of the new one (`lib.rs:136`),
  whose repeated SYN opens a second session: `DownstreamIsOneStream` would fail
  for a key's second connection.
* A VPN that was revoked, or failed to start, tells nobody
  (`RelizVpnService.kt:82`, `104`, `127`): the app goes on showing Connected.
* `START_STICKY` (`RelizVpnService.kt:55`) brings the VPN back without a proxy.
* A stale `RUNNING` flag after overlapping starts makes `connect()` succeed at
  once, with the VPN up and nobody on the port.
* `GhostTunBridge.kt` declares `startTun` and `stopTun` as native methods; the
  library exports `ghost_tun_start` and `ghost_tun_stop` (`api.rs:193`), not the
  names JNI looks up, and registers none.  `startTun` then throws an error that
  `RelizVpnService.startVpn` does not catch: the process ends, which in `VpnApp`
  is one of the moments of `ProcessDies`.
* A name of 255 bytes panics the handshake's task (`ghost-client/src/lib.rs:151`),
  and one that is not UTF-8 ends it (`lib.rs:152`); either way the program gets no
  reply.

## 8. Plan

Done: `DuplexStream`, `GhostTunnel`, `MessageChannel`, `FrameLink`, `TunNat`,
`TunLifecycle`, `ProxyBridge`, `VpnApp`, `Socks5Handshake`, `ServerDoor`,
`ProxiedConnection`, the runs above, and the theorems of section 5.

Left to model: a second `connect()` under way in `VpnApp`, and a consent dialog asked
for twice.

Proofs left: none of the runs' safety properties.  Worth adding are theorems about
what a step may not do (a session's stream and an end's items only grow, an abort is
not taken back), and that the bridge's status changes along its documented states
only.
