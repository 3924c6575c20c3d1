# TLA+ models of termlink

termlink lets a browser open terminals on machines behind a relay. This directory
holds TLA+ models of the parts of it that run concurrently or survive failures, the
TLC configurations that check them, and TLAPS proofs of the theorems that matter
most. Source paths below are relative to the repository.

Run TLC on a module with one of its configurations, and tlapm on a proof module:

    tlc -config FrontDoor.cfg MCFrontDoor
    tlapm FrontDoorProofs.tla

## The system

Everything is Node.js: one handler runs at a time in a process, so interleaving comes
from `await`, timers, sockets, and the several processes (browsers, relay, agents,
target servers).

| part | source | state | operations | talks to |
|---|---|---|---|---|
| GUI session registry | `relay/src/gui-sessions.ts` | records by id (state, connectionId, times), map connection -> record | create, attach, markConnected, markDisconnected, close, sweep | called by the web API |
| WebSocket front door | `relay/src/ws-server.ts`, `ws-client-half.ts` | set of halves; per half: protocol state, closed flag, timers, bounded queues | upgrade, authenticate, forward, pause and resume, terminate, close | browsers; API hooks; bridge |
| Web API | `relay/src/api.ts`, `http-sessions.ts` | HTTP sessions, login throttle, probe cache, sweep timer | login, create, list and delete sessions, WebSocket hooks | registry, halves, device manager |
| Device store and manager | `relay/src/device-store.ts`, `device-manager.ts` | secret hashes, online and connectionId by device, links by device | register, verify, setOnline, setOffline, route a half, close | agent links |
| Agent link and session | `relay/src/agent-link.ts`, `agent-session.ts` | link state, attempts, channels by session id; per session: closed, endedByAgent, queues | authenticate, open and remove a channel, send, deliver, teardown | the agent over a WebSocket; a half |
| Relay server, target sessions | `relay/src/relay.ts`, `session.ts` | TCP connections, RelaySessions, targets | route an authenticated client, bridge it to a target, expire, shut down | TCP client |
| Agent | `agent/src/relay-client.ts`, `pty-manager.ts`, `index.ts`, `server/src/pty.ts` | socket, stage, backoff, pending sends; terminals by session id | connect, enrol, reconnect, start, write and dispose terminals | relay, shells |
| Server | `server/src/connection.ts`, `protocol.ts`, `sessions.ts`, `rate-limit.ts`, `auth.ts`, `ssh-backend.ts` | protocol state, sessions, windows of the limiter | authenticate, exchange data, time out | TCP clients, shells, SSH |
| TCP client and framing | `client/src/transport.ts`, `client/src/protocol.ts`, `shared/protocol/framing.ts` | socket, send queue, reconnect attempts; decoder buffer | connect, retry, enqueue, flush, decode | server |
| Web client | `web/src/transport.ts`, `terminal-session.ts`, `app-controller.ts`, `state.ts` | socket, session list, store | create, open, reconnect, close, hydrate, poll | web API, front door |
| Command line, views, configuration, Android start-up | `cli/src`, `web/src/views.ts`, `*/src/config.ts`, `agent/src/android` | little | parse, render | the above |

A browser creates a session record over HTTP and then opens a WebSocket that names
it. The front door accepts the upgrade, the API attaches the half to the record, the
half authenticates (an awaited verification), and the relay routes it: to a target
server through a TCP client, or to an agent device through the one link that device
keeps open to the relay. When the socket drops, the record stays and another socket
may take it up. When the link drops, all halves on it are ended; the agent's terminals
are not told.

### What is hard

- A record, its WebSocket halves, the channel on the link and the agent's terminal are
  four lifetimes matched by ids only. Events of one arrive late at another.
- A handler that awaits (verification, hashing) goes on with what it read before.
- A device may have an old link the relay has not noticed is dead and a new one.
- Wires lose what is under way when they drop; a busy link refuses to send.
- Everything half-open must be resolved by a timer: halves, links, abandoned records.

`PROJECT.json` lists each hazard at its line, with the properties that cover it; the two
without one say why.

### What makes each part correct

- Registry and front door: the record, the map and the sockets agree; the lifecycle
  drawn in `gui-sessions.ts:41-43` is kept; nothing is left pending for ever.
- Device links: store, manager and links agree who is online; a device has one link; a
  finished link does not come back.
- Sessions on devices: a ready half has its channel; a channel has its terminal and a
  terminal its channel, up to what is on the wire.
- Agent: it reconnects after any drop it is documented to survive, over one socket.
- Bridges and byte streams: bytes arrive once and in order, queues are bounded and
  flushed, and a side that was paused is resumed.
- Server connection, limiter, sessions: no protocol message in a wrong state, no more
  attempts in a window than allowed, expired sessions are gone; what a client sends is
  handled in order, however TCP cuts it, and a client that is gone is released.
- Login: overlapping requests cannot get far beyond the throttle; a full store does not
  sign out those who are active.
- Web client: one live transport for a tab, which shows what that transport does; late
  answers of the API neither double a tab nor lose a working one from sight.

## The models

| module | models | checked by |
|---|---|---|
| `GuiRegistry` | the registry as operators on a registry value | through `FrontDoor` |
| `GuiLifecycle` | abstract: the life a session promises | refined by `FrontDoor` |
| `FrontDoor` | registry, halves, API, sweep and shutdown | `FrontDoor.cfg` |
| `LinkPresence` | abstract: one link per device, taken over, never taken back | refined by `DeviceLink` |
| `DeviceLink` | enrolment, authentication and presence of agent links | `DeviceLink.cfg` |
| `DeviceSessions` | front door, link, wires and agent terminals together | `DeviceSessions.cfg` |
| `AgentClient` | an agent's sockets, handshake, timers and the end of its process | `AgentClient.cfg` |
| `AgentStreams` | the bytes of terminals on agent devices, both ways, through every queue | `AgentStreams.cfg`, `AgentStreamsOrder.cfg` |
| `RelayBridge` | a session bridged to a static target: half, bridge, TCP client, both directions | `RelayBridge.cfg` |
| `RateLimiter` | the limiter of authentication attempts as operators on a limiter value | through `Server` |
| `SessionRegistry` | the registry of authenticated sessions as operators on a registry value | through `Server` |
| `Server` | the TCP server: connections, protocol, verification, terminals, expiry, shutdown | `Server.cfg` |
| `Framing` | frames of the TCP protocol and their decoder, as operators on a stream | through `ServerTerminal` |
| `ServerTerminal` | one authenticated client of the TCP server and its terminal | `ServerTerminal.cfg` |
| `Login` | the login throttle and the store of HTTP sessions | `Login.cfg` |
| `TabLife` | abstract: the life of a terminal tab, as operators on a tab | refined by `WebTerminal`, used by `WebApp` |
| `WebTransport` | the browser's WebSocket transport, as operators on a transport | through `WebTerminal` |
| `WebTerminal` | a tab with the transports it opens one after the other | `WebTerminal.cfg` |
| `WebApp` | the page: signing in and out, the list of tabs, overlapping calls of the API | `WebApp.cfg` |
| `FrontDoorProofs`, `AgentLinkProofs`, `DeviceSessionsProofs`, `RelayBridgeProofs`, `ServerProofs`, `PageProofs`, `WebTerminalProofs`, `StreamProofs` | theorems | tlapm |

The modules meet where the processes do. `DeviceSessions` is built from the actions of
`FrontDoor` and `LinkPresence`; `AgentStreams` looks into the wires it has and `AgentClient` at
the other end of its link. `Server` uses `SessionRegistry` and `RateLimiter`, and
`ServerTerminal` begins where its action `Start` ends. `WebApp` takes each tab for a value of
`TabLife`, which `WebTerminal` is shown to implement. The two ends of a link, the page and the
login behind it, and the two that carry terminals' input and output (`ServerTerminal`,
`AgentStreams`) share a module of proofs; that is why what both name alike has a prefix in one of
them (`ClientInit`, `ClientSpec`; `PageInit`, `PageSpec`; `StreamsInit`, `StreamsSpec`).

**FrontDoor.** `gui` is the registry (`state`, `conn` = connectionId, `map` =
connectionToSession). `phase[c]` is a half's life: greeted, verifying, ready, closed with
its socket still ending, gone. A handler is an action; `AuthRequest` starts the awaited
verification and `AuthOk` or `AuthFail` is what runs after it. `AuthOk` includes the API
hook and the routing: a half that the hook refuses, or for which there is no route, is
terminated. `Terminate` takes a set of halves because the loss of a device ends several in
one handler. `Sweep` takes the set of records that are due: the times themselves are
abstracted. A session id is random and so used once: "unused" and "purged" are both "no
record". `Solo` are the sessions whose browser behaves like `web/src/transport.ts` with
one tab: it opens the next socket when the last one has closed, and the relay has
noticed. The others may be open in several tabs at a time.

**DeviceLink.** `dir` holds the three places that know who is online: `online` and
`connectionId` of the store and `linksByDevice` of the manager. `pending[l]` is the
awaited hash of a link. `Verified` and `Registered` run when it is done, whatever became
of the link. The agent waits for the answer to its credentials before it sends others, as
`agent/src/relay-client.ts` does. The rate limiter shared by all connections is a choice
("limited"). Backoff (`authLockedUntil`) is not a state of its own: it is set only together
with the failure that ends the link.

**DeviceSessions.** An agent device with one `DeviceLink` at a time (`holder` and `gone`,
moved by `LinkPresence`'s own actions) and the front door (`FrontDoor`'s own actions).
`bridge` and `via` are the AgentSessions of halves, `mux.channels` the channels of the link,
`mux.down` and `up` the wires, `pty` the agent's terminals by session id, each with the
half it was started for. `held` are the reports among the agent's `pendingSend`: `Report` sends one
or, when the socket has no room, keeps it, `AgentFlush` sends it later, over whatever link there is then
(`relay-client.ts:180-186` leaves the queue alone; only the end of the process empties it), and later reports may pass it. Terminal output in
that queue is `AgentStreams`'; a report says only which session it is about, as the relay treats a failed and an exited terminal alike.
Relay and agent each lose a link without the other noticing;
then what is on the wire is lost. A send on a busy link is refused and its result ignored,
as in the code. `shared`, `mux.unheard` and `mux.stray` only record what happened, so that
properties can say "unless": the session has had two sockets at a time, the open was refused
by a busy link, the close was lost or refused.

**AgentClient.** The other end of a link. `ws` is the client's one field; `sock[k]` is the
readyState of each WebSocket it has opened, `stage` and `timers` its own fields. The relay is any
that speaks the protocol: `peer[k]`, `owed[k]` and `wire[k]` are its link, the credentials it has
not answered and what it has said. It accepts, refuses, ends or loses links when it likes. A
handler acts on `ws`, whichever socket it was installed on, as in the code: the close event of an
old socket forgets the current one. `timers.reconnect` counts timers, and one is all there may be.
`Alive` is what Node.js waits for: sockets and terminals. Every timer of the client is unref'd, and
a handler of SIGINT keeps nothing alive. `overlapped` records that output met a socket that was
closing (`relay-client.ts:116`): then a reconnect is scheduled under a socket that still has a close
event to come, and the one-socket rule is lost. When a WebSocket has closed, what the relay still
believes about it matters no more here; `DeviceSessions` has that side.

**RelayBridge.** A half that has authenticated, the RelaySession and its TcpClient. `half`
holds the half's pause and what waits in it (`inbound`), and what is in flight to the browser
with the pressure flag; `bridge` the two pause flags, `backendReady` (`ready`) and
`preReadyQueue` (`pre`); `tcp` the socket, protocol state, send queue, the drain listeners
registered (`drains`) and still to run (`calls`), and the rest of the chunk being decoded
(`reading`). `held` says that the client has a socket. Messages are numbered as they are
sent, so that order and loss can be told; a message is one unit of a buffer, and those in
`LargeUp` and `LargeDown` exceed a whole mark by themselves. `Enqueued` and `Flushed` are
`enqueue` and `flushQueue` as they are: every message is written, and one for which `write`
answers false is queued as well. One handler that decodes a chunk, or a drain event that runs
several listeners, is several steps with nothing in between (`Idle` guards all others). What the
half refuses is gone and recorded in `refused`. `got` keeps where each message arrived first:
second copies are how this code works (see below). The target is the server of this
repository or whatever else answers on that port: it may say something out of turn (`bad`).
`SessionExpires` is the timer of `relay.ts:166`, which ends the half like any other termination.

**Server.** `conn[c]` is a Connection: `proto` and `attempts` are the fields of the code, `timer`
says that the authentication timer is armed, `verifying` that a verification is awaited. `sock` is the
TCP socket: open; ended, when the server has sent its FIN and the client has not; finishing, when
only the close event is to come, because both have ended or because of a write after the end; closed.
`Live` is the server's map of connections. The synchronous part of an authentication request is
`AuthRequest` (limiter, then attempts of this connection), what follows the `await` is `Verified`, with
the terminal's start in it. Nothing catches what is thrown there, and the process installs no handler
for rejections, so a throw is `Crash`. `authLockedUntil` is not kept: it is set only when the attempts
are used up, and they are never given back, so that it decides nothing. A client waits for the answer
to its credentials, as `client/src/transport.ts` does; `authTimeoutMs` and `authRateWindowMs` are taken
to be positive. `registry` and `limiter` are values of `SessionRegistry` and `RateLimiter`; `term` are
the connections with a shell or an SSH session, which differ in that only a shell can fail to start at
once. The limiter compares times, and so there is a `clock`, and a history `begun` of when
verifications began, which the bound on them is stated over. The times of sessions are abstracted
to which of them are due. What an authenticated client and its terminal say to each other is
`ServerTerminal`.

**AgentStreams.** One link at a time. A socket is the sequence of messages it has not passed on;
`Takes` is the test of `bufferedAmount` that all three senders make, with marks of their own.
`pending`, `polling` and `up` are the agent's `pendingSend`, `drainTimer` and socket; `outputs`,
`pressured` and `flight` an AgentSession's queue, its pressure flag, which changes with that of its half,
and the browser's socket; `inputs`, `paused` and `down` the other way. `Flushed` is the loop all
of them run. `Send`, `Deliver` and `Input` offer a message to the socket first and queue it only when
it is refused, whatever the queue holds, as the code does. A queue that exceeds one of its caps, of messages or of bytes (`Overflows`), ends the half
(`Forgotten`). An exit is one more message, and `Receive` acts on it at once, before what is queued for
the browser (`agent-session.ts:144`). `since` and `shown` are histories: what was sent while the present browser
stays, and what has arrived; `left` is what was pending when a link was lost. Messages have any size: a browser's frame is
limited by `WS_MAX_MESSAGE_SIZE` only, and that, the relay's marks and the agent's (`AgentHighWater`,
`AgentLowWater`) are configured separately. One that exceeds a mark by itself is refused by an empty socket, and
stays at the head of its queue (`Oversized`, see below). The relay's marks are positive and in order, as `relay/src/config.ts:618-627` demands.

**ServerTerminal.** The client's frames are chosen at the start (`sent`); `fed` is how many bytes of
them have come, in chunks of any length. `Arrives` is `onData`: it handles every frame that `Framing`'s
`Decodable` finds complete, one after the other (`AllHandled`), and once one is rejected ignores the rest and ends
the connection (`Failed`). `Written` is `sendSafe`: a write that answers false pauses reading until
`drain`, which a socket that has ended does not emit, and a write after the end destroys the socket.
`out` is what the client has not taken yet, and its lengths what the socket's buffer holds. `term.phase`
covers the PTY, which starts open, and an SSH session that connects and asks for a shell first; input
before that is dropped (`ssh-backend.ts:137`), which `missed` records. `speaks` says that the streams
still deliver: they do for a while after the exit. `last` is the last message the client took.

**Login.** `entry` is the throttle's record of an address; `LoginAllowed`, `Tested` and `Failed` are
`loginAllowed`, its clean-up and `recordLoginFailure`. A request passes the test (`LoginRequest`), awaits,
and is answered by `LoginRefused`, `LoginFails` or `LoginSucceeds`: up to `Overlap` of one address are in
between. Nothing clears an entry on success, as in the code. `store` and `seen` are the sessions and their
`lastSeen`; `Evicted` is `evictIfOversized`. Sessions also expire by age, which is `Logout` at any time.
`failures` and `starts` are histories that the bound is stated over.

**WebTransport, WebTerminal.** A `Transport` is the record of `ws`, `readyState`, the two flags that are
always set together (`closedByUs`), the attempts and the reconnect timer. A socket that a transport lets
go is not kept: its events are recognised as old ones. `WebTerminal` has the transports a tab opened,
each on its own; `Heard` is the session's handler of their events, whichever transport is current.
`dropped` records the transports that tore their socket down and told the session an error only
(`transport.ts:273`, `294`, `345`). The relay may say anything that its protocol allows, and "odd" things.

**WebApp.** Each call of the API is three steps: asked, handled by the relay, answered. `answers[n]` is
what the relay listed for the load of sign-in `n`, `creates[o]` the record it made for a tab, `deletes[o]` the id
`closeSession` asked to delete. Answers are applied to the page as it is by then. `Hydrate` replaces the list, as
`hydrateSessions` does. A TerminalSession object is used once, and stands for its temporary id until it
has one of the relay's. `replaced` and `crossed` record that a reload of the list took tabs away, and
that the page was signed out while it was loading; properties say "unless" with them.

Abstractions common to all: no payloads, names or reasons; identities are a Boolean (may
this user use the session); half and link ids are used once; timers fire at any time.
In `FrontDoor`, sessions without a device end in `AuthOk` with "routed" decided freely; what
follows for those bridged to a static target is `RelayBridge`.

## What is checked

| run | shows | bounds |
|---|---|---|
| `front_door` | `MappedIsLive`, `RecordMatchesHalf`; refinement of `GuiLifecycle` (`KeepsLifecycle`); `ConnectingResolves` and `AbandonedIsForgotten` under fairness | 2 sessions (one of them Solo), 3 halves, at most 2 live |
| `device_link` | `OnlineIffLinked`; refinement of `LinkPresence` (`KeepsPresence`); `LinkSettles` under fairness | 2 devices, 3 agents (two claim the same device), 3 links, 2 attempts |
| `device_sessions` | `ChannelsServed`, `TerminalBehindChannel`; `KeepsFrontDoor`: the composition takes only steps of `FrontDoor`, so the theorems about it hold here | 1 session, 3 halves of which 2 live, 2 links; symmetry on halves and links |
| `agent_client` | `OneSocket`, `ReadyTogether`; `KeepsTrying` and `HandshakeEnds` under fairness | 3 sockets, opened one after the other |
| `agent_streams` | `Conserved`; `QueuesDrain` under fairness | 1 session, 4 messages of 1, 3 or 4 units, high marks of 3 units (agent: 4), low marks of 2, queues of 2 messages and 5 units, 2 links |
| `agent_streams_order` | a counterexample to `OutputInOrder` | messages of 1 or 2 units, 1 link, otherwise the same |
| `relay_bridge` | `UpInOrder`, `DownInOrder`, `PausesEnd`, `EndsTogether`; `TargetReleased` under fairness | 5 messages up, 4 down, the last of each large; marks of 2 (low 1), 3 messages before ready, 2 waiting in the half |
| `server` | `SessionsMatch`, `ShutdownIsFinal`, `PressureBounded`, `ProtocolOrder`; `AuthResolves` under fairness | 3 connections of which 2 live, two with one address and one with none known; 2 attempts each; a window of 2 ticks with 2 attempts, 1 of an address; cleanup from 1 address on; the clock stops after 4 ticks; 2 session ids; shells |
| `server_terminal` | `InputInOrder`, `GoodbyeIsLast`; `PausesEnd` and `GoneIsReleased` under fairness | 3 frames of 5 kinds (input, ping, goodbye, no message, too long) with a header of 1 byte and payloads of at most 1, 2 messages of output of 1 unit, a mark of 2 |
| `login` | `AttemptsBounded`, `ActiveStaySignedIn` | 1 address, 2 attempts, a window of 3 ticks and a lock of 1, 2 overlapping requests, 6 ticks; 4 logins into a store of 3 that gives up 2 |
| `web_app` | `ListedOnce`, `NoStrays`, `PollsWhileSignedIn` | 2 tab objects, 1 record, the start and 1 more sign-in; symmetry on tabs |
| `web_terminal` | `OneTransport`, `ShowsTransport`; refinement of `TabLife` (`KeepsLife`); `TryingEnds` under fairness | 3 transports, 5 retries in a row |

Types are stated by each module's `TypeOK`; where a proof needs it, it is a theorem.

Three halves let a session be re-attached after a reconnect with a third tab competing, and
let the cap of two live halves be hit. Three sockets of an agent are one that lingers, its
successor and one more try. Three links are an old one, its successor and a late
verification. In `relay_bridge` five messages up fill the queue before ready past its cap, or the
socket's buffer twice over with one more waiting in the half, and a flush can overflow again;
four down reach the mark and are refused with one still in the chunk. The large ones are last
because a mark of one unit for all would hide the difference. One session is enough for `DeviceSessions` because channels, terminals and
reports are keyed by session id and the handlers touch one key at a time, except teardown,
which treats all keys alike. In `server` two ticks let a window
elapse and another fill behind it, which is where twice the limit happens, and four are two windows; cleaning up from one address
on makes the limiter forget as often as it can; three connections hit the cap and use one address
twice. In `agent_streams` a small message behind a large one is what finds room out of turn, four
messages fill a socket and a queue at its cap, and the second link meets what was pending on the
first; a message of 3 units is stuck at the agent if it has to be queued, and one of 4 passes the agent's empty socket
and is stuck at either of the relay's. A limit on messages made also means that senders pause: one that never does could keep a socket above
the low mark, and a queue behind it waiting. In `server_terminal` the mark is reached with one message of output and one answer, and a chunk can hold all
three frames. In `login` two requests overlap, of two attempts that are allowed, and six ticks
are two windows: the most that `AttemptsBounded` allows, and an edge between two windows in any place; the fourth login
fills the store past its limit. In `web_app` one tab is created while another is loaded from the record,
closed while it is created, or reopened while it is deleted; a second sign-in overlaps what the
first still loads. In `web_terminal` the five retries are those of the code; three transports are two
that were replaced and the current one. No other counter than the clocks (`MaxClock`) needs a bound: ids are used once, which bounds every
behaviour's openings, as the numbers of messages bound those of a bridge, and the wires hold a few messages for each of them. Symmetry is used
only where no liveness is checked. Deadlock is not checked: when all ids are used up and
everything is closed, a model rightly stops.

**Fairness.** Only timers and the completion of hashing are fair. For the relay these are the
sweep interval (`api.ts:486`), the authentication timers (`ws-client-half.ts:387`,
`agent-link.ts:341`), the forced end of a socket one second after a close
(`ws-client-half.ts:459`), and scrypt's callback. For an agent (`AgentClient`) they are its
authentication and reconnect timers while its process lives, and the end of a closing socket,
which the WebSocket library forces after 30 seconds. In `Server`
they are the authentication timer (`connection.ts:147`) and the end of an awaited verification. Nothing
is owed by whoever is at the other
end, nor by the network, in the modules named so far. In `WebTerminal` they are the reconnect timer
(`web/src/transport.ts`) and the end of an attempt that is not answered, by the relay's authentication
timer or the browser's own limit. `AgentStreams` and `ServerTerminal` ask what becomes of bytes, and so
they need a network that delivers or fails: a socket that holds something passes it on or is closed, a
client reads what it is sent. The timers of `AgentStreams` are fair as well, and in `ServerTerminal` the
close event of a socket that is finished. Weak fairness is enough: a timer stays armed until it fires or is cleared, and what
clears it is what the property waits for. In `RelayBridge` a handler that has begun runs to its end,
a destroyed socket emits its close event and a closing WebSocket is closed, by its peer or by force.
These two are strongly fair: the event loop gets to them, but in the model they are disabled while
another handler runs, which may happen again and again. `DeviceSessions`,
`Login` and `WebApp` are checked for safety only.

### Where code and comments disagree

- A small message overtakes a larger one that is queued (`agent-session.ts:108`): the run
  `agent_streams_order` shows a browser its terminal's output out of order, although "when the browser
  half is write-pressured, output is buffered (capped) and flushed when the half drains"
  (`agent-session.ts:25`). Input (`agent-session.ts:82`) and the agent's queue (`relay-client.ts:121`)
  have the same form.

The others show in the steps of the models, and have no run of their own; properties are stated so
that they hold beside them, with the exception named.

- A session open in two tabs has two authenticated halves; DELETE terminates the one in
  `record.connectionId` (`api.ts:320`), although "Terminates any live connection"
  (`gui-sessions.ts:133`). `Solo` in `RecordMatchesHalf` is the exception.
- Opening a channel replaces the session's prior channel but leaves its AgentSession open, although
  "Any prior channel for the same session id is closed first" (`agent-link.ts:249`): its half's
  input still reaches the link, and when its socket ends it removes the channel of the new
  attachment. `shared` in `DeviceSessions`.
- A close request that a busy link dropped, or that was never sent because the link went, leaves the
  terminal, and `PtyBackend.start` (`server/src/pty.ts:174`) hands it to the next attachment, although
  "a re-attaching browser gets a fresh PTY" (`agent-link.ts:250`). `mux.unheard` and `mux.stray`.
- Two agents that enrol one device overlap in `await hashSecret` (`device-store.ts:132`), and the
  second replaces the secret of the first, although "an enrolled device refuses re-enrollment"
  (`device-store.ts:40`). `Registered` in `DeviceLink` does not test again either.
- The reconnect timer is unref'd (`relay-client.ts:204`), like all others of the client. An agent that
  runs no terminal has nothing left after its socket closed: its process ends before the reconnect,
  although it is to "automatically reconnect on any drop" (`relay-client.ts:40`). `KeepsTrying` speaks of
  agents whose process lives.
- What is pending at the agent when a link is lost waits for another message that finds no room:
  the timer that would flush it is cleared and not set again (`relay-client.ts:352`, `373`). `left` in
  `AgentStreams`. `pendingSend` itself has no bound (`relay-client.ts:121`). A report among it reaches the relay over the
  new link and ends the attachment the session has by then (`agent-link.ts:136` goes by session id). `held` in `DeviceSessions`.
- Input is "buffered (capped) and flushed when the link reports drained" (`agent-session.ts:27`), but a frame that
  exceeds the high mark by itself is refused by an idle link too (`agent-link.ts:294`): `flushInput` stops at it at
  every tick (`agent-session.ts:174-186`), and it and what is queued behind it wait until the browser leaves or the queue
  exceeds its cap. Nothing keeps `WS_MAX_MESSAGE_SIZE` and the wrapping of the message below `WS_SEND_HIGH_WATER`; both
  are 1 MB unless set. Output above the browser's mark is stuck likewise (`ws-client-half.ts:168`), and in `pendingSend` whatever
  exceeds the agent's low mark, to which the drain fills the socket (`relay-client.ts:385`). `Oversized` in `AgentStreams`; `QueuesDrain` speaks
  of queues whose first message some socket takes.
- The news that a terminal has exited discards what is queued for its browser
  (`agent-session.ts:144`), so that the last output may never be shown.
- `Socket.write` has taken the bytes when it answers false, but `enqueue` queues the message as well
  (`client/src/transport.ts:336`) and `flushQueue` writes it again (`350`): the target receives it twice,
  although the queue is to "buffer for later when the socket write queue is full" (`transport.ts:330`). A
  message above the mark by itself is written at every drain. `UpInOrder` speaks of first copies.
- A message the half refuses is kept nowhere (`session.ts:213`, `ws-client-half.ts:168`), and the pause
  comes too late for it and for the rest of the chunk. `DownInOrder` says that nothing else is lost.
- A client that says goodbye while its credentials are being verified moves the protocol to closing, and
  answering it then throws (`server/src/connection.ts:259` and `267`) inside an async function that nobody
  awaits: the server process ends. The client relies on "The protocol accepts goodbye both while
  ready and while authenticating" (`client/src/transport.ts:158`). The authentication timer and a protocol
  error lead to the same throw. `Crash` in `Server`. The relay's half has the same code
  (`ws-client-half.ts:323` and `330`) with the same outcome, after a goodbye or a second request sent before
  the answer to the first; `FrontDoor` has browsers that wait for the answer, as `web/src/transport.ts` does, and no crash of the relay.
- A connection that the server ends while reading is paused gets no `drain` any more
  (`connection.ts:364-379`). The client's FIN stays behind bytes that are not read, and the connection keeps its
  terminal until an error. `Stuck` in `ServerTerminal`.
- Input before an SSH shell is open is dropped (`ssh-backend.ts:137`). `missed` in `ServerTerminal`.
- "Logins are throttled (20 / 10 min / IP)" (`README.md:170`): logins that overlap are all admitted on
  one count, and a window's edge doubles it. `AttemptsBounded` gives the bound that holds.
- A transport that tears itself down after a protocol error, without credentials or on too much output
  emits no "closed" (`web/src/transport.ts:273-277`): its tab goes on showing what it showed, and a connected one
  cannot be reopened. `dropped` in `WebTerminal`.
- A tab closed while it is being created shows "connecting" again when the answer comes and is never
  opened, and its record stays at the relay (`terminal-session.ts:119`): `Provisioned` in `TabLife`.
- A reload of the list replaces live tabs by new ones for their records, without closing the old
  (`app-controller.ts:229`), and a load that ends after signing out fills the list of a page that is signed
  out. `replaced` and `crossed` in `WebApp`.

## What is proved

For every set of sessions, halves, devices, agents, links and tabs, whether finite or not, and for
every limit, from the named assumptions on the constants (`RegistryAssumption`,
`FrontDoorAssumption`, `LinkAssumption`, `SocketAssumption`, `DeviceAssumption`: the sentinels are not ids, limits are
positive; `BridgeAssumption`: marks are positive and the low one is not above the high one; `LimiterAssumption`, `SessionAssumption`, `ServerAssumption`: limits are natural
numbers, the window and the caps positive, the sentinels not ids;
`LoginAssumption`: limits, window and batch are positive, and a batch is at most the whole store; `AttemptsAssumption`, `TransportsAssumption`, `WebAssumption`: bounds are
natural numbers, there is a first sign-in, the ids of tabs, records and calls differ).

`FrontDoorProofs`: `TypeCorrect`, `MapAgrees` (`MappedIsLive`), `RecordAgrees`
(`RecordMatchesHalf`), `ShutdownStays`, `ImplementsLifecycle` (`KeepsLifecycle`). None of the
invariants is inductive by itself. The inductive invariant is

    IInv == TypeOK /\ FreshIds /\ MappedIsLive /\ RecordMatchesHalf /\ ShutdownIsFinal

`FreshIds` says that a half that was never opened is not in the map, and that a mapped half was
opened for the session it is mapped to, which has had a record. Without it an upgrade could meet
an old map entry for its new id, and a new record one for its id. `RecordMatchesHalf` needs
`MappedIsLive` at every step: the record changes state only through the map, so that the map must
be right for the record to follow the right half. `Owned`, that a record names only halves opened
for it, is what DELETE relies on. The refinement follows from `StateMoves`, which lists how one
record may move in a step, and from `RecordMatchesHalf` before and after it, which turns the state
of the record into whether a half backs it.

`AgentLinkProofs`, about the relay's side of links (`DeviceLink`): `TypeCorrect`, `DirectoryAgrees` (`OnlineIffLinked`), `ImplementsPresence`
(`KeepsPresence`), from

    IInv == TypeOK /\ LinksInOrder /\ OnlineIffLinked

`LinksInOrder` says that a link that was used has an agent, that only a link still authenticating,
or closed meanwhile, awaits a hash, and that a verification that will succeed is of an enrolled
device. Without it a link that is already ready could become ready again as another device. The
lemma `ClosedEffect` says what closing a link does to the directory; takeover is that lemma for the
previous link between two updates for the new one.

`AgentLinkProofs`, about the agent's side (`AgentClient`):
`ClientTypeCorrect`, `SocketsInTurn` (`OneSocket`), `ReadyAgrees` (`ReadyTogether`), from

    IInv == TypeOK /\ OneSocket /\ ReconnectWaits /\ InStage /\ StopsForGood /\ LinksOnSockets
            /\ ReadyTogether

`ReconnectWaits` says that a reconnect is scheduled only when the last socket has ended; without it
the timer could open a second socket. `InStage` and `StopsForGood` say what the stage is while there
is a socket and after the goodbye, so that an "ok" is never read in a stage that ignores it.
`LinksOnSockets` ties the relay's side to the sockets: it speaks only where one is open, and its "ok"
is on the wire only of a link it accepted. `ReadyTogether` needs `OneSocket`, for a message may be
read from any socket but acts on the one in `ws`.

`DeviceSessionsProofs`: `TypeCorrect`, `ChannelsAlwaysServed` (`ChannelsServed`),
`TerminalsBehindChannels` (`TerminalBehindChannel`), `FrontDoorKept` (`KeepsFrontDoor`) and
`FrontDoorAgrees` (`MappedIsLive` and `ShutdownIsFinal` of the front door, whatever devices do), for any
sessions, halves, links and cap of connections, from

    IInv == RelayTyped /\ DoorPart /\ SessionsPart /\ WiresPart

`DoorPart` is what devices need of the front door: the invariant of `FrontDoorProofs`, taken over by
instance and lemma by lemma, and three facts that it has no use for itself. A half that was never opened has
no session (`Unused`); the halves of a session that was never `shared` are over but for one
(`AtATime`); and that one is the half its record names (`Alone`). The last makes the `DELETE` of a session and the
reuse of its channel reach the right half. `SessionsPart` is `ChannelsServed` with
`InUse`: an AgentSession belongs to a half that was routed and whose socket has not ended. Without it the
socket of a half that ended could take its successor's channel along. `WiresPart` is
`TerminalBehindChannel` for every session (`AllBehind`) with what it needs of links: relay and agent have
the same link or one of them has none (`LinkEnds`), and nothing is on its way to an agent without a link, whose
terminals are all stray (`NothingAsked`); otherwise a new link would begin with the terminals and the requests of
the old one. A report that the agent holds counts as one on the wire (`ReportedOn`): what `AgentFlush` moves was told before,
and where the relay does not hear the agent there is no channel that could miss it. `RemoveKeeps` and `OpenKeeps` say that removing and opening a channel leave no session worse off, `LastOfAppend`
and `LastOfTail` what a message more or less on the wire does to the last request for a session: a request that is read
either was not the last one, and then the terminal does not matter yet, or the wire has nothing more
to say and the terminal must be right. That a session's last request exists is `LeastElement`, from the
well-foundedness of the natural numbers.

`RelayBridgeProofs`: `TypeCorrect` (which holds the caps of the queues and of what is in flight),
`EndsMeet` (`EndsTogether`), `PausesEndAlways` (`PausesEnd`), `UpInOrderAlways` (`UpInOrder`) and `DownInOrderAlways`
(`DownInOrder`), for any number of messages, any of them
large, and any marks and caps. All of them rest on

    IInv == TypeOK /\ Sound(tcp) /\ OpenHalf(half) /\ EndsTogether /\ Agreed /\ Upward /\ Downward

`Agreed` says that bridge and transport have the same idea of being ready; without it the bridge
could enqueue on a transport that neither writes nor flushes. `Upward` is the half of `PausesEnd`
about the browser: it is an equivalence, paused exactly while the transport has a queue, because a
flush that empties the queue must find the flag to clear. `Downward` carries the numbers: pressure
goes on only at the high mark and off only below the low one, so that with pressure there is at
least one message in flight, unless one was refused for its size. The lemmas `EnqueuedKeeps` and
`FlushedKeeps` say what the two transport operators leave, `NoRoom` that a buffer that has answered
false answers false to whatever comes next, so that the flush at the end of the handshake cannot
drain; `TerminatedKeeps` is the common end of the actions that end the session.

The orders need more. On the way up `InStep` follows every message: the target has exactly `1 .. Len(got)`, and each
message in the socket's buffer, then with the bridge, then with the half comes after the one before it has
been put into one of the queues ahead (`Follows`, `Chain`). The transport's own queue is not one of them: it
holds only what was written before, which is why a flush may repeat a message and never brings a new one
forward. Only this makes the property survive the repetition. `Whole` says that nothing is missing, and which of the queues are empty
when: the bridge's once it is ready, the half's unless it is paused. On the way down `Shown`
says that what was shown comes before what is being decoded and that before what is on the wire
(`Onward`), and `Accounted` that these and the refused are all. Sequences are handled by their sets of values and
by what `Append`, `Tail` and concatenation do to `Follows`, so that no induction is needed.

`ServerProofs`: `TypeCorrect`, `SessionsMatchAlways`, `ShutdownStays`, `PressureStaysBounded`,
`MovesForward` (`ProtocolOrder`), for any connections, addresses, sessions, limits, window and size of
cleanup, from

    IInv == Core /\ Gauged

`Core` is the state of connections: their types, `SessionsMatch`, `ShutdownIsFinal` and `Stage`, which
says how the fields of one connection go together. Without `Stage` a verification could succeed on a
connection that has authenticated, or the timer end one that is served. `Gauged` is about the limiter. The
bound on an interval is not inductive, for it says nothing of what the limiter remembers. `Windowed` says
what a window's start and count tell of the history: all but the last `count` attempts are no later than
its start, and all but the last `count` and `limit` more are a whole window earlier. An attempt, the
renewal of a window and the passing of time keep this (`Counts`, `Renews`, `Passes`), whether or not
the attempt goes on to a verification. An address that is not on record counts as one whose window
starts now (`View`): that the limiter may forget an address follows from the fact that it forgets only
windows that have elapsed.

`PageProofs`, about logins (`Login`): `TypeCorrect`, `AttemptsStayBounded` (`AttemptsBounded`), `ActiveStay`
(`ActiveStaySignedIn`), `StoreStaysBounded` (`StoreBounded`), for any addresses, limits, window, lock, overlap and
size of the store. The inductive invariant cuts the failures of an address into windows: `starts` are those that
began one, a window's failures are at most `WindowMost`, and two starts are at least a window apart.
What makes that inductive is the sum of failures counted in the present window and of requests under way:
a request is let in only below the limit, so that the sum never exceeds `WindowMost` (`ThrottleHolds`),
whatever overlaps. `FailureCounts` is the step that counts one, `TimePasses` says that a tick only makes windows
older, `WindowsBound` derives the property from the windows. `EvictedLeastUsed` says which sessions
make room: those before all that stay, in the order of `Before`.

`WebTerminalProofs`: `TypeCorrect`, `AtMostOneTransport` (`OneTransport`), `TabShowsTransport`
(`ShowsTransport`), `ImplementsLife` (`KeepsLife`), for any number of transports and retries, from

    IInv == TypeOK /\ Tracked /\ OneTransport /\ ShowsTransport

`Tracked` says how the fields of each transport go together (`Coherent`) and what the tab knows of them: no
transport beyond those opened, a ping only while connected, and no socket of a closed tab but one it left to the relay. Without
it a transport that was replaced could still speak, and the relay's answer could find one that has no socket. What
each transport operator leaves is a lemma of its own (`OpenedFields` and so on), `EventKeeps` is the common part of
all events of a transport, `OpenKeeps` that of opening. For the refinement, `WhichMove` says which move of
`TabLife` an event is: whether the tab lives is whether its current transport does, by `OneTransport`.

`PageProofs`, about the page (`WebApp`): `PageTypeCorrect`, `SessionsListedOnce` (`ListedOnce`), `WorkingTabsListed` (`NoStrays`),
`PollingFollows` (`PollsWhileSignedIn`), for any tabs, records and sign-ins, from

    IInv == TypeOK /\ TabsAgree /\ MadeFirst /\ Listings /\ Phases /\ PollsWhileSignedIn

`TabsAgree` holds `ListedOnce` and `NoStrays` and what they rest on: a tab that was not made has neither
an id nor a call (`Fresh`), an id of a record is of one that exists (`OwnIds`), the record made for a tab that is still
listed is on no listed tab until the answer comes (`Provided`), and a tab that awaits it has done nothing but, perhaps, been
closed (`Awaiting`). `ListedOnce` alone is not inductive: the late answer to a creation gives a listed tab the
id of a record, and it is `Provided` that says nobody else has it. A reload keeps it only because the tabs that await an
answer leave the list with all others (`HydrateEffect`). `Listings` says that a list that is answered late names
only records that exist, `Phases` that a page that was signed out loads nothing unless it was loading then.

`StreamProofs`, about the TCP server (`ServerTerminal`): `TypeCorrect`, `InputsInOrder` (`InputInOrder`) and `GoodbyesLast`
(`GoodbyeIsLast`), for any frames of the client, chunks, output and limits. A chunk makes `onData` handle
any number of frames in one step, and a piece of output is cut into any number of messages: the operators
`AllHandled`, `AllSent` and `InFlight` are recursive functions, of which `Recursion` proves that they exist
and `Climb` carries an invariant from one value to the next. The invariant is therefore one of a connection in the
middle of a chunk (`Decoding`): what has been handled is at most what was sent, nothing follows a goodbye once the
connection is closing (`Polite`), the terminal has the inputs handled so far in their order (`Ordered`), and none of them is
missing as long as the connection serves (`Clean`, `Shelled`). `HandledKeeps` is the step for one frame,
`AllHandledKeeps` for those of a chunk.

`StreamProofs`, about agent terminals (`AgentStreams`): `StreamsTypeCorrect` and `StreamsConserved` (`Conserved`), for any
sessions, sizes, marks, cap of the queues and number of links, from

    StreamsInv == StreamsTypeOK /\ Idle /\ \A s \in Sessions : Whole(s)

`Conserved` counts a message over all places where it may be, and is not inductive: an exit, an overflow or a
lost link empties the places of one session, and what another counts must not be among it. `Whole(s)` says that a message told
of `s` belongs to `s` wherever the link mixes sessions (the agent's `pendingSend` and both sockets), that
an input is queued with its own session only, and that identities are those made so far, so that a new
one is counted nowhere. `Idle` says that of a session without a browser nothing is told. `OutputWhole` and `InputWhole` state
this for values, and a lemma of each says what one kind of step does to it (`OutputSends`, `OutputFlushed`, `OutputReceived`, `OutputShown`;
`InputEntered`, `InputFlushed`, `InputGot`). `TimesConcat` is the arithmetic under it: how often a message is in a
concatenation is the sum. `FlushedIs` says what the loop of all flushes leaves, for any sockets and marks: a flush takes the
front of the queue to the end of the socket, and every count is as before. A tick of the link's timer flushes any number
of channels, one after the other (`AllFlushedKeeps`).

Only model-checked: the liveness properties (`ConnectingResolves`,
`AbandonedIsForgotten`, `LinkSettles`, `KeepsTrying`, `HandshakeEnds`, `QueuesDrain`, `TargetReleased`,
`AuthResolves`, `PausesEnd` and `GoneIsReleased` of `ServerTerminal`, `TryingEnds`), which the prover does
not reach; and that an output can overtake another (the run that expects a violation of `OutputInOrder`).

## What is not modelled

Durations outside the limiter and the throttle (only their order matters where modelled), payloads and
terminal sizes, logging, static files, TLS and origin checks.

- The relay's own TCP listener (`relay.ts:200-262`): it sniffs the first bytes for HTTP probes for 150 ms and then
  makes a `Connection`, the class `Server` models, whose session is bridged as in `RelayBridge`. What is
  particular to it is that two owners pause one socket. Reading the code: in the sniff window the socket
  has no error listener, and its timer is not cleared when the socket closes or the relay shuts down, so
  that a closed socket may still be attached.
- The device probe and the cached listing of devices: network input and output, and a cache of answers for display.
- Configuration of all packages, agent credentials, TLS material and host keys: pure functions of text and
  files read once at the start.
- The heartbeats of agent links and the pings of clients: they only make a lost connection known, which the
  models let happen at any time.
- Reconnecting of `client/src/transport.ts`, which the bridge turns off.
- The Android start-up (the same relay client and terminals after operating-system calls), the command
  line (a thin client of the API), the views and the store's subscriptions (layout and events).
