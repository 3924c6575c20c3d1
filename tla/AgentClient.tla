---------------------------- MODULE AgentClient ----------------------------
(***************************************************************************)
(* A device agent's connection to the relay (agent/src/relay-client.ts):   *)
(* its WebSockets, one after the other, the stage of the handshake, its    *)
(* timers, and when its process ends.  The relay is any that speaks the    *)
(* device protocol (relay/src/agent-link.ts): it answers credentials in    *)
(* its own time, ends links when it likes and may lose them unnoticed.     *)
(*                                                                         *)
(* The handlers of every socket act on the one field ws, whichever socket  *)
(* they were installed on.  All timers are unref'd: they do not keep the   *)
(* process alive, only sockets and terminals do.                           *)
(***************************************************************************)
EXTENDS Naturals, Sequences

CONSTANTS
  Sockets,   \* WebSockets the agent opens
  NoSocket   \* ws is null

ASSUME SocketAssumption == NoSocket \notin Sockets

VARIABLES
  ws,             \* the current socket
  sock,           \* readyState of each socket, or "unused"
  stage,          \* of the handshake
  timers,         \* whether the auth and idle timers are set, and how many reconnect timers
  stopRequested,
  ended,          \* why the process has ended, or "no"
  terminals,      \* whether the agent runs terminals
  peer,           \* the relay's AgentLink of each socket, or "none"
  owed,           \* credentials sent over a socket that the relay has not answered
  wire,           \* what is on the wire to the agent
  overlapped      \* a reconnect was scheduled under a closing socket, to state properties

client     == <<ws, sock, stage, timers, stopRequested, ended, terminals, overlapped>>
relay      == <<peer, owed, wire>>
clientVars == <<client, relay>>

Messages == {"ok", "notEnrolled", "err", "goodbye", "work"}

ClientTypeOK ==
  /\ ws \in Sockets \cup {NoSocket}
  /\ sock \in [Sockets -> {"unused", "connecting", "open", "closing", "closed"}]
  /\ stage \in {"closed", "auth", "register", "ready"}
  /\ timers \in [auth : BOOLEAN, idle : BOOLEAN, reconnect : 0 .. 1]
  /\ stopRequested \in BOOLEAN
  /\ ended \in {"no", "stopped", "fatal", "drained"}
  /\ terminals \in BOOLEAN
  /\ peer \in [Sockets -> {"none", "auth", "ready", "closed"}]
  /\ owed \in [Sockets -> Nat]
  /\ wire \in [Sockets -> Seq(Messages)]
  /\ overlapped \in BOOLEAN

ClientInit ==
  /\ ws = NoSocket
  /\ sock = [k \in Sockets |-> "unused"]
  /\ stage = "closed"
  /\ timers = [auth |-> FALSE, idle |-> FALSE, reconnect |-> 0]
  /\ stopRequested = FALSE
  /\ ended = "no"
  /\ terminals = FALSE
  /\ peer = [k \in Sockets |-> "none"]
  /\ owed = [k \in Sockets |-> 0]
  /\ wire = [k \in Sockets |-> <<>>]
  /\ overlapped = FALSE

Running   == ended = "no"
Started   == \E k \in Sockets : sock[k] # "unused"
LiveSocks == {k \in Sockets : sock[k] \in {"connecting", "open", "closing"}}

Writable  == ws # NoSocket /\ sock[ws] = "open"

\* What keeps the process from ending by itself.
Alive == terminals \/ LiveSocks # {}

----------------------------------------------------------------------------
\* Connecting.

\* A plausible mistake: the stage of the last connection stays.
ConnectInStage(k) ==
  /\ sock[k] = "unused"
  /\ ws' = k
  /\ sock' = [sock EXCEPT ![k] = "connecting"]
  /\ timers' = [auth |-> TRUE, idle |-> TRUE, reconnect |-> 0]
  /\ UNCHANGED stage

Connect(k) ==
  /\ sock[k] = "unused"
  /\ ws' = k
  /\ sock' = [sock EXCEPT ![k] = "connecting"]
  /\ timers' = [auth |-> TRUE, idle |-> TRUE, reconnect |-> 0]
  /\ stage' = "auth"

Start(k) ==
  /\ Running /\ ~Started
  /\ Connect(k)
  /\ UNCHANGED <<stopRequested, ended, terminals, overlapped, relay>>

\* The timers as scheduleReconnect leaves them.
Scheduled(ts) == IF stopRequested THEN ts ELSE [ts EXCEPT !.reconnect = 1]

\* The reconnect timer fires, if the process is still there.
Reconnect(k) ==
  /\ Running /\ Alive /\ timers.reconnect > 0
  /\ IF stopRequested
     THEN /\ timers' = [timers EXCEPT !.reconnect = 0]
          /\ UNCHANGED <<ws, sock, stage>>
     ELSE Connect(k)
  /\ UNCHANGED <<stopRequested, ended, terminals, overlapped, relay>>

\* Credentials go to the current socket, whichever one has opened.
Sent(socks) ==
  [k \in Sockets |-> IF k = ws /\ socks[k] = "open" THEN owed[k] + 1 ELSE owed[k]]

SocketOpen(k) ==
  /\ Running /\ sock[k] = "connecting"
  /\ sock' = [sock EXCEPT ![k] = "open"]
  /\ owed' = Sent(sock')
  /\ peer' = [peer EXCEPT ![k] = "auth"]
  /\ UNCHANGED <<ws, stage, timers, stopRequested, ended, terminals, overlapped, wire>>

\* A close frame from the relay's side, or a proxy between.
SocketCloses(k) ==
  /\ Running /\ sock[k] = "open"
  /\ sock' = [sock EXCEPT ![k] = "closing"]
  /\ UNCHANGED <<ws, stage, timers, stopRequested, ended, terminals, overlapped, relay>>

\* A plausible mistake: only a connection that was in use is tried again.
DroppedInUse ==
  LET cleared == [timers EXCEPT !.auth = FALSE, !.idle = FALSE]
  IN  IF stage = "ready" THEN Scheduled(cleared) ELSE cleared

\* The timers after the current socket is gone.
Dropped == Scheduled([timers EXCEPT !.auth = FALSE, !.idle = FALSE])

\* The close event, of a socket that failed to connect, was closed or was lost.
\* Whether the relay has noticed no longer matters to the agent.
SocketClosed(k) ==
  /\ Running /\ k \in LiveSocks
  /\ sock' = [sock EXCEPT ![k] = "closed"]
  /\ ws' = NoSocket
  /\ timers' = IF ws = NoSocket THEN timers ELSE Dropped
  /\ owed' = [owed EXCEPT ![k] = 0]
  /\ wire' = [wire EXCEPT ![k] = <<>>]
  /\ peer' = [peer EXCEPT ![k] = "closed"]
  /\ UNCHANGED <<stage, stopRequested, ended, terminals, overlapped>>

----------------------------------------------------------------------------
\* Messages of the relay.

\* The current socket is closed from this side.
Forced == [k \in Sockets |-> IF k = ws /\ sock[k] \in {"connecting", "open"}
                             THEN "closing" ELSE sock[k]]

Accepted ==
  /\ IF stage \in {"auth", "register"}
     THEN stage' = "ready" /\ timers' = [timers EXCEPT !.auth = FALSE, !.idle = TRUE]
     ELSE timers' = [timers EXCEPT !.idle = TRUE] /\ UNCHANGED stage
  /\ UNCHANGED <<ws, sock, stopRequested, ended, terminals, owed>>

\* An error while enrolling, or any other than "Device not enrolled" while
\* authenticating, is final: the process exits.
Refused(msg) ==
  /\ timers' = [timers EXCEPT !.idle = TRUE]
  /\ CASE stage = "register" \/ (stage = "auth" /\ msg = "err") ->
            ended' = "fatal" /\ UNCHANGED <<stage, owed>>
       [] stage = "auth" /\ msg = "notEnrolled" ->
            stage' = "register" /\ owed' = Sent(sock) /\ UNCHANGED ended
       [] OTHER -> UNCHANGED <<stage, owed, ended>>
  /\ UNCHANGED <<ws, sock, stopRequested, terminals>>

Dismissed ==
  /\ stopRequested' = TRUE
  /\ timers' = [timers EXCEPT !.auth = FALSE, !.idle = FALSE]
  /\ sock' = Forced
  /\ ws' = NoSocket
  /\ stage' = "closed"
  /\ UNCHANGED <<ended, terminals, owed>>

\* A session is opened or closed, or gets input.
Worked ==
  /\ timers' = [timers EXCEPT !.idle = TRUE]
  /\ terminals' \in BOOLEAN
  /\ UNCHANGED <<ws, sock, stage, stopRequested, ended, owed>>

Receive(k) ==
  /\ Running /\ sock[k] \in {"open", "closing"} /\ wire[k] # <<>>
  /\ wire' = [wire EXCEPT ![k] = Tail(@)]
  /\ CASE Head(wire[k]) = "ok"      -> Accepted
       [] Head(wire[k]) = "goodbye" -> Dismissed
       [] Head(wire[k]) = "work"    -> Worked
       [] OTHER                     -> Refused(Head(wire[k]))
  /\ UNCHANGED <<peer, overlapped>>

----------------------------------------------------------------------------
\* Timers, terminals, and the end of the process.

\* A plausible mistake: the reconnect does not wait for the socket's end.
HandshakeTimeoutAtOnce ==
  /\ Running /\ timers.auth
  /\ timers' = Scheduled([timers EXCEPT !.auth = FALSE])
  /\ sock' = IF stage = "ready" THEN sock ELSE Forced
  /\ UNCHANGED <<ws, stage, stopRequested, ended, terminals, overlapped, relay>>

\* A plausible mistake: enrolment is not under the deadline.
HandshakeTimeoutInAuth ==
  /\ Running /\ timers.auth
  /\ timers' = [timers EXCEPT !.auth = FALSE]
  /\ sock' = IF stage = "auth" THEN Forced ELSE sock
  /\ UNCHANGED <<ws, stage, stopRequested, ended, terminals, overlapped, relay>>

HandshakeTimeout ==
  /\ Running /\ timers.auth
  /\ timers' = [timers EXCEPT !.auth = FALSE]
  /\ sock' = IF stage = "ready" THEN sock ELSE Forced
  /\ UNCHANGED <<ws, stage, stopRequested, ended, terminals, overlapped, relay>>

IdleTimeout ==
  /\ Running /\ timers.idle
  /\ timers' = [timers EXCEPT !.idle = FALSE]
  /\ sock' = IF stage = "closed" THEN sock ELSE Forced
  /\ UNCHANGED <<ws, stage, stopRequested, ended, terminals, overlapped, relay>>

\* A terminal has output, or has exited, and the current socket is not open: a
\* reconnect is scheduled although the socket has not ended.
SendFails ==
  /\ Running /\ terminals /\ stage = "ready"
  /\ ~Writable
  /\ stage' = "closed"
  /\ timers' = Scheduled(timers)
  /\ overlapped' = (overlapped \/ ws # NoSocket)
  /\ terminals' \in BOOLEAN
  /\ UNCHANGED <<ws, sock, stopRequested, ended, relay>>

TerminalExit ==
  /\ Running /\ terminals
  /\ terminals' = FALSE
  /\ UNCHANGED <<ws, sock, stage, timers, stopRequested, ended, overlapped, relay>>

\* SIGINT or SIGTERM.
Stop ==
  /\ Running /\ Started
  /\ ended' = "stopped"
  /\ UNCHANGED <<ws, sock, stage, timers, stopRequested, terminals, overlapped, relay>>

\* Nothing is left that keeps the process alive.
Drain ==
  /\ Running /\ Started /\ ~Alive
  /\ ended' = "drained"
  /\ UNCHANGED <<ws, sock, stage, timers, stopRequested, terminals, overlapped, relay>>

----------------------------------------------------------------------------
\* The relay, and the network.

Says(k, msgs) ==
  wire' = IF sock[k] \in {"open", "closing"} THEN [wire EXCEPT ![k] = @ \o msgs] ELSE wire

Linked(k) == Running /\ peer[k] \in {"auth", "ready"}

\* Credentials are accepted, answered with "Device not enrolled", or refused.
RelayAnswers(k) ==
  /\ Linked(k) /\ owed[k] > 0
  /\ owed' = [owed EXCEPT ![k] = @ - 1]
  /\ \/ peer' = [peer EXCEPT ![k] = "ready"] /\ Says(k, <<"ok">>)
     \/ peer[k] = "auth" /\ Says(k, <<"notEnrolled">>) /\ UNCHANGED peer
     \/ peer' = [peer EXCEPT ![k] = "closed"] /\ Says(k, <<"err", "goodbye">>)
  /\ UNCHANGED client

\* Sessions come and go; one message at a time is enough.
RelayWorks(k) ==
  /\ Linked(k) /\ peer[k] = "ready" /\ wire[k] = <<>>
  /\ Says(k, <<"work">>)
  /\ UNCHANGED <<client, peer, owed>>

\* The relay ends a link: it is idle or superseded, or the relay shuts down.
RelayEnds(k) ==
  /\ Linked(k)
  /\ peer' = [peer EXCEPT ![k] = "closed"]
  /\ Says(k, <<"goodbye">>)
  /\ UNCHANGED <<client, owed>>

\* The relay loses a link.
RelayLoses(k) ==
  /\ Linked(k)
  /\ peer' = [peer EXCEPT ![k] = "closed"]
  /\ UNCHANGED <<client, owed, wire>>

ClientNext ==
  \/ \E k \in Sockets : Start(k)
  \/ \E k \in Sockets : Reconnect(k)
  \/ \E k \in Sockets : SocketOpen(k)
  \/ \E k \in Sockets : SocketCloses(k)
  \/ \E k \in Sockets : SocketClosed(k)
  \/ \E k \in Sockets : Receive(k)
  \/ HandshakeTimeout
  \/ IdleTimeout
  \/ SendFails
  \/ TerminalExit
  \/ Stop
  \/ Drain
  \/ \E k \in Sockets : RelayAnswers(k)
  \/ \E k \in Sockets : RelayWorks(k)
  \/ \E k \in Sockets : RelayEnds(k)
  \/ \E k \in Sockets : RelayLoses(k)

\* The agent's timers fire, and a closing socket ends (the WebSocket library
\* destroys it 30 seconds later at the latest).  Relay and network owe nothing.
ClientFairness ==
  /\ WF_clientVars(HandshakeTimeout)
  /\ WF_clientVars(\E k \in Sockets : Reconnect(k))
  /\ \A k \in Sockets : WF_clientVars(sock[k] = "closing" /\ SocketClosed(k))

ClientSpec == ClientInit /\ [][ClientNext]_clientVars /\ ClientFairness

----------------------------------------------------------------------------
\* The agent has one socket at a time, and ws is that socket until the relay's
\* goodbye, unless output met a socket that was closing: then the close event of
\* the old socket can make the agent forget the new one (relay-client.ts, connect
\* and handleSocketClose).
OneSocket ==
  Running /\ ~overlapped =>
    /\ \A j, k \in LiveSocks : j = k
    /\ ws # NoSocket => ws \in LiveSocks
    /\ LiveSocks # {} /\ ~stopRequested => ws \in LiveSocks

HasOk(k) == \E i \in DOMAIN wire[k] : wire[k][i] = "ok"

\* Agent and relay agree whether the device is online, up to what is on the wire:
\* an agent that is ready is so on a link the relay accepted, and a link the relay
\* accepted has a ready agent, or one that has yet to read so.
ReadyTogether ==
  Running /\ ~overlapped =>
    \A k \in Sockets :
      /\ ws = k /\ stage = "ready" => peer[k] \in {"ready", "closed"} /\ sock[k] # "connecting"
      /\ ws = k /\ peer[k] = "ready" => stage = "ready" \/ HasOk(k)

Fresh == {k \in Sockets : sock[k] = "unused"}

\* An agent without a socket gets another one, unless it was told to stop or refused,
\* or nothing keeps its process alive.
KeepsTrying ==
  Running /\ Started /\ ws = NoSocket ~> ws # NoSocket \/ stopRequested \/ ~Alive \/ ~Running
                                         \/ Fresh = {}

\* A handshake does not hang, in enrolment neither, whatever the relay does or does
\* not answer, unless a reconnect was scheduled under a closing socket.
HandshakeEnds ==
  \A k \in Sockets :
    Running /\ ws = k /\ stage # "ready" ~> ws # k \/ stage = "ready" \/ overlapped \/ ~Running
=============================================================================
