---------------------------- MODULE RelayBridge ----------------------------
(***************************************************************************)
(* A browser's session with a statically configured target: the relay's    *)
(* bridge (relay/src/session.ts) between an authenticated WebSocket half   *)
(* (relay/src/ws-client-half.ts) and the TCP client that connects and      *)
(* authenticates to the target (client/src/transport.ts, protocol.ts).     *)
(* Bytes flow up, browser to target, and down; each side can pause the     *)
(* other, and either end, a timer or the relay may end the session.        *)
(*                                                                         *)
(* Messages are numbered in the order they are sent.  A message counts as  *)
(* one unit of a buffer; the large ones exceed a whole high-water mark.    *)
(* A handler that decodes a chunk, or runs the drain listeners of one      *)
(* event, is one step for each message or listener, and nothing else runs  *)
(* in between.                                                             *)
(***************************************************************************)
EXTENDS Naturals, Sequences, FiniteSets

CONSTANTS
  NUp, NDown,            \* how many messages the browser and the target send
  LargeUp, LargeDown,    \* those that exceed a high-water mark by themselves
  SocketHigh,            \* high-water mark of the TCP socket's write buffer
  WsHigh, WsLow,         \* sendHighWaterMark, sendLowWaterMark
  MaxPre, MaxInbound     \* MAX_PRE_READY_FRAMES, MAX_INBOUND_FRAMES

ASSUME BridgeAssumption ==
  /\ {NUp, NDown, MaxPre, MaxInbound} \subseteq Nat
  /\ LargeUp \subseteq 1 .. NUp /\ LargeDown \subseteq 1 .. NDown
  /\ SocketHigh \in Nat \ {0} /\ WsHigh \in Nat \ {0}
  /\ WsLow \in 1 .. WsHigh

VARIABLES
  half,      \* WebSocketClientHalf
  bridge,    \* RelaySession
  tcp,       \* TcpClient and its socket
  sent,      \* how many messages the browser has sent
  got,       \* the browser's messages the target has received, each where it came first
  target,    \* what the target has said: the handshake, how much data, whether it was asked
  wire,      \* what is on the wire from the target
  shown,     \* the target's messages given to the browser's WebSocket
  refused    \* those the half refused

world == <<sent, got, target, wire, shown, refused>>
vars  == <<half, bridge, tcp, world>>

Up   == 1 .. NUp
AUTH == 0            \* the auth_request in the socket's buffer

Control == {"hello", "auth_ok", "auth_fail", "goodbye", "bad"}
ServerMessages == [type : Control, n : {0}] \cup [type : {"data"}, n : 1 .. NDown]
Say(type) == [type |-> type, n |-> 0]

Half   == [ws : {"open", "closing", "closed"}, closed : BOOLEAN, paused : BOOLEAN,
           inbound : Seq(Up), inFlight : 0 .. WsHigh, pressure : BOOLEAN]
Bridge == [closed : BOOLEAN, ready : BOOLEAN, pre : Seq(Up),
           clientPaused : BOOLEAN, backendPaused : BOOLEAN]
Tcp    == [sock : {"connecting", "up", "closing", "closed"}, held : BOOLEAN,
           proto : {"waiting_hello", "authenticating", "ready", "closing", "disconnected"},
           closedByUs : BOOLEAN, destroyed : BOOLEAN, paused : BOOLEAN,
           reading : Seq(ServerMessages), buf : Seq(Up \cup {AUTH}), needDrain : BOOLEAN,
           queue : Seq(Up), drains : Nat, calls : Nat]
Target == [said : {"nothing", "hello", "ok", "done"}, data : 0 .. NDown, asked : BOOLEAN]

TypeOK ==
  /\ half \in Half /\ Len(half.inbound) <= MaxInbound
  /\ bridge \in Bridge /\ Len(bridge.pre) <= MaxPre
  /\ tcp \in Tcp
  /\ sent \in 0 .. NUp /\ got \in Seq(Up)
  /\ target \in Target /\ wire \in Seq(ServerMessages)
  /\ shown \in Seq(1 .. NDown) /\ refused \subseteq 1 .. NDown

Init ==
  /\ half = [ws |-> "open", closed |-> FALSE, paused |-> FALSE,
             inbound |-> <<>>, inFlight |-> 0, pressure |-> FALSE]
  /\ bridge = [closed |-> FALSE, ready |-> FALSE, pre |-> <<>>,
               clientPaused |-> FALSE, backendPaused |-> FALSE]
  /\ tcp = [sock |-> "connecting", held |-> TRUE, proto |-> "waiting_hello",
            closedByUs |-> FALSE, destroyed |-> FALSE, paused |-> FALSE,
            reading |-> <<>>, buf |-> <<>>, needDrain |-> FALSE,
            queue |-> <<>>, drains |-> 0, calls |-> 0]
  /\ sent = 0 /\ got = <<>>
  /\ target = [said |-> "nothing", data |-> 0, asked |-> FALSE]
  /\ wire = <<>> /\ shown = <<>> /\ refused = {}

\* No handler is in the middle of a chunk or of its drain listeners.
Idle == tcp.reading = <<>> /\ tcp.calls = 0

----------------------------------------------------------------------------
\* Writing to the target's socket.

\* Socket.write answers false when what is in the buffer has reached the mark.
Full(b) == Len(b) >= SocketHigh \/ \E i \in DOMAIN b : b[i] \in LargeUp

\* How many of ms are written before, and without, such an answer.
Room(b, ms) == Cardinality({i \in DOMAIN ms : ~Full(b \o SubSeq(ms, 1, i))})

From(ms, i) == SubSeq(ms, i, Len(ms))

CanSend(t) == t.held /\ t.proto = "ready"

\* A plausible mistake: no drain listener for what is queued.
EnqueuedOnly(t, ms) ==
  IF CanSend(t)
  THEN LET over == From(ms, Room(t.buf, ms) + 1)
       IN  [t EXCEPT !.buf = @ \o ms, !.queue = @ \o over, !.needDrain = @ \/ over # <<>>]
  ELSE IF t.destroyed THEN t ELSE [t EXCEPT !.queue = @ \o ms]

\* The transport after ms are sent: every one of them is written, and those for
\* which write answered false are also queued, each with a drain listener.
Enqueued(t, ms) ==
  IF CanSend(t)
  THEN LET over == From(ms, Room(t.buf, ms) + 1)
       IN  [t EXCEPT !.buf = @ \o ms, !.queue = @ \o over,
                     !.drains = @ + Len(over), !.needDrain = @ \/ over # <<>>]
  ELSE IF t.destroyed THEN t ELSE [t EXCEPT !.queue = @ \o ms]

\* The transport after its queue is flushed: up to the first message for which write
\* answers false, which is written and stays in the queue.
Flushed(t) ==
  LET k == Room(t.buf, t.queue)
  IN  IF ~CanSend(t) \/ t.queue = <<>> THEN t
      ELSE IF k = Len(t.queue) THEN [t EXCEPT !.buf = @ \o t.queue, !.queue = <<>>]
      ELSE [t EXCEPT !.buf = @ \o SubSeq(t.queue, 1, k + 1), !.queue = From(@, k + 1),
                     !.drains = @ + 1, !.needDrain = TRUE]

\* Whether flushing reports "drained".
Drained(t) == CanSend(t) /\ t.queue # <<>> /\ Flushed(t).queue = <<>>

----------------------------------------------------------------------------
\* Ending.

HalfEnded(h) ==
  IF h.closed THEN h
  ELSE [h EXCEPT !.closed = TRUE, !.ws = IF @ = "open" THEN "closing" ELSE @]

\* The socket is destroyed and forgotten; the rest of a chunk is not decoded.
SocketDestroyed(t) ==
  [t EXCEPT !.held = FALSE, !.reading = <<>>,
            !.sock = IF t.held THEN "closing" ELSE @]

\* A plausible mistake: the transport is left alone.
TerminatedHalf(t, h) ==
  IF bridge.closed
  THEN tcp' = t /\ half' = h /\ UNCHANGED bridge
  ELSE /\ bridge' = [bridge EXCEPT !.closed = TRUE]
       /\ tcp' = [t EXCEPT !.reading = <<>>]
       /\ half' = HalfEnded(h)

\* RelaySession.terminate, of a transport and a half as a handler has left them.
Terminated(t, h) ==
  IF bridge.closed
  THEN tcp' = t /\ half' = h /\ UNCHANGED bridge
  ELSE /\ bridge' = [bridge EXCEPT !.closed = TRUE]
       /\ tcp' = [SocketDestroyed(t) EXCEPT !.destroyed = TRUE]
       /\ half' = HalfEnded(h)

----------------------------------------------------------------------------
\* Up: from the browser to the target.

\* The bridge sends ms and pauses the half while the transport has a queue; rest
\* stays in the half.
SendUp(t, ms, rest) ==
  LET u == Enqueued(t, ms)
  IN  /\ tcp' = u
      /\ bridge' = [bridge EXCEPT !.clientPaused = u.queue # <<>>]
      /\ half' = [half EXCEPT !.paused = u.queue # <<>>, !.inbound = rest]

\* Before the target is ready; with one message too many the session ends (and what is
\* in its queue no longer matters).
Buffered(m) ==
  IF Len(bridge.pre) = MaxPre THEN Terminated(tcp, half)
  ELSE /\ bridge' = [bridge EXCEPT !.pre = Append(@, m)]
       /\ UNCHANGED <<half, tcp>>

\* While the half is paused; with one message too many the half ends.
Waits(m) ==
  /\ half' = IF Len(half.inbound) = MaxInbound THEN HalfEnded(half)
             ELSE [half EXCEPT !.inbound = Append(@, m)]
  /\ UNCHANGED <<bridge, tcp>>

BrowserSends ==
  /\ Idle /\ half.ws = "open" /\ ~half.closed /\ sent < NUp
  /\ sent' = sent + 1
  /\ \/ half.paused /\ Waits(sent')
     \/ ~half.paused /\ bridge.ready /\ SendUp(tcp, <<sent'>>, half.inbound)
     \/ ~half.paused /\ ~bridge.ready /\ Buffered(sent')
  /\ UNCHANGED <<got, target, wire, shown, refused>>

\* A plausible mistake: the half is resumed but keeps what waits in it.
FlushQueueOnly(t) ==
  IF Drained(t) /\ bridge.clientPaused
  THEN /\ tcp' = Flushed(t)
       /\ bridge' = [bridge EXCEPT !.clientPaused = FALSE]
       /\ half' = [half EXCEPT !.paused = FALSE]
  ELSE tcp' = Flushed(t) /\ UNCHANGED <<half, bridge>>

\* TcpClient.flushQueue on transport t.  If that reports "drained", the bridge resumes
\* the half, which lets the messages that wait in it go until it is paused again.
FlushQueue(t) ==
  IF Drained(t) /\ bridge.clientPaused
  THEN LET u == Flushed(t)
           n == IF half.closed THEN 0
                ELSE IF Room(u.buf, half.inbound) = Len(half.inbound) THEN Len(half.inbound)
                ELSE Room(u.buf, half.inbound) + 1
       IN  SendUp(u, SubSeq(half.inbound, 1, n), From(half.inbound, n + 1))
  ELSE tcp' = Flushed(t) /\ UNCHANGED <<half, bridge>>

\* The next of the drain listeners of one event.
DrainListener ==
  /\ tcp.calls > 0
  /\ FlushQueue([tcp EXCEPT !.calls = @ - 1])
  /\ UNCHANGED world

\* The socket hands a message to the network, and the target receives it.  The last
\* one emits "drain" if a write was answered false.
SocketWrites ==
  /\ Idle /\ tcp.sock = "up" /\ tcp.buf # <<>>
  /\ LET m == Head(tcp.buf)
     IN  /\ got' = IF m = AUTH \/ \E i \in DOMAIN got : got[i] = m THEN got ELSE Append(got, m)
         /\ target' = [target EXCEPT !.asked = @ \/ m = AUTH]
  /\ LET t == [tcp EXCEPT !.buf = Tail(@)]
     IN  tcp' = IF t.needDrain /\ t.buf = <<>>
                THEN [t EXCEPT !.needDrain = FALSE, !.calls = t.drains, !.drains = 0]
                ELSE t
  /\ UNCHANGED <<half, bridge, sent, wire, shown, refused>>

----------------------------------------------------------------------------
\* Down: from the target to the browser.

\* What the target says next: server/src/connection.ts, or another program that
\* answers on that port, or a frame larger than the relay takes.
TargetSays ==
  /\ Idle /\ tcp.sock = "up"
  /\ \/ /\ target.said = "nothing"
        /\ target' = [target EXCEPT !.said = "hello"]
        /\ wire' = Append(wire, Say("hello"))
     \/ /\ target.said = "hello" /\ target.asked
        /\ \/ target' = [target EXCEPT !.said = "ok"] /\ wire' = Append(wire, Say("auth_ok"))
           \/ target' = [target EXCEPT !.said = "done"] /\ wire' = Append(wire, Say("auth_fail"))
     \/ /\ target.said = "ok" /\ target.data < NDown
        /\ target' = [target EXCEPT !.data = @ + 1]
        /\ wire' = Append(wire, [type |-> "data", n |-> target.data + 1])
     \/ /\ target.said \in {"hello", "ok"}
        /\ target' = [target EXCEPT !.said = "done"]
        /\ wire' = Append(wire, Say("goodbye"))
     \/ /\ target.said # "done"
        /\ target' = [target EXCEPT !.said = "done"]
        /\ wire' = Append(wire, Say("bad"))
  /\ UNCHANGED <<half, bridge, tcp, sent, got, shown, refused>>

\* A chunk arrives.  Pausing stops the next chunk, not the rest of this one.
SocketReads ==
  /\ Idle /\ tcp.sock = "up" /\ ~tcp.paused
  /\ \E k \in 1 .. Len(wire) :
       /\ tcp' = [tcp EXCEPT !.reading = SubSeq(wire, 1, k)]
       /\ wire' = From(wire, k + 1)
  /\ UNCHANGED <<half, bridge, sent, got, target, shown, refused>>

ProtocolError == tcp' = [SocketDestroyed(tcp) EXCEPT !.closedByUs = TRUE]

\* The half takes message d, or refuses it when that would exceed its mark.
HalfTakes(d) == half.inFlight < WsHigh /\ d \notin LargeDown

\* A plausible mistake: the rest of the chunk goes with a refused message.
ForwardOrDrop(t, d) ==
  LET open == ~half.closed /\ half.ws = "open"
  IN  IF open /\ HalfTakes(d)
      THEN /\ half' = [half EXCEPT !.inFlight = @ + 1]
           /\ shown' = Append(shown, d)
           /\ tcp' = t
           /\ UNCHANGED <<bridge, refused>>
      ELSE /\ half' = [half EXCEPT !.pressure = @ \/ open]
           /\ bridge' = [bridge EXCEPT !.backendPaused = TRUE]
           /\ tcp' = [t EXCEPT !.paused = TRUE, !.reading = <<>>]
           /\ refused' = IF open THEN refused \cup {d} ELSE refused
           /\ UNCHANGED shown

\* RelaySession.forwardToClient: a message the half does not take is gone, and the
\* transport is paused.
ForwardToClient(t, d) ==
  LET open == ~half.closed /\ half.ws = "open"
  IN  IF open /\ HalfTakes(d)
      THEN /\ half' = [half EXCEPT !.inFlight = @ + 1]
           /\ shown' = Append(shown, d)
           /\ tcp' = t
           /\ UNCHANGED <<bridge, refused>>
      ELSE /\ half' = [half EXCEPT !.pressure = @ \/ open]
           /\ bridge' = [bridge EXCEPT !.backendPaused = TRUE]
           /\ tcp' = [t EXCEPT !.paused = @ \/ ~bridge.backendPaused]
           /\ refused' = IF open THEN refused \cup {d} ELSE refused
           /\ UNCHANGED shown

\* auth_ok: the bridge sends what has waited and pauses the half if there is a queue;
\* then the transport flushes that queue (which has overflowed, so it cannot drain).
TargetReady(t) ==
  LET u == Enqueued([t EXCEPT !.proto = "ready"], bridge.pre)
  IN  /\ tcp' = Flushed(u)
      /\ bridge' = [bridge EXCEPT !.ready = TRUE, !.pre = <<>>, !.clientPaused = u.queue # <<>>]
      /\ half' = [half EXCEPT !.paused = u.queue # <<>>]

\* hello: the credentials configured for the target suit it, or they do not.
Greeted(t) ==
  \/ /\ tcp' = [t EXCEPT !.proto = "authenticating", !.buf = Append(@, AUTH)]
     /\ UNCHANGED <<half, bridge>>
  \/ Terminated([SocketDestroyed(t) EXCEPT !.proto = "authenticating", !.closedByUs = TRUE], half)

\* Whether the client's protocol takes message m in state p.
Expected(m, p) ==
  \/ m.type = "hello" /\ p = "waiting_hello"
  \/ m.type \in {"auth_ok", "auth_fail"} /\ p = "authenticating"
  \/ m.type = "data" /\ p = "ready"
  \/ m.type = "goodbye" /\ p \in {"ready", "authenticating"}

\* Message m is handled on transport t.  When the handler ends the session the decoder
\* is gone as well, which the loop around it takes for a protocol error.
Handles(t, m) ==
  \/ m.type = "hello" /\ Greeted(t) /\ UNCHANGED <<shown, refused>>
  \/ m.type = "auth_ok" /\ TargetReady(t) /\ UNCHANGED <<shown, refused>>
  \/ m.type = "data" /\ ForwardToClient(t, m.n)
  \/ /\ m.type \in {"auth_fail", "goodbye"}
     /\ Terminated([t EXCEPT !.closedByUs = TRUE,
                             !.proto = IF m.type = "goodbye" THEN "closing" ELSE @], half)
     /\ UNCHANGED <<shown, refused>>

\* The next message of a chunk is decoded and handled.
ReadNext ==
  /\ tcp.reading # <<>>
  /\ LET m == Head(tcp.reading)
     IN  IF Expected(m, tcp.proto)
         THEN Handles([tcp EXCEPT !.reading = Tail(@)], m)
         ELSE ProtocolError /\ UNCHANGED <<half, bridge, shown, refused>>
  /\ UNCHANGED <<sent, got, target, wire>>

\* A message has left the WebSocket; below the low mark the pressure is released and
\* the bridge resumes the transport.
WsSent ==
  /\ Idle /\ half.inFlight > 0
  /\ LET released == half.pressure /\ half.inFlight - 1 < WsLow
         resumed  == released /\ half.ws # "closed" /\ bridge.backendPaused
     IN  /\ half' = [half EXCEPT !.inFlight = @ - 1, !.pressure = @ /\ ~released]
         /\ bridge' = IF resumed THEN [bridge EXCEPT !.backendPaused = FALSE] ELSE bridge
         /\ tcp' = IF resumed /\ tcp.held THEN [tcp EXCEPT !.paused = FALSE] ELSE tcp
  /\ UNCHANGED world

----------------------------------------------------------------------------
\* The ends of the session.

Connected ==
  /\ Idle /\ tcp.sock = "connecting"
  /\ tcp' = [tcp EXCEPT !.sock = "up"]
  /\ UNCHANGED <<half, bridge, world>>

\* A plausible mistake: a close that is not expected is ignored before ready.
SocketClosedReady ==
  /\ Idle /\ tcp.sock # "closed"
  /\ LET t == [tcp EXCEPT !.sock = "closed", !.held = FALSE, !.proto = "disconnected",
                          !.buf = <<>>]
     IN  IF bridge.ready
         THEN Terminated(t, half)
         ELSE tcp' = t /\ UNCHANGED <<half, bridge>>
  /\ wire' = <<>>
  /\ UNCHANGED <<sent, got, target, shown, refused>>

\* The close event of the target's socket: it failed to connect, the connect timer
\* fired, the target or the network ended it, or it was destroyed here.  The bridge is
\* told of a failure only if the transport did not close the socket itself, and of a
\* disconnection only minds once it was ready.
SocketClosed ==
  /\ Idle /\ tcp.sock # "closed"
  /\ LET t == [tcp EXCEPT !.sock = "closed", !.held = FALSE, !.proto = "disconnected",
                          !.buf = <<>>]
     IN  IF bridge.ready \/ ~t.closedByUs
         THEN Terminated(t, half)
         ELSE tcp' = t /\ UNCHANGED <<half, bridge>>
  /\ wire' = <<>>
  /\ UNCHANGED <<sent, got, target, shown, refused>>

\* Nothing has come over the target's socket for a while.
IdleTimeout ==
  /\ Idle /\ tcp.sock \in {"connecting", "up"}
  /\ ProtocolError
  /\ UNCHANGED <<half, bridge, world>>

\* The half is terminated by itself: its idle timer, or the web API.
HalfTerminates ==
  /\ Idle /\ ~half.closed
  /\ half' = HalfEnded(half)
  /\ UNCHANGED <<bridge, tcp, world>>

\* The WebSocket has closed.
WsClosed ==
  /\ Idle /\ half.ws # "closed"
  /\ Terminated(tcp, [half EXCEPT !.ws = "closed", !.closed = TRUE])
  /\ UNCHANGED world

\* The session has outlived its time: the bridge is told, then the front door, which finds
\* the half ended.
SessionExpires ==
  /\ Idle /\ ~bridge.closed
  /\ Terminated(tcp, half)
  /\ UNCHANGED world

\* The relay shuts down.
RelayCloses ==
  /\ Idle /\ ~bridge.closed
  /\ Terminated(tcp, half)
  /\ UNCHANGED world

Next ==
  \/ BrowserSends
  \/ DrainListener
  \/ SocketWrites
  \/ TargetSays
  \/ SocketReads
  \/ ReadNext
  \/ WsSent
  \/ Connected
  \/ SocketClosed
  \/ IdleTimeout
  \/ HalfTerminates
  \/ WsClosed
  \/ SessionExpires
  \/ RelayCloses

\* Handlers run to their end; a destroyed socket closes; a closing WebSocket is closed
\* by its peer or, a second later, by force.  Such an event waits while another handler
\* runs, which may be again and again, hence SF.  Nobody owes data or reading.
Fairness ==
  /\ WF_vars(DrainListener) /\ WF_vars(ReadNext)
  /\ SF_vars(tcp.sock = "closing" /\ SocketClosed)
  /\ SF_vars(half.ws = "closing" /\ WsClosed)

Spec == Init /\ [][Next]_vars /\ Fairness

----------------------------------------------------------------------------
\* Properties.

\* The session works: nobody has ended it, and the transport has its socket.
Serving == ~bridge.closed /\ ~half.closed /\ tcp.held

\* s has 1 .. n, and each of them first after the one before it.
FirstsInOrder(s, n) ==
  /\ {s[i] : i \in DOMAIN s} \ {AUTH} = 1 .. n
  /\ \A i \in DOMAIN s : s[i] > 1 => \E j \in 1 .. i - 1 : s[j] = s[i] - 1

\* What the browser sends reaches the target in order and none of it is lost on the
\* way, through the queue before the target is ready, the pauses and the flushes
\* (session.ts, transport.ts, ws-client-half.ts).  That some of it may come twice is
\* another matter.
UpInOrder ==
  /\ \A i \in DOMAIN got : got[i] = i
  /\ Serving => FirstsInOrder(got \o tcp.buf \o bridge.pre \o half.inbound, sent)

DataOf(s) == {s[i].n : i \in {j \in DOMAIN s : s[j].type = "data"}}

\* What the target sends is shown in order, and none of it is lost on the way but for
\* what the half refused (session.ts, forwardToClient).
DownInOrder ==
  /\ \A i, j \in DOMAIN shown : i < j => shown[i] < shown[j]
  /\ Serving =>
       {shown[i] : i \in DOMAIN shown} \cup refused \cup DataOf(tcp.reading) \cup DataOf(wire)
         = 1 .. target.data

\* Whoever is paused in a session that works has someone who will resume it: a paused
\* half a queue with a drain event to come or listeners still to run, a paused transport
\* messages in flight whose completion releases the pressure (unless one was refused
\* that is larger than the mark by itself).
PausesEnd ==
  Serving =>
    /\ half.paused <=> bridge.clientPaused
    /\ half.paused => /\ tcp.queue # <<>>
                      /\ tcp.calls > 0 \/ (tcp.drains > 0 /\ tcp.needDrain /\ tcp.buf # <<>>)
    /\ tcp.paused <=> bridge.backendPaused
    /\ tcp.paused => half.pressure /\ (half.inFlight > 0 \/ refused \cap LargeDown # {})

\* Ends meet: a closed session has a closed half and no socket, and neither end is gone
\* under an open session, but for a target that was given up before it was ready.
EndsTogether ==
  /\ bridge.closed => half.closed /\ ~tcp.held /\ tcp.sock \in {"closing", "closed"}
  /\ half.ws = "closed" => bridge.closed
  /\ tcp.sock = "closed" => bridge.closed \/ (tcp.closedByUs /\ ~bridge.ready)

\* A half that ended, in whatever state, takes its connection to the target with it.
TargetReleased == half.closed ~> tcp.sock = "closed"
=============================================================================
