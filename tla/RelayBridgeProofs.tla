------------------------- MODULE RelayBridgeProofs -------------------------
(***************************************************************************)
(* Theorems about RelayBridge: its types, that the ends of a session end   *)
(* together, that whoever is paused has someone who will resume it, and    *)
(* that what either side sends arrives in order, with nothing lost on the  *)
(* way.                                                                    *)
(***************************************************************************)
EXTENDS RelayBridge, FiniteSetTheorems, SequenceTheorems, TLAPS

\* A transport has its socket until it destroys it or the socket closes, and decodes
\* only while it has it.
Sound(t) ==
  /\ t.held <=> t.sock \in {"connecting", "up"}
  /\ t.reading # <<>> => t.held

\* A half is closed as soon as its WebSocket is not open.
OpenHalf(h) == h.ws = "open" <=> ~h.closed

\* While the session works, bridge and transport agree on being ready, and before that
\* nothing was written that could be answered false.
Agreed ==
  Serving =>
    /\ bridge.ready <=> tcp.proto = "ready"
    /\ bridge.clientPaused => bridge.ready
    /\ half.paused <=> bridge.clientPaused
    /\ tcp.paused <=> bridge.backendPaused

\* A write of transport t was answered false and its drain event is to come.
Overfull(t) == t.drains > 0 /\ t.needDrain /\ t.buf # <<>>

Draining(t) == t.calls > 0 \/ Overfull(t)

\* The half is paused while the transport has a queue, and that will be flushed.
Upward ==
  Serving =>
    /\ bridge.clientPaused <=> tcp.queue # <<>>
    /\ tcp.queue # <<>> => Draining(tcp)

\* Pressure is on only while enough is in flight for its completion to release it.
Downward ==
  /\ half.pressure => half.inFlight >= WsLow \/ refused \cap LargeDown # {}
  /\ Serving /\ bridge.backendPaused => half.pressure

IInv == TypeOK /\ Sound(tcp) /\ OpenHalf(half) /\ EndsTogether /\ Agreed /\ Upward /\ Downward

----------------------------------------------------------------------------
\* Parts of sequences.

LEMMA Cut ==
  ASSUME NEW S, NEW s \in Seq(S), NEW n \in 0 .. Len(s)
  PROVE  SubSeq(s, 1, n) \in Seq(S) /\ Len(SubSeq(s, 1, n)) = n
  <1>1. \A i \in 1 .. n : s[i] \in S  BY LenProperties
  <1>2. QED  BY <1>1, SubSeqProperties, LenProperties

LEMMA Rest ==
  ASSUME NEW S, NEW s \in Seq(S), NEW n \in 1 .. Len(s) + 1
  PROVE  From(s, n) \in Seq(S) /\ Len(From(s, n)) = Len(s) - n + 1
  <1>1. \A i \in n .. Len(s) : s[i] \in S  BY LenProperties
  <1>2. Len(s) \in Nat  BY LenProperties
  <1>3. QED  BY <1>1, <1>2, SubSeqProperties DEF From

LEMMA RoomBound ==
  ASSUME NEW b, NEW ms \in Seq(Up)
  PROVE  Room(b, ms) \in 0 .. Len(ms)
  <1> DEFINE Fit == {i \in DOMAIN ms : ~Full(b \o SubSeq(ms, 1, i))}
  <1>1. DOMAIN ms = 1 .. Len(ms) /\ Len(ms) \in Nat  BY LenProperties
  <1>2. IsFiniteSet(1 .. Len(ms)) /\ Cardinality(1 .. Len(ms)) = Len(ms)  BY <1>1, FS_Interval
  <1>3. Fit \subseteq 1 .. Len(ms)  BY <1>1
  <1>4. IsFiniteSet(Fit) /\ Cardinality(Fit) <= Len(ms)  BY <1>2, <1>3, FS_Subset
  <1>5. Cardinality(Fit) \in Nat  BY <1>4, FS_CardinalityType
  <1>6. Room(b, ms) = Cardinality(Fit)  BY DEF Room
  <1>7. QED  BY <1>1, <1>4, <1>5, <1>6

----------------------------------------------------------------------------
\* The transport's operators.

\* Nothing but the buffers of u differs from t.
SameSocket(t, u) ==
  /\ u.sock = t.sock /\ u.held = t.held /\ u.proto = t.proto /\ u.paused = t.paused
  /\ u.closedByUs = t.closedByUs /\ u.destroyed = t.destroyed
  /\ u.reading = t.reading /\ u.calls = t.calls

LEMMA EnqueuedKeeps ==
  ASSUME NEW t \in Tcp, NEW ms \in Seq(Up)
  PROVE  /\ Enqueued(t, ms) \in Tcp
         /\ SameSocket(t, Enqueued(t, ms))
         /\ CanSend(t) /\ t.queue = <<>> /\ Enqueued(t, ms).queue # <<>>
              => Overfull(Enqueued(t, ms))
  <1> DEFINE over == From(ms, Room(t.buf, ms) + 1)
             u == Enqueued(t, ms)
  <1>1. over \in Seq(Up) /\ Len(over) \in 0 .. Len(ms)
    <2>1. Room(t.buf, ms) \in 0 .. Len(ms) /\ Len(ms) \in Nat  BY RoomBound, LenProperties
    <2>2. Room(t.buf, ms) + 1 \in 1 .. Len(ms) + 1  BY <2>1
    <2>3. QED  BY <2>1, <2>2, Rest
  <1>2. /\ t.buf \in Seq(Up \cup {AUTH}) /\ t.queue \in Seq(Up) /\ t.drains \in Nat
        /\ ms \in Seq(Up \cup {AUTH}) /\ Len(ms) \in Nat
    <2>1. t.buf \in Seq(Up \cup {AUTH}) /\ t.queue \in Seq(Up) /\ t.drains \in Nat  BY DEF Tcp
    <2>2. ms \in Seq(Up \cup {AUTH})  OBVIOUS
    <2>3. QED  BY <2>1, <2>2, LenProperties
  <1>3. /\ t.buf \o ms \in Seq(Up \cup {AUTH}) /\ t.queue \o over \in Seq(Up)
        /\ t.queue \o ms \in Seq(Up)
        /\ t.drains + Len(over) \in Nat
    BY <1>1, <1>2, ConcatProperties
  <1>4. CASE CanSend(t)
    <2>1. u = [t EXCEPT !.buf = @ \o ms, !.queue = @ \o over,
                        !.drains = @ + Len(over), !.needDrain = @ \/ over # <<>>]
      BY <1>4 DEF Enqueued
    <2> HIDE DEF u, over
    <2>2. u \in Tcp /\ SameSocket(t, u)
      BY <2>1, <1>3 DEF Tcp, SameSocket
    <2>3. /\ u.queue = t.queue \o over /\ u.buf = t.buf \o ms
          /\ u.drains = t.drains + Len(over) /\ u.needDrain = (t.needDrain \/ over # <<>>)
      BY <2>1 DEF Tcp
    <2>4. ASSUME t.queue = <<>>, u.queue # <<>> PROVE Overfull(u)
      <3>1. over # <<>>
        <4>1. <<>> \o <<>> = <<>>  OBVIOUS
        <4>2. QED  BY <4>1, <2>3, <2>4
      <3>2. Len(over) \in Nat \ {0}  BY <3>1, <1>1, EmptySeq
      <3>3. Len(ms) > 0 /\ ms # <<>>  BY <3>2, <1>1, <1>2, EmptySeq
      <3>4. t.buf \o ms # <<>>
        <4>1. Len(t.buf \o ms) = Len(t.buf) + Len(ms) /\ Len(t.buf) \in Nat
          BY <1>2, ConcatProperties, LenProperties
        <4>2. Len(t.buf \o ms) # 0  BY <4>1, <3>3, <1>2
        <4>3. QED  BY <4>2
      <3>5. u.drains > 0  BY <3>2, <2>3, <1>2
      <3>6. u.needDrain  BY <3>1, <2>3
      <3>7. u.buf # <<>>  BY <3>4, <2>3
      <3>8. QED  BY <3>5, <3>6, <3>7 DEF Overfull
    <2>5. QED  BY <2>2, <2>4 DEF u
  <1>5. CASE ~CanSend(t)
    <2>1. u = IF t.destroyed THEN t ELSE [t EXCEPT !.queue = @ \o ms]  BY <1>5 DEF Enqueued
    <2> HIDE DEF u, over
    <2>2. u \in Tcp /\ SameSocket(t, u)  BY <2>1, <1>3 DEF Tcp, SameSocket
    <2>3. QED  BY <2>2, <1>5 DEF u
  <1>6. QED  BY <1>4, <1>5

LEMMA FlushedKeeps ==
  ASSUME NEW t \in Tcp
  PROVE  /\ Flushed(t) \in Tcp
         /\ SameSocket(t, Flushed(t))
         /\ CanSend(t) /\ Flushed(t).queue # <<>> => Overfull(Flushed(t))
  <1> DEFINE k == Room(t.buf, t.queue)
             u == Flushed(t)
             some == SubSeq(t.queue, 1, k + 1)
  <1>1. /\ t.buf \in Seq(Up \cup {AUTH}) /\ t.queue \in Seq(Up) /\ t.drains \in Nat
        /\ t.queue \in Seq(Up \cup {AUTH}) /\ Len(t.queue) \in Nat
    <2>1. t.buf \in Seq(Up \cup {AUTH}) /\ t.queue \in Seq(Up) /\ t.drains \in Nat  BY DEF Tcp
    <2>2. t.queue \in Seq(Up \cup {AUTH})  BY <2>1
    <2>3. QED  BY <2>1, <2>2, LenProperties
  <1>2. k \in 0 .. Len(t.queue)  BY <1>1, RoomBound
  <1>3. CASE ~CanSend(t) \/ t.queue = <<>>
    <2>1. u = t  BY <1>3 DEF Flushed
    <2> HIDE DEF u
    <2>2. QED  BY <2>1, <1>3 DEF SameSocket, u
  <1>4. CASE CanSend(t) /\ t.queue # <<>> /\ k = Len(t.queue)
    <2>1. u = [t EXCEPT !.buf = @ \o t.queue, !.queue = <<>>]  BY <1>4 DEF Flushed
    <2>2. t.buf \o t.queue \in Seq(Up \cup {AUTH})  BY <1>1, ConcatProperties
    <2> HIDE DEF u
    <2>3. <<>> \in Seq(Up)  BY EmptySeq
    <2>4. u \in Tcp  BY <2>1, <2>2, <2>3 DEF Tcp
    <2>5. SameSocket(t, u) /\ u.queue = <<>>  BY <2>1 DEF Tcp, SameSocket
    <2>6. QED  BY <2>4, <2>5 DEF u
  <1>5. CASE CanSend(t) /\ t.queue # <<>> /\ k # Len(t.queue)
    <2>1. u = [t EXCEPT !.buf = @ \o some, !.queue = From(@, k + 1),
                        !.drains = @ + 1, !.needDrain = TRUE]
      BY <1>5 DEF Flushed
    <2>2. some \in Seq(Up \cup {AUTH}) /\ Len(some) = k + 1
      BY <1>1, <1>2, <1>5, Cut
    <2>3. From(t.queue, k + 1) \in Seq(Up)  BY <1>1, <1>2, <1>5, Rest
    <2> HIDE DEF some, u, k
    <2>4. t.buf \o some \in Seq(Up \cup {AUTH}) /\ Len(t.buf \o some) = Len(t.buf) + Len(some)
      BY <1>1, <2>2, ConcatProperties
    <2>5. t.buf \o some # <<>>
      <3>1. Len(t.buf) \in Nat /\ k \in Nat  BY <1>1, <1>2, LenProperties
      <3> DEFINE l == Len(t.buf)
                 n == Len(some)
                 w == Len(t.buf \o some)
      <3>2. l \in Nat /\ n = k + 1 /\ w = l + n  BY <3>1, <2>2, <2>4
      <3> HIDE DEF l, n, w
      <3>3. w # 0  BY <3>1, <3>2
      <3>4. QED  BY <3>3 DEF w
    <2>6. u \in Tcp /\ SameSocket(t, u)
      <3>1. t.drains + 1 \in Nat  BY <1>1
      <3> DEFINE q == From(t.queue, k + 1)
                 w == t.buf \o some
      <3>2. u = [t EXCEPT !.buf = w, !.queue = q, !.drains = t.drains + 1, !.needDrain = TRUE]
        BY <2>1
      <3>3. w \in Seq(Up \cup {AUTH}) /\ q \in Seq(Up)  BY <2>3, <2>4
      <3> HIDE DEF q, w
      <3>4. u \in Tcp  BY <3>1, <3>2, <3>3 DEF Tcp
      <3>5. SameSocket(t, u)  BY <3>2 DEF Tcp, SameSocket
      <3>6. QED  BY <3>4, <3>5
    <2>7. Overfull(u)
      <3>1. u.drains = t.drains + 1 /\ u.needDrain /\ u.buf = t.buf \o some  BY <2>1 DEF Tcp
      <3>2. QED  BY <3>1, <2>5, <1>1 DEF Overfull
    <2>8. QED  BY <2>6, <2>7 DEF u
  <1>6. QED  BY <1>3, <1>4, <1>5

----------------------------------------------------------------------------
\* The operators that several actions share.

PartsOK ==
  /\ half \in Half /\ Len(half.inbound) <= MaxInbound
  /\ bridge \in Bridge /\ Len(bridge.pre) <= MaxPre
  /\ tcp \in Tcp

WorldOK ==
  /\ sent \in 0 .. NUp /\ got \in Seq(Up)
  /\ target \in Target /\ wire \in Seq(ServerMessages)
  /\ shown \in Seq(1 .. NDown) /\ refused \subseteq 1 .. NDown

Linked == Sound(tcp) /\ OpenHalf(half) /\ EndsTogether
Paced  == Agreed /\ Upward /\ Downward

LEMMA IInvParts == IInv <=> PartsOK /\ WorldOK /\ Linked /\ Paced
  BY DEF IInv, TypeOK, PartsOK, WorldOK, Linked, Paced

\* Half h can be in the state that a handler leaves when it ends the session.
Handed(t, h) ==
  /\ t \in Tcp /\ Sound(t)
  /\ h \in Half /\ OpenHalf(h) /\ Len(h.inbound) <= MaxInbound
  /\ h.pressure = half.pressure /\ h.inFlight = half.inFlight
  /\ bridge.closed => h.closed /\ ~t.held

LEMMA TerminatedKeeps ==
  ASSUME NEW t, NEW h, PartsOK, Handed(t, h), Terminated(t, h)
  PROVE  /\ PartsOK' /\ Linked' /\ ~Serving'
         /\ half'.pressure = half.pressure /\ half'.inFlight = half.inFlight
  <1>1. /\ t \in Tcp /\ h \in Half /\ half \in Half /\ bridge \in Bridge
        /\ Len(h.inbound) <= MaxInbound /\ Len(bridge.pre) <= MaxPre
        /\ h.pressure = half.pressure /\ h.inFlight = half.inFlight
    BY DEF PartsOK, Handed
  <1>2. CASE bridge.closed
    <2>1. tcp' = t /\ half' = h /\ bridge' = bridge  BY <1>2 DEF Terminated
    <2>2. h.closed /\ ~t.held /\ Sound(t) /\ OpenHalf(h)  BY <1>2 DEF Handed
    <2>3. PartsOK'  BY <1>1, <2>1 DEF PartsOK
    <2>4. t.sock \in {"closing", "closed"}  BY <1>1, <2>2 DEF Sound, Tcp
    <2>5. Linked'  BY <2>1, <2>2, <2>4, <1>2 DEF Linked, Sound, OpenHalf, EndsTogether
    <2>6. QED  BY <2>1, <2>3, <2>5, <1>1, <1>2 DEF Serving
  <1>3. CASE ~bridge.closed
    <2>1. /\ bridge' = [bridge EXCEPT !.closed = TRUE]
          /\ tcp' = [SocketDestroyed(t) EXCEPT !.destroyed = TRUE]
          /\ half' = HalfEnded(h)
      BY <1>3 DEF Terminated
    <2>2. half' \in Half /\ half'.closed /\ OpenHalf(half') /\ half'.inbound = h.inbound
          /\ half'.pressure = h.pressure /\ half'.inFlight = h.inFlight
      BY <1>1, <2>1 DEF HalfEnded, Half, Handed, OpenHalf
    <2>3. bridge' \in Bridge /\ bridge'.closed /\ bridge'.pre = bridge.pre
      BY <1>1, <2>1 DEF Bridge
    <2>4. <<>> \in Seq(ServerMessages)  BY EmptySeq
    <2>5. SocketDestroyed(t) \in Tcp /\ SocketDestroyed(t).sock \in {"closing", "closed"}
          /\ ~SocketDestroyed(t).held /\ SocketDestroyed(t).reading = <<>>
      BY <1>1, <2>4 DEF SocketDestroyed, Tcp, Handed, Sound
    <2>6. /\ tcp' \in Tcp /\ tcp'.sock \in {"closing", "closed"}
          /\ ~tcp'.held /\ tcp'.reading = <<>>
      BY <2>1, <2>5 DEF Tcp
    <2>7. PartsOK'  BY <2>2, <2>3, <2>6, <1>1 DEF PartsOK
    <2>8. Linked'  BY <2>2, <2>3, <2>6 DEF Linked, Sound, OpenHalf, EndsTogether
    <2>9. QED  BY <2>2, <2>3, <2>7, <2>8, <1>1 DEF Serving
  <1>4. QED  BY <1>2, <1>3

\* A session that is over is paced in any state, but for the pressure of its half.
LEMMA OverIsPaced ==
  ASSUME ~Serving', Downward, refused \subseteq refused',
         half'.pressure = half.pressure, half'.inFlight = half.inFlight
  PROVE  Paced'
  BY DEF Paced, Agreed, Upward, Downward

\* The bridge sends on; in a session that works the transport's queue is empty.
LEMMA SendUpKeeps ==
  ASSUME NEW t, NEW ms \in Seq(Up), NEW rest \in Seq(Up),
         PartsOK, Linked, t \in Tcp, SameSocket([tcp EXCEPT !.calls = t.calls], t),
         Len(rest) <= MaxInbound, Agreed, Downward, UNCHANGED refused,
         Serving => bridge.ready /\ t.queue = <<>>,
         SendUp(t, ms, rest)
  PROVE  PartsOK' /\ Linked' /\ Paced'
  <1> DEFINE u == Enqueued(t, ms)
  <1>1. /\ u \in Tcp /\ SameSocket(t, u)
        /\ CanSend(t) /\ t.queue = <<>> /\ u.queue # <<>> => Overfull(u)
    BY EnqueuedKeeps
  <1>2. /\ tcp' = u
        /\ bridge' = [bridge EXCEPT !.clientPaused = u.queue # <<>>]
        /\ half' = [half EXCEPT !.paused = u.queue # <<>>, !.inbound = rest]
    BY DEF SendUp
  <1> HIDE DEF u
  <1>3. /\ u.sock = tcp.sock /\ u.held = tcp.held /\ u.proto = tcp.proto /\ u.paused = tcp.paused
        /\ u.closedByUs = tcp.closedByUs /\ u.reading = tcp.reading
    BY <1>1 DEF SameSocket, PartsOK, Tcp
  <1>4. /\ half' \in Half /\ half'.inbound = rest /\ half'.paused = (u.queue # <<>>)
        /\ half'.closed = half.closed /\ half'.ws = half.ws
        /\ half'.pressure = half.pressure /\ half'.inFlight = half.inFlight
    BY <1>2 DEF PartsOK, Half
  <1>5. /\ bridge' \in Bridge /\ bridge'.pre = bridge.pre
        /\ bridge'.clientPaused = (u.queue # <<>>)
        /\ bridge'.backendPaused = bridge.backendPaused
        /\ bridge'.closed = bridge.closed /\ bridge'.ready = bridge.ready
    BY <1>2 DEF PartsOK, Bridge
  <1>6. PartsOK'  BY <1>1, <1>2, <1>4, <1>5 DEF PartsOK
  <1>7. Linked'  BY <1>2, <1>3, <1>4, <1>5 DEF Linked, Sound, OpenHalf, EndsTogether
  <1>8. Serving' => Serving  BY <1>2, <1>3, <1>4, <1>5 DEF Serving
  <1>9. Agreed'  BY <1>2, <1>3, <1>4, <1>5, <1>8 DEF Agreed
  <1>10. Upward'
    <2>1. ASSUME Serving', u.queue # <<>> PROVE Overfull(u)
      <3>1. tcp.proto = "ready" /\ tcp.held  BY <2>1, <1>8 DEF Agreed, Serving
      <3>2. CanSend(t)  BY <3>1 DEF CanSend, SameSocket, PartsOK, Tcp
      <3>3. QED  BY <3>2, <2>1, <1>1, <1>8
    <2>2. QED  BY <2>1, <1>2, <1>5 DEF Upward, Draining
  <1>11. Downward'  BY <1>4, <1>5, <1>8 DEF Downward
  <1>12. QED  BY <1>6, <1>7, <1>9, <1>10, <1>11 DEF Paced

----------------------------------------------------------------------------
\* The actions of the way up.

\* What stays true of the parts when a handler does not touch them.
LEMMA Untouched ==
  ASSUME IInv, UNCHANGED <<half, bridge, tcp>>, refused \subseteq refused'
  PROVE  PartsOK' /\ Linked' /\ Paced'
  <1>1. PartsOK /\ Linked /\ Paced  BY IInvParts
  <1>2. PartsOK' /\ Linked'  BY <1>1 DEF PartsOK, Linked, Sound, OpenHalf, EndsTogether
  <1>3. Serving' = Serving  BY DEF Serving
  <1>4. Paced'  BY <1>1, <1>3 DEF Paced, Agreed, Upward, Downward, Draining, Overfull
  <1>5. QED  BY <1>2, <1>4

\* A handler that only ends the half.
LEMMA HalfEndedKeeps ==
  ASSUME IInv, half' = HalfEnded(half), UNCHANGED <<bridge, tcp, refused>>
  PROVE  PartsOK' /\ Linked' /\ Paced'
  <1>1. PartsOK /\ Linked /\ Paced  BY IInvParts
  <1>2. /\ half' \in Half /\ half'.closed /\ half'.inbound = half.inbound
        /\ half'.pressure = half.pressure /\ half'.inFlight = half.inFlight
        /\ half'.ws = "closed" <=> half.ws = "closed"
        /\ OpenHalf(half')
    BY <1>1 DEF HalfEnded, Half, PartsOK, Linked, OpenHalf
  <1>3. PartsOK' /\ Linked' /\ ~Serving'
    BY <1>1, <1>2 DEF PartsOK, Linked, Sound, OpenHalf, EndsTogether, Serving
  <1>4. Paced'  BY <1>1, <1>2, <1>3, OverIsPaced DEF Paced
  <1>5. QED  BY <1>3, <1>4

LEMMA BrowserSendsKeeps ==
  ASSUME IInv, BrowserSends
  PROVE  PartsOK' /\ Linked' /\ Paced'
  <1>1. PartsOK /\ Linked /\ Paced /\ sent \in Nat  BY IInvParts DEF WorldOK
  <1>2. sent' \in Up /\ UNCHANGED refused
    BY <1>1, BridgeAssumption DEF BrowserSends, Up
  <1>3. half.inbound \in Seq(Up) /\ bridge.pre \in Seq(Up)
    BY <1>1 DEF PartsOK, Half, Bridge
  <1>4. \/ half.paused /\ Waits(sent')
        \/ ~half.paused /\ bridge.ready /\ SendUp(tcp, <<sent'>>, half.inbound)
        \/ ~half.paused /\ ~bridge.ready /\ Buffered(sent')
    BY DEF BrowserSends
  <1>5. CASE half.paused /\ Waits(sent')
    <2>1. Waits(sent')  BY <1>5
    <2>2. CASE Len(half.inbound) = MaxInbound
      <3>1. half' = HalfEnded(half) /\ UNCHANGED <<bridge, tcp>>  BY <2>1, <2>2 DEF Waits
      <3>2. QED  BY <3>1, <1>2, HalfEndedKeeps
    <2>3. CASE Len(half.inbound) # MaxInbound
      <3>1. half' = [half EXCEPT !.inbound = Append(@, sent')] /\ UNCHANGED <<bridge, tcp>>
        BY <2>1, <2>3 DEF Waits
      <3>2. /\ Append(half.inbound, sent') \in Seq(Up)
            /\ Len(Append(half.inbound, sent')) = Len(half.inbound) + 1
            /\ Len(half.inbound) \in Nat
        BY <1>2, <1>3, AppendProperties, LenProperties
      <3>3. Len(half.inbound) + 1 <= MaxInbound
        BY <3>2, <2>3, <1>1, BridgeAssumption DEF PartsOK
      <3>4. /\ half' \in Half /\ Len(half'.inbound) <= MaxInbound
            /\ half'.closed = half.closed /\ half'.ws = half.ws /\ half'.paused = half.paused
            /\ half'.pressure = half.pressure /\ half'.inFlight = half.inFlight
        BY <3>1, <3>2, <3>3, <1>1 DEF PartsOK, Half
      <3>5. PartsOK' /\ Linked' /\ (Serving' <=> Serving)
        BY <3>1, <3>4, <1>1 DEF PartsOK, Linked, Sound, OpenHalf, EndsTogether, Serving
      <3>6. Paced'
        BY <3>1, <3>4, <3>5, <1>1, <1>2 DEF Paced, Agreed, Upward, Downward, Draining, Overfull
      <3>7. QED  BY <3>5, <3>6
    <2>4. QED  BY <2>2, <2>3
  <1>6. CASE ~half.paused /\ bridge.ready /\ SendUp(tcp, <<sent'>>, half.inbound)
    <2>1. SendUp(tcp, <<sent'>>, half.inbound)  BY <1>6
    <2>2. <<sent'>> \in Seq(Up)  BY <1>2
    <2>3. SameSocket([tcp EXCEPT !.calls = tcp.calls], tcp)
      BY <1>1 DEF SameSocket, PartsOK, Tcp
    <2>4. Serving => bridge.ready /\ tcp.queue = <<>>
      BY <1>6, <1>1 DEF Paced, Agreed, Upward
    <2>5. tcp \in Tcp /\ Len(half.inbound) <= MaxInbound  BY <1>1 DEF PartsOK
    <2>6. QED  BY <2>1, <2>2, <2>3, <2>4, <2>5, <1>1, <1>2, <1>3, SendUpKeeps DEF Paced
  <1>7. CASE ~half.paused /\ ~bridge.ready /\ Buffered(sent')
    <2>1. Buffered(sent')  BY <1>7
    <2>2. CASE Len(bridge.pre) = MaxPre
      <3>1. Terminated(tcp, half)  BY <2>1, <2>2 DEF Buffered
      <3>2. Handed(tcp, half)  BY <1>1 DEF Handed, PartsOK, Linked, EndsTogether
      <3>3. QED  BY <3>1, <3>2, <1>1, <1>2, TerminatedKeeps, OverIsPaced DEF Paced
    <2>3. CASE Len(bridge.pre) # MaxPre
      <3>1. bridge' = [bridge EXCEPT !.pre = Append(@, sent')] /\ UNCHANGED <<half, tcp>>
        BY <2>1, <2>3 DEF Buffered
      <3>2. /\ Append(bridge.pre, sent') \in Seq(Up)
            /\ Len(Append(bridge.pre, sent')) = Len(bridge.pre) + 1
            /\ Len(bridge.pre) \in Nat
        BY <1>2, <1>3, AppendProperties, LenProperties
      <3>3. Len(bridge.pre) + 1 <= MaxPre
        BY <3>2, <2>3, <1>1, BridgeAssumption DEF PartsOK
      <3>4. /\ bridge' \in Bridge /\ Len(bridge'.pre) <= MaxPre
            /\ bridge'.closed = bridge.closed /\ bridge'.ready = bridge.ready
            /\ bridge'.clientPaused = bridge.clientPaused
            /\ bridge'.backendPaused = bridge.backendPaused
        BY <3>1, <3>2, <3>3, <1>1 DEF PartsOK, Bridge
      <3>5. PartsOK' /\ Linked' /\ (Serving' <=> Serving)
        BY <3>1, <3>4, <1>1 DEF PartsOK, Linked, Sound, OpenHalf, EndsTogether, Serving
      <3>6. Paced'
        BY <3>1, <3>4, <3>5, <1>1, <1>2 DEF Paced, Agreed, Upward, Downward, Draining, Overfull
      <3>7. QED  BY <3>5, <3>6
    <2>4. QED  BY <2>2, <2>3
  <1>8. QED  BY <1>4, <1>5, <1>6, <1>7

LEMMA DrainListenerKeeps ==
  ASSUME IInv, DrainListener
  PROVE  PartsOK' /\ Linked' /\ Paced'
  <1> DEFINE t == [tcp EXCEPT !.calls = @ - 1]
             u == Flushed(t)
  <1>1. PartsOK /\ Linked /\ Paced /\ UNCHANGED refused  BY IInvParts DEF DrainListener, world
  <1>2. t \in Tcp
    <2>1. tcp.calls \in Nat /\ tcp.calls > 0  BY <1>1 DEF PartsOK, Tcp, DrainListener
    <2>2. tcp.calls - 1 \in Nat  BY <2>1
    <2>3. QED  BY <2>2, <1>1 DEF PartsOK, Tcp
  <1>3. /\ u \in Tcp /\ SameSocket(t, u)
        /\ CanSend(t) /\ u.queue # <<>> => Overfull(u)
    BY <1>2, FlushedKeeps
  <1>4. /\ t.held = tcp.held /\ t.proto = tcp.proto /\ t.queue = tcp.queue
        /\ t.sock = tcp.sock /\ t.paused = tcp.paused /\ t.reading = tcp.reading
        /\ t.closedByUs = tcp.closedByUs
    BY <1>1 DEF PartsOK, Tcp
  <1>5. FlushQueue(t)  BY DEF DrainListener
  <1>6. CASE Drained(t) /\ bridge.clientPaused
    <2> DEFINE all == Len(half.inbound)
               room == Room(u.buf, half.inbound)
               n == IF half.closed THEN 0 ELSE IF room = all THEN all ELSE room + 1
    <2>1. SendUp(u, SubSeq(half.inbound, 1, n), From(half.inbound, n + 1))
      BY <1>5, <1>6 DEF FlushQueue
    <2>2. half.inbound \in Seq(Up) /\ all \in Nat /\ all <= MaxInbound
      BY <1>1, LenProperties DEF PartsOK, Half
    <2>3. room \in 0 .. all  BY <2>2, RoomBound
    <2> HIDE DEF room
    <2>4. n \in 0 .. all  BY <2>2, <2>3
    <2> HIDE DEF n
    <2>5. SubSeq(half.inbound, 1, n) \in Seq(Up)  BY <2>2, <2>4, Cut
    <2>6. From(half.inbound, n + 1) \in Seq(Up) /\ Len(From(half.inbound, n + 1)) <= MaxInbound
      <3>1. n + 1 \in 1 .. all + 1  BY <2>2, <2>4
      <3>2. From(half.inbound, n + 1) \in Seq(Up) /\ Len(From(half.inbound, n + 1)) = all - (n + 1) + 1
        BY <3>1, <2>2, Rest
      <3>3. QED  BY <3>2, <2>2, <2>4, BridgeAssumption
    <2>7. SameSocket([tcp EXCEPT !.calls = u.calls], u)
      BY <1>3, <1>1 DEF SameSocket, PartsOK, Tcp
    <2>8. u.queue = <<>>  BY <1>6 DEF Drained
    <2>9. Serving => bridge.ready  BY <1>6, <1>1 DEF Paced, Agreed
    <2> HIDE DEF u
    <2>10. QED  BY <2>1, <2>5, <2>6, <2>7, <2>8, <2>9, <1>1, <1>3, SendUpKeeps DEF Paced
  <1>7. CASE ~(Drained(t) /\ bridge.clientPaused)
    <2>1. tcp' = u /\ UNCHANGED <<half, bridge>>  BY <1>5, <1>7 DEF FlushQueue
    <2>2. CanSend(t) /\ tcp.queue # <<>> /\ bridge.clientPaused => u.queue # <<>>
      BY <1>4, <1>7 DEF Drained
    <2>3. tcp.queue = <<>> => u.queue = <<>>  BY <1>4 DEF Flushed
    <2> HIDE DEF u
    <2>4. /\ u.held = tcp.held /\ u.proto = tcp.proto /\ u.sock = tcp.sock
          /\ u.paused = tcp.paused /\ u.reading = tcp.reading /\ u.closedByUs = tcp.closedByUs
      BY <1>3, <1>4 DEF SameSocket
    <2>5. PartsOK' /\ Linked' /\ (Serving' <=> Serving)
      BY <2>1, <2>4, <1>1, <1>3 DEF PartsOK, Linked, Sound, OpenHalf, EndsTogether, Serving
    <2>6. Agreed' /\ Downward'
      BY <2>1, <2>4, <2>5, <1>1 DEF Paced, Agreed, Downward
    <2>7. Upward'
      <3>1. SUFFICES ASSUME Serving
                     PROVE  /\ bridge.clientPaused <=> u.queue # <<>>
                            /\ u.queue # <<>> => Overfull(u)
        BY <2>1, <2>5 DEF Upward, Draining
      <3>2. bridge.clientPaused => CanSend(t)
        BY <3>1, <1>1, <1>4 DEF Paced, Agreed, Serving, CanSend
      <3>3. bridge.clientPaused <=> tcp.queue # <<>>  BY <3>1, <1>1 DEF Paced, Upward
      <3>4. QED  BY <3>2, <3>3, <2>2, <2>3, <1>3
    <2>8. QED  BY <2>5, <2>6, <2>7 DEF Paced
  <1>8. QED  BY <1>6, <1>7

LEMMA SocketWritesKeeps ==
  ASSUME IInv, SocketWrites
  PROVE  PartsOK' /\ Linked' /\ Paced'
  <1> DEFINE t == [tcp EXCEPT !.buf = Tail(@)]
  <1>1. /\ PartsOK /\ Linked /\ Paced /\ UNCHANGED <<refused, half, bridge>>
        /\ tcp.calls = 0 /\ tcp.buf # <<>>
    BY IInvParts DEF SocketWrites, Idle
  <1>2. Tail(tcp.buf) \in Seq(Up \cup {AUTH})
    BY <1>1, HeadTailProperties DEF PartsOK, Tcp
  <1>3. /\ t \in Tcp
        /\ t.drains = tcp.drains /\ t.needDrain = tcp.needDrain /\ t.queue = tcp.queue
        /\ t.held = tcp.held /\ t.proto = tcp.proto /\ t.sock = tcp.sock
        /\ t.paused = tcp.paused /\ t.reading = tcp.reading /\ t.closedByUs = tcp.closedByUs
    BY <1>1, <1>2 DEF PartsOK, Tcp
  <1>4. tcp' = IF t.needDrain /\ t.buf = <<>>
               THEN [t EXCEPT !.needDrain = FALSE, !.calls = t.drains, !.drains = 0]
               ELSE t
    BY DEF SocketWrites
  <1> HIDE DEF t
  <1>5. /\ tcp' \in Tcp /\ tcp'.queue = tcp.queue
        /\ tcp'.held = tcp.held /\ tcp'.proto = tcp.proto /\ tcp'.sock = tcp.sock
        /\ tcp'.paused = tcp.paused /\ tcp'.reading = tcp.reading
        /\ tcp'.closedByUs = tcp.closedByUs
    BY <1>3, <1>4 DEF Tcp
  <1>6. Overfull(tcp) => Draining(tcp')
    <2>1. CASE t.needDrain /\ t.buf = <<>>
      <3>1. tcp'.calls = tcp.drains  BY <2>1, <1>3, <1>4 DEF Tcp
      <3>2. QED  BY <3>1 DEF Overfull, Draining
    <2>2. CASE ~(t.needDrain /\ t.buf = <<>>)
      <3>1. tcp' = t  BY <2>2, <1>4
      <3>2. QED  BY <3>1, <2>2, <1>3 DEF Overfull, Draining
    <2>3. QED  BY <2>1, <2>2
  <1>7. PartsOK' /\ Linked' /\ (Serving' <=> Serving)
    BY <1>1, <1>5 DEF PartsOK, Linked, Sound, OpenHalf, EndsTogether, Serving
  <1>8. Upward'  BY <1>1, <1>5, <1>6, <1>7 DEF Paced, Upward, Draining
  <1>9. Agreed' /\ Downward'  BY <1>1, <1>5, <1>7 DEF Paced, Agreed, Downward
  <1>10. QED  BY <1>7, <1>8, <1>9 DEF Paced

----------------------------------------------------------------------------
\* The actions of the way down.

LEMMA SocketReadsKeeps ==
  ASSUME IInv, SocketReads
  PROVE  PartsOK' /\ Linked' /\ Paced'
  <1>1. /\ PartsOK /\ Linked /\ Paced /\ wire \in Seq(ServerMessages)
        /\ UNCHANGED <<refused, half, bridge>> /\ tcp.sock = "up"
    BY IInvParts DEF SocketReads, WorldOK
  <1>2. PICK k \in 1 .. Len(wire) : tcp' = [tcp EXCEPT !.reading = SubSeq(wire, 1, k)]
    BY DEF SocketReads
  <1>3. SubSeq(wire, 1, k) \in Seq(ServerMessages)
    <2>1. Len(wire) \in Nat  BY <1>1, LenProperties
    <2>2. k \in 0 .. Len(wire)  BY <2>1
    <2>3. QED  BY <2>2, <1>1, Cut
  <1>4. /\ tcp' \in Tcp /\ tcp'.queue = tcp.queue /\ tcp'.calls = tcp.calls
        /\ tcp'.drains = tcp.drains /\ tcp'.needDrain = tcp.needDrain /\ tcp'.buf = tcp.buf
        /\ tcp'.held = tcp.held /\ tcp'.proto = tcp.proto /\ tcp'.sock = tcp.sock
        /\ tcp'.paused = tcp.paused /\ tcp'.closedByUs = tcp.closedByUs
    BY <1>1, <1>2, <1>3 DEF PartsOK, Tcp
  <1>5. tcp.held  BY <1>1 DEF Linked, Sound
  <1>6. PartsOK' /\ Linked' /\ (Serving' <=> Serving)
    BY <1>1, <1>4, <1>5 DEF PartsOK, Linked, Sound, OpenHalf, EndsTogether, Serving
  <1>7. Upward'  BY <1>1, <1>4, <1>6 DEF Paced, Upward, Draining, Overfull
  <1>8. Agreed' /\ Downward'  BY <1>1, <1>4, <1>6 DEF Paced, Agreed, Downward
  <1>9. QED  BY <1>6, <1>7, <1>8 DEF Paced

\* The transport gives its socket up and says nothing of it.
LEMMA ProtocolErrorKeeps ==
  ASSUME IInv, tcp.sock \in {"connecting", "up"}, ProtocolError,
         UNCHANGED <<half, bridge, refused>>
  PROVE  PartsOK' /\ Linked' /\ Paced'
  <1>1. PartsOK /\ Linked /\ Paced  BY IInvParts
  <1>2. <<>> \in Seq(ServerMessages)  BY EmptySeq
  <1>3. tcp.held /\ ~bridge.closed  BY <1>1 DEF Linked, Sound, OpenHalf, EndsTogether
  <1>4. tcp' \in Tcp /\ ~tcp'.held /\ tcp'.reading = <<>> /\ tcp'.sock = "closing"
    BY <1>1, <1>2, <1>3 DEF ProtocolError, SocketDestroyed, PartsOK, Tcp
  <1>5. PartsOK' /\ Linked' /\ ~Serving'
    BY <1>1, <1>3, <1>4 DEF PartsOK, Linked, Sound, OpenHalf, EndsTogether, Serving
  <1>6. Paced'  BY <1>1, <1>5, OverIsPaced DEF Paced
  <1>7. QED  BY <1>5, <1>6

\* The transport at a message of a chunk: it is as before but for what is left to decode.
Reading(t) ==
  /\ t \in Tcp /\ tcp.held /\ t.sock = tcp.sock /\ t.held = tcp.held
  /\ t.queue = tcp.queue /\ t.drains = tcp.drains /\ t.needDrain = tcp.needDrain
  /\ t.buf = tcp.buf /\ t.calls = tcp.calls /\ t.proto = tcp.proto /\ t.paused = tcp.paused
  /\ t.closedByUs = tcp.closedByUs

LEMMA ForwardToClientKeeps ==
  ASSUME IInv, NEW t, NEW d \in 1 .. NDown, Reading(t), ForwardToClient(t, d)
  PROVE  PartsOK' /\ Linked' /\ Paced'
  <1> DEFINE open == ~half.closed /\ half.ws = "open"
  <1>1. PartsOK /\ Linked /\ Paced  BY IInvParts
  <1>2. WsHigh \in Nat /\ WsLow \in 1 .. WsHigh /\ half.inFlight \in 0 .. WsHigh
    BY <1>1, BridgeAssumption DEF PartsOK, Half
  <1>3. CASE open /\ HalfTakes(d)
    <2>1. /\ half' = [half EXCEPT !.inFlight = @ + 1] /\ tcp' = t
          /\ UNCHANGED <<bridge, refused>>
      BY <1>3 DEF ForwardToClient
    <2>2. half.inFlight + 1 \in 0 .. WsHigh  BY <1>2, <1>3 DEF HalfTakes
    <2>3. /\ half' \in Half /\ half'.inbound = half.inbound /\ half'.paused = half.paused
          /\ half'.closed = half.closed /\ half'.ws = half.ws
          /\ half'.pressure = half.pressure /\ half'.inFlight = half.inFlight + 1
      BY <2>1, <2>2, <1>1 DEF PartsOK, Half
    <2>4. PartsOK' /\ Linked' /\ (Serving' <=> Serving)
      BY <2>1, <2>3, <1>1 DEF Reading, PartsOK, Linked, Sound, OpenHalf, EndsTogether, Serving
    <2>5. Agreed' /\ Upward'
      BY <2>1, <2>3, <2>4, <1>1 DEF Reading, Paced, Agreed, Upward, Draining, Overfull
    <2>6. half.inFlight >= WsLow => half.inFlight + 1 >= WsLow  BY <1>2
    <2>7. Downward'  BY <2>1, <2>3, <2>4, <2>6, <1>1 DEF Paced, Downward
    <2>8. QED  BY <2>4, <2>5, <2>7 DEF Paced
  <1>4. CASE ~(open /\ HalfTakes(d))
    <2>1. /\ half' = [half EXCEPT !.pressure = @ \/ open]
          /\ bridge' = [bridge EXCEPT !.backendPaused = TRUE]
          /\ tcp' = [t EXCEPT !.paused = @ \/ ~bridge.backendPaused]
          /\ refused' = IF open THEN refused \cup {d} ELSE refused
      BY <1>4 DEF ForwardToClient
    <2>2. /\ half' \in Half /\ half'.inbound = half.inbound /\ half'.paused = half.paused
          /\ half'.closed = half.closed /\ half'.ws = half.ws
          /\ half'.pressure = (half.pressure \/ open) /\ half'.inFlight = half.inFlight
      BY <2>1, <1>1 DEF PartsOK, Half
    <2>3. /\ bridge' \in Bridge /\ bridge'.pre = bridge.pre /\ bridge'.backendPaused
          /\ bridge'.clientPaused = bridge.clientPaused
          /\ bridge'.closed = bridge.closed /\ bridge'.ready = bridge.ready
      BY <2>1, <1>1 DEF PartsOK, Bridge
    <2>4. /\ tcp' \in Tcp /\ tcp'.paused = (t.paused \/ ~bridge.backendPaused)
          /\ tcp'.held = t.held /\ tcp'.sock = t.sock /\ tcp'.proto = t.proto
          /\ tcp'.queue = t.queue /\ tcp'.drains = t.drains /\ tcp'.needDrain = t.needDrain
          /\ tcp'.buf = t.buf /\ tcp'.calls = t.calls /\ tcp'.closedByUs = t.closedByUs
      BY <2>1 DEF Reading, Tcp
    <2>5. PartsOK' /\ Linked' /\ (Serving' <=> Serving)
      BY <2>2, <2>3, <2>4, <1>1 DEF Reading, PartsOK, Linked, Sound, OpenHalf, EndsTogether, Serving
    <2>6. Upward'
      BY <2>3, <2>4, <2>5, <1>1 DEF Reading, Paced, Upward, Draining, Overfull
    <2>7. Agreed'
      BY <2>2, <2>3, <2>4, <2>5, <1>1 DEF Reading, Paced, Agreed
    <2>8. open => half.inFlight >= WsLow \/ refused' \cap LargeDown # {}
      <3>1. CASE d \in LargeDown  BY <3>1, <2>1
      <3>2. CASE d \notin LargeDown
        <4>1. open => half.inFlight = WsHigh  BY <3>2, <1>2, <1>4 DEF HalfTakes
        <4>2. QED  BY <4>1, <1>2
      <3>3. QED  BY <3>1, <3>2
    <2>9. Serving' => open
      BY <2>2, <2>5, <1>1 DEF Serving, Linked, OpenHalf
    <2>10. Downward'
      BY <2>1, <2>2, <2>3, <2>5, <2>8, <2>9, <1>1 DEF Paced, Downward
    <2>11. QED  BY <2>5, <2>6, <2>7, <2>10 DEF Paced
  <1>5. QED  BY <1>3, <1>4

\* A buffer that has reached its mark, or passed it, stays so when more is written.
LEMMA FullGrows ==
  ASSUME NEW b \in Seq(Up \cup {AUTH}), NEW c \in Seq(Up \cup {AUTH}), Len(b) <= Len(c),
         \A j \in 1 .. Len(b) : c[j] = b[j], Full(b)
  PROVE  Full(c)
  <1>1. /\ Len(b) \in Nat /\ Len(c) \in Nat
        /\ DOMAIN b = 1 .. Len(b) /\ DOMAIN c = 1 .. Len(c)
    BY LenProperties
  <1>2. CASE Len(b) >= SocketHigh  BY <1>1, <1>2, BridgeAssumption DEF Full
  <1>3. CASE \E i \in DOMAIN b : b[i] \in LargeUp
    <2>1. PICK i \in DOMAIN b : b[i] \in LargeUp  BY <1>3
    <2>2. i \in DOMAIN c /\ c[i] \in LargeUp  BY <2>1, <1>1
    <2>3. QED  BY <2>2 DEF Full
  <1>4. QED  BY <1>2, <1>3 DEF Full

\* When not all of ms find room in b, b with all of them is full, and has no room.
LEMMA NoRoom ==
  ASSUME NEW b \in Seq(Up \cup {AUTH}), NEW ms \in Seq(Up), Room(b, ms) # Len(ms),
         NEW q \in Seq(Up)
  PROVE  Room(b \o ms, q) = 0
  <1> DEFINE part(i) == b \o SubSeq(ms, 1, i)
  <1>1. /\ Len(ms) \in Nat /\ DOMAIN ms = 1 .. Len(ms) /\ Len(b) \in Nat
        /\ ms \in Seq(Up \cup {AUTH}) /\ q \in Seq(Up \cup {AUTH})
        /\ Len(q) \in Nat /\ DOMAIN q = 1 .. Len(q)
    BY LenProperties
  <1>2. /\ b \o ms \in Seq(Up \cup {AUTH}) /\ Len(b \o ms) = Len(b) + Len(ms)
        /\ \A j \in 1 .. Len(b) + Len(ms) :
             (b \o ms)[j] = IF j <= Len(b) THEN b[j] ELSE ms[j - Len(b)]
    BY <1>1, ConcatProperties
  <1>3. PICK i \in 1 .. Len(ms) : Full(part(i))
    <2>1. SUFFICES ASSUME \A i \in 1 .. Len(ms) : ~Full(part(i)) PROVE FALSE  OBVIOUS
    <2>2. {i \in DOMAIN ms : ~Full(part(i))} = 1 .. Len(ms)  BY <2>1, <1>1
    <2>3. ASSUME NEW n \in Nat PROVE Cardinality(1 .. n) = n  BY FS_Interval
    <2>4. Cardinality(1 .. Len(ms)) = Len(ms)  BY <2>3, <1>1
    <2>5. QED  BY <2>2, <2>4 DEF Room
  <1>4. Full(b \o ms)
    <2> DEFINE s == SubSeq(ms, 1, i)
    <2>1. i \in 0 .. Len(ms)  BY <1>1
    <2>2. s \in Seq(Up \cup {AUTH}) /\ Len(s) = i  BY <2>1, <1>1, Cut
    <2>3. \A j \in 1 .. i : s[j] = ms[j]  BY <1>1, SubSeqProperties
    <2> HIDE DEF s
    <2>4. /\ b \o s \in Seq(Up \cup {AUTH}) /\ Len(b \o s) = Len(b) + i
          /\ \A j \in 1 .. Len(b) + i : (b \o s)[j] = IF j <= Len(b) THEN b[j] ELSE s[j - Len(b)]
      BY <2>2, ConcatProperties
    <2>5. \A j \in 1 .. Len(b) + i : (b \o ms)[j] = (b \o s)[j]
      <3>1. TAKE j \in 1 .. Len(b) + i
      <3>2. j \in 1 .. Len(b) + Len(ms)  BY <1>1, <2>1
      <3>3. CASE j <= Len(b)  BY <3>2, <3>3, <1>2, <2>4
      <3>4. CASE ~(j <= Len(b))
        <4>1. j - Len(b) \in 1 .. i  BY <3>4, <1>1, <2>1
        <4>2. (b \o s)[j] = s[j - Len(b)] /\ (b \o ms)[j] = ms[j - Len(b)]
          BY <3>2, <3>4, <1>2, <2>4
        <4>3. QED  BY <4>1, <4>2, <2>3
      <3>5. QED  BY <3>3, <3>4
    <2>6. Len(b \o s) <= Len(b \o ms)  BY <1>1, <1>2, <2>1, <2>4
    <2>7. Full(b \o s)  BY <1>3 DEF s
    <2>8. \A j \in 1 .. Len(b \o s) : (b \o ms)[j] = (b \o s)[j]  BY <2>4, <2>5
    <2>9. b \o s \in Seq(Up \cup {AUTH})  BY <2>4
    <2>10. QED  BY <2>6, <2>7, <2>8, <2>9, <1>2, FullGrows
  <1>5. \A n \in DOMAIN q : Full((b \o ms) \o SubSeq(q, 1, n))
    <2>1. TAKE n \in DOMAIN q
    <2> DEFINE c == b \o ms
               s == SubSeq(q, 1, n)
    <2>2. n \in 0 .. Len(q)  BY <1>1
    <2>3. s \in Seq(Up \cup {AUTH}) /\ Len(s) \in Nat  BY <2>2, <1>1, Cut
    <2>4. c \in Seq(Up \cup {AUTH}) /\ Len(c) \in Nat  BY <1>2, LenProperties
    <2>5. Full(c)  BY <1>4
    <2> HIDE DEF c, s
    <2>6. /\ c \o s \in Seq(Up \cup {AUTH}) /\ Len(c \o s) = Len(c) + Len(s)
          /\ \A j \in 1 .. Len(c) + Len(s) : (c \o s)[j] = IF j <= Len(c) THEN c[j] ELSE s[j - Len(c)]
      BY <2>3, <2>4, ConcatProperties
    <2>7. Len(c) <= Len(c \o s)  BY <2>3, <2>4, <2>6
    <2>8. \A j \in 1 .. Len(c) : (c \o s)[j] = c[j]  BY <2>3, <2>4, <2>6
    <2>9. Full(c \o s)  BY <2>4, <2>5, <2>6, <2>7, <2>8, FullGrows
    <2>10. QED  BY <2>9 DEF c, s
  <1>6. {n \in DOMAIN q : ~Full((b \o ms) \o SubSeq(q, 1, n))} = {}  BY <1>5
  <1>7. QED  BY <1>6, FS_EmptySet DEF Room

LEMMA TargetReadyKeeps ==
  ASSUME IInv, NEW t, Reading(t), tcp.proto # "ready", TargetReady(t), UNCHANGED refused
  PROVE  PartsOK' /\ Linked' /\ Paced'
  <1> DEFINE v == [t EXCEPT !.proto = "ready"]
             u == Enqueued(v, bridge.pre)
             f == Flushed(u)
  <1>1. PartsOK /\ Linked /\ Paced /\ bridge.pre \in Seq(Up)
    BY IInvParts DEF PartsOK, Bridge
  <1>2. /\ v \in Tcp /\ v.proto = "ready" /\ v.sock = t.sock /\ v.held = t.held
        /\ v.queue = t.queue /\ v.buf = t.buf /\ v.paused = t.paused
        /\ v.closedByUs = t.closedByUs /\ v.calls = t.calls
    BY DEF Reading, Tcp
  <1> HIDE DEF v
  <1>3. u \in Tcp /\ SameSocket(v, u)  BY <1>1, <1>2, EnqueuedKeeps
  <1>4. u.queue = <<>> => f.queue = <<>>  BY DEF Flushed
  <1>5. Serving => t.queue = <<>> /\ CanSend(v)
    <2>1. Serving => ~bridge.clientPaused  BY <1>1 DEF Paced, Agreed
    <2>2. Serving => tcp.queue = <<>>  BY <2>1, <1>1 DEF Paced, Upward
    <2>3. QED  BY <2>2, <1>2 DEF Reading, CanSend
  <1>6. ASSUME Serving, u.queue # <<>> PROVE f.queue # <<>> /\ CanSend(u)
    <2> DEFINE room == Room(v.buf, bridge.pre)
               over == From(bridge.pre, room + 1)
    <2>1. v.buf \in Seq(Up \cup {AUTH})  BY <1>2 DEF Tcp
    <2>2. u.buf = v.buf \o bridge.pre /\ u.queue = v.queue \o over
      BY <1>2, <1>5, <1>6 DEF Enqueued, Tcp
    <2>3. room # Len(bridge.pre)
      <3>1. SUFFICES ASSUME room = Len(bridge.pre) PROVE u.queue = <<>>  BY <1>6
      <3>2. Len(bridge.pre) \in Nat  BY <1>1, LenProperties
      <3>3. Len(bridge.pre) + 1 \in 1 .. Len(bridge.pre) + 1  BY <3>2
      <3>4. over \in Seq(Up) /\ Len(over) = Len(bridge.pre) - (Len(bridge.pre) + 1) + 1
        BY <3>1, <3>3, <1>1, Rest
      <3>5. Len(over) = 0  BY <3>2, <3>4
      <3>6. over = <<>>  BY <3>4, <3>5, EmptySeq
      <3>7. v.queue = <<>>  BY <1>2, <1>5, <1>6
      <3> HIDE DEF over
      <3>8. u.queue = <<>> \o <<>>  BY <2>2, <3>6, <3>7
      <3>9. QED  BY <3>8
    <2> HIDE DEF over, room
    <2>4. u.queue \in Seq(Up)  BY <1>3 DEF Tcp
    <2> HIDE DEF u
    <2>5. Room(u.buf, u.queue) = 0
      <3>1. Room(v.buf \o bridge.pre, u.queue) = 0  BY <2>1, <2>3, <2>4, <1>1, NoRoom DEF room
      <3>2. QED  BY <3>1, <2>2
    <2>6. Len(u.queue) \in Nat \ {0}  BY <2>4, <1>6, EmptySeq
    <2>7. CanSend(u)  BY <1>3, <1>5, <1>6 DEF CanSend, SameSocket
    <2>8. f.queue = From(u.queue, 1)
      <3>1. Room(u.buf, u.queue) # Len(u.queue)  BY <2>5, <2>6
      <3>2. f = [u EXCEPT !.buf = @ \o SubSeq(u.queue, 1, 1), !.queue = From(@, 1),
                          !.drains = @ + 1, !.needDrain = TRUE]
        BY <3>1, <2>5, <2>7, <1>6 DEF Flushed
      <3>3. QED  BY <3>2, <1>3 DEF Tcp
    <2>9. Len(From(u.queue, 1)) # 0
      <3>1. 1 \in 1 .. Len(u.queue) + 1  BY <2>6
      <3>2. Len(From(u.queue, 1)) = Len(u.queue) - 1 + 1  BY <3>1, <2>4, Rest
      <3>3. QED  BY <3>2, <2>6
    <2>10. QED  BY <2>7, <2>8, <2>9
  <1> HIDE DEF u
  <1>7. f \in Tcp /\ SameSocket(u, f) /\ (CanSend(u) /\ f.queue # <<>> => Overfull(f))
    BY <1>3, FlushedKeeps
  <1> HIDE DEF f
  <1>8. /\ tcp' = f
        /\ bridge' = [bridge EXCEPT !.ready = TRUE, !.pre = <<>>, !.clientPaused = u.queue # <<>>]
        /\ half' = [half EXCEPT !.paused = u.queue # <<>>]
    BY DEF TargetReady, u, v, f
  <1>9. /\ f.sock = tcp.sock /\ f.held = tcp.held /\ f.proto = "ready"
        /\ f.paused = tcp.paused /\ f.closedByUs = tcp.closedByUs
    BY <1>2, <1>3, <1>7 DEF SameSocket, Reading
  <1>10. <<>> \in Seq(Up) /\ Len(<<>>) = 0  BY EmptySeq
  <1>11. /\ bridge' \in Bridge /\ Len(bridge'.pre) <= MaxPre /\ bridge'.ready
         /\ bridge'.clientPaused = (u.queue # <<>>) /\ bridge'.closed = bridge.closed
         /\ bridge'.backendPaused = bridge.backendPaused
    <2>1. /\ bridge' \in Bridge /\ bridge'.pre = <<>> /\ bridge'.ready
          /\ bridge'.clientPaused = (u.queue # <<>>) /\ bridge'.closed = bridge.closed
          /\ bridge'.backendPaused = bridge.backendPaused
      BY <1>8, <1>10, <1>1 DEF PartsOK, Bridge
    <2>2. 0 <= MaxPre  BY BridgeAssumption
    <2>3. QED  BY <2>1, <2>2, <1>10
  <1>12. /\ half' \in Half /\ half'.paused = (u.queue # <<>>) /\ half'.inbound = half.inbound
         /\ half'.closed = half.closed /\ half'.ws = half.ws
         /\ half'.pressure = half.pressure /\ half'.inFlight = half.inFlight
    BY <1>8, <1>1 DEF PartsOK, Half
  <1>13. /\ tcp.held /\ tcp'.held /\ tcp'.sock = tcp.sock
         /\ tcp.sock \in {"connecting", "up"}
    BY <1>1, <1>8, <1>9 DEF Reading, Linked, Sound
  <1>14. PartsOK'  BY <1>1, <1>7, <1>8, <1>11, <1>12 DEF PartsOK
  <1>15. Linked' /\ (Serving' <=> Serving)
    BY <1>1, <1>11, <1>12, <1>13 DEF Linked, Sound, OpenHalf, EndsTogether, Serving
  <1>16. Agreed'  BY <1>1, <1>8, <1>9, <1>11, <1>12, <1>15 DEF Paced, Agreed
  <1>17. Upward'
    BY <1>4, <1>6, <1>7, <1>8, <1>11, <1>15 DEF Upward, Draining, f
  <1>18. Downward'  BY <1>1, <1>11, <1>12, <1>15 DEF Paced, Downward
  <1>19. QED  BY <1>14, <1>15, <1>16, <1>17, <1>18 DEF Paced

LEMMA GreetedKeeps ==
  ASSUME IInv, NEW t, Reading(t), tcp.proto # "ready", Greeted(t), UNCHANGED refused
  PROVE  PartsOK' /\ Linked' /\ Paced'
  <1>1. PartsOK /\ Linked /\ Paced /\ t \in Tcp /\ t.held /\ tcp.held
    BY IInvParts DEF Reading
  <1>2. CASE /\ tcp' = [t EXCEPT !.proto = "authenticating", !.buf = Append(@, AUTH)]
             /\ UNCHANGED <<half, bridge>>
    <2>1. Append(t.buf, AUTH) \in Seq(Up \cup {AUTH}) /\ Append(t.buf, AUTH) # <<>>
      <3>1. t.buf \in Seq(Up \cup {AUTH})  BY <1>1 DEF Tcp
      <3>2. AUTH \in Up \cup {AUTH}  OBVIOUS
      <3>3. QED  BY <3>1, <3>2, AppendProperties
    <2>2. /\ tcp' \in Tcp /\ tcp'.proto = "authenticating" /\ tcp'.buf # <<>>
          /\ tcp'.held = tcp.held /\ tcp'.sock = tcp.sock /\ tcp'.queue = tcp.queue
          /\ tcp'.drains = tcp.drains /\ tcp'.needDrain = tcp.needDrain
          /\ tcp'.calls = tcp.calls /\ tcp'.paused = tcp.paused
          /\ tcp'.closedByUs = tcp.closedByUs
      BY <1>2, <2>1 DEF Reading, Tcp
    <2>3. PartsOK' /\ Linked' /\ (Serving' <=> Serving)
      BY <1>1, <1>2, <2>2 DEF PartsOK, Linked, Sound, OpenHalf, EndsTogether, Serving
    <2>4. Upward'  BY <1>1, <1>2, <2>2, <2>3 DEF Paced, Upward, Draining, Overfull
    <2>5. Agreed' /\ Downward'  BY <1>1, <1>2, <2>2, <2>3 DEF Paced, Agreed, Downward
    <2>6. QED  BY <2>3, <2>4, <2>5 DEF Paced
  <1>3. CASE Terminated([SocketDestroyed(t) EXCEPT !.proto = "authenticating",
                                                   !.closedByUs = TRUE], half)
    <2> DEFINE v == [SocketDestroyed(t) EXCEPT !.proto = "authenticating", !.closedByUs = TRUE]
    <2>1. <<>> \in Seq(ServerMessages)  BY EmptySeq
    <2>2. v \in Tcp /\ ~v.held /\ v.sock = "closing" /\ v.reading = <<>>
      BY <1>1, <2>1 DEF SocketDestroyed, Tcp
    <2>3. Terminated(v, half)  BY <1>3
    <2> HIDE DEF v
    <2>4. Handed(v, half)  BY <1>1, <2>2 DEF Handed, Sound, PartsOK, Linked, EndsTogether
    <2>5. QED  BY <1>1, <2>3, <2>4, TerminatedKeeps, OverIsPaced DEF Paced
  <1>4. QED  BY <1>2, <1>3 DEF Greeted

LEMMA ReadNextKeeps ==
  ASSUME IInv, ReadNext
  PROVE  PartsOK' /\ Linked' /\ Paced'
  <1> DEFINE m == Head(tcp.reading)
             t == [tcp EXCEPT !.reading = Tail(@)]
  <1>1. /\ PartsOK /\ Linked /\ Paced /\ tcp.reading # <<>>
        /\ tcp.reading \in Seq(ServerMessages)
    BY IInvParts DEF ReadNext, PartsOK, Tcp
  <1>2. m \in ServerMessages /\ Tail(tcp.reading) \in Seq(ServerMessages)
    BY <1>1, HeadTailProperties
  <1>3. tcp.held /\ tcp.sock \in {"connecting", "up"}  BY <1>1 DEF Linked, Sound
  <1>4. Reading(t) /\ t \in Tcp  BY <1>1, <1>2, <1>3 DEF Reading, PartsOK, Tcp
  <1>5. \/ Expected(m, tcp.proto) /\ Handles(t, m)
        \/ ProtocolError /\ UNCHANGED <<half, bridge, refused>>
    BY DEF ReadNext
  <1> HIDE DEF m, t
  <1>6. CASE ProtocolError /\ UNCHANGED <<half, bridge, refused>>
    BY <1>3, <1>6, ProtocolErrorKeeps
  <1>7. CASE Expected(m, tcp.proto) /\ Handles(t, m)
    <2>1. CASE m.type = "hello" /\ Greeted(t) /\ UNCHANGED refused
      <3>1. tcp.proto # "ready"  BY <1>7, <2>1 DEF Expected
      <3>2. QED  BY <3>1, <2>1, <1>4, GreetedKeeps
    <2>2. CASE m.type = "auth_ok" /\ TargetReady(t) /\ UNCHANGED refused
      <3>1. tcp.proto # "ready"  BY <1>7, <2>2 DEF Expected
      <3>2. QED  BY <3>1, <2>2, <1>4, TargetReadyKeeps
    <2>3. CASE m.type = "data" /\ ForwardToClient(t, m.n)
      <3>1. m.n \in 1 .. NDown  BY <1>2, <2>3 DEF ServerMessages, Control
      <3>2. QED  BY <3>1, <2>3, <1>4, ForwardToClientKeeps
    <2>4. CASE /\ Terminated([t EXCEPT !.closedByUs = TRUE,
                                      !.proto = IF m.type = "goodbye" THEN "closing" ELSE @], half)
               /\ UNCHANGED refused
      <3> DEFINE v == [t EXCEPT !.closedByUs = TRUE,
                                !.proto = IF m.type = "goodbye" THEN "closing" ELSE @]
      <3>1. v \in Tcp /\ v.held = t.held /\ v.sock = t.sock /\ v.reading = t.reading
        BY <1>4 DEF Tcp
      <3>2. Terminated(v, half)  BY <2>4
      <3> HIDE DEF v
      <3>3. Handed(v, half)
        BY <1>1, <1>3, <1>4, <3>1 DEF Handed, Reading, Sound, PartsOK, Linked, EndsTogether
      <3>4. QED  BY <1>1, <2>4, <3>2, <3>3, TerminatedKeeps, OverIsPaced DEF Paced
    <2>5. QED  BY <1>7, <2>1, <2>2, <2>3, <2>4 DEF Handles
  <1>8. QED  BY <1>5, <1>6, <1>7

----------------------------------------------------------------------------
\* The messages that leave the WebSocket, and the ends of the session.

LEMMA WsSentKeeps ==
  ASSUME IInv, WsSent
  PROVE  PartsOK' /\ Linked' /\ Paced'
  <1> DEFINE released == half.pressure /\ half.inFlight - 1 < WsLow
             resumed  == released /\ half.ws # "closed" /\ bridge.backendPaused
  <1>1. /\ PartsOK /\ Linked /\ Paced /\ half.inFlight > 0
        /\ UNCHANGED refused
        /\ half' = [half EXCEPT !.inFlight = @ - 1, !.pressure = @ /\ ~released]
        /\ bridge' = IF resumed THEN [bridge EXCEPT !.backendPaused = FALSE] ELSE bridge
        /\ tcp' = IF resumed /\ tcp.held THEN [tcp EXCEPT !.paused = FALSE] ELSE tcp
    BY IInvParts DEF WsSent, world
  <1>2. WsHigh \in Nat /\ WsLow \in 1 .. WsHigh /\ half.inFlight \in 0 .. WsHigh
    BY <1>1, BridgeAssumption DEF PartsOK, Half
  <1>3. ~released => (half.pressure => half.inFlight - 1 >= WsLow)  BY <1>2
  <1>4. half.inFlight - 1 \in 0 .. WsHigh  BY <1>1, <1>2
  <1> HIDE DEF released
  <1>5. /\ half' \in Half /\ half'.inbound = half.inbound /\ half'.paused = half.paused
        /\ half'.closed = half.closed /\ half'.ws = half.ws
        /\ half'.pressure = (half.pressure /\ ~released)
        /\ half'.inFlight = half.inFlight - 1
    <2>1. (half.pressure /\ ~released) \in BOOLEAN  OBVIOUS
    <2>2. QED  BY <2>1, <1>1, <1>4 DEF PartsOK, Half
  <1>6. /\ bridge' \in Bridge /\ bridge'.pre = bridge.pre /\ bridge'.ready = bridge.ready
        /\ bridge'.closed = bridge.closed /\ bridge'.clientPaused = bridge.clientPaused
        /\ bridge'.backendPaused = (bridge.backendPaused /\ ~resumed)
    BY <1>1 DEF PartsOK, Bridge
  <1>7. /\ tcp' \in Tcp /\ tcp'.held = tcp.held /\ tcp'.sock = tcp.sock
        /\ tcp'.proto = tcp.proto /\ tcp'.queue = tcp.queue /\ tcp'.reading = tcp.reading
        /\ tcp'.drains = tcp.drains /\ tcp'.needDrain = tcp.needDrain /\ tcp'.buf = tcp.buf
        /\ tcp'.calls = tcp.calls /\ tcp'.closedByUs = tcp.closedByUs
        /\ (tcp.held => tcp'.paused = (tcp.paused /\ ~resumed))
    BY <1>1 DEF PartsOK, Tcp
  <1>8. PartsOK' /\ Linked' /\ (Serving' <=> Serving)
    BY <1>1, <1>5, <1>6, <1>7 DEF PartsOK, Linked, Sound, OpenHalf, EndsTogether, Serving
  <1>9. Upward'  BY <1>1, <1>6, <1>7, <1>8 DEF Paced, Upward, Draining, Overfull
  <1>10. Agreed'  BY <1>1, <1>5, <1>6, <1>7, <1>8 DEF Paced, Agreed, Serving
  <1>11. Downward'
    <2>1. half'.pressure => half'.inFlight >= WsLow \/ refused' \cap LargeDown # {}
      BY <1>3, <1>5
    <2>2. ASSUME Serving', bridge'.backendPaused PROVE half'.pressure
      <3>1. bridge.backendPaused /\ ~resumed /\ half.ws # "closed"
        BY <2>2, <1>1, <1>6, <1>8 DEF Linked, OpenHalf, Serving
      <3>2. half.pressure  BY <3>1, <2>2, <1>1, <1>8 DEF Paced, Downward
      <3>3. ~released  BY <3>1
      <3>4. QED  BY <3>2, <3>3, <1>5
    <2>3. QED  BY <2>1, <2>2 DEF Downward
  <1>12. QED  BY <1>8, <1>9, <1>10, <1>11 DEF Paced

LEMMA ConnectedKeeps ==
  ASSUME IInv, Connected
  PROVE  PartsOK' /\ Linked' /\ Paced'
  <1>1. /\ PartsOK /\ Linked /\ Paced /\ tcp.sock = "connecting"
        /\ UNCHANGED <<half, bridge, refused>> /\ tcp' = [tcp EXCEPT !.sock = "up"]
    BY IInvParts DEF Connected, world
  <1>2. /\ tcp' \in Tcp /\ tcp'.held = tcp.held /\ tcp'.sock = "up"
        /\ tcp'.proto = tcp.proto /\ tcp'.queue = tcp.queue /\ tcp'.reading = tcp.reading
        /\ tcp'.drains = tcp.drains /\ tcp'.needDrain = tcp.needDrain /\ tcp'.buf = tcp.buf
        /\ tcp'.calls = tcp.calls /\ tcp'.paused = tcp.paused
    BY <1>1 DEF PartsOK, Tcp
  <1>3. PartsOK' /\ Linked' /\ (Serving' <=> Serving)
    BY <1>1, <1>2 DEF PartsOK, Linked, Sound, OpenHalf, EndsTogether, Serving
  <1>4. Upward'  BY <1>1, <1>2, <1>3 DEF Paced, Upward, Draining, Overfull
  <1>5. Agreed' /\ Downward'  BY <1>1, <1>2, <1>3 DEF Paced, Agreed, Downward
  <1>6. QED  BY <1>3, <1>4, <1>5 DEF Paced

LEMMA SocketClosedKeeps ==
  ASSUME IInv, SocketClosed
  PROVE  PartsOK' /\ Linked' /\ Paced'
  <1> DEFINE t == [tcp EXCEPT !.sock = "closed", !.held = FALSE, !.proto = "disconnected",
                              !.buf = <<>>]
  <1>1. /\ PartsOK /\ Linked /\ Paced /\ tcp.reading = <<>> /\ UNCHANGED refused
        /\ IF bridge.ready \/ ~t.closedByUs THEN Terminated(t, half)
           ELSE tcp' = t /\ UNCHANGED <<half, bridge>>
    BY IInvParts DEF SocketClosed, Idle
  <1>2. <<>> \in Seq(Up \cup {AUTH})  BY EmptySeq
  <1>3. /\ t \in Tcp /\ t.sock = "closed" /\ ~t.held /\ t.reading = <<>>
        /\ t.closedByUs = tcp.closedByUs
    BY <1>1, <1>2 DEF PartsOK, Tcp
  <1> HIDE DEF t
  <1>4. CASE bridge.ready \/ ~t.closedByUs
    <2>1. Terminated(t, half)  BY <1>1, <1>4
    <2>2. Handed(t, half)  BY <1>1, <1>3 DEF Handed, Sound, PartsOK, Linked, EndsTogether
    <2>3. QED  BY <1>1, <2>1, <2>2, TerminatedKeeps, OverIsPaced DEF Paced
  <1>5. CASE ~(bridge.ready \/ ~t.closedByUs)
    <2>1. tcp' = t /\ UNCHANGED <<half, bridge>>  BY <1>1, <1>5
    <2>2. PartsOK' /\ Linked' /\ ~Serving'
      BY <1>1, <1>3, <1>5, <2>1 DEF PartsOK, Linked, Sound, OpenHalf, EndsTogether, Serving
    <2>3. QED  BY <1>1, <2>1, <2>2, OverIsPaced DEF Paced
  <1>6. QED  BY <1>4, <1>5

\* The ends that start with the half or with the relay.
LEMMA OtherEndsKeep ==
  ASSUME IInv, HalfTerminates \/ WsClosed \/ SessionExpires \/ RelayCloses
  PROVE  PartsOK' /\ Linked' /\ Paced'
  <1>1. PartsOK /\ Linked /\ Paced  BY IInvParts
  <1>2. CASE HalfTerminates
    <2>1. half' = HalfEnded(half) /\ UNCHANGED <<bridge, tcp, refused>>
      BY <1>2 DEF HalfTerminates, world
    <2>2. QED  BY <2>1, HalfEndedKeeps
  <1>3. CASE WsClosed
    <2> DEFINE h == [half EXCEPT !.ws = "closed", !.closed = TRUE]
    <2>1. Terminated(tcp, h) /\ UNCHANGED refused  BY <1>3 DEF WsClosed, world
    <2>2. /\ h \in Half /\ h.ws = "closed" /\ h.closed /\ h.inbound = half.inbound
          /\ h.pressure = half.pressure /\ h.inFlight = half.inFlight
      BY <1>1 DEF PartsOK, Half
    <2> HIDE DEF h
    <2>3. Handed(tcp, h)
      BY <1>1, <2>2 DEF Handed, OpenHalf, PartsOK, Linked, EndsTogether
    <2>4. QED  BY <1>1, <2>1, <2>3, TerminatedKeeps, OverIsPaced DEF Paced
  <1>4. CASE SessionExpires \/ RelayCloses
    <2>1. Terminated(tcp, half) /\ UNCHANGED refused
      BY <1>4 DEF SessionExpires, RelayCloses, world
    <2>2. Handed(tcp, half)  BY <1>1 DEF Handed, PartsOK, Linked, EndsTogether
    <2>3. QED  BY <1>1, <2>1, <2>2, TerminatedKeeps, OverIsPaced DEF Paced
  <1>5. QED  BY <1>2, <1>3, <1>4

----------------------------------------------------------------------------
\* What is outside the relay, and the theorems.

LEMMA TargetSaysKeeps ==
  ASSUME IInv, TargetSays
  PROVE  WorldOK'
  <1>1. /\ target \in Target /\ wire \in Seq(ServerMessages) /\ WorldOK
        /\ UNCHANGED <<sent, got, shown, refused>>
    BY IInvParts DEF TargetSays, WorldOK
  <1>2. \A type \in Control : Say(type) \in ServerMessages  BY DEF Say, ServerMessages
  <1>3. ASSUME NEW m \in ServerMessages, wire' = Append(wire, m)
        PROVE  wire' \in Seq(ServerMessages)
    BY <1>1, <1>3, AppendProperties
  <1>4. ASSUME NEW said \in {"nothing", "hello", "ok", "done"}, NEW type \in Control,
               target' = [target EXCEPT !.said = said], wire' = Append(wire, Say(type))
        PROVE  WorldOK'
    <2>1. target' \in Target  BY <1>1, <1>4 DEF Target
    <2>2. wire' \in Seq(ServerMessages)  BY <1>2, <1>3, <1>4
    <2>3. QED  BY <1>1, <2>1, <2>2 DEF WorldOK
  <1>5. ASSUME target.data < NDown, target' = [target EXCEPT !.data = @ + 1],
               wire' = Append(wire, [type |-> "data", n |-> target.data + 1])
        PROVE  WorldOK'
    <2>1. target.data \in 0 .. NDown  BY <1>1 DEF Target
    <2>2. target.data + 1 \in 0 .. NDown /\ target.data + 1 \in 1 .. NDown
      BY <2>1, <1>5, BridgeAssumption
    <2>3. target' \in Target  BY <1>1, <1>5, <2>2 DEF Target
    <2>4. [type |-> "data", n |-> target.data + 1] \in ServerMessages
      BY <2>2 DEF ServerMessages
    <2>5. wire' \in Seq(ServerMessages)  BY <2>4, <1>3, <1>5
    <2>6. QED  BY <1>1, <2>3, <2>5 DEF WorldOK
  <1>6. \/ /\ target.data < NDown /\ target' = [target EXCEPT !.data = @ + 1]
           /\ wire' = Append(wire, [type |-> "data", n |-> target.data + 1])
        \/ \E said \in {"nothing", "hello", "ok", "done"}, type \in Control :
              target' = [target EXCEPT !.said = said] /\ wire' = Append(wire, Say(type))
    BY DEF TargetSays, Control
  <1>7. QED  BY <1>4, <1>5, <1>6

LEMMA SocketWritesWorld ==
  ASSUME IInv, SocketWrites
  PROVE  WorldOK'
  <1> DEFINE m == Head(tcp.buf)
  <1>1. /\ WorldOK /\ PartsOK /\ tcp.buf # <<>> /\ UNCHANGED <<sent, wire, shown, refused>>
        /\ \/ got' = got
           \/ m # AUTH /\ got' = Append(got, m)
        /\ target' = [target EXCEPT !.asked = @ \/ m = AUTH]
    BY IInvParts DEF SocketWrites
  <1>2. m \in Up \cup {AUTH}  BY <1>1, HeadTailProperties DEF PartsOK, Tcp
  <1> HIDE DEF m
  <1>3. got' \in Seq(Up)  BY SMTT(30), <1>1, <1>2, AppendProperties DEF WorldOK
  <1>4. target' \in Target
    <2>1. (target.asked \/ m = AUTH) \in BOOLEAN  OBVIOUS
    <2>2. QED  BY <2>1, <1>1 DEF WorldOK, Target
  <1>5. QED  BY <1>1, <1>3, <1>4 DEF WorldOK

LEMMA ReadNextWorld ==
  ASSUME IInv, ReadNext
  PROVE  WorldOK'
  <1> DEFINE m == Head(tcp.reading)
  <1>1. /\ WorldOK /\ PartsOK /\ tcp.reading # <<>> /\ UNCHANGED <<sent, got, target, wire>>
    BY IInvParts DEF ReadNext
  <1>2. m \in ServerMessages  BY <1>1, HeadTailProperties DEF PartsOK, Tcp
  <1>3. \/ UNCHANGED <<shown, refused>>
        \/ /\ m.type = "data"
           /\ shown' = Append(shown, m.n) \/ shown' = shown
           /\ refused' \in {refused, refused \cup {m.n}}
    BY DEF ReadNext, Handles, ForwardToClient
  <1> HIDE DEF m
  <1>4. m.type = "data" => m.n \in 1 .. NDown  BY <1>2 DEF ServerMessages, Control
  <1>5. shown' \in Seq(1 .. NDown)
    <2>1. shown \in Seq(1 .. NDown)  BY <1>1 DEF WorldOK
    <2>2. ASSUME NEW d \in 1 .. NDown PROVE Append(shown, d) \in Seq(1 .. NDown)
      BY <2>1, AppendProperties
    <2>3. QED  BY <2>1, <2>2, <1>3, <1>4
  <1>6. refused' \subseteq 1 .. NDown  BY <1>1, <1>3, <1>4 DEF WorldOK
  <1>7. QED  BY <1>1, <1>5, <1>6 DEF WorldOK

LEMMA WorldKeeps ==
  ASSUME IInv, [Next]_vars
  PROVE  WorldOK'
  <1>1. WorldOK  BY IInvParts
  <1>2. CASE UNCHANGED world  BY <1>1, <1>2 DEF world, WorldOK
  <1>3. CASE BrowserSends
    <2>1. /\ sent' = sent + 1 /\ sent < NUp
          /\ UNCHANGED <<got, target, wire, shown, refused>>
      BY <1>3 DEF BrowserSends
    <2>2. sent' \in 0 .. NUp  BY <2>1, <1>1, BridgeAssumption DEF WorldOK
    <2>3. QED  BY <1>1, <2>1, <2>2 DEF WorldOK
  <1>4. CASE SocketReads
    <2>1. UNCHANGED <<sent, got, target, shown, refused>>  BY <1>4 DEF SocketReads
    <2>2. PICK k \in 1 .. Len(wire) : wire' = From(wire, k + 1)  BY <1>4 DEF SocketReads
    <2>3. Len(wire) \in Nat /\ wire \in Seq(ServerMessages)  BY <1>1, LenProperties DEF WorldOK
    <2>4. k + 1 \in 1 .. Len(wire) + 1  BY <2>3
    <2>5. wire' \in Seq(ServerMessages)  BY <2>2, <2>3, <2>4, Rest
    <2>6. QED  BY <1>1, <2>1, <2>5 DEF WorldOK
  <1>5. CASE SocketClosed
    <2>1. wire' = <<>> /\ UNCHANGED <<sent, got, target, shown, refused>>
      BY <1>5 DEF SocketClosed
    <2>2. <<>> \in Seq(ServerMessages)  BY EmptySeq
    <2>3. QED  BY <1>1, <2>1, <2>2 DEF WorldOK
  <1>6. CASE TargetSays  BY <1>6, TargetSaysKeeps
  <1>7. CASE SocketWrites  BY <1>7, SocketWritesWorld
  <1>8. CASE ReadNext  BY <1>8, ReadNextWorld
  <1>9. CASE DrainListener \/ WsSent \/ Connected \/ IdleTimeout
    BY <1>2, <1>9 DEF DrainListener, WsSent, Connected, IdleTimeout
  <1>10. CASE HalfTerminates \/ WsClosed \/ SessionExpires \/ RelayCloses
    BY <1>2, <1>10 DEF HalfTerminates, WsClosed, SessionExpires, RelayCloses
  <1>11. CASE UNCHANGED vars  BY <1>2, <1>11 DEF vars, world
  <1>12. QED
    BY <1>3, <1>4, <1>5, <1>6, <1>7, <1>8, <1>9, <1>10, <1>11 DEF Next

LEMMA PartsKeep ==
  ASSUME IInv, [Next]_vars
  PROVE  PartsOK' /\ Linked' /\ Paced'
  <1>1. CASE BrowserSends  BY <1>1, BrowserSendsKeeps
  <1>2. CASE DrainListener  BY <1>2, DrainListenerKeeps
  <1>3. CASE SocketWrites  BY <1>3, SocketWritesKeeps
  <1>4. CASE TargetSays
    <2>1. UNCHANGED <<half, bridge, tcp, refused>>  BY <1>4 DEF TargetSays
    <2>2. QED  BY <2>1, Untouched
  <1>5. CASE SocketReads  BY <1>5, SocketReadsKeeps
  <1>6. CASE ReadNext  BY <1>6, ReadNextKeeps
  <1>7. CASE WsSent  BY <1>7, WsSentKeeps
  <1>8. CASE Connected  BY <1>8, ConnectedKeeps
  <1>9. CASE SocketClosed  BY <1>9, SocketClosedKeeps
  <1>10. CASE IdleTimeout
    <2>1. /\ tcp.sock \in {"connecting", "up"} /\ ProtocolError
          /\ UNCHANGED <<half, bridge, refused>>
      BY <1>10 DEF IdleTimeout, world
    <2>2. QED  BY <2>1, ProtocolErrorKeeps
  <1>11. CASE HalfTerminates \/ WsClosed \/ SessionExpires \/ RelayCloses
    BY <1>11, OtherEndsKeep
  <1>12. CASE UNCHANGED vars
    <2>1. UNCHANGED <<half, bridge, tcp, refused>>  BY <1>12 DEF vars, world
    <2>2. QED  BY <2>1, Untouched
  <1>13. QED
    BY <1>1, <1>2, <1>3, <1>4, <1>5, <1>6, <1>7, <1>8, <1>9, <1>10, <1>11, <1>12 DEF Next

\* Every state the bridge reaches is typed, and the strengthened facts about its two
\* ends and their pauses hold in it: they hold at the start and every step keeps them.
THEOREM Inductive == Spec => []IInv
  <1>1. Init => IInv
    <2> SUFFICES ASSUME Init PROVE IInv  OBVIOUS
    <2>1. /\ <<>> \in Seq(Up) /\ <<>> \in Seq(Up \cup {AUTH}) /\ <<>> \in Seq(ServerMessages)
          /\ <<>> \in Seq(1 .. NDown) /\ Len(<<>>) = 0
      BY EmptySeq
    <2>2. 0 \in 0 .. NUp /\ 0 \in 0 .. NDown /\ 0 \in 0 .. WsHigh /\ 0 <= MaxInbound /\ 0 <= MaxPre
      BY BridgeAssumption
    <2>3. half \in Half /\ bridge \in Bridge /\ tcp \in Tcp /\ target \in Target
      BY <2>1, <2>2 DEF Init, Half, Bridge, Tcp, Target
    <2>4. half.inbound = <<>> /\ bridge.pre = <<>> /\ tcp.queue = <<>>  BY DEF Init
    <2>5. TypeOK  BY <2>1, <2>2, <2>3, <2>4 DEF Init, TypeOK
    <2>6. Sound(tcp) /\ OpenHalf(half) /\ EndsTogether
      BY DEF Init, Sound, OpenHalf, EndsTogether
    <2>7. Agreed /\ Upward /\ Downward  BY DEF Init, Agreed, Upward, Downward
    <2>8. QED  BY <2>5, <2>6, <2>7 DEF IInv
  <1>2. IInv /\ [Next]_vars => IInv'
    <2> SUFFICES ASSUME IInv, [Next]_vars PROVE IInv'  OBVIOUS
    <2>1. WorldOK'  BY WorldKeeps
    <2>2. PartsOK' /\ Linked' /\ Paced'  BY PartsKeep
    <2>3. QED
      BY <2>1, <2>2 DEF IInv, TypeOK, PartsOK, WorldOK, Linked, Paced
  <1>3. QED  BY <1>1, <1>2, PTL DEF Spec

\* The state of the bridge, the half and the TCP client is typed: neither queue exceeds
\* its cap, and what is in flight never exceeds the half's high-water mark.
THEOREM TypeCorrect == Spec => []TypeOK
  <1>1. IInv => TypeOK  BY DEF IInv
  <1>2. QED  BY <1>1, Inductive, PTL

\* The ends of a session end together (session.ts, terminate and its callers): a closed
\* session has a closed half and no socket, and neither end is gone under an open one.
THEOREM EndsMeet == Spec => []EndsTogether
  <1>1. IInv => EndsTogether  BY DEF IInv
  <1>2. QED  BY <1>1, Inductive, PTL

\* In a session that works nobody is paused with no one to resume him (session.ts,
\* onClientFrame and forwardToClient; transport.ts, enqueue and flushQueue).
THEOREM PausesEndAlways == Spec => []PausesEnd
  <1>1. IInv => PausesEnd
    <2> SUFFICES ASSUME IInv, Serving PROVE PausesEnd  BY DEF PausesEnd
    <2>1. Agreed /\ Upward /\ Downward /\ half \in Half  BY DEF IInv, TypeOK
    <2>2. half.inFlight >= WsLow => half.inFlight > 0
      BY <2>1, BridgeAssumption DEF Half
    <2>3. (half.paused <=> bridge.clientPaused) /\ (tcp.paused <=> bridge.backendPaused)
      BY <2>1 DEF Agreed
    <2>4. half.paused => tcp.queue # <<>> /\ Draining(tcp)  BY <2>1, <2>3 DEF Upward
    <2>5. tcp.paused => half.pressure /\ (half.inFlight > 0 \/ refused \cap LargeDown # {})
      BY <2>1, <2>2, <2>3 DEF Downward
    <2>6. QED  BY <2>3, <2>4, <2>5 DEF PausesEnd, Draining, Overfull
  <1>2. QED  BY <1>1, Inductive, PTL

----------------------------------------------------------------------------
\* What a sequence holds, and what comes before what in it.

Values(s) == {s[i] : i \in DOMAIN s}

\* Each message of s comes after the one before it, which may also be in R.
Follows(s, R) ==
  \A i \in DOMAIN s : s[i] > 1 => s[i] - 1 \in R \/ \E j \in 1 .. i - 1 : s[j] = s[i] - 1

LEMMA EmptyValues == Values(<<>>) = {} /\ \A R : Follows(<<>>, R)
  BY DEF Values, Follows

LEMMA ConcatValues ==
  ASSUME NEW S, NEW s \in Seq(S), NEW t \in Seq(S)
  PROVE  Values(s \o t) = Values(s) \cup Values(t)
  <1>1. /\ Len(s) \in Nat /\ Len(t) \in Nat
        /\ DOMAIN s = 1 .. Len(s) /\ DOMAIN t = 1 .. Len(t)
    BY LenProperties
  <1>2. /\ s \o t \in Seq(S) /\ Len(s \o t) = Len(s) + Len(t)
        /\ \A i \in 1 .. Len(s) + Len(t) :
             (s \o t)[i] = IF i <= Len(s) THEN s[i] ELSE t[i - Len(s)]
    BY ConcatProperties
  <1>3. DOMAIN (s \o t) = 1 .. Len(s) + Len(t)  BY <1>2, LenProperties
  <1>4. ASSUME NEW i \in DOMAIN (s \o t) PROVE (s \o t)[i] \in Values(s) \cup Values(t)
    <2>1. CASE i <= Len(s)
      <3>1. i \in DOMAIN s /\ (s \o t)[i] = s[i]  BY <1>1, <1>2, <1>3, <1>4, <2>1
      <3>2. QED  BY <3>1 DEF Values
    <2>2. CASE ~(i <= Len(s))
      <3>1. i - Len(s) \in DOMAIN t /\ (s \o t)[i] = t[i - Len(s)]
        BY <1>1, <1>2, <1>3, <1>4, <2>2
      <3>2. QED  BY <3>1 DEF Values
    <2>3. QED  BY <2>1, <2>2
  <1>5. ASSUME NEW i \in DOMAIN s PROVE s[i] \in Values(s \o t)
    <2>1. i \in DOMAIN (s \o t) /\ (s \o t)[i] = s[i]  BY <1>1, <1>2, <1>3, <1>5
    <2>2. QED  BY <2>1 DEF Values
  <1>6. ASSUME NEW i \in DOMAIN t PROVE t[i] \in Values(s \o t)
    <2>1. Len(s) + i \in 1 .. Len(s) + Len(t) /\ ~(Len(s) + i <= Len(s)) /\ (Len(s) + i) - Len(s) = i
      BY <1>1, <1>6
    <2>2. Len(s) + i \in DOMAIN (s \o t) /\ (s \o t)[Len(s) + i] = t[i]
      BY <1>2, <1>3, <2>1
    <2>3. QED  BY <2>2 DEF Values
  <1>7. QED  BY <1>4, <1>5, <1>6 DEF Values

LEMMA OneValue ==
  ASSUME NEW S, NEW s \in Seq(S), NEW e \in S
  PROVE  <<e>> \in Seq(S) /\ Values(<<e>>) = {e}
  <1>1. <<e>> \in Seq(S)  OBVIOUS
  <1>2. Values(<<e>>) = {e}  BY DEF Values
  <1>3. QED  BY <1>1, <1>2

LEMMA AppendValues ==
  ASSUME NEW S, NEW s \in Seq(S), NEW e \in S
  PROVE  Values(Append(s, e)) = Values(s) \cup {e}
  <1>1. Append(s, e) = s \o <<e>>  BY AppendIsConcat
  <1>2. <<e>> \in Seq(S) /\ Values(<<e>>) = {e}  BY OneValue
  <1>3. Values(s \o <<e>>) = Values(s) \cup Values(<<e>>)  BY <1>2, ConcatValues
  <1>4. QED  BY <1>1, <1>2, <1>3

LEMMA TailValues ==
  ASSUME NEW S, NEW s \in Seq(S), s # <<>>
  PROVE  Values(s) = {Head(s)} \cup Values(Tail(s))
  <1>1. /\ Tail(s) \in Seq(S) /\ Head(s) \in S /\ Len(Tail(s)) = Len(s) - 1
        /\ \A i \in 1 .. Len(Tail(s)) : Tail(s)[i] = s[i + 1]
    BY HeadTailProperties
  <1>2. Len(s) \in Nat \ {0} /\ DOMAIN s = 1 .. Len(s) /\ DOMAIN Tail(s) = 1 .. Len(s) - 1
    BY <1>1, EmptySeq, LenProperties
  <1>3. Head(s) = s[1]  OBVIOUS
  <1>4. ASSUME NEW i \in DOMAIN s PROVE s[i] \in {Head(s)} \cup Values(Tail(s))
    <2>1. CASE i = 1  BY <1>3, <2>1
    <2>2. CASE i # 1
      <3>1. i - 1 \in DOMAIN Tail(s) /\ (i - 1) + 1 = i  BY <1>2, <1>4, <2>2
      <3>2. Tail(s)[i - 1] = s[i]  BY <1>1, <1>2, <3>1
      <3>3. QED  BY <3>1, <3>2 DEF Values
    <2>3. QED  BY <2>1, <2>2
  <1>5. Head(s) \in Values(s)  BY <1>2, <1>3 DEF Values
  <1>6. ASSUME NEW i \in DOMAIN Tail(s) PROVE Tail(s)[i] \in Values(s)
    <2>1. Tail(s)[i] = s[i + 1] /\ i + 1 \in DOMAIN s  BY <1>1, <1>2, <1>6
    <2>2. QED  BY <2>1 DEF Values
  <1>7. QED  BY <1>4, <1>5, <1>6 DEF Values

LEMMA CutValues ==
  ASSUME NEW S, NEW s \in Seq(S), NEW n \in 0 .. Len(s)
  PROVE  /\ SubSeq(s, 1, n) \in Seq(S) /\ From(s, n + 1) \in Seq(S)
         /\ s = SubSeq(s, 1, n) \o From(s, n + 1)
         /\ Values(s) = Values(SubSeq(s, 1, n)) \cup Values(From(s, n + 1))
  <1>1. Len(s) \in Nat  BY LenProperties
  <1>2. 1 \in 1 .. Len(s) + 1 /\ n \in 1 - 1 .. Len(s) /\ Len(s) \in n .. Len(s)
        /\ n + 1 \in 1 .. Len(s) + 1
    BY <1>1
  <1>3. SubSeq(s, 1, n) \o SubSeq(s, n + 1, Len(s)) = SubSeq(s, 1, Len(s))
    BY <1>2, ConcatAdjacentSubSeq
  <1>4. SubSeq(s, 1, Len(s)) = s  BY SubSeqFull
  <1>5. SubSeq(s, 1, n) \in Seq(S)  BY Cut
  <1>6. From(s, n + 1) \in Seq(S)  BY <1>2, Rest
  <1>7. s = SubSeq(s, 1, n) \o From(s, n + 1)  BY <1>3, <1>4 DEF From
  <1>8. QED  BY <1>5, <1>6, <1>7, ConcatValues

LEMMA FollowsMore ==
  ASSUME NEW s \in Seq(Nat), NEW R, NEW Q, R \ {0} \subseteq Q, Follows(s, R)
  PROVE  Follows(s, Q)
  <1>1. ASSUME NEW i \in DOMAIN s, s[i] > 1
        PROVE  s[i] - 1 \in Q \/ \E j \in 1 .. i - 1 : s[j] = s[i] - 1
    <2>1. s[i] \in Nat  BY <1>1, LenProperties
    <2>2. s[i] - 1 # 0  BY <2>1, <1>1
    <2>3. QED  BY <2>2, <1>1 DEF Follows
  <1>2. QED  BY <1>1 DEF Follows

LEMMA FollowsBoth ==
  ASSUME NEW s \in Seq(Nat), NEW t \in Seq(Nat), NEW R
  PROVE  Follows(s \o t, R) <=> Follows(s, R) /\ Follows(t, R \cup Values(s))
  <1>1. /\ Len(s) \in Nat /\ Len(t) \in Nat
        /\ DOMAIN s = 1 .. Len(s) /\ DOMAIN t = 1 .. Len(t)
    BY LenProperties
  <1>2. /\ s \o t \in Seq(Nat) /\ Len(s \o t) = Len(s) + Len(t)
        /\ \A i \in 1 .. Len(s) + Len(t) :
             (s \o t)[i] = IF i <= Len(s) THEN s[i] ELSE t[i - Len(s)]
    BY ConcatProperties
  <1>3. DOMAIN (s \o t) = 1 .. Len(s) + Len(t)  BY <1>2, LenProperties
  <1>4. \A i \in DOMAIN s : (s \o t)[i] = s[i]  BY <1>1, <1>2
  <1>5. \A i \in DOMAIN t : Len(s) + i \in DOMAIN (s \o t) /\ (s \o t)[Len(s) + i] = t[i]
    <2>1. TAKE i \in DOMAIN t
    <2>2. Len(s) + i \in 1 .. Len(s) + Len(t) /\ ~(Len(s) + i <= Len(s)) /\ (Len(s) + i) - Len(s) = i
      BY <1>1
    <2>3. QED  BY <1>2, <1>3, <2>2
  <1>6. ASSUME Follows(s \o t, R) PROVE Follows(s, R)
    <2>1. SUFFICES ASSUME NEW i \in DOMAIN s, s[i] > 1
                   PROVE  s[i] - 1 \in R \/ \E j \in 1 .. i - 1 : s[j] = s[i] - 1
      BY DEF Follows
    <2>2. i \in DOMAIN (s \o t) /\ (s \o t)[i] = s[i]  BY <1>1, <1>3, <1>4
    <2>3. s[i] - 1 \in R \/ \E j \in 1 .. i - 1 : (s \o t)[j] = s[i] - 1
      BY <1>6, <2>1, <2>2 DEF Follows
    <2>4. \A j \in 1 .. i - 1 : (s \o t)[j] = s[j]  BY <1>1, <1>4
    <2>5. QED  BY <2>3, <2>4
  <1>7. ASSUME Follows(s \o t, R) PROVE Follows(t, R \cup Values(s))
    <2>1. SUFFICES ASSUME NEW i \in DOMAIN t, t[i] > 1
                   PROVE  t[i] - 1 \in R \cup Values(s) \/ \E j \in 1 .. i - 1 : t[j] = t[i] - 1
      BY DEF Follows
    <2>2. Len(s) + i \in DOMAIN (s \o t) /\ (s \o t)[Len(s) + i] = t[i]  BY <1>5
    <2>3. \/ t[i] - 1 \in R
          \/ \E j \in 1 .. (Len(s) + i) - 1 : (s \o t)[j] = t[i] - 1
      BY <1>7, <2>1, <2>2 DEF Follows
    <2>4. ASSUME NEW j \in 1 .. (Len(s) + i) - 1, (s \o t)[j] = t[i] - 1
          PROVE  t[i] - 1 \in Values(s) \/ \E l \in 1 .. i - 1 : t[l] = t[i] - 1
      <3>1. CASE j <= Len(s)
        <4>1. j \in DOMAIN s  BY <1>1, <3>1
        <4>2. s[j] = t[i] - 1  BY <4>1, <1>4, <2>4
        <4>3. QED  BY <4>1, <4>2 DEF Values
      <3>2. CASE ~(j <= Len(s))
        <4>1. j - Len(s) \in 1 .. i - 1 /\ j \in 1 .. Len(s) + Len(t)  BY <1>1, <3>2
        <4>2. t[j - Len(s)] = t[i] - 1  BY <4>1, <1>2, <2>4, <3>2
        <4>3. QED  BY <4>1, <4>2
      <3>3. QED  BY <3>1, <3>2
    <2>5. QED  BY <2>3, <2>4
  <1>8. ASSUME Follows(s, R), Follows(t, R \cup Values(s)) PROVE Follows(s \o t, R)
    <2> DEFINE c == s \o t
    <2>1. SUFFICES ASSUME NEW i \in DOMAIN c, c[i] > 1
                   PROVE  c[i] - 1 \in R \/ \E j \in 1 .. i - 1 : c[j] = c[i] - 1
      BY DEF Follows
    <2>2. CASE i <= Len(s)
      <3>1. i \in DOMAIN s /\ c[i] = s[i]  BY <1>1, <1>3, <1>4, <2>2
      <3>2. s[i] - 1 \in R \/ \E j \in 1 .. i - 1 : s[j] = s[i] - 1
        BY <1>8, <2>1, <3>1 DEF Follows
      <3>3. \A j \in 1 .. i - 1 : c[j] = s[j]  BY <1>1, <1>4, <3>1
      <3>4. QED  BY <3>1, <3>2, <3>3
    <2>3. CASE ~(i <= Len(s))
      <3> DEFINE k == i - Len(s)
      <3>1. k \in DOMAIN t /\ c[i] = t[k]  BY <1>1, <1>2, <1>3, <2>3
      <3>2. t[k] - 1 \in R \cup Values(s) \/ \E j \in 1 .. k - 1 : t[j] = t[k] - 1
        BY <1>8, <2>1, <3>1 DEF Follows
      <3>3. ASSUME t[k] - 1 \in Values(s) PROVE \E j \in 1 .. i - 1 : c[j] = c[i] - 1
        <4>1. PICK j \in DOMAIN s : s[j] = t[k] - 1  BY <3>3 DEF Values
        <4>2. j \in 1 .. i - 1 /\ c[j] = c[i] - 1  BY <1>1, <1>3, <1>4, <2>3, <3>1, <4>1
        <4>3. QED  BY <4>2
      <3>4. ASSUME NEW j \in 1 .. k - 1, t[j] = t[k] - 1
            PROVE  \E l \in 1 .. i - 1 : c[l] = c[i] - 1
        <4>1. j \in DOMAIN t /\ Len(s) + j \in 1 .. i - 1  BY <1>1, <1>3, <2>3, <3>1
        <4>2. c[Len(s) + j] = c[i] - 1  BY <4>1, <1>5, <3>1, <3>4
        <4>3. QED  BY <4>1, <4>2
      <3>5. QED  BY <3>1, <3>2, <3>3, <3>4
    <2>4. QED  BY <2>2, <2>3
  <1>9. QED  BY <1>6, <1>7, <1>8

----------------------------------------------------------------------------
\* What the target has, what is on its way to it, and what waits.

Counted(g) == \A i \in DOMAIN g : g[i] = i

\* Each message on its way (g received, b in the socket's buffer, p with the bridge, h
\* with the half) comes after the one before it, and what is in queue q was written.
Chain(g, b, p, h, q) ==
  /\ Follows(b, Values(g))
  /\ Follows(p, Values(g) \cup Values(b))
  /\ Follows(h, Values(g) \cup Values(b) \cup Values(p))
  /\ Values(q) \subseteq Values(g) \cup Values(b)

LEMMA Numbers ==
  /\ Up \subseteq Nat \ {0} /\ AUTH = 0
  /\ \A s \in Seq(Up) : s \in Seq(Nat) /\ s \in Seq(Up \cup {AUTH}) /\ 0 \notin Values(s)
  /\ \A s \in Seq(Up \cup {AUTH}) : s \in Seq(Nat)
  /\ \A s \in Seq(Nat) : Values(s) \subseteq Nat
  <1>1. NUp \in Nat  BY BridgeAssumption
  <1>2. Up \subseteq Nat \ {0} /\ AUTH = 0  BY <1>1 DEF Up, AUTH
  <1>3. ASSUME NEW s \in Seq(Up)
        PROVE  s \in Seq(Nat) /\ s \in Seq(Up \cup {AUTH}) /\ 0 \notin Values(s)
    <2>1. s \in Seq(Nat)  BY <1>2, SeqMonotonic
    <2>2. s \in Seq(Up \cup {AUTH})  BY SeqMonotonic
    <2>3. \A i \in DOMAIN s : s[i] \in Up  BY LenProperties
    <2>4. QED  BY <2>1, <2>2, <2>3, <1>2 DEF Values
  <1>4. ASSUME NEW s \in Seq(Up \cup {AUTH}) PROVE s \in Seq(Nat)
    <2>1. Up \cup {AUTH} \subseteq Nat  BY <1>2
    <2>2. QED  BY <2>1, SeqMonotonic
  <1>5. ASSUME NEW s \in Seq(Nat) PROVE Values(s) \subseteq Nat
    <2>1. \A i \in DOMAIN s : s[i] \in Nat  BY LenProperties
    <2>2. QED  BY <2>1 DEF Values
  <1>6. QED  BY <1>2, <1>3, <1>4, <1>5

LEMMA CountedValues ==
  ASSUME NEW g \in Seq(Nat), Counted(g)
  PROVE  Values(g) = 1 .. Len(g)
  <1>1. DOMAIN g = 1 .. Len(g) /\ Len(g) \in Nat  BY LenProperties
  <1>2. QED  BY <1>1 DEF Counted, Values

\* Of what was written, the one before each was written as well.
LEMMA BeforeWritten ==
  ASSUME NEW g \in Seq(Nat), NEW b \in Seq(Nat), Counted(g), Follows(b, Values(g)),
         NEW d \in Values(g) \cup Values(b), d > 1
  PROVE  d - 1 \in Values(g) \cup Values(b)
  <1>1. CASE d \in Values(g)
    <2>1. Values(g) = 1 .. Len(g) /\ Len(g) \in Nat  BY CountedValues, LenProperties
    <2>2. QED  BY <2>1, <1>1
  <1>2. CASE d \in Values(b)
    <2>1. PICK i \in DOMAIN b : b[i] = d  BY <1>2 DEF Values
    <2>2. d - 1 \in Values(g) \/ \E j \in 1 .. i - 1 : b[j] = d - 1  BY <2>1 DEF Follows
    <2>3. DOMAIN b = 1 .. Len(b) /\ Len(b) \in Nat  BY LenProperties
    <2>4. \A j \in 1 .. i - 1 : j \in DOMAIN b  BY <2>1, <2>3
    <2>5. QED  BY <2>2, <2>4 DEF Values
  <1>3. QED  BY <1>1, <1>2

\* What was written is written again.
LEMMA WrittenAgain ==
  ASSUME NEW g \in Seq(Nat), NEW b \in Seq(Nat), NEW p \in Seq(Nat), NEW h \in Seq(Nat),
         NEW q, NEW d \in Seq(Nat), NEW r,
         Counted(g), Chain(g, b, p, h, q),
         Values(d) \subseteq Values(g) \cup Values(b),
         Values(r) \subseteq Values(g) \cup Values(b)
  PROVE  Chain(g, b \o d, p, h, r) /\ Values(g) \cup Values(b \o d) = Values(g) \cup Values(b)
  <1>1. Values(b \o d) = Values(b) \cup Values(d)  BY ConcatValues
  <1>2. Values(g) \cup Values(b \o d) = Values(g) \cup Values(b)  BY <1>1
  <1>3. Follows(d, Values(g) \cup Values(b))
    <2>1. ASSUME NEW i \in DOMAIN d, d[i] > 1 PROVE d[i] - 1 \in Values(g) \cup Values(b)
      <3>1. d[i] \in Values(g) \cup Values(b)  BY <2>1 DEF Values
      <3>2. QED  BY <3>1, <2>1, BeforeWritten DEF Chain
    <2>2. QED  BY <2>1 DEF Follows
  <1>4. Follows(b \o d, Values(g))  BY <1>3, FollowsBoth DEF Chain
  <1>5. QED  BY <1>2, <1>4 DEF Chain

\* What has waited with the bridge is written.
LEMMA WaitingWritten ==
  ASSUME NEW g, NEW b \in Seq(Nat), NEW p \in Seq(Nat), NEW h \in Seq(Nat),
         NEW q, NEW r, Chain(g, b, p, h, q), Values(r) \subseteq Values(q) \cup Values(p)
  PROVE  /\ Chain(g, b \o p, <<>>, h, r)
         /\ Values(g) \cup Values(b \o p) = Values(g) \cup Values(b) \cup Values(p)
  <1>1. Values(b \o p) = Values(b) \cup Values(p)  BY ConcatValues
  <1>2. Values(g) \cup Values(b \o p) = Values(g) \cup Values(b) \cup Values(p)  BY <1>1
  <1>3. Follows(b \o p, Values(g))  BY FollowsBoth DEF Chain
  <1>4. Follows(h, Values(g) \cup Values(b \o p) \cup Values(<<>>))
    BY <1>2, EmptyValues DEF Chain
  <1>5. QED  BY <1>2, <1>3, <1>4, EmptyValues DEF Chain

\* Of what has waited with the half, the first part is written.
LEMMA PartWritten ==
  ASSUME NEW g, NEW b \in Seq(Nat), NEW m \in Seq(Nat), NEW h \in Seq(Nat),
         NEW q, NEW r, Chain(g, b, <<>>, m \o h, q), Values(r) \subseteq Values(q) \cup Values(m)
  PROVE  /\ Chain(g, b \o m, <<>>, h, r)
         /\ Values(g) \cup Values(b \o m) \cup Values(h)
              = Values(g) \cup Values(b) \cup Values(m \o h)
  <1>1. Values(b \o m) = Values(b) \cup Values(m) /\ Values(m \o h) = Values(m) \cup Values(h)
    BY ConcatValues
  <1>2. Follows(m \o h, Values(g) \cup Values(b))
    <2>1. Values(g) \cup Values(b) \cup Values(<<>>) = Values(g) \cup Values(b)
      BY EmptyValues
    <2>2. QED  BY <2>1 DEF Chain
  <1>3. Follows(m, Values(g) \cup Values(b)) /\ Follows(h, Values(g) \cup Values(b) \cup Values(m))
    BY <1>2, FollowsBoth
  <1>4. Follows(b \o m, Values(g))  BY <1>3, FollowsBoth DEF Chain
  <1>5. Values(g) \cup Values(b \o m) \cup Values(<<>>)
          = Values(g) \cup Values(b) \cup Values(m)
    BY <1>1, EmptyValues
  <1>6. Follows(h, Values(g) \cup Values(b \o m) \cup Values(<<>>))  BY <1>3, <1>5
  <1>7. QED  BY <1>1, <1>4, <1>6, EmptyValues DEF Chain

Received(g, b) ==
  IF Head(b) = 0 \/ \E i \in DOMAIN g : g[i] = Head(b) THEN g ELSE Append(g, Head(b))

\* The first message of the buffer is received, unless the target has it or it asks
\* for authentication.
LEMMA FirstReceived ==
  ASSUME NEW g \in Seq(Nat), NEW b \in Seq(Nat), NEW p \in Seq(Nat), NEW h \in Seq(Nat),
         NEW q, b # <<>>, Counted(g), Chain(g, b, p, h, q), 0 \notin Values(q)
  PROVE  /\ Counted(Received(g, b)) /\ Chain(Received(g, b), Tail(b), p, h, q)
         /\ (Values(Received(g, b)) \cup Values(Tail(b))) \ {0} = (Values(g) \cup Values(b)) \ {0}
  <1> DEFINE m == Head(b)
             f == Received(g, b)
  <1>1. /\ Tail(b) \in Seq(Nat) /\ m \in Nat /\ Len(Tail(b)) = Len(b) - 1 /\ m = b[1]
        /\ \A i \in 1 .. Len(Tail(b)) : Tail(b)[i] = b[i + 1]
    BY HeadTailProperties
  <1>2. /\ Len(b) \in Nat \ {0} /\ DOMAIN b = 1 .. Len(b) /\ DOMAIN Tail(b) = 1 .. Len(b) - 1
        /\ DOMAIN g = 1 .. Len(g) /\ Len(g) \in Nat
    BY <1>1, EmptySeq, LenProperties
  <1>3. Values(g) = 1 .. Len(g)  BY CountedValues
  <1>4. m > 1 => m - 1 \in Values(g)
    <2>1. 1 \in DOMAIN b  BY <1>2
    <2>2. m > 1 => m - 1 \in Values(g) \/ \E j \in 1 .. 1 - 1 : b[j] = m - 1
      BY <1>1, <2>1 DEF Follows, Chain
    <2>3. QED  BY <2>2
  <1>5. Values(b) = {m} \cup Values(Tail(b))  BY TailValues
  <1>6. Counted(f) /\ (Values(f) = Values(g) \/ Values(f) = Values(g) \cup {m})
        /\ Values(g) \subseteq Values(f) /\ (m # 0 => m \in Values(f))
    <2>1. CASE m = 0 \/ m \in Values(g)
      <3>1. f = g  BY <2>1 DEF Values, Received
      <3>2. QED  BY <2>1, <3>1
    <2>2. CASE ~(m = 0 \/ m \in Values(g))
      <3>1. f = Append(g, m)  BY <2>2 DEF Values, Received
      <3>2. m = Len(g) + 1  BY <2>2, <1>1, <1>2, <1>3, <1>4
      <3> HIDE DEF f, m
      <3>3. /\ f \in Seq(Nat) /\ Len(f) = Len(g) + 1 /\ f[Len(g) + 1] = m
            /\ \A i \in 1 .. Len(g) : f[i] = g[i]
        BY <3>1, <1>1, AppendProperties
      <3>4. Counted(f)
        <4>1. DOMAIN f = 1 .. Len(g) + 1  BY <3>3, LenProperties
        <4>2. ASSUME NEW i \in DOMAIN f PROVE f[i] = i
          <5>1. CASE i = Len(g) + 1  BY <5>1, <3>2, <3>3
          <5>2. CASE i # Len(g) + 1
            <6>1. i \in 1 .. Len(g) /\ i \in DOMAIN g  BY <5>2, <4>1, <1>2
            <6>2. QED  BY <6>1, <3>3 DEF Counted
          <5>3. QED  BY <5>1, <5>2
        <4>3. QED  BY <4>2 DEF Counted
      <3>5. Values(f) = Values(g) \cup {m}
        <4>1. Values(Append(g, m)) = Values(g) \cup {m}  BY <1>1, AppendValues
        <4>2. QED  BY <4>1, <3>1
      <3>6. QED  BY <3>4, <3>5
    <2>3. QED  BY <2>1, <2>2
  <1> HIDE DEF m, f
  <1>7. (Values(f) \cup Values(Tail(b))) \ {0} = (Values(g) \cup Values(b)) \ {0}
    BY <1>5, <1>6
  <1>8. Follows(Tail(b), Values(f))
    <2>1. SUFFICES ASSUME NEW i \in DOMAIN Tail(b), Tail(b)[i] > 1
                   PROVE  \/ Tail(b)[i] - 1 \in Values(f)
                          \/ \E j \in 1 .. i - 1 : Tail(b)[j] = Tail(b)[i] - 1
      BY DEF Follows
    <2>2. i \in Nat \ {0} /\ i + 1 \in DOMAIN b /\ Tail(b)[i] = b[i + 1] /\ b[i + 1] \in Nat
      <3>1. i \in 1 .. Len(b) - 1 /\ i + 1 \in 1 .. Len(b)  BY <1>2
      <3>2. b[i + 1] \in Nat  BY <3>1, ElementOfSeq
      <3>3. QED  BY <3>1, <3>2, <1>1, <1>2
    <2>3. b[i + 1] - 1 \in Values(g) \/ \E j \in 1 .. (i + 1) - 1 : b[j] = b[i + 1] - 1
      BY <2>1, <2>2 DEF Chain, Follows
    <2>4. ASSUME NEW j \in 1 .. (i + 1) - 1, b[j] = b[i + 1] - 1
          PROVE  m = b[i + 1] - 1 \/ \E l \in 1 .. i - 1 : Tail(b)[l] = b[i + 1] - 1
      <3>1. CASE j = 1  BY <3>1, <2>4, <1>1
      <3>2. CASE j # 1
        <4>1. j - 1 \in 1 .. i - 1 /\ j - 1 \in 1 .. Len(Tail(b)) /\ (j - 1) + 1 = j
          BY <3>2, <2>2, <1>1, <1>2
        <4>2. Tail(b)[j - 1] = b[j]  BY <4>1, <1>1
        <4>3. QED  BY <4>1, <4>2, <2>4
      <3>3. QED  BY <3>1, <3>2
    <2>5. b[i + 1] - 1 # 0  BY <2>1, <2>2
    <2>6. m = b[i + 1] - 1 => b[i + 1] - 1 \in Values(f)  BY <2>5, <1>6
    <2>7. QED  BY <2>2, <2>3, <2>4, <2>6, <1>6
  <1>9. Follows(p, Values(f) \cup Values(Tail(b)))
    <2>1. (Values(g) \cup Values(b)) \ {0} \subseteq Values(f) \cup Values(Tail(b))  BY <1>7
    <2>2. QED  BY <2>1, FollowsMore DEF Chain
  <1>10. Follows(h, Values(f) \cup Values(Tail(b)) \cup Values(p))
    <2>1. (Values(g) \cup Values(b) \cup Values(p)) \ {0}
            \subseteq Values(f) \cup Values(Tail(b)) \cup Values(p)
      BY <1>7
    <2>2. QED  BY <2>1, FollowsMore DEF Chain
  <1>11. Values(q) \subseteq Values(f) \cup Values(Tail(b))
    BY <1>7 DEF Chain
  <1>12. QED  BY <1>6, <1>7, <1>8, <1>9, <1>10, <1>11 DEF Chain, f

----------------------------------------------------------------------------
\* What the transport's operators write and queue.

LEMMA EnqueuedWrites ==
  ASSUME NEW t \in Tcp, NEW ms \in Seq(Up), CanSend(t)
  PROVE  /\ Enqueued(t, ms).buf = t.buf \o ms
         /\ Values(Enqueued(t, ms).queue) \subseteq Values(t.queue) \cup Values(ms)
         /\ Room(t.buf, ms) < Len(ms) => Enqueued(t, ms).queue # <<>>
  <1> DEFINE room == Room(t.buf, ms)
             over == From(ms, room + 1)
             u == Enqueued(t, ms)
  <1>1. room \in 0 .. Len(ms) /\ Len(ms) \in Nat  BY RoomBound, LenProperties
  <1> HIDE DEF room
  <1>2. over \in Seq(Up) /\ Values(over) \subseteq Values(ms)  BY <1>1, CutValues
  <1>3. t.queue \in Seq(Up)  BY DEF Tcp
  <1>4. room + 1 \in 1 .. Len(ms) + 1  BY <1>1
  <1>5. Len(over) = Len(ms) - (room + 1) + 1  BY <1>4, Rest
  <1>6. u.buf = t.buf \o ms /\ u.queue = t.queue \o over
    BY DEF Enqueued, Tcp, room
  <1> HIDE DEF over, u
  <1>7. Values(u.queue) = Values(t.queue) \cup Values(over)  BY <1>2, <1>3, <1>6, ConcatValues
  <1>8. ASSUME room < Len(ms) PROVE u.queue # <<>>
    <2>1. Len(over) # 0  BY <1>1, <1>5, <1>8
    <2>2. over # <<>>  BY <2>1
    <2>3. QED  BY <2>2, <1>2, <1>3, <1>6, ConcatEqualIffEmpty
  <1>9. QED  BY <1>2, <1>6, <1>7, <1>8 DEF u, room

LEMMA FlushedWrites ==
  ASSUME NEW t \in Tcp
  PROVE  /\ Values(Flushed(t).queue) \subseteq Values(t.queue)
         /\ \E d \in Seq(Up) : /\ Flushed(t).buf = t.buf \o d
                               /\ Values(d) \subseteq Values(t.queue)
  <1> DEFINE k == Room(t.buf, t.queue)
             u == Flushed(t)
  <1>1. t.queue \in Seq(Up) /\ t.buf \in Seq(Up \cup {AUTH}) /\ Len(t.queue) \in Nat
    BY LenProperties DEF Tcp
  <1>2. k \in 0 .. Len(t.queue)  BY <1>1, RoomBound
  <1>3. CASE ~CanSend(t) \/ t.queue = <<>>
    <2>1. u = t  BY <1>3 DEF Flushed
    <2>2. t.buf = t.buf \o <<>>  BY <1>1, ConcatEmptySeq
    <2>3. <<>> \in Seq(Up)  BY EmptySeq
    <2>4. QED  BY <2>1, <2>2, <2>3, EmptyValues
  <1>4. CASE CanSend(t) /\ t.queue # <<>> /\ k = Len(t.queue)
    <2>1. u.buf = t.buf \o t.queue /\ u.queue = <<>>  BY <1>4 DEF Flushed, Tcp
    <2>2. QED  BY <2>1, <1>1, EmptyValues
  <1>5. CASE CanSend(t) /\ t.queue # <<>> /\ k # Len(t.queue)
    <2> DEFINE some == SubSeq(t.queue, 1, k + 1)
               rest == From(t.queue, k + 1)
    <2>1. u.buf = t.buf \o some /\ u.queue = rest  BY <1>5 DEF Flushed, Tcp
    <2> HIDE DEF k, u
    <2>2. k \in 0 .. Len(t.queue) /\ k + 1 \in 0 .. Len(t.queue)  BY <1>1, <1>2, <1>5
    <2>3. some \in Seq(Up) /\ Values(some) \subseteq Values(t.queue)  BY <2>2, <1>1, CutValues
    <2>4. Values(rest) \subseteq Values(t.queue)  BY <2>2, <1>1, CutValues
    <2>5. QED  BY <2>1, <2>3, <2>4 DEF u
  <1>6. QED  BY <1>3, <1>4, <1>5

\* A first part of ms has no more room than ms.
LEMMA RoomOfPart ==
  ASSUME NEW b, NEW ms \in Seq(Up), NEW n \in 0 .. Len(ms)
  PROVE  Room(b, SubSeq(ms, 1, n)) <= Room(b, ms)
  <1> DEFINE part == SubSeq(ms, 1, n)
             Fit(s) == {i \in DOMAIN s : ~Full(b \o SubSeq(s, 1, i))}
  <1>1. Len(ms) \in Nat /\ DOMAIN ms = 1 .. Len(ms)  BY LenProperties
  <1>2. part \in Seq(Up) /\ Len(part) = n  BY Cut
  <1>3. DOMAIN part = 1 .. n  BY <1>2, LenProperties
  <1>4. \A i \in 1 .. n : SubSeq(part, 1, i) = SubSeq(ms, 1, i)
    <2>1. TAKE i \in 1 .. n
    <2>2. /\ 1 \in 1 .. Len(ms) /\ n \in 1 .. Len(ms) /\ 1 \in 1 .. n - 1 + 1
          /\ i \in 1 .. n - 1 + 1 /\ 1 + 1 - 1 = 1 /\ 1 + i - 1 = i
      BY <1>1
    <2>3. SubSeq(SubSeq(ms, 1, n), 1, i) = SubSeq(ms, 1 + 1 - 1, 1 + i - 1)
      BY <2>2, SubSeqOfSubSeq
    <2>4. QED  BY <2>2, <2>3
  <1> HIDE DEF part
  <1>5. Fit(part) \subseteq Fit(ms)
    <2>1. ASSUME NEW i \in 1 .. n, ~Full(b \o SubSeq(part, 1, i))
          PROVE  i \in DOMAIN ms /\ ~Full(b \o SubSeq(ms, 1, i))
      <3>1. SubSeq(part, 1, i) = SubSeq(ms, 1, i)  BY <1>4 DEF part
      <3>2. i \in DOMAIN ms  BY <1>1
      <3>3. QED  BY <2>1, <3>1, <3>2
    <2>2. QED  BY <2>1, <1>3
  <1>6. IsFiniteSet(1 .. Len(ms))  BY <1>1, FS_Interval
  <1>7. Fit(ms) \subseteq 1 .. Len(ms)  BY <1>1
  <1>8. IsFiniteSet(Fit(ms))  BY <1>6, <1>7, FS_Subset
  <1>9. Cardinality(Fit(part)) <= Cardinality(Fit(ms))  BY <1>5, <1>8, FS_Subset
  <1>10. QED  BY <1>9 DEF Room, part

----------------------------------------------------------------------------
\* The way up: what is inductive besides IInv.

InStep ==
  /\ Counted(got)
  /\ tcp.held => Chain(got, tcp.buf, bridge.pre, half.inbound, tcp.queue)

\* What the browser sent and what has become of it, but for the request for
\* authentication.
Whole ==
  /\ bridge.clientPaused => bridge.ready
  /\ bridge.ready => bridge.pre = <<>>
  /\ Serving /\ ~half.paused => half.inbound = <<>>
  /\ Serving =>
       (Values(got) \cup Values(tcp.buf) \cup Values(bridge.pre) \cup Values(half.inbound)) \ {0}
         = 1 .. sent

\* A handler that writes nothing, or ends the session.
LEMMA QuietKeeps ==
  ASSUME InStep, Whole, got' = got,
         bridge'.ready = bridge.ready, bridge'.pre = bridge.pre,
         bridge'.clientPaused = bridge.clientPaused,
         tcp'.held => /\ tcp.held /\ tcp'.buf = tcp.buf /\ tcp'.queue = tcp.queue
                      /\ half'.inbound = half.inbound,
         Serving' => Serving /\ half'.paused = half.paused /\ sent' = sent
  PROVE  InStep' /\ Whole'
  <1>1. InStep'  BY DEF InStep
  <1>2. Serving' => tcp'.held  BY DEF Serving
  <1>3. Whole'  BY <1>2 DEF Whole
  <1>4. QED  BY <1>1, <1>3

\* The session is over, or was.
LEMMA TerminatedQuiet ==
  ASSUME InStep, Whole, got' = got, bridge \in Bridge, NEW t \in Tcp, NEW h,
         bridge.closed => ~t.held, Terminated(t, h)
  PROVE  InStep' /\ Whole'
  <1>1. /\ bridge'.ready = bridge.ready /\ bridge'.pre = bridge.pre
        /\ bridge'.clientPaused = bridge.clientPaused
    BY DEF Terminated, Bridge
  <1>2. ~tcp'.held
    <2>1. CASE bridge.closed  BY <2>1 DEF Terminated
    <2>2. CASE ~bridge.closed
      <3>1. tcp' = [SocketDestroyed(t) EXCEPT !.destroyed = TRUE]  BY <2>2 DEF Terminated
      <3>2. QED  BY <3>1 DEF SocketDestroyed, Tcp
    <2>3. QED  BY <2>1, <2>2
  <1>3. ~Serving'  BY <1>2 DEF Serving
  <1>4. QED  BY <1>1, <1>2, <1>3, QuietKeeps

\* What a transport holds, as numbers.
LEMMA Held ==
  ASSUME NEW t \in Tcp
  PROVE  /\ t.buf \in Seq(Nat) /\ t.queue \in Seq(Up) /\ t.queue \in Seq(Nat)
         /\ 0 \notin Values(t.queue)
  <1>1. t.buf \in Seq(Up \cup {AUTH}) /\ t.queue \in Seq(Up)  BY DEF Tcp
  <1>2. QED  BY <1>1, Numbers

LEMMA Waiting ==
  ASSUME IInv
  PROVE  /\ half.inbound \in Seq(Up) /\ half.inbound \in Seq(Nat) /\ 0 \notin Values(half.inbound)
         /\ bridge.pre \in Seq(Up) /\ bridge.pre \in Seq(Nat) /\ 0 \notin Values(bridge.pre)
         /\ got \in Seq(Nat) /\ sent \in Nat
         /\ tcp \in Tcp /\ half \in Half /\ bridge \in Bridge
         /\ tcp.held /\ ~half.closed => Serving
  <1>1. /\ half \in Half /\ bridge \in Bridge /\ tcp \in Tcp /\ got \in Seq(Up) /\ sent \in Nat
        /\ EndsTogether
    BY BridgeAssumption DEF IInv, TypeOK
  <1>2. half.inbound \in Seq(Up) /\ bridge.pre \in Seq(Up)  BY <1>1 DEF Half, Bridge
  <1>3. tcp.held /\ ~half.closed => Serving  BY <1>1 DEF EndsTogether, Serving
  <1>4. QED  BY <1>1, <1>2, <1>3, Numbers

LEMMA SendUpInStep ==
  ASSUME half \in Half, bridge \in Bridge, got \in Seq(Nat), Counted(got),
         NEW t \in Tcp, t.held = tcp.held,
         NEW ms \in Seq(Up), NEW rest \in Seq(Up),
         bridge.ready, bridge.pre = <<>>, got' = got,
         tcp.held => CanSend(t) /\ Chain(got, t.buf, <<>>, ms \o rest, t.queue),
         Serving => /\ (Values(got) \cup Values(t.buf) \cup Values(ms \o rest)) \ {0} = 1 .. sent'
                    /\ rest = <<>> \/ Room(t.buf, ms) < Len(ms),
         SendUp(t, ms, rest)
  PROVE  InStep' /\ Whole'
  <1> DEFINE u == Enqueued(t, ms)
  <1>1. /\ tcp' = u
        /\ bridge' = [bridge EXCEPT !.clientPaused = u.queue # <<>>]
        /\ half' = [half EXCEPT !.paused = u.queue # <<>>, !.inbound = rest]
    BY DEF SendUp
  <1>2. u \in Tcp /\ u.held = t.held  BY EnqueuedKeeps DEF SameSocket
  <1>3. CanSend(t) => /\ u.buf = t.buf \o ms
                      /\ Values(u.queue) \subseteq Values(t.queue) \cup Values(ms)
                      /\ Room(t.buf, ms) < Len(ms) => u.queue # <<>>
    BY EnqueuedWrites
  <1> HIDE DEF u
  <1>4. /\ half'.inbound = rest /\ half'.paused = (u.queue # <<>>) /\ half'.closed = half.closed
        /\ bridge'.ready /\ bridge'.pre = <<>> /\ bridge'.closed = bridge.closed
    BY <1>1 DEF Half, Bridge
  <1>5. Serving' <=> Serving  BY <1>1, <1>2, <1>4 DEF Serving
  <1>6. t.buf \in Seq(Nat) /\ ms \in Seq(Nat) /\ rest \in Seq(Nat) /\ 0 \notin Values(rest)
    BY Held, Numbers
  <1>7. ASSUME tcp.held
        PROVE  /\ Chain(got, u.buf, <<>>, rest, u.queue)
               /\ Values(got) \cup Values(u.buf) \cup Values(rest)
                    = Values(got) \cup Values(t.buf) \cup Values(ms \o rest)
    <2>1. CanSend(t) /\ Chain(got, t.buf, <<>>, ms \o rest, t.queue)  BY <1>7
    <2>2. u.buf = t.buf \o ms /\ Values(u.queue) \subseteq Values(t.queue) \cup Values(ms)
      BY <2>1, <1>3
    <2>3. Chain(got, t.buf \o ms, <<>>, rest, u.queue)
      BY <2>1, <2>2, <1>6, PartWritten
    <2>4. Values(got) \cup Values(t.buf \o ms) \cup Values(rest)
            = Values(got) \cup Values(t.buf) \cup Values(ms \o rest)
      <3>1. Values(t.buf \o ms) = Values(t.buf) \cup Values(ms)  BY <1>6, ConcatValues
      <3>2. Values(ms \o rest) = Values(ms) \cup Values(rest)  BY <1>6, ConcatValues
      <3>3. QED  BY <3>1, <3>2
    <2>5. QED  BY <2>2, <2>3, <2>4
  <1>8. InStep'  BY <1>1, <1>2, <1>4, <1>7 DEF InStep
  <1>9. ASSUME Serving, ~half'.paused PROVE rest = <<>>
    <2>1. u.queue = <<>>  BY <1>4, <1>9
    <2>2. CanSend(t)  BY <1>9 DEF Serving
    <2>3. ~(Room(t.buf, ms) < Len(ms))  BY <2>1, <2>2, <1>3
    <2>4. QED  BY <2>3, <1>9
  <1>10. ASSUME Serving
         PROVE  (Values(got) \cup Values(u.buf) \cup Values(<<>>) \cup Values(rest)) \ {0} = 1 .. sent'
    <2>1. tcp.held  BY <1>10 DEF Serving
    <2>2. (Values(got) \cup Values(u.buf) \cup Values(rest)) \ {0} = 1 .. sent'
      BY <2>1, <1>7, <1>10
    <2>3. QED  BY <2>2, EmptyValues
  <1>11. Whole'  BY <1>1, <1>4, <1>5, <1>9, <1>10 DEF Whole
  <1>12. QED  BY <1>8, <1>11

LEMMA BrowserSendsInStep ==
  ASSUME IInv, InStep, Whole, BrowserSends
  PROVE  InStep' /\ Whole'
  <1>1. /\ half.inbound \in Seq(Up) /\ half.inbound \in Seq(Nat) /\ 0 \notin Values(half.inbound)
        /\ bridge.pre \in Seq(Up) /\ bridge.pre \in Seq(Nat) /\ 0 \notin Values(bridge.pre)
        /\ got \in Seq(Nat) /\ sent \in Nat /\ tcp \in Tcp /\ half \in Half /\ bridge \in Bridge
        /\ tcp.held /\ ~half.closed => Serving
    BY Waiting
  <1>2. ~half.closed /\ sent' = sent + 1 /\ sent' \in Up /\ got' = got
    BY <1>1, BridgeAssumption DEF BrowserSends, Up
  <1>3. 1 .. sent' = (1 .. sent) \cup {sent'} /\ sent' \in Nat /\ sent' # 0  BY <1>1, <1>2
  <1>4. tcp.held => Serving  BY <1>1, <1>2
  <1> DEFINE all == (Values(got) \cup Values(tcp.buf) \cup Values(bridge.pre)
                      \cup Values(half.inbound)) \ {0}
             one == <<sent'>>
  <1>5. Serving => all = 1 .. sent  BY DEF Whole
  <1>6. one \in Seq(Up) /\ one \in Seq(Nat) /\ Values(one) = {sent'}
    <2>1. one \in Seq(Up) /\ one \in Seq(Nat)  BY <1>2, <1>3
    <2>2. Values(one) = {sent'}  BY DEF Values
    <2>3. QED  BY <2>1, <2>2
  <1>7. \A R : (1 .. sent \subseteq R) => Follows(one, R)
    <2>1. ASSUME NEW R, 1 .. sent \subseteq R, NEW i \in DOMAIN one, one[i] > 1
          PROVE  one[i] - 1 \in R
      <3>1. one[i] = sent + 1  BY <2>1, <1>2
      <3>2. QED  BY <3>1, <2>1, <1>1
    <2>2. QED  BY <2>1 DEF Follows
  <1>8. CASE half.paused /\ Waits(sent')
    <2>1. bridge' = bridge /\ tcp' = tcp  BY <1>8 DEF Waits
    <2>2. CASE Len(half.inbound) = MaxInbound
      <3>1. half' = HalfEnded(half)  BY <1>8, <2>2 DEF Waits
      <3>2. half'.inbound = half.inbound /\ half'.closed  BY <3>1, <1>1 DEF HalfEnded, Half
      <3>3. ~Serving'  BY <3>2 DEF Serving
      <3>4. QED  BY <2>1, <3>2, <3>3, <1>2, QuietKeeps
    <2>3. CASE Len(half.inbound) # MaxInbound
      <3> DEFINE h == Append(half.inbound, sent')
      <3>1. half' = [half EXCEPT !.inbound = h]  BY <1>8, <2>3 DEF Waits
      <3>2. half'.inbound = h /\ half'.paused = half.paused /\ half'.closed = half.closed
        BY <3>1, <1>1 DEF Half
      <3>3. Values(h) = Values(half.inbound) \cup {sent'}  BY <1>1, <1>2, AppendValues
      <3>4. h = half.inbound \o one  BY <1>1, <1>2, AppendIsConcat
      <3> HIDE DEF h, one
      <3>5. Serving' <=> Serving  BY <2>1, <3>2 DEF Serving
      <3>6. ASSUME tcp.held PROVE Chain(got, tcp.buf, bridge.pre, h, tcp.queue)
        <4>1. Chain(got, tcp.buf, bridge.pre, half.inbound, tcp.queue)  BY <3>6 DEF InStep
        <4> DEFINE R == Values(got) \cup Values(tcp.buf) \cup Values(bridge.pre)
        <4>2. 1 .. sent \subseteq R \cup Values(half.inbound)  BY <3>6, <1>4, <1>5
        <4>3. Follows(one, R \cup Values(half.inbound))  BY <4>2, <1>7
        <4>4. Follows(half.inbound, R)  BY <4>1 DEF Chain
        <4>5. Follows(h, R)  BY <4>3, <4>4, <3>4, <1>1, <1>6, FollowsBoth
        <4>6. QED  BY <4>1, <4>5 DEF Chain
      <3>7. InStep'  BY <2>1, <3>2, <3>6, <1>2 DEF InStep
      <3>8. ASSUME Serving
            PROVE  (Values(got) \cup Values(tcp.buf) \cup Values(bridge.pre) \cup Values(h)) \ {0}
                     = 1 .. sent'
        <4>1. all = 1 .. sent  BY <3>8, <1>5
        <4>2. (Values(got) \cup Values(tcp.buf) \cup Values(bridge.pre) \cup Values(h)) \ {0}
                = all \cup {sent'}
          BY <3>3, <1>3
        <4> HIDE DEF all
        <4>3. QED  BY <4>1, <4>2, <1>3
      <3>9. Whole'  BY <2>1, <3>2, <3>5, <3>8, <1>2, <1>8 DEF Whole
      <3>10. QED  BY <3>7, <3>9
    <2>4. QED  BY <2>2, <2>3
  <1>9. CASE ~half.paused /\ bridge.ready /\ SendUp(tcp, one, half.inbound)
    <2>1. bridge.pre = <<>> /\ (Serving => half.inbound = <<>>)  BY <1>9 DEF Whole
    <2> HIDE DEF one
    <2>2. one \o <<>> = one  BY <1>6, ConcatEmptySeq
    <2>3. ASSUME tcp.held
          PROVE  /\ CanSend(tcp) /\ half.inbound = <<>>
                 /\ Chain(got, tcp.buf, <<>>, one, tcp.queue)
      <3>1. Serving  BY <2>3, <1>4
      <3>2. CanSend(tcp)  BY <3>1, <1>9, <2>3 DEF IInv, Agreed, CanSend
      <3>3. Chain(got, tcp.buf, <<>>, <<>>, tcp.queue)  BY <2>1, <2>3, <3>1 DEF InStep
      <3>4. (Values(got) \cup Values(tcp.buf)) \ {0} = 1 .. sent
        BY <2>1, <3>1, <1>5, EmptyValues
      <3>5. Follows(one, Values(got) \cup Values(tcp.buf) \cup Values(<<>>))
        BY <3>4, <1>7
      <3>6. QED  BY <2>1, <3>1, <3>2, <3>3, <3>5 DEF Chain
    <2>4. ASSUME Serving
          PROVE  (Values(got) \cup Values(tcp.buf) \cup Values(one)) \ {0} = 1 .. sent'
      <3>1. (Values(got) \cup Values(tcp.buf)) \ {0} = 1 .. sent
        BY <2>1, <2>4, <1>5, EmptyValues
      <3>2. QED  BY <3>1, <1>3, <1>6
    <2>5. Serving => tcp.held  BY DEF Serving
    <2>6. tcp.held => CanSend(tcp) /\ Chain(got, tcp.buf, <<>>, one \o half.inbound, tcp.queue)
      BY <2>2, <2>3
    <2>7. Serving => /\ (Values(got) \cup Values(tcp.buf) \cup Values(one \o half.inbound)) \ {0}
                          = 1 .. sent'
                     /\ half.inbound = <<>>
      BY <2>1, <2>2, <2>4
    <2>8. Counted(got)  BY DEF InStep
    <2>9. QED  BY <2>1, <2>6, <2>7, <2>8, <1>1, <1>2, <1>6, <1>9, SendUpInStep
  <1>10. CASE ~half.paused /\ ~bridge.ready /\ Buffered(sent')
    <2>1. CASE Len(bridge.pre) = MaxPre
      <3>1. Terminated(tcp, half)  BY <1>10, <2>1 DEF Buffered
      <3>2. bridge.closed => ~tcp.held  BY DEF IInv, EndsTogether
      <3>3. QED  BY <3>1, <3>2, <1>1, <1>2, TerminatedQuiet
    <2>2. CASE Len(bridge.pre) # MaxPre
      <3> DEFINE p == Append(bridge.pre, sent')
      <3>1. bridge' = [bridge EXCEPT !.pre = p] /\ half' = half /\ tcp' = tcp
        BY <1>10, <2>2 DEF Buffered
      <3>2. /\ bridge'.pre = p /\ bridge'.ready = bridge.ready /\ bridge'.closed = bridge.closed
            /\ bridge'.clientPaused = bridge.clientPaused
        BY <3>1, <1>1 DEF Bridge
      <3>3. Values(p) = Values(bridge.pre) \cup {sent'}  BY <1>1, <1>2, AppendValues
      <3>4. p = bridge.pre \o one  BY <1>1, <1>2, AppendIsConcat
      <3>5. Serving => half.inbound = <<>>  BY <1>10 DEF Whole
      <3> HIDE DEF p, one
      <3>6. Serving' <=> Serving  BY <3>1, <3>2 DEF Serving
      <3>7. ASSUME tcp.held PROVE Chain(got, tcp.buf, p, half.inbound, tcp.queue)
        <4>1. Chain(got, tcp.buf, bridge.pre, half.inbound, tcp.queue)  BY <3>7 DEF InStep
        <4>2. half.inbound = <<>> /\ Values(half.inbound) = {}
          BY <3>5, <3>7, <1>4, EmptyValues
        <4> DEFINE R == Values(got) \cup Values(tcp.buf)
        <4>3. 1 .. sent \subseteq R \cup Values(bridge.pre)  BY <3>7, <4>2, <1>4, <1>5
        <4>4. Follows(one, R \cup Values(bridge.pre))  BY <4>3, <1>7
        <4>5. Follows(bridge.pre, R)  BY <4>1 DEF Chain
        <4>6. Follows(p, R)  BY <4>4, <4>5, <3>4, <1>1, <1>6, FollowsBoth
        <4>7. \A Q : Follows(half.inbound, Q)  BY <4>2, EmptyValues
        <4>8. QED  BY <4>1, <4>6, <4>7 DEF Chain
      <3>8. InStep'  BY <3>1, <3>2, <3>7, <1>2 DEF InStep
      <3>9. ASSUME Serving
            PROVE  (Values(got) \cup Values(tcp.buf) \cup Values(p) \cup Values(half.inbound)) \ {0}
                     = 1 .. sent'
        <4>1. all = 1 .. sent  BY <3>9, <1>5
        <4>2. (Values(got) \cup Values(tcp.buf) \cup Values(p) \cup Values(half.inbound)) \ {0}
                = all \cup {sent'}
          BY <3>3, <1>3
        <4> HIDE DEF all
        <4>3. QED  BY <4>1, <4>2, <1>3
      <3>10. Whole'  BY <3>1, <3>2, <3>6, <3>9, <1>2, <1>10 DEF Whole
      <3>11. QED  BY <3>8, <3>10
    <2>3. QED  BY <2>1, <2>2
  <1>11. QED  BY <1>2, <1>8, <1>9, <1>10 DEF BrowserSends

LEMMA DrainListenerInStep ==
  ASSUME IInv, InStep, Whole, DrainListener
  PROVE  InStep' /\ Whole'
  <1> DEFINE t == [tcp EXCEPT !.calls = @ - 1]
             u == Flushed(t)
  <1>1. /\ half.inbound \in Seq(Up) /\ half.inbound \in Seq(Nat) /\ bridge.pre \in Seq(Nat)
        /\ got \in Seq(Nat) /\ tcp \in Tcp /\ half \in Half /\ bridge \in Bridge
        /\ tcp.held /\ ~half.closed => Serving
    BY Waiting
  <1>2. FlushQueue(t) /\ got' = got /\ sent' = sent /\ tcp.calls > 0
    BY DEF DrainListener, world
  <1>3. /\ t \in Tcp /\ t.held = tcp.held /\ t.buf = tcp.buf /\ t.queue = tcp.queue
    <2>1. tcp.calls \in Nat  BY <1>1 DEF Tcp
    <2>2. tcp.calls - 1 \in Nat  BY <2>1, <1>2
    <2>3. QED  BY <2>2, <1>1 DEF Tcp
  <1> HIDE DEF t
  <1>4. u \in Tcp /\ SameSocket(t, u)  BY <1>3, FlushedKeeps
  <1>5. Values(u.queue) \subseteq Values(tcp.queue)  BY <1>3, FlushedWrites
  <1>6. PICK d \in Seq(Up) : u.buf = tcp.buf \o d /\ Values(d) \subseteq Values(tcp.queue)
    BY <1>3, FlushedWrites
  <1> HIDE DEF u
  <1>7. u.held = tcp.held  BY <1>3, <1>4 DEF SameSocket
  <1>8. ASSUME tcp.held
        PROVE  /\ Chain(got, u.buf, bridge.pre, half.inbound, u.queue)
               /\ Values(got) \cup Values(u.buf) = Values(got) \cup Values(tcp.buf)
    <2>1. Counted(got) /\ Chain(got, tcp.buf, bridge.pre, half.inbound, tcp.queue)
      BY <1>8 DEF InStep
    <2>2. Values(tcp.queue) \subseteq Values(got) \cup Values(tcp.buf)  BY <2>1 DEF Chain
    <2>3. Values(d) \subseteq Values(got) \cup Values(tcp.buf)  BY <2>2, <1>6
    <2>4. Values(u.queue) \subseteq Values(got) \cup Values(tcp.buf)  BY <2>2, <1>5
    <2>5. tcp.buf \in Seq(Nat) /\ d \in Seq(Nat)  BY <1>1, Held, Numbers
    <2>6. Chain(got, tcp.buf \o d, bridge.pre, half.inbound, u.queue)
      BY <2>1, <2>3, <2>4, <2>5, <1>1, WrittenAgain
    <2>7. Values(tcp.buf \o d) = Values(tcp.buf) \cup Values(d)  BY <2>5, ConcatValues
    <2>8. QED  BY <2>3, <2>6, <2>7, <1>6
  <1>9. CASE Drained(t) /\ bridge.clientPaused
    <2> DEFINE all == Len(half.inbound)
               room == Room(u.buf, half.inbound)
               n == IF half.closed THEN 0 ELSE IF room = all THEN all ELSE room + 1
               ms == SubSeq(half.inbound, 1, n)
               rest == From(half.inbound, n + 1)
    <2>1. SendUp(u, ms, rest)  BY <1>2, <1>9 DEF FlushQueue, u
    <2>2. all \in Nat /\ room \in 0 .. all  BY <1>1, RoomBound, LenProperties
    <2> HIDE DEF room
    <2>3. n \in 0 .. all  BY <2>2
    <2>4. ~half.closed => n = all \/ n = room + 1  OBVIOUS
    <2> HIDE DEF n
    <2>5. /\ ms \in Seq(Up) /\ rest \in Seq(Up) /\ half.inbound = ms \o rest
      BY <2>3, <1>1, CutValues
    <2>6. Len(ms) = n  BY <2>3, <1>1, Cut
    <2>7. ASSUME Serving PROVE rest = <<>> \/ Room(u.buf, ms) < Len(ms)
      <3>1. CASE n = all
        <4>1. n + 1 \in 1 .. Len(half.inbound) + 1  BY <2>2, <2>3
        <4>2. Len(rest) = Len(half.inbound) - (n + 1) + 1  BY <4>1, <1>1, Rest
        <4>3. Len(rest) = 0  BY <4>2, <3>1, <2>2
        <4>4. QED  BY <4>3, <2>5, EmptySeq
      <3>2. CASE n = room + 1
        <4>1. Room(u.buf, ms) <= room  BY <2>3, <1>1, RoomOfPart DEF room
        <4>2. Room(u.buf, ms) \in 0 .. Len(ms)  BY <2>5, RoomBound
        <4>3. QED  BY <4>1, <4>2, <3>2, <2>2, <2>6
      <3>3. QED  BY <3>1, <3>2, <2>4, <2>7 DEF Serving
    <2> HIDE DEF ms, rest, all
    <2>8. bridge.ready /\ bridge.pre = <<>>  BY <1>9 DEF Whole
    <2>9. CanSend(u)  BY <1>4, <1>9 DEF Drained, CanSend, SameSocket
    <2>10. tcp.held => CanSend(u) /\ Chain(got, u.buf, <<>>, ms \o rest, u.queue)
      BY <2>5, <2>8, <2>9, <1>8
    <2>11. ASSUME Serving
           PROVE  (Values(got) \cup Values(u.buf) \cup Values(ms \o rest)) \ {0} = 1 .. sent'
      <3>1. (Values(got) \cup Values(tcp.buf) \cup Values(bridge.pre) \cup Values(half.inbound)) \ {0}
              = 1 .. sent
        BY <2>11 DEF Whole
      <3>2. Values(bridge.pre) = {}  BY <2>8, EmptyValues
      <3>3. Values(got) \cup Values(u.buf) = Values(got) \cup Values(tcp.buf)
        BY <2>11, <1>8 DEF Serving
      <3>4. QED  BY <3>1, <3>2, <3>3, <2>5, <1>2
    <2>12. Counted(got)  BY DEF InStep
    <2>13. Serving => /\ (Values(got) \cup Values(u.buf) \cup Values(ms \o rest)) \ {0} = 1 .. sent'
                      /\ rest = <<>> \/ Room(u.buf, ms) < Len(ms)
      BY <2>7, <2>11
    <2>14. QED  BY <2>1, <2>5, <2>8, <2>10, <2>12, <2>13, <1>1, <1>2, <1>4, <1>7, SendUpInStep
  <1>10. CASE ~(Drained(t) /\ bridge.clientPaused)
    <2>1. tcp' = u /\ half' = half /\ bridge' = bridge  BY <1>2, <1>10 DEF FlushQueue, u
    <2>2. InStep'  BY <2>1, <1>2, <1>7, <1>8 DEF InStep
    <2>3. Serving' <=> Serving  BY <2>1, <1>7 DEF Serving
    <2>4. Serving => Values(got) \cup Values(u.buf) = Values(got) \cup Values(tcp.buf)
      BY <1>8 DEF Serving
    <2>5. Whole'  BY <2>1, <2>3, <2>4, <1>2 DEF Whole
    <2>6. QED  BY <2>2, <2>5
  <1>11. QED  BY <1>9, <1>10

LEMMA SocketWritesInStep ==
  ASSUME IInv, InStep, Whole, SocketWrites
  PROVE  InStep' /\ Whole'
  <1> DEFINE t == [tcp EXCEPT !.buf = Tail(@)]
  <1>1. /\ half.inbound \in Seq(Nat) /\ bridge.pre \in Seq(Nat) /\ got \in Seq(Nat) /\ tcp \in Tcp
        /\ tcp.buf \in Seq(Nat) /\ 0 \notin Values(tcp.queue)
        /\ 0 \notin Values(half.inbound) /\ 0 \notin Values(bridge.pre)
    BY Waiting, Held
  <1>2. /\ tcp.buf # <<>> /\ tcp.sock = "up"
        /\ half' = half /\ bridge' = bridge /\ sent' = sent
        /\ got' = Received(got, tcp.buf)
    BY DEF SocketWrites, AUTH, Received
  <1>3. tcp' = IF t.needDrain /\ t.buf = <<>>
               THEN [t EXCEPT !.needDrain = FALSE, !.calls = t.drains, !.drains = 0]
               ELSE t
    BY DEF SocketWrites
  <1>4. tcp'.buf = Tail(tcp.buf) /\ tcp'.held = tcp.held /\ tcp'.queue = tcp.queue
    BY <1>1, <1>3 DEF Tcp
  <1>5. tcp.held  BY <1>2 DEF IInv, Sound
  <1>6. Counted(got) /\ Chain(got, tcp.buf, bridge.pre, half.inbound, tcp.queue)
    BY <1>5 DEF InStep
  <1>7. /\ Counted(got') /\ Chain(got', Tail(tcp.buf), bridge.pre, half.inbound, tcp.queue)
        /\ (Values(got') \cup Values(Tail(tcp.buf))) \ {0} = (Values(got) \cup Values(tcp.buf)) \ {0}
    <2> DEFINE f == Received(got, tcp.buf)
    <2>1. Counted(f)  BY <1>1, <1>2, <1>6, FirstReceived
    <2>2. Chain(f, Tail(tcp.buf), bridge.pre, half.inbound, tcp.queue)
      BY <1>1, <1>2, <1>6, FirstReceived
    <2>3. (Values(f) \cup Values(Tail(tcp.buf))) \ {0} = (Values(got) \cup Values(tcp.buf)) \ {0}
      BY <1>1, <1>2, <1>6, FirstReceived
    <2>4. QED  BY <2>1, <2>2, <2>3, <1>2
  <1>8. InStep'  BY <1>2, <1>4, <1>7 DEF InStep
  <1>9. Serving' <=> Serving  BY <1>2, <1>4 DEF Serving
  <1>10. ASSUME Serving
         PROVE  (Values(got') \cup Values(Tail(tcp.buf)) \cup Values(bridge.pre)
                   \cup Values(half.inbound)) \ {0} = 1 .. sent
    <2>1. (Values(got) \cup Values(tcp.buf) \cup Values(bridge.pre) \cup Values(half.inbound)) \ {0}
            = 1 .. sent
      BY <1>10 DEF Whole
    <2>2. QED  BY <2>1, <1>7
  <1>11. Whole'  BY <1>2, <1>4, <1>9, <1>10 DEF Whole
  <1>12. QED  BY <1>8, <1>11

LEMMA GreetedInStep ==
  ASSUME IInv, InStep, Whole, NEW t, Reading(t), Greeted(t), got' = got, sent' = sent
  PROVE  InStep' /\ Whole'
  <1>1. /\ half.inbound \in Seq(Nat) /\ bridge.pre \in Seq(Nat) /\ got \in Seq(Nat) /\ tcp \in Tcp
        /\ tcp.buf \in Seq(Nat) /\ bridge \in Bridge
    BY Waiting, Held
  <1>2. t \in Tcp /\ tcp.held /\ t.held = tcp.held /\ t.buf = tcp.buf /\ t.queue = tcp.queue
    BY DEF Reading
  <1>3. CASE /\ tcp' = [t EXCEPT !.proto = "authenticating", !.buf = Append(@, AUTH)]
             /\ UNCHANGED <<half, bridge>>
    <2> DEFINE b == Append(tcp.buf, 0)
    <2>1. /\ tcp'.buf = b /\ tcp'.held = tcp.held /\ tcp'.queue = tcp.queue
          /\ half' = half /\ bridge' = bridge
      BY <1>2, <1>3 DEF Tcp, AUTH
    <2>2. Values(b) = Values(tcp.buf) \cup {0}
      <3>1. \A e \in Nat : Values(Append(tcp.buf, e)) = Values(tcp.buf) \cup {e}
        BY <1>1, AppendValues
      <3>2. QED  BY <3>1
    <2>3. b = tcp.buf \o <<0>>  BY <1>1, AppendIsConcat
    <2>4. <<0>> \in Seq(Nat)  OBVIOUS
    <2> HIDE DEF b
    <2>5. Chain(got, tcp.buf, bridge.pre, half.inbound, tcp.queue) /\ Counted(got)
      BY <1>2 DEF InStep
    <2>6. \A R : Follows(<<0>>, R)  BY DEF Follows
    <2>7. Follows(b, Values(got))  BY <2>3, <2>4, <2>5, <2>6, <1>1, FollowsBoth DEF Chain
    <2>8. Follows(bridge.pre, Values(got) \cup Values(b))
      <3>1. (Values(got) \cup Values(tcp.buf)) \ {0} \subseteq Values(got) \cup Values(b)  BY <2>2
      <3>2. QED  BY <3>1, <2>5, <1>1, FollowsMore DEF Chain
    <2>9. Follows(half.inbound, Values(got) \cup Values(b) \cup Values(bridge.pre))
      <3>1. (Values(got) \cup Values(tcp.buf) \cup Values(bridge.pre)) \ {0}
              \subseteq Values(got) \cup Values(b) \cup Values(bridge.pre)
        BY <2>2
      <3>2. QED  BY <3>1, <2>5, <1>1, FollowsMore DEF Chain
    <2>10. Values(tcp.queue) \subseteq Values(got) \cup Values(b)  BY <2>2, <2>5 DEF Chain
    <2>11. InStep'  BY <2>1, <2>5, <2>7, <2>8, <2>9, <2>10 DEF InStep, Chain
    <2>12. Serving' <=> Serving  BY <2>1 DEF Serving
    <2>13. (Values(got) \cup Values(b) \cup Values(bridge.pre) \cup Values(half.inbound)) \ {0}
             = (Values(got) \cup Values(tcp.buf) \cup Values(bridge.pre) \cup Values(half.inbound)) \ {0}
      BY <2>2
    <2>14. Whole'  BY <2>1, <2>12, <2>13 DEF Whole
    <2>15. QED  BY <2>11, <2>14
  <1>4. CASE Terminated([SocketDestroyed(t) EXCEPT !.proto = "authenticating",
                                                   !.closedByUs = TRUE], half)
    <2> DEFINE v == [SocketDestroyed(t) EXCEPT !.proto = "authenticating", !.closedByUs = TRUE]
    <2>1. <<>> \in Seq(ServerMessages)  BY EmptySeq
    <2>2. v \in Tcp /\ ~v.held  BY <1>2, <2>1 DEF SocketDestroyed, Tcp
    <2>3. Terminated(v, half)  BY <1>4
    <2> HIDE DEF v
    <2>4. QED  BY <2>2, <2>3, <1>1, TerminatedQuiet
  <1>5. QED  BY <1>3, <1>4 DEF Greeted

LEMMA TargetReadyInStep ==
  ASSUME IInv, InStep, Whole, NEW t, Reading(t), tcp.proto # "ready", TargetReady(t),
         got' = got, sent' = sent
  PROVE  InStep' /\ Whole'
  <1> DEFINE v == [t EXCEPT !.proto = "ready"]
             u == Enqueued(v, bridge.pre)
             f == Flushed(u)
  <1>1. /\ half.inbound \in Seq(Nat) /\ bridge.pre \in Seq(Up) /\ bridge.pre \in Seq(Nat)
        /\ got \in Seq(Nat) /\ tcp \in Tcp
        /\ tcp.buf \in Seq(Nat) /\ bridge \in Bridge /\ half \in Half
    BY Waiting, Held
  <1>2. /\ v \in Tcp /\ v.held = tcp.held /\ v.queue = tcp.queue /\ v.buf = tcp.buf /\ CanSend(v)
        /\ tcp.held
    BY DEF Reading, Tcp, CanSend
  <1> HIDE DEF v
  <1>3. u \in Tcp /\ u.held = tcp.held  BY <1>1, <1>2, EnqueuedKeeps DEF SameSocket
  <1>4. u.buf = tcp.buf \o bridge.pre
    BY <1>1, <1>2, EnqueuedWrites
  <1>5. Values(u.queue) \subseteq Values(tcp.queue) \cup Values(bridge.pre)
    BY <1>1, <1>2, EnqueuedWrites
  <1> HIDE DEF u
  <1>6. f \in Tcp /\ f.held = tcp.held  BY <1>3, FlushedKeeps DEF SameSocket
  <1>7. Values(f.queue) \subseteq Values(u.queue)  BY <1>3, FlushedWrites
  <1>8. PICK d \in Seq(Up) : f.buf = u.buf \o d /\ Values(d) \subseteq Values(u.queue)
    BY <1>3, FlushedWrites
  <1> HIDE DEF f
  <1>9. /\ tcp' = f
        /\ bridge' = [bridge EXCEPT !.ready = TRUE, !.pre = <<>>, !.clientPaused = u.queue # <<>>]
        /\ half' = [half EXCEPT !.paused = u.queue # <<>>]
    BY DEF TargetReady, u, v, f
  <1>10. /\ bridge'.ready /\ bridge'.pre = <<>> /\ bridge'.closed = bridge.closed
         /\ half'.inbound = half.inbound /\ half'.closed = half.closed
    BY <1>1, <1>9 DEF Bridge, Half
  <1>11. Counted(got) /\ Chain(got, tcp.buf, bridge.pre, half.inbound, tcp.queue)
    BY <1>2 DEF InStep
  <1>12. Chain(got, u.buf, <<>>, half.inbound, u.queue)
    <2>1. Chain(got, tcp.buf \o bridge.pre, <<>>, half.inbound, u.queue)
      BY <1>1, <1>5, <1>11, WaitingWritten
    <2>2. QED  BY <2>1, <1>4
  <1>13. Values(u.queue) \subseteq Values(got) \cup Values(u.buf)  BY <1>12 DEF Chain
  <1>14. u.buf \in Seq(Nat) /\ d \in Seq(Nat) /\ <<>> \in Seq(Nat)
    BY <1>3, Held, Numbers, EmptySeq
  <1>15. Values(d) \subseteq Values(got) \cup Values(u.buf)  BY <1>8, <1>13
  <1>16. Values(f.queue) \subseteq Values(got) \cup Values(u.buf)  BY <1>7, <1>13
  <1>17. Chain(got, f.buf, <<>>, half.inbound, f.queue)
    <2>1. Chain(got, u.buf \o d, <<>>, half.inbound, f.queue)
      BY <1>1, <1>11, <1>12, <1>14, <1>15, <1>16, WrittenAgain
    <2>2. QED  BY <2>1, <1>8
  <1>18. Values(got) \cup Values(f.buf) \cup Values(<<>>)
           = Values(got) \cup Values(tcp.buf) \cup Values(bridge.pre)
    <2>1. Values(f.buf) = Values(u.buf) \cup Values(d)  BY <1>8, <1>14, ConcatValues
    <2>2. Values(u.buf) = Values(tcp.buf) \cup Values(bridge.pre)  BY <1>1, <1>4, ConcatValues
    <2>3. QED  BY <2>1, <2>2, <1>15, EmptyValues
  <1>19. InStep'  BY <1>9, <1>10, <1>11, <1>17 DEF InStep
  <1>20. Serving' <=> Serving  BY <1>6, <1>9, <1>10 DEF Serving
  <1>21. Serving => half.inbound = <<>>
    <2>1. Serving => ~half.paused  BY DEF IInv, Agreed
    <2>2. QED  BY <2>1 DEF Whole
  <1>22. ASSUME Serving
         PROVE  (Values(got) \cup Values(f.buf) \cup Values(<<>>) \cup Values(half.inbound)) \ {0}
                  = 1 .. sent
    <2>1. (Values(got) \cup Values(tcp.buf) \cup Values(bridge.pre) \cup Values(half.inbound)) \ {0}
            = 1 .. sent
      BY <1>22 DEF Whole
    <2>2. QED  BY <2>1, <1>18
  <1>23. Whole'  BY <1>9, <1>10, <1>20, <1>21, <1>22 DEF Whole
  <1>24. QED  BY <1>19, <1>23

LEMMA ReadNextInStep ==
  ASSUME IInv, InStep, Whole, ReadNext
  PROVE  InStep' /\ Whole'
  <1> DEFINE m == Head(tcp.reading)
             t == [tcp EXCEPT !.reading = Tail(@)]
  <1>1. /\ tcp \in Tcp /\ half \in Half /\ bridge \in Bridge /\ tcp.reading # <<>>
        /\ tcp.reading \in Seq(ServerMessages) /\ got' = got /\ sent' = sent
        /\ bridge.closed => ~tcp.held
    BY Waiting DEF ReadNext, Tcp, IInv, EndsTogether
  <1>2. Tail(tcp.reading) \in Seq(ServerMessages)  BY <1>1, HeadTailProperties
  <1>3. tcp.held  BY <1>1 DEF IInv, Sound
  <1>4. Reading(t) /\ t \in Tcp /\ t.held = tcp.held
    BY <1>1, <1>2, <1>3 DEF Reading, Tcp
  <1>5. \/ Expected(m, tcp.proto) /\ Handles(t, m)
        \/ ProtocolError /\ UNCHANGED <<half, bridge>>
    BY DEF ReadNext
  <1> HIDE DEF m, t
  <1>6. CASE ProtocolError /\ UNCHANGED <<half, bridge>>
    <2>1. ~tcp'.held  BY <1>1, <1>6 DEF ProtocolError, SocketDestroyed, Tcp
    <2>2. ~Serving'  BY <2>1 DEF Serving
    <2>3. QED  BY <2>1, <2>2, <1>1, <1>6, QuietKeeps
  <1>7. CASE Expected(m, tcp.proto) /\ Handles(t, m)
    <2>1. CASE m.type = "hello" /\ Greeted(t)
      BY <2>1, <1>1, <1>4, GreetedInStep
    <2>2. CASE m.type = "auth_ok" /\ TargetReady(t)
      <3>1. tcp.proto # "ready"  BY <1>7, <2>2 DEF Expected
      <3>2. QED  BY <3>1, <2>2, <1>1, <1>4, TargetReadyInStep
    <2>3. CASE m.type = "data" /\ ForwardToClient(t, m.n)
      <3>1. /\ tcp'.held = t.held /\ tcp'.buf = t.buf /\ tcp'.queue = t.queue
            /\ half'.inbound = half.inbound /\ half'.paused = half.paused
            /\ half'.closed = half.closed
            /\ bridge'.ready = bridge.ready /\ bridge'.pre = bridge.pre
            /\ bridge'.clientPaused = bridge.clientPaused /\ bridge'.closed = bridge.closed
        BY <2>3, <1>1, <1>4 DEF ForwardToClient, Tcp, Half, Bridge
      <3>2. tcp'.held = tcp.held /\ tcp'.buf = tcp.buf /\ tcp'.queue = tcp.queue
        BY <3>1, <1>4 DEF Reading
      <3>3. Serving' => Serving  BY <3>1, <3>2 DEF Serving
      <3>4. QED  BY <3>1, <3>2, <3>3, <1>1, QuietKeeps
    <2>4. CASE Terminated([t EXCEPT !.closedByUs = TRUE,
                                    !.proto = IF m.type = "goodbye" THEN "closing" ELSE @], half)
      <3> DEFINE v == [t EXCEPT !.closedByUs = TRUE,
                                !.proto = IF m.type = "goodbye" THEN "closing" ELSE @]
      <3>1. v \in Tcp /\ v.held = t.held  BY <1>4 DEF Tcp
      <3>2. Terminated(v, half)  BY <2>4
      <3> HIDE DEF v
      <3>3. QED  BY <3>1, <3>2, <1>1, <1>4, TerminatedQuiet
    <2>5. QED  BY <1>7, <2>1, <2>2, <2>3, <2>4 DEF Handles
  <1>8. QED  BY <1>5, <1>6, <1>7

\* The handlers that send nothing to the target.
LEMMA OthersInStep ==
  ASSUME IInv, InStep, Whole,
         \/ TargetSays \/ SocketReads \/ WsSent \/ Connected \/ SocketClosed \/ IdleTimeout
         \/ HalfTerminates \/ WsClosed \/ SessionExpires \/ RelayCloses \/ UNCHANGED vars
  PROVE  InStep' /\ Whole'
  <1>1. tcp \in Tcp /\ half \in Half /\ bridge \in Bridge /\ (bridge.closed => ~tcp.held)
    BY Waiting DEF IInv, EndsTogether
  <1>2. CASE TargetSays \/ SocketReads \/ WsSent \/ Connected \/ UNCHANGED vars
    <2>1. /\ got' = got /\ sent' = sent
          /\ half'.inbound = half.inbound /\ half'.paused = half.paused /\ half'.closed = half.closed
          /\ bridge'.ready = bridge.ready /\ bridge'.pre = bridge.pre
          /\ bridge'.clientPaused = bridge.clientPaused /\ bridge'.closed = bridge.closed
          /\ tcp'.held = tcp.held /\ tcp'.buf = tcp.buf /\ tcp'.queue = tcp.queue
      <3>1. CASE TargetSays \/ UNCHANGED vars  BY <3>1 DEF TargetSays, vars, world
      <3>2. CASE SocketReads \/ Connected
        BY <3>2, <1>1 DEF SocketReads, Connected, world, Tcp
      <3>3. CASE WsSent  BY <3>3, <1>1 DEF WsSent, world, Tcp, Half, Bridge
      <3>4. QED  BY <3>1, <3>2, <3>3, <1>2
    <2>2. Serving' => Serving  BY <2>1 DEF Serving
    <2>3. QED  BY <2>1, <2>2, QuietKeeps
  <1>3. CASE SocketClosed
    <2> DEFINE t == [tcp EXCEPT !.sock = "closed", !.held = FALSE, !.proto = "disconnected",
                                !.buf = <<>>]
    <2>1. t \in Tcp /\ ~t.held
      <3>1. <<>> \in Seq(Up \cup {AUTH})  BY EmptySeq
      <3>2. QED  BY <3>1, <1>1 DEF Tcp
    <2>2. /\ got' = got
          /\ IF bridge.ready \/ ~t.closedByUs
             THEN Terminated(t, half) ELSE tcp' = t /\ UNCHANGED <<half, bridge>>
      BY <1>3 DEF SocketClosed
    <2> HIDE DEF t
    <2>3. CASE Terminated(t, half)  BY <2>1, <2>2, <2>3, <1>1, TerminatedQuiet
    <2>4. CASE tcp' = t /\ UNCHANGED <<half, bridge>>
      <3>1. ~tcp'.held /\ ~Serving'  BY <2>1, <2>4 DEF Serving
      <3>2. QED  BY <2>2, <2>4, <3>1, QuietKeeps
    <2>5. QED  BY <2>2, <2>3, <2>4
  <1>4. CASE IdleTimeout
    <2>1. ~tcp'.held /\ UNCHANGED <<half, bridge>> /\ got' = got
      BY <1>4, <1>1 DEF IdleTimeout, world, ProtocolError, SocketDestroyed, Tcp
    <2>2. ~Serving'  BY <2>1 DEF Serving
    <2>3. QED  BY <2>1, <2>2, QuietKeeps
  <1>5. CASE HalfTerminates
    <2>1. half' = HalfEnded(half) /\ UNCHANGED <<bridge, tcp>> /\ got' = got
      BY <1>5 DEF HalfTerminates, world
    <2>2. half'.inbound = half.inbound /\ half'.closed  BY <2>1, <1>1 DEF HalfEnded, Half
    <2>3. ~Serving'  BY <2>2 DEF Serving
    <2>4. QED  BY <2>1, <2>2, <2>3, QuietKeeps
  <1>6. CASE WsClosed \/ SessionExpires \/ RelayCloses
    <2>1. got' = got /\ \E h : Terminated(tcp, h)
      BY <1>6 DEF WsClosed, SessionExpires, RelayCloses, world
    <2>2. QED  BY <2>1, <1>1, TerminatedQuiet
  <1>7. QED  BY <1>2, <1>3, <1>4, <1>5, <1>6

\* What is on its way up is in step and whole in every state: each message comes after
\* the one before it, and everything the browser sent is somewhere.
THEOREM UpInductive == Spec => [](InStep /\ Whole)
  <1>1. Init => InStep /\ Whole
    <2> SUFFICES ASSUME Init PROVE InStep /\ Whole  OBVIOUS
    <2>1. /\ got = <<>> /\ tcp.buf = <<>> /\ tcp.queue = <<>> /\ sent = 0
          /\ half.inbound = <<>> /\ bridge.pre = <<>> /\ ~bridge.clientPaused
      BY DEF Init
    <2>2. Values(<<>>) = {} /\ \A R : Follows(<<>>, R)  BY EmptyValues
    <2>3. Counted(got)  BY <2>1 DEF Counted
    <2>4. InStep  BY <2>1, <2>2, <2>3 DEF InStep, Chain
    <2>5. Whole  BY <2>1, <2>2 DEF Whole
    <2>6. QED  BY <2>4, <2>5
  <1>2. IInv /\ InStep /\ Whole /\ [Next]_vars => InStep' /\ Whole'
    <2> SUFFICES ASSUME IInv, InStep, Whole, [Next]_vars PROVE InStep' /\ Whole'  OBVIOUS
    <2>1. CASE BrowserSends  BY <2>1, BrowserSendsInStep
    <2>2. CASE DrainListener  BY <2>2, DrainListenerInStep
    <2>3. CASE SocketWrites  BY <2>3, SocketWritesInStep
    <2>4. CASE ReadNext  BY <2>4, ReadNextInStep
    <2>5. QED  BY <2>1, <2>2, <2>3, <2>4, OthersInStep DEF Next
  <1>3. QED  BY <1>1, <1>2, Inductive, PTL DEF Spec

\* What the browser sends reaches the target in order, and in a session that works none
\* of it is lost on the way, through the queue before the target is ready, the pauses and
\* the flushes (session.ts, transport.ts, ws-client-half.ts).
THEOREM UpInOrderAlways == Spec => []UpInOrder
  <1>1. IInv /\ InStep /\ Whole => UpInOrder
    <2> SUFFICES ASSUME IInv, InStep, Whole PROVE UpInOrder  OBVIOUS
    <2> DEFINE b == tcp.buf
               p == bridge.pre
               h == half.inbound
               gb == got \o b
               gbp == gb \o p
               all == gbp \o h
    <2>1. got \in Seq(Nat) /\ b \in Seq(Nat) /\ p \in Seq(Nat) /\ h \in Seq(Nat)
      BY Waiting, Held
    <2>2. \A i \in DOMAIN got : got[i] = i  BY DEF InStep, Counted
    <2>3. ASSUME Serving PROVE FirstsInOrder(all, sent)
      <3>1. Chain(got, b, p, h, tcp.queue)  BY <2>3 DEF InStep, Serving
      <3>2. (Values(got) \cup Values(b) \cup Values(p) \cup Values(h)) \ {0} = 1 .. sent
        BY <2>3 DEF Whole
      <3> HIDE DEF b, p, h
      <3>3. gb \in Seq(Nat) /\ Values(gb) = Values(got) \cup Values(b)
        BY <2>1, ConcatProperties, ConcatValues
      <3>4. Follows(gb, {}) <=> Follows(got, {}) /\ Follows(b, {} \cup Values(got))
        BY <2>1, FollowsBoth
      <3> HIDE DEF gb
      <3>5. gbp \in Seq(Nat) /\ Values(gbp) = Values(gb) \cup Values(p)
        BY <2>1, <3>3, ConcatProperties, ConcatValues
      <3>6. Follows(gbp, {}) <=> Follows(gb, {}) /\ Follows(p, {} \cup Values(gb))
        BY <2>1, <3>3, FollowsBoth
      <3> HIDE DEF gbp
      <3>16. Values(all) = Values(gbp) \cup Values(h)  BY <2>1, <3>5, ConcatValues
      <3>17. Follows(all, {}) <=> Follows(gbp, {}) /\ Follows(h, {} \cup Values(gbp))
        BY <2>1, <3>5, FollowsBoth
      <3> HIDE DEF all
      <3>7. Follows(got, {})
        <4>1. ASSUME NEW i \in DOMAIN got, got[i] > 1
              PROVE  \E j \in 1 .. i - 1 : got[j] = got[i] - 1
          <5>1. DOMAIN got = 1 .. Len(got) /\ Len(got) \in Nat  BY <2>1, LenProperties
          <5>2. i - 1 \in 1 .. i - 1 /\ i - 1 \in DOMAIN got  BY <4>1, <5>1, <2>2
          <5>3. got[i - 1] = got[i] - 1  BY <5>2, <2>2
          <5>4. QED  BY <5>2, <5>3
        <4>2. QED  BY <4>1 DEF Follows
      <3>8. Follows(b, {} \cup Values(got))
        <4>1. {} \cup Values(got) = Values(got)  OBVIOUS
        <4>2. QED  BY <4>1, <3>1 DEF Chain
      <3>10. Follows(p, {} \cup Values(gb))
        <4>1. {} \cup Values(gb) = Values(got) \cup Values(b)  BY <3>3
        <4>2. QED  BY <4>1, <3>1 DEF Chain
      <3>12. Follows(h, {} \cup Values(gbp))
        <4>1. {} \cup Values(gbp) = Values(got) \cup Values(b) \cup Values(p)  BY <3>3, <3>5
        <4>2. QED  BY <4>1, <3>1 DEF Chain
      <3>13. Follows(all, {})  BY <3>4, <3>6, <3>7, <3>8, <3>10, <3>12, <3>17
      <3>14. Values(all) \ {AUTH} = 1 .. sent  BY <3>2, <3>3, <3>5, <3>16 DEF AUTH
      <3>15. QED  BY <3>13, <3>14 DEF FirstsInOrder, Follows, Values
    <2>4. QED  BY <2>2, <2>3 DEF UpInOrder
  <1>2. QED  BY <1>1, Inductive, UpInductive, PTL

----------------------------------------------------------------------------
\* The way down.

Before(A, B) == \A a \in A, b \in B : a < b

Rising(s) == \A i, j \in DOMAIN s : i < j => s[i] < s[j]

\* The data of s come in rising order.
Ordered(s) ==
  \A i, j \in DOMAIN s : i < j /\ s[i].type = "data" /\ s[j].type = "data" => s[i].n < s[j].n

\* r is being decoded and w is on the wire; v was shown, x refused and n sent.
Onward(v, r, w, n) ==
  /\ Rising(v) /\ Ordered(r) /\ Ordered(w)
  /\ Before(Values(v), DataOf(r)) /\ Before(Values(v), DataOf(w)) /\ Before(DataOf(r), DataOf(w))
  /\ Values(v) \cup DataOf(r) \cup DataOf(w) \subseteq 1 .. n

Shown == Onward(shown, tcp.reading, wire, target.data)

Accounted ==
  Serving => Values(shown) \cup refused \cup DataOf(tcp.reading) \cup DataOf(wire) = 1 .. target.data

LEMMA NoData == DataOf(<<>>) = {} /\ Ordered(<<>>)
  BY DEF DataOf, Ordered

LEMMA DataMember ==
  ASSUME NEW s, NEW d
  PROVE  d \in DataOf(s) <=> \E i \in DOMAIN s : s[i].type = "data" /\ s[i].n = d
  BY DEF DataOf

LEMMA DataTyped ==
  ASSUME NEW s \in Seq(ServerMessages)
  PROVE  DataOf(s) \subseteq 1 .. NDown
  <1>1. \A i \in DOMAIN s : s[i] \in ServerMessages  BY LenProperties
  <1>2. \A m \in ServerMessages : m.type = "data" => m.n \in 1 .. NDown
    BY DEF ServerMessages, Control
  <1>3. QED  BY <1>1, <1>2, DataMember

LEMMA AppendData ==
  ASSUME NEW s \in Seq(ServerMessages), NEW m \in ServerMessages
  PROVE  /\ DataOf(Append(s, m)) = DataOf(s) \cup (IF m.type = "data" THEN {m.n} ELSE {})
         /\ Ordered(s) /\ (m.type = "data" => \A d \in DataOf(s) : d < m.n)
              => Ordered(Append(s, m))
  <1> DEFINE t == Append(s, m)
             l == Len(s)
  <1>1. /\ l \in Nat /\ DOMAIN s = 1 .. l /\ t \in Seq(ServerMessages) /\ Len(t) = l + 1
        /\ t[l + 1] = m /\ \A i \in 1 .. l : t[i] = s[i]
    BY AppendProperties, LenProperties
  <1>2. DOMAIN t = 1 .. l + 1  BY <1>1, LenProperties
  <1> HIDE DEF t, l
  <1>3. ASSUME NEW d PROVE d \in DataOf(t) <=> d \in DataOf(s) \/ (m.type = "data" /\ d = m.n)
    <2>1. ASSUME NEW i \in DOMAIN t, t[i].type = "data", t[i].n = d
          PROVE  d \in DataOf(s) \/ (m.type = "data" /\ d = m.n)
      <3>1. CASE i = l + 1  BY <3>1, <2>1, <1>1
      <3>2. CASE i # l + 1
        <4>1. i \in DOMAIN s /\ s[i] = t[i]  BY <3>2, <1>1, <1>2
        <4>2. QED  BY <4>1, <2>1, DataMember
      <3>3. QED  BY <3>1, <3>2
    <2>2. ASSUME NEW i \in DOMAIN s, s[i].type = "data", s[i].n = d PROVE d \in DataOf(t)
      <3>1. i \in DOMAIN t /\ t[i] = s[i]  BY <1>1, <1>2
      <3>2. QED  BY <3>1, <2>2, DataMember
    <2>3. ASSUME m.type = "data", d = m.n PROVE d \in DataOf(t)
      <3>1. l + 1 \in DOMAIN t  BY <1>1, <1>2
      <3>2. QED  BY <3>1, <2>3, <1>1, DataMember
    <2>4. QED  BY <2>1, <2>2, <2>3, DataMember
  <1>4. ASSUME Ordered(s), m.type = "data" => \A d \in DataOf(s) : d < m.n
        PROVE  Ordered(t)
    <2>1. SUFFICES ASSUME NEW i \in DOMAIN t, NEW j \in DOMAIN t, i < j,
                          t[i].type = "data", t[j].type = "data"
                   PROVE  t[i].n < t[j].n
      BY DEF Ordered
    <2>2. i \in DOMAIN s /\ t[i] = s[i]  BY <2>1, <1>1, <1>2
    <2>3. CASE j = l + 1
      <3>1. t[i].n \in DataOf(s) /\ t[j] = m  BY <2>1, <2>2, <2>3, <1>1, DataMember
      <3>2. QED  BY <3>1, <2>1, <1>4
    <2>4. CASE j # l + 1
      <3>1. j \in DOMAIN s /\ t[j] = s[j]  BY <2>4, <1>1, <1>2
      <3>2. QED  BY <3>1, <2>1, <2>2, <1>4 DEF Ordered
    <2>5. QED  BY <2>3, <2>4
  <1>5. DataOf(t) = DataOf(s) \cup (IF m.type = "data" THEN {m.n} ELSE {})  BY <1>3
  <1>6. QED  BY <1>4, <1>5 DEF t

\* A sequence in order, cut in two.
LEMMA CutData ==
  ASSUME NEW s \in Seq(ServerMessages), NEW k \in 0 .. Len(s)
  PROVE  /\ DataOf(s) = DataOf(SubSeq(s, 1, k)) \cup DataOf(From(s, k + 1))
         /\ Ordered(s) => /\ Ordered(SubSeq(s, 1, k)) /\ Ordered(From(s, k + 1))
                          /\ Before(DataOf(SubSeq(s, 1, k)), DataOf(From(s, k + 1)))
  <1> DEFINE a == SubSeq(s, 1, k)
             b == From(s, k + 1)
             l == Len(s)
  <1>1. l \in Nat /\ DOMAIN s = 1 .. l /\ k \in 0 .. l  BY LenProperties
  <1>2. a \in Seq(ServerMessages) /\ Len(a) = k  BY Cut
  <1>3. k + 1 \in 1 .. l + 1  BY <1>1
  <1>4. b \in Seq(ServerMessages) /\ Len(b) = l - k
    <2>1. b \in Seq(ServerMessages) /\ Len(b) = l - (k + 1) + 1  BY <1>3, Rest
    <2>2. QED  BY <2>1, <1>1
  <1>5. \A i \in DOMAIN s : s[i] \in ServerMessages  BY LenProperties
  <1>6. \A i \in 1 .. k : a[i] = s[i]
    <2>1. \A i \in 1 .. k : s[i] \in ServerMessages  BY <1>1, <1>5
    <2>2. \A i \in 1 .. k - 1 + 1 : a[i] = s[1 + i - 1]  BY <2>1, <1>1, SubSeqProperties
    <2>3. QED  BY <2>2, <1>1
  <1>7. \A i \in 1 .. l - k : b[i] = s[k + i]
    <2>1. \A i \in k + 1 .. l : s[i] \in ServerMessages  BY <1>1, <1>5
    <2>2. \A i \in 1 .. l - (k + 1) + 1 : b[i] = s[(k + 1) + i - 1]
      BY <2>1, <1>1, SubSeqProperties DEF From
    <2>3. QED  BY <2>2, <1>1
  <1>8. DOMAIN a = 1 .. k /\ DOMAIN b = 1 .. l - k  BY <1>2, <1>4, LenProperties
  <1> HIDE DEF a, b, l
  <1>9. \A i \in DOMAIN b : k + i \in DOMAIN s /\ b[i] = s[k + i]  BY <1>1, <1>7, <1>8
  <1>10. \A i \in DOMAIN a : i \in DOMAIN s /\ a[i] = s[i]  BY <1>1, <1>6, <1>8
  <1>11. ASSUME NEW d PROVE d \in DataOf(s) <=> d \in DataOf(a) \/ d \in DataOf(b)
    <2>1. ASSUME NEW i \in DOMAIN s, s[i].type = "data", s[i].n = d
          PROVE  d \in DataOf(a) \/ d \in DataOf(b)
      <3>1. CASE i <= k
        <4>1. i \in DOMAIN a  BY <3>1, <1>1, <1>8
        <4>2. QED  BY <4>1, <2>1, <1>10, DataMember
      <3>2. CASE ~(i <= k)
        <4>1. i - k \in DOMAIN b /\ k + (i - k) = i  BY <3>2, <1>1, <1>8
        <4>2. b[i - k] = s[i]  BY <4>1, <1>9
        <4>3. QED  BY <4>1, <4>2, <2>1, DataMember
      <3>3. QED  BY <3>1, <3>2
    <2>2. d \in DataOf(a) => d \in DataOf(s)  BY <1>10, DataMember
    <2>3. d \in DataOf(b) => d \in DataOf(s)  BY <1>9, DataMember
    <2>4. QED  BY <2>1, <2>2, <2>3, DataMember
  <1>12. ASSUME Ordered(s) PROVE Ordered(a) /\ Ordered(b) /\ Before(DataOf(a), DataOf(b))
    <2>1. Ordered(a)  BY <1>10, <1>12 DEF Ordered
    <2>2. Ordered(b)
      <3>1. ASSUME NEW i \in DOMAIN b, NEW j \in DOMAIN b, i < j,
                   b[i].type = "data", b[j].type = "data"
            PROVE  b[i].n < b[j].n
        <4>1. k + i < k + j  BY <3>1, <1>1, <1>8
        <4>2. QED  BY <4>1, <3>1, <1>9, <1>12 DEF Ordered
      <3>2. QED  BY <3>1 DEF Ordered
    <2>3. ASSUME NEW x \in DataOf(a), NEW y \in DataOf(b) PROVE x < y
      <3>1. PICK i \in DOMAIN a : a[i].type = "data" /\ a[i].n = x  BY <2>3, DataMember
      <3>2. PICK j \in DOMAIN b : b[j].type = "data" /\ b[j].n = y  BY <2>3, DataMember
      <3>3. i < k + j  BY <1>1, <1>8
      <3>4. QED  BY <3>1, <3>2, <3>3, <1>9, <1>10, <1>12 DEF Ordered
    <2>4. QED  BY <2>1, <2>2, <2>3 DEF Before
  <1>13. DataOf(s) = DataOf(a) \cup DataOf(b)  BY <1>11
  <1>14. QED  BY <1>12, <1>13 DEF a, b

\* The first message of a sequence in order comes before the rest.
LEMMA HeadData ==
  ASSUME NEW s \in Seq(ServerMessages), s # <<>>
  PROVE  /\ DataOf(s) = DataOf(Tail(s)) \cup (IF Head(s).type = "data" THEN {Head(s).n} ELSE {})
         /\ Ordered(s) => /\ Ordered(Tail(s))
                          /\ Head(s).type = "data" => \A d \in DataOf(Tail(s)) : Head(s).n < d
  <1> DEFINE a == SubSeq(s, 1, 1)
             b == From(s, 1 + 1)
  <1>1. Len(s) \in Nat \ {0} /\ DOMAIN s = 1 .. Len(s)  BY EmptySeq, LenProperties
  <1>2. Tail(s) = b  BY TailIsSubSeq DEF From
  <1>3. 1 \in 0 .. Len(s)  BY <1>1
  <1>4. a \in Seq(ServerMessages) /\ Len(a) = 1  BY <1>3, Cut
  <1>5. DOMAIN a = {1}  BY <1>4, LenProperties
  <1>6. a[1] = Head(s)
    <2>1. \A i \in 1 .. 1 : s[i] \in ServerMessages  BY <1>1, LenProperties
    <2>2. \A i \in 1 .. 1 - 1 + 1 : a[i] = s[1 + i - 1]  BY <2>1, SubSeqProperties
    <2>3. QED  BY <2>2
  <1>7. /\ DataOf(s) = DataOf(a) \cup DataOf(b)
        /\ Ordered(s) => Ordered(b) /\ Before(DataOf(a), DataOf(b))
    BY <1>3, CutData
  <1> HIDE DEF a, b
  <1>8. \A d : d \in DataOf(a) <=> Head(s).type = "data" /\ d = Head(s).n
    BY <1>5, <1>6, DataMember
  <1>9. QED  BY <1>2, <1>7, <1>8 DEF Before

LEMMA AppendRising ==
  ASSUME NEW s \in Seq(Nat), NEW d \in Nat, Rising(s), Before(Values(s), {d})
  PROVE  Rising(Append(s, d))
  <1> DEFINE t == Append(s, d)
             l == Len(s)
  <1>1. /\ l \in Nat /\ DOMAIN s = 1 .. l /\ t \in Seq(Nat) /\ Len(t) = l + 1
        /\ t[l + 1] = d /\ \A i \in 1 .. l : t[i] = s[i]
    BY AppendProperties, LenProperties
  <1>2. DOMAIN t = 1 .. l + 1  BY <1>1, LenProperties
  <1> HIDE DEF t, l
  <1>3. ASSUME NEW i \in DOMAIN t, NEW j \in DOMAIN t, i < j PROVE t[i] < t[j]
    <2>1. i \in DOMAIN s /\ t[i] = s[i]  BY <1>1, <1>2, <1>3
    <2>2. CASE j = l + 1
      <3>1. t[i] \in Values(s) /\ t[j] = d  BY <2>1, <2>2, <1>1 DEF Values
      <3>2. QED  BY <3>1 DEF Before
    <2>3. CASE j # l + 1
      <3>1. j \in DOMAIN s /\ t[j] = s[j]  BY <2>3, <1>1, <1>2
      <3>2. QED  BY <3>1, <2>1, <1>3 DEF Rising
    <2>4. QED  BY <2>2, <2>3
  <1>4. QED  BY <1>3 DEF Rising, t

\* A handler that shows nothing; it may end the session, and with it what is to come.
LEMMA StillKeeps ==
  ASSUME Shown, Accounted, shown' = shown, refused' = refused, target'.data = target.data,
         tcp'.reading \in {tcp.reading, <<>>}, wire' \in {wire, <<>>},
         Serving' => Serving /\ tcp'.reading = tcp.reading /\ wire' = wire
  PROVE  Shown' /\ Accounted'
  <1>1. /\ DataOf(tcp'.reading) \in {DataOf(tcp.reading), {}} /\ DataOf(wire') \in {DataOf(wire), {}}
        /\ Ordered(tcp'.reading) /\ Ordered(wire')
    BY NoData DEF Shown, Onward
  <1>2. Shown'  BY <1>1 DEF Shown, Onward, Before
  <1>3. Accounted'  BY DEF Accounted
  <1>4. QED  BY <1>2, <1>3

LEMMA DownTyped ==
  ASSUME IInv
  PROVE  /\ shown \in Seq(Nat) /\ wire \in Seq(ServerMessages) /\ target \in Target
         /\ tcp \in Tcp /\ half \in Half /\ bridge \in Bridge
         /\ tcp.reading \in Seq(ServerMessages)
         /\ target.data \in Nat /\ (bridge.closed => ~tcp.held)
         /\ tcp.held /\ ~half.closed => Serving
  <1>1. /\ shown \in Seq(1 .. NDown) /\ wire \in Seq(ServerMessages) /\ target \in Target
        /\ tcp \in Tcp /\ half \in Half /\ bridge \in Bridge /\ EndsTogether
    BY DEF IInv, TypeOK
  <1>2. NDown \in Nat  BY BridgeAssumption
  <1>3. 1 .. NDown \subseteq Nat  BY <1>2
  <1>4. shown \in Seq(Nat)  BY <1>1, <1>3, SeqMonotonic
  <1>5. target.data \in Nat  BY <1>1, <1>2 DEF Target
  <1>6. QED  BY <1>1, <1>4, <1>5 DEF Tcp, EndsTogether, Serving

LEMMA TargetSaysShown ==
  ASSUME IInv, Shown, Accounted, TargetSays
  PROVE  Shown' /\ Accounted'
  <1>1. /\ wire \in Seq(ServerMessages) /\ target \in Target /\ target.data \in Nat
        /\ tcp' = tcp /\ shown' = shown /\ refused' = refused /\ half' = half /\ bridge' = bridge
    BY DownTyped DEF TargetSays
  <1>2. Serving' <=> Serving  BY <1>1 DEF Serving
  <1>3. CASE \E type \in Control : wire' = Append(wire, Say(type)) /\ target'.data = target.data
    <2>1. PICK type \in Control : wire' = Append(wire, Say(type)) /\ target'.data = target.data
      BY <1>3
    <2>2. Say(type) \in ServerMessages /\ Say(type).type # "data"
      BY DEF Say, ServerMessages, Control
    <2>3. DataOf(wire') = DataOf(wire) /\ (Ordered(wire) => Ordered(wire'))
      BY <2>1, <2>2, <1>1, AppendData
    <2>4. QED  BY <2>1, <2>3, <1>1, <1>2 DEF Shown, Onward, Accounted
  <1>4. CASE /\ target.data < NDown /\ target'.data = target.data + 1
             /\ wire' = Append(wire, [type |-> "data", n |-> target.data + 1])
    <2> DEFINE m == [type |-> "data", n |-> target.data + 1]
               d == target.data + 1
    <2>1. m \in ServerMessages /\ m.type = "data" /\ m.n = d
      <3>1. d \in 1 .. NDown  BY <1>1, <1>4, BridgeAssumption
      <3>2. QED  BY <3>1 DEF ServerMessages
    <2>2. wire' = Append(wire, m)  BY <1>4
    <2> HIDE DEF m
    <2>3. 1 .. d = (1 .. target.data) \cup {d} /\ \A x \in 1 .. target.data : x < d
      BY <1>1
    <2>4. target'.data = d /\ d \in Nat  BY <1>1, <1>4
    <2> HIDE DEF d
    <2>5. \A x \in Values(shown) \cup DataOf(tcp.reading) \cup DataOf(wire) : x < d
      BY <2>3 DEF Shown, Onward
    <2>6. DataOf(wire') = DataOf(wire) \cup {d}
      BY <2>1, <2>2, <1>1, AppendData
    <2>7. Ordered(wire')
      <3>1. Ordered(wire) /\ \A x \in DataOf(wire) : x < m.n  BY <2>1, <2>5 DEF Shown, Onward
      <3>2. QED  BY <3>1, <2>1, <2>2, <1>1, AppendData
    <2>8. Shown'
      <3>1. Before(Values(shown), DataOf(wire')) /\ Before(DataOf(tcp.reading), DataOf(wire'))
        BY <2>5, <2>6 DEF Shown, Onward, Before
      <3>2. Values(shown) \cup DataOf(tcp.reading) \cup DataOf(wire') \subseteq 1 .. d
        BY <2>3, <2>6 DEF Shown, Onward
      <3>3. QED  BY <3>1, <3>2, <2>4, <2>7, <1>1 DEF Shown, Onward
    <2>9. Accounted'
      <3>1. Serving => Values(shown) \cup refused \cup DataOf(tcp.reading) \cup DataOf(wire')
                         = (1 .. target.data) \cup {d}
        BY <2>6 DEF Accounted
      <3>2. QED  BY <3>1, <2>3, <2>4, <1>1, <1>2 DEF Accounted
    <2>10. QED  BY <2>8, <2>9
  <1>5. \/ /\ target.data < NDown /\ target' = [target EXCEPT !.data = @ + 1]
           /\ wire' = Append(wire, [type |-> "data", n |-> target.data + 1])
        \/ \E said \in {"nothing", "hello", "ok", "done"}, type \in Control :
              target' = [target EXCEPT !.said = said] /\ wire' = Append(wire, Say(type))
    BY DEF TargetSays, Control
  <1>6. (target' = [target EXCEPT !.data = @ + 1]) => target'.data = target.data + 1
    BY <1>1 DEF Target
  <1>7. \A said : (target' = [target EXCEPT !.said = said]) => target'.data = target.data
    BY <1>1 DEF Target
  <1>8. QED  BY <1>3, <1>4, <1>5, <1>6, <1>7

LEMMA SocketReadsShown ==
  ASSUME IInv, Shown, Accounted, SocketReads
  PROVE  Shown' /\ Accounted'
  <1>1. /\ wire \in Seq(ServerMessages) /\ tcp \in Tcp /\ tcp.reading = <<>>
        /\ target' = target /\ shown' = shown /\ refused' = refused
        /\ half' = half /\ bridge' = bridge
    BY DownTyped DEF SocketReads, Idle
  <1>2. PICK k \in 1 .. Len(wire) : /\ tcp' = [tcp EXCEPT !.reading = SubSeq(wire, 1, k)]
                                    /\ wire' = From(wire, k + 1)
    BY DEF SocketReads
  <1>3. k \in 0 .. Len(wire)
    <2>1. Len(wire) \in Nat  BY <1>1, LenProperties
    <2>2. QED  BY <2>1
  <1>4. tcp'.reading = SubSeq(wire, 1, k) /\ tcp'.held = tcp.held  BY <1>1, <1>2 DEF Tcp
  <1>5. /\ DataOf(wire) = DataOf(tcp'.reading) \cup DataOf(wire')
        /\ Ordered(wire) => /\ Ordered(tcp'.reading) /\ Ordered(wire')
                            /\ Before(DataOf(tcp'.reading), DataOf(wire'))
    BY <1>1, <1>2, <1>3, <1>4, CutData
  <1>6. DataOf(tcp.reading) = {}  BY <1>1, NoData
  <1>7. Shown'  BY <1>1, <1>5, <1>6 DEF Shown, Onward, Before
  <1>8. Serving' <=> Serving  BY <1>1, <1>4 DEF Serving
  <1>9. Accounted'  BY <1>1, <1>5, <1>6, <1>8 DEF Accounted
  <1>10. QED  BY <1>7, <1>9

\* A message that is not data is decoded.
LEMMA ControlShown ==
  ASSUME IInv, Shown, Accounted, tcp.reading # <<>>, Head(tcp.reading).type # "data",
         tcp'.reading \in {Tail(tcp.reading), <<>>},
         Serving' => Serving /\ tcp'.reading = Tail(tcp.reading),
         UNCHANGED <<shown, refused, target, wire>>
  PROVE  Shown' /\ Accounted'
  <1>1. tcp.reading \in Seq(ServerMessages)  BY DownTyped
  <1>2. DataOf(tcp.reading) = DataOf(Tail(tcp.reading)) /\ Ordered(Tail(tcp.reading))
    <2>1. DataOf(tcp.reading) = DataOf(Tail(tcp.reading)) \cup {}  BY <1>1, HeadData
    <2>2. Ordered(tcp.reading)  BY DEF Shown, Onward
    <2>3. Ordered(Tail(tcp.reading))  BY <2>2, <1>1, HeadData
    <2>4. QED  BY <2>1, <2>3
  <1>3. Ordered(tcp'.reading) /\ DataOf(tcp'.reading) \subseteq DataOf(tcp.reading)
    BY <1>2, NoData
  <1>4. Shown'  BY <1>3 DEF Shown, Onward, Before
  <1>5. Accounted'  BY <1>2 DEF Accounted
  <1>6. QED  BY <1>4, <1>5

LEMMA DataShown ==
  ASSUME IInv, Shown, Accounted, tcp.reading # <<>>, Head(tcp.reading).type = "data",
         NEW t \in Tcp, t.reading = Tail(tcp.reading), t.held = tcp.held,
         ForwardToClient(t, Head(tcp.reading).n),
         UNCHANGED <<target, wire>>
  PROVE  Shown' /\ Accounted'
  <1> DEFINE d == Head(tcp.reading).n
             r == Tail(tcp.reading)
             open == ~half.closed /\ half.ws = "open"
  <1>1. /\ tcp.reading \in Seq(ServerMessages) /\ shown \in Seq(Nat)
        /\ half \in Half /\ bridge \in Bridge
    BY DownTyped
  <1>2. DataOf(tcp.reading) = DataOf(r) \cup {d}  BY <1>1, HeadData
  <1>3. Ordered(r) /\ \A x \in DataOf(r) : d < x  BY <1>1, HeadData DEF Shown, Onward
  <1>4. /\ tcp'.reading = r /\ tcp'.held = tcp.held
        /\ half'.closed = half.closed /\ bridge'.closed = bridge.closed
    BY <1>1 DEF ForwardToClient, Tcp, Half, Bridge
  <1>5. Serving' <=> Serving  BY <1>4 DEF Serving
  <1>6. Serving => open  BY DEF Serving, IInv, OpenHalf
  <1>7. \/ shown' = Append(shown, d) /\ refused' = refused
        \/ shown' = shown /\ refused' = IF open THEN refused \cup {d} ELSE refused
    BY DEF ForwardToClient
  <1> HIDE DEF d, r, open
  <1>8. /\ Rising(shown) /\ Ordered(wire)
        /\ Before(Values(shown), DataOf(r)) /\ Before(Values(shown), {d})
        /\ Before(Values(shown), DataOf(wire)) /\ Before(DataOf(r), DataOf(wire))
        /\ Before({d}, DataOf(wire)) /\ Before({d}, DataOf(r))
        /\ Values(shown) \cup {d} \cup DataOf(r) \cup DataOf(wire) \subseteq 1 .. target.data
    BY <1>2, <1>3 DEF Shown, Onward, Before
  <1>9. CASE shown' = Append(shown, d) /\ refused' = refused
    <2>1. d \in Nat
      <3>1. d \in 1 .. target.data /\ target.data \in Nat  BY <1>8, DownTyped
      <3>2. QED  BY <3>1
    <2>2. Values(shown') = Values(shown) \cup {d}  BY <2>1, <1>1, <1>9, AppendValues
    <2>3. Rising(shown')  BY <2>1, <1>1, <1>8, <1>9, AppendRising
    <2>4. Shown'  BY <2>2, <2>3, <1>3, <1>4, <1>8 DEF Shown, Onward, Before
    <2>5. Accounted'  BY <2>2, <1>2, <1>4, <1>5, <1>9 DEF Accounted
    <2>6. QED  BY <2>4, <2>5
  <1>10. CASE shown' = shown /\ refused' = IF open THEN refused \cup {d} ELSE refused
    <2>1. Shown'  BY <1>3, <1>4, <1>8, <1>10 DEF Shown, Onward
    <2>2. Serving => refused' = refused \cup {d}  BY <1>6, <1>10
    <2>3. Accounted'  BY <2>2, <1>2, <1>4, <1>5, <1>10 DEF Accounted
    <2>4. QED  BY <2>1, <2>3
  <1>11. QED  BY <1>7, <1>9, <1>10

LEMMA TerminatedReads ==
  ASSUME NEW t \in Tcp, NEW h, bridge.closed => ~t.held, Terminated(t, h)
  PROVE  ~Serving' /\ tcp'.reading \in {t.reading, <<>>}
  <1>1. CASE bridge.closed  BY <1>1 DEF Terminated, Serving
  <1>2. CASE ~bridge.closed
    <2>1. tcp' = [SocketDestroyed(t) EXCEPT !.destroyed = TRUE]  BY <1>2 DEF Terminated
    <2>2. ~tcp'.held /\ tcp'.reading = <<>>  BY <2>1 DEF SocketDestroyed, Tcp
    <2>3. QED  BY <2>2 DEF Serving
  <1>3. QED  BY <1>1, <1>2

LEMMA ReadNextShown ==
  ASSUME IInv, Shown, Accounted, ReadNext
  PROVE  Shown' /\ Accounted'
  <1> DEFINE m == Head(tcp.reading)
             t == [tcp EXCEPT !.reading = Tail(@)]
  <1>1. /\ tcp \in Tcp /\ half \in Half /\ bridge \in Bridge /\ tcp.reading # <<>>
        /\ tcp.reading \in Seq(ServerMessages) /\ (bridge.closed => ~tcp.held)
        /\ target' = target /\ wire' = wire
    BY DownTyped DEF ReadNext
  <1>2. Tail(tcp.reading) \in Seq(ServerMessages)  BY <1>1, HeadTailProperties
  <1>3. tcp.held  BY <1>1 DEF IInv, Sound
  <1>4. Reading(t) /\ t \in Tcp /\ t.held = tcp.held /\ t.reading = Tail(tcp.reading)
    BY <1>1, <1>2, <1>3 DEF Reading, Tcp
  <1>5. \/ Expected(m, tcp.proto) /\ Handles(t, m)
        \/ ProtocolError /\ UNCHANGED <<half, bridge, shown, refused>>
    BY DEF ReadNext
  <1>6. CASE ProtocolError /\ UNCHANGED <<half, bridge, shown, refused>>
    <2>1. ~tcp'.held /\ tcp'.reading = <<>>
      BY <1>1, <1>6 DEF ProtocolError, SocketDestroyed, Tcp
    <2>2. ~Serving'  BY <2>1 DEF Serving
    <2>3. QED  BY <2>1, <2>2, <1>1, <1>6, StillKeeps
  <1>7. CASE Expected(m, tcp.proto) /\ Handles(t, m)
    <2>1. CASE m.type = "data" /\ ForwardToClient(t, m.n)
      BY <2>1, <1>1, <1>4, DataShown
    <2>2. CASE /\ m.type \in {"hello", "auth_ok", "auth_fail", "goodbye"}
               /\ \/ Greeted(t)
                  \/ TargetReady(t)
                  \/ Terminated([t EXCEPT !.closedByUs = TRUE,
                                   !.proto = IF m.type = "goodbye" THEN "closing" ELSE @], half)
               /\ UNCHANGED <<shown, refused>>
      <3>1. /\ tcp'.reading \in {Tail(tcp.reading), <<>>}
            /\ Serving' => Serving /\ tcp'.reading = Tail(tcp.reading)
        <4> HIDE DEF m, t
        <4>1. CASE Greeted(t)
          <5>1. CASE /\ tcp' = [t EXCEPT !.proto = "authenticating", !.buf = Append(@, AUTH)]
                     /\ UNCHANGED <<half, bridge>>
            <6>1. tcp'.reading = t.reading /\ tcp'.held = t.held  BY <5>1, <1>4 DEF Tcp
            <6>2. QED  BY <6>1, <5>1, <1>4 DEF Serving
          <5>2. CASE Terminated([SocketDestroyed(t) EXCEPT !.proto = "authenticating",
                                                           !.closedByUs = TRUE], half)
            <6> DEFINE v == [SocketDestroyed(t) EXCEPT !.proto = "authenticating",
                                                       !.closedByUs = TRUE]
            <6>1. <<>> \in Seq(ServerMessages)  BY EmptySeq
            <6>2. v \in Tcp /\ ~v.held /\ v.reading = <<>>
              BY <1>4, <6>1 DEF SocketDestroyed, Tcp
            <6>3. Terminated(v, half)  BY <5>2
            <6> HIDE DEF v
            <6>4. QED  BY <6>2, <6>3, TerminatedReads
          <5>3. QED  BY <5>1, <5>2, <4>1 DEF Greeted
        <4>2. CASE TargetReady(t)
          <5> DEFINE v == [t EXCEPT !.proto = "ready"]
                     u == Enqueued(v, bridge.pre)
          <5>1. v \in Tcp /\ v.held = t.held /\ v.reading = t.reading  BY <1>4 DEF Tcp
          <5> HIDE DEF v
          <5>2. u \in Tcp /\ SameSocket(v, u)
            <6>1. bridge.pre \in Seq(Up)  BY <1>1 DEF Bridge
            <6>2. QED  BY <6>1, <5>1, EnqueuedKeeps
          <5> HIDE DEF u
          <5>3. SameSocket(u, Flushed(u))  BY <5>2, FlushedKeeps
          <5>4. /\ tcp' = Flushed(u)
                /\ bridge' = [bridge EXCEPT !.ready = TRUE, !.pre = <<>>,
                                            !.clientPaused = u.queue # <<>>]
                /\ half' = [half EXCEPT !.paused = u.queue # <<>>]
            BY <4>2 DEF TargetReady, u, v
          <5>5. bridge'.closed = bridge.closed /\ half'.closed = half.closed
            BY <5>4, <1>1 DEF Bridge, Half
          <5>6. tcp'.reading = t.reading /\ tcp'.held = t.held
            BY <5>1, <5>2, <5>3, <5>4 DEF SameSocket
          <5>7. QED  BY <5>5, <5>6, <1>4 DEF Serving
        <4>3. CASE Terminated([t EXCEPT !.closedByUs = TRUE,
                                 !.proto = IF m.type = "goodbye" THEN "closing" ELSE @], half)
          <5> DEFINE v == [t EXCEPT !.closedByUs = TRUE,
                                    !.proto = IF m.type = "goodbye" THEN "closing" ELSE @]
          <5>1. v \in Tcp /\ v.held = t.held /\ v.reading = t.reading  BY <1>4 DEF Tcp
          <5>2. Terminated(v, half)  BY <4>3
          <5> HIDE DEF v
          <5>3. QED  BY <5>1, <5>2, <1>1, <1>4, TerminatedReads
        <4>4. QED  BY <2>2, <4>1, <4>2, <4>3
      <3>2. m.type # "data"  BY <2>2
      <3>3. QED  BY <3>1, <3>2, <2>2, <1>1, ControlShown
    <2> HIDE DEF t, m
    <2>3. QED  BY <1>7, <2>1, <2>2 DEF Handles
  <1>8. QED  BY <1>5, <1>6, <1>7

LEMMA SendUpReads ==
  ASSUME half \in Half, bridge \in Bridge,
         NEW t \in Tcp, NEW ms \in Seq(Up), NEW rest, SendUp(t, ms, rest)
  PROVE  /\ tcp'.reading = t.reading /\ tcp'.held = t.held
         /\ half'.closed = half.closed /\ bridge'.closed = bridge.closed
  <1> DEFINE u == Enqueued(t, ms)
  <1>1. u.reading = t.reading /\ u.held = t.held  BY EnqueuedKeeps DEF SameSocket
  <1>2. /\ tcp' = u
        /\ bridge' = [bridge EXCEPT !.clientPaused = u.queue # <<>>]
        /\ half' = [half EXCEPT !.paused = u.queue # <<>>, !.inbound = rest]
    BY DEF SendUp
  <1> HIDE DEF u
  <1>3. QED  BY <1>1, <1>2 DEF Half, Bridge

\* A handler of the way up goes on with the session, or ends it.
LEMMA UpReads ==
  ASSUME IInv, BrowserSends \/ DrainListener \/ SocketWrites
  PROVE  /\ shown' = shown /\ refused' = refused /\ target'.data = target.data /\ wire' = wire
         /\ tcp'.reading \in {tcp.reading, <<>>}
         /\ Serving' => Serving /\ tcp'.reading = tcp.reading
  <1>1. /\ tcp \in Tcp /\ half \in Half /\ bridge \in Bridge /\ (bridge.closed => ~tcp.held)
        /\ half.inbound \in Seq(Up) /\ target \in Target /\ sent \in Nat
    BY DownTyped, Waiting
  <1>2. CASE BrowserSends
    <2>1. UNCHANGED <<shown, refused, target, wire>> /\ sent' \in Up
      BY <1>2, <1>1, BridgeAssumption DEF BrowserSends, Up
    <2>2. CASE Waits(sent')
      <3>1. /\ tcp' = tcp /\ bridge' = bridge
            /\ half' = HalfEnded(half) \/ half' = [half EXCEPT !.inbound = Append(@, sent')]
        BY <2>2 DEF Waits
      <3>2. half'.closed \/ half'.closed = half.closed
        BY <3>1, <1>1 DEF HalfEnded, Half
      <3>3. QED  BY <2>1, <3>1, <3>2 DEF Serving
    <2>3. CASE SendUp(tcp, <<sent'>>, half.inbound)
      <3>1. <<sent'>> \in Seq(Up)  BY <2>1
      <3>2. /\ tcp'.reading = tcp.reading /\ tcp'.held = tcp.held
            /\ half'.closed = half.closed /\ bridge'.closed = bridge.closed
        BY <3>1, <2>3, <1>1, SendUpReads
      <3>3. QED  BY <2>1, <3>2 DEF Serving
    <2>4. CASE Buffered(sent')
      <3>1. CASE Terminated(tcp, half)  BY <2>1, <3>1, <1>1, TerminatedReads
      <3>2. CASE /\ bridge' = [bridge EXCEPT !.pre = Append(@, sent')]
                 /\ UNCHANGED <<half, tcp>>
        <4>1. bridge'.closed = bridge.closed  BY <3>2, <1>1 DEF Bridge
        <4>2. QED  BY <2>1, <3>2, <4>1 DEF Serving
      <3>3. QED  BY <2>4, <3>1, <3>2 DEF Buffered
    <2>5. QED  BY <1>2, <2>2, <2>3, <2>4 DEF BrowserSends
  <1>3. CASE DrainListener
    <2> DEFINE t == [tcp EXCEPT !.calls = @ - 1]
               u == Flushed(t)
    <2>1. FlushQueue(t) /\ UNCHANGED <<shown, refused, target, wire>>
      BY <1>3 DEF DrainListener, world
    <2>2. t \in Tcp /\ t.reading = tcp.reading /\ t.held = tcp.held
      <3>1. tcp.calls \in Nat /\ tcp.calls > 0  BY <1>1, <1>3 DEF DrainListener, Tcp
      <3>2. tcp.calls - 1 \in Nat  BY <3>1
      <3>3. QED  BY <3>2, <1>1 DEF Tcp
    <2> HIDE DEF t
    <2>3. u \in Tcp /\ u.reading = tcp.reading /\ u.held = tcp.held
      BY <2>2, FlushedKeeps DEF SameSocket
    <2> HIDE DEF u
    <2>4. CASE Drained(t) /\ bridge.clientPaused
      <3> DEFINE all == Len(half.inbound)
                 room == Room(u.buf, half.inbound)
                 n == IF half.closed THEN 0 ELSE IF room = all THEN all ELSE room + 1
                 rest == From(half.inbound, n + 1)
      <3>1. SendUp(u, SubSeq(half.inbound, 1, n), rest)  BY <2>1, <2>4 DEF FlushQueue, u
      <3>2. all \in Nat /\ room \in 0 .. all  BY <1>1, RoomBound, LenProperties
      <3> HIDE DEF room
      <3>3. n \in 0 .. all  BY <3>2
      <3> HIDE DEF n
      <3>4. SubSeq(half.inbound, 1, n) \in Seq(Up)  BY <3>3, <1>1, Cut
      <3> HIDE DEF rest
      <3>5. /\ tcp'.reading = tcp.reading /\ tcp'.held = tcp.held
            /\ half'.closed = half.closed /\ bridge'.closed = bridge.closed
        BY <3>1, <3>4, <2>3, <1>1, SendUpReads
      <3>6. QED  BY <3>5, <2>1 DEF Serving
    <2>5. CASE ~(Drained(t) /\ bridge.clientPaused)
      <3>1. tcp' = u /\ UNCHANGED <<half, bridge>>  BY <2>1, <2>5 DEF FlushQueue, u
      <3>2. QED  BY <3>1, <2>1, <2>3 DEF Serving
    <2>6. QED  BY <2>4, <2>5
  <1>4. CASE SocketWrites
    <2>1. /\ UNCHANGED <<shown, refused, wire, half, bridge>>
          /\ \E b : target' = [target EXCEPT !.asked = b]
          /\ \/ tcp' = [tcp EXCEPT !.buf = Tail(@)]
             \/ \E b, c, d, e : tcp' = [[tcp EXCEPT !.buf = b] EXCEPT !.needDrain = c, !.calls = d, !.drains = e]
      BY <1>4 DEF SocketWrites
    <2>2. tcp'.reading = tcp.reading /\ tcp'.held = tcp.held  BY <2>1, <1>1 DEF Tcp
    <2>3. target'.data = target.data  BY <2>1, <1>1 DEF Target
    <2>4. QED  BY <2>1, <2>2, <2>3 DEF Serving
  <1>5. QED  BY <1>2, <1>3, <1>4

\* The other handlers that neither receive nor show anything.
LEMMA OthersShown ==
  ASSUME IInv, Shown, Accounted,
         \/ WsSent \/ Connected \/ SocketClosed \/ IdleTimeout \/ HalfTerminates
         \/ WsClosed \/ SessionExpires \/ RelayCloses \/ UNCHANGED vars
  PROVE  Shown' /\ Accounted'
  <1>1. tcp \in Tcp /\ half \in Half /\ bridge \in Bridge /\ (bridge.closed => ~tcp.held)
    BY DownTyped
  <1>2. CASE WsSent \/ Connected \/ UNCHANGED vars
    <2>1. UNCHANGED <<shown, refused, target, wire>>
      BY <1>2 DEF WsSent, Connected, vars, world
    <2>2. /\ half'.closed = half.closed /\ bridge'.closed = bridge.closed
          /\ tcp'.held = tcp.held /\ tcp'.reading = tcp.reading
      <3>1. CASE WsSent  BY <3>1, <1>1 DEF WsSent, Tcp, Half, Bridge
      <3>2. CASE Connected  BY <3>2, <1>1 DEF Connected, Tcp
      <3>3. CASE UNCHANGED vars  BY <3>3 DEF vars
      <3>4. QED  BY <3>1, <3>2, <3>3, <1>2
    <2>3. Serving' => Serving  BY <2>2 DEF Serving
    <2>4. QED  BY <2>1, <2>2, <2>3, StillKeeps
  <1>3. CASE SocketClosed
    <2> DEFINE t == [tcp EXCEPT !.sock = "closed", !.held = FALSE, !.proto = "disconnected",
                                !.buf = <<>>]
    <2>1. t \in Tcp /\ ~t.held /\ t.reading = tcp.reading
      <3>1. <<>> \in Seq(Up \cup {AUTH})  BY EmptySeq
      <3>2. QED  BY <3>1, <1>1 DEF Tcp
    <2>2. /\ wire' = <<>> /\ UNCHANGED <<shown, refused, target>>
          /\ IF bridge.ready \/ ~t.closedByUs
             THEN Terminated(t, half) ELSE tcp' = t /\ UNCHANGED <<half, bridge>>
      BY <1>3 DEF SocketClosed
    <2> HIDE DEF t
    <2>3. ~Serving' /\ tcp'.reading \in {tcp.reading, <<>>}
      <3>1. CASE Terminated(t, half)  BY <2>1, <3>1, TerminatedReads
      <3>2. CASE tcp' = t  BY <2>1, <3>2 DEF Serving
      <3>3. QED  BY <2>2, <3>1, <3>2
    <2>4. QED  BY <2>2, <2>3, StillKeeps
  <1>4. CASE IdleTimeout
    <2>1. /\ ~tcp'.held /\ tcp'.reading = <<>> /\ UNCHANGED <<shown, refused, target, wire>>
      BY <1>4, <1>1 DEF IdleTimeout, world, ProtocolError, SocketDestroyed, Tcp
    <2>2. ~Serving'  BY <2>1 DEF Serving
    <2>3. QED  BY <2>1, <2>2, StillKeeps
  <1>5. CASE HalfTerminates
    <2>1. half' = HalfEnded(half) /\ UNCHANGED <<bridge, tcp, shown, refused, target, wire>>
      BY <1>5 DEF HalfTerminates, world
    <2>2. half'.closed  BY <2>1, <1>1 DEF HalfEnded, Half
    <2>3. ~Serving'  BY <2>2 DEF Serving
    <2>4. QED  BY <2>1, <2>3, StillKeeps
  <1>6. CASE WsClosed \/ SessionExpires \/ RelayCloses
    <2>1. UNCHANGED <<shown, refused, target, wire>> /\ \E h : Terminated(tcp, h)
      BY <1>6 DEF WsClosed, SessionExpires, RelayCloses, world
    <2>2. ~Serving' /\ tcp'.reading \in {tcp.reading, <<>>}  BY <2>1, <1>1, TerminatedReads
    <2>3. QED  BY <2>1, <2>2, StillKeeps
  <1>7. QED  BY <1>2, <1>3, <1>4, <1>5, <1>6

\* What is on its way down comes in rising order after what was shown, in every state,
\* and everything the target sent is somewhere.
THEOREM DownInductive == Spec => [](Shown /\ Accounted)
  <1>1. Init => Shown /\ Accounted
    <2> SUFFICES ASSUME Init PROVE Shown /\ Accounted  OBVIOUS
    <2>1. /\ shown = <<>> /\ tcp.reading = <<>> /\ wire = <<>> /\ target.data = 0 /\ refused = {}
      BY DEF Init
    <2>2. Values(<<>>) = {} /\ DataOf(<<>>) = {} /\ Ordered(<<>>)  BY EmptyValues, NoData
    <2>3. Rising(<<>>)  BY DEF Rising
    <2>4. 1 .. 0 = {}  OBVIOUS
    <2>5. Shown  BY <2>1, <2>2, <2>3 DEF Shown, Onward, Before
    <2>6. Accounted  BY <2>1, <2>2, <2>4 DEF Accounted
    <2>7. QED  BY <2>5, <2>6
  <1>2. IInv /\ Shown /\ Accounted /\ [Next]_vars => Shown' /\ Accounted'
    <2> SUFFICES ASSUME IInv, Shown, Accounted, [Next]_vars PROVE Shown' /\ Accounted'  OBVIOUS
    <2>1. CASE BrowserSends \/ DrainListener \/ SocketWrites
      BY <2>1, UpReads, StillKeeps
    <2>2. CASE TargetSays  BY <2>2, TargetSaysShown
    <2>3. CASE SocketReads  BY <2>3, SocketReadsShown
    <2>4. CASE ReadNext  BY <2>4, ReadNextShown
    <2>5. QED  BY <2>1, <2>2, <2>3, <2>4, OthersShown DEF Next
  <1>3. QED  BY <1>1, <1>2, Inductive, PTL DEF Spec

\* What the target sends is shown in order, and in a session that works none of it is
\* lost on the way but for what the half refused (session.ts, forwardToClient).
THEOREM DownInOrderAlways == Spec => []DownInOrder
  <1>1. Shown /\ Accounted => DownInOrder
    BY DEF Shown, Accounted, Onward, Rising, Values, DownInOrder
  <1>2. QED  BY <1>1, DownInductive, PTL
=============================================================================
