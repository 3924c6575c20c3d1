----------------------------- MODULE AgentStreams -----------------------------
(***************************************************************************)
(* The bytes of terminals on an agent device, from terminal to browser and *)
(* back (agent/src/relay-client.ts, relay/src/agent-link.ts,               *)
(* agent-session.ts and ws-client-half.ts).  Each of the three senders on  *)
(* the way hands a message to its socket if the bytes that wait there      *)
(* leave room, and else keeps it in a queue that is flushed later: by a    *)
(* timer on either end of the link, by the callbacks of what was sent at   *)
(* the browser's WebSocket.  A message that finds room is sent, whether or *)
(* not others are still queued.                                            *)
(*                                                                         *)
(* A socket is the sequence of the messages it has not passed on; what it  *)
(* passes on is handled at once.  Left out: other messages on the link,    *)
(* which take room and nothing else, and terminals that fail to start.     *)
(***************************************************************************)
EXTENDS Integers, FiniteSets, SequencesExt

CONSTANTS
  Sessions,
  Sizes,           \* of a message, in units
  HighWater,       \* sendHighWaterMark of link and half
  LowWater,        \* their sendLowWaterMark
  AgentHighWater, AgentLowWater,  \* those of the agent
  MaxQueued,       \* MAX_QUEUED_FRAMES
  MaxQueuedBytes,  \* MAX_QUEUED_BYTES
  \* Bounds
  MaxMade, MaxLinks   \* messages and links

\* Nothing relates a message's size to the marks: they are configured separately.
ASSUME StreamAssumption ==
  /\ Sizes \subseteq Nat \ {0}
  /\ LowWater \in Nat \ {0} /\ HighWater \in Nat /\ LowWater <= HighWater
  /\ {AgentHighWater, AgentLowWater} \subseteq Nat
  /\ {MaxQueued, MaxQueuedBytes, MaxMade, MaxLinks} \subseteq Nat

VARIABLES
  links,      \* links so far; the last one is up or lost
  ready,      \* the link is up
  open,       \* sessions that have a channel on it, and a browser
  terminals,  \* sessions that have a terminal
  \* Terminal to browser
  pending,    \* pendingSend of the agent
  polling,    \* its drainTimer is set
  up,         \* its socket
  outputs,    \* outputQueue of each session
  pressured,  \* its clientPressured, and pressureSignaled of its half
  flight,     \* what its half's socket has not passed on
  \* Browser to terminal
  inputs,     \* inputQueue of each session
  paused,     \* pausedChannels, in order
  down,       \* the link's socket; its drainTimer is set when paused is not empty
  \* To state properties
  made,       \* messages that terminals and browsers have sent
  since,      \* of each session, those sent while the present browser stays
  shown,      \* and the outputs it has got, and the inputs its terminal has got
  left        \* messages that were pending when a link was lost

agent      == <<pending, polling, up>>
relay      == <<outputs, pressured, flight, inputs, paused, down>>
history    == <<made, since, shown, left>>
streamVars == <<links, ready, open, terminals, agent, relay, history>>

Chunk == [id : Nat, session : Sessions, size : Sizes, exit : BOOLEAN]

StreamsTypeOK ==
  /\ links \in Nat /\ ready \in BOOLEAN /\ {open, terminals} \subseteq SUBSET Sessions
  /\ pending \in Seq(Chunk) /\ up \in Seq(Chunk) /\ polling \in BOOLEAN
  /\ outputs \in [Sessions -> Seq(Chunk)] /\ flight \in [Sessions -> Seq(Chunk)]
  /\ pressured \in [Sessions -> BOOLEAN]
  /\ inputs \in [Sessions -> Seq(Chunk)] /\ down \in Seq(Chunk)
  /\ paused \in Seq(Sessions)
  /\ made \in 0 .. MaxMade
  /\ since \in [Sessions -> [output : Seq(Nat), input : Seq(Nat)]]
  /\ shown \in [Sessions -> [output : Seq(Nat), input : Seq(Nat)]]
  /\ left \subseteq Nat

Nothing == [s \in Sessions |-> <<>>]
NoTrace == [output |-> <<>>, input |-> <<>>]

StreamsInit ==
  /\ links = 1 /\ ready = TRUE /\ open = {} /\ terminals = {}
  /\ pending = <<>> /\ polling = FALSE /\ up = <<>>
  /\ outputs = Nothing /\ flight = Nothing
  /\ pressured = [s \in Sessions |-> FALSE]
  /\ inputs = Nothing /\ paused = <<>> /\ down = <<>>
  /\ made = 0
  /\ since = [s \in Sessions |-> NoTrace] /\ shown = [s \in Sessions |-> NoTrace]
  /\ left = {}

----------------------------------------------------------------------------
\* Sockets and queues.

Bytes(q) == FoldSeq(LAMBDA m, n : m.size + n, 0, q)

\* A socket takes a message if that leaves no more than mark bytes waiting.
Takes(socket, m, mark) == Bytes(socket) + m.size <= mark

\* A queue at the relay that takes one message more ends its channel.
Overflows(q, m) == Len(q) + 1 > MaxQueued \/ Bytes(q) + m.size > MaxQueuedBytes

\* How much of a queue a socket takes before it refuses a message.
Room(socket, q, mark) ==
  CHOOSE k \in 0 .. Len(q) :
    /\ \A j \in 1 .. k : Takes(socket \o SubSeq(q, 1, j - 1), q[j], mark)
    /\ k < Len(q) => ~Takes(socket \o SubSeq(q, 1, k), q[k + 1], mark)

\* A plausible mistake: the message that is refused is taken off the queue first.
FlushedShiftingFirst(socket, q, mark) ==
  LET k == Room(socket, q, mark)
  IN  [socket |-> socket \o SubSeq(q, 1, k), queue |-> SubSeq(q, k + 2, Len(q))]

\* A socket and a queue that is flushed into it.
Flushed(socket, q, mark) ==
  LET k == Room(socket, q, mark)
  IN  [socket |-> socket \o SubSeq(q, 1, k), queue |-> SubSeq(q, k + 1, Len(q))]

\* What SelectSeq returns, as a function that can be proved about: q without those of ss.
Without(q, ss) ==
  LET kept[i \in 0 .. Len(q)] == IF i = 0 THEN <<>>
                                 ELSE IF q[i] \in ss THEN kept[i - 1]
                                 ELSE Append(kept[i - 1], q[i])
  IN  kept[Len(q)]

----------------------------------------------------------------------------
\* Channels.

\* A browser attaches to a session, whose terminal starts or runs since an earlier link.
Attach(s) ==
  /\ ready /\ s \notin open
  /\ open' = open \cup {s} /\ terminals' = terminals \cup {s}
  /\ UNCHANGED <<links, ready, agent, relay, history>>

\* What the relay keeps for sessions ss goes with their channels and halves.
Forgotten(ss) ==
  /\ open' = open \ ss
  /\ outputs' = [s \in Sessions |-> IF s \in ss THEN <<>> ELSE outputs[s]]
  /\ flight' = [s \in Sessions |-> IF s \in ss THEN <<>> ELSE flight[s]]
  /\ pressured' = [s \in Sessions |-> IF s \in ss THEN FALSE ELSE pressured[s]]
  /\ inputs' = [s \in Sessions |-> IF s \in ss THEN <<>> ELSE inputs[s]]
  /\ paused' = Without(paused, ss)
  /\ since' = [s \in Sessions |-> IF s \in ss THEN NoTrace ELSE since[s]]
  /\ shown' = [s \in Sessions |-> IF s \in ss THEN NoTrace ELSE shown[s]]

\* The browser leaves, or its half is terminated; the agent closes the terminal, unless
\* the link is too busy to tell it.
Detach(s) ==
  /\ s \in open
  /\ Forgotten({s})
  /\ terminals' \in {terminals, terminals \ {s}}
  /\ UNCHANGED <<links, ready, agent, down, made, left>>

\* The link is lost: the relay ends its channels.  The agent keeps its terminals and what
\* is pending, but not its timer.
LinkLost ==
  /\ ready
  /\ ready' = FALSE
  /\ Forgotten(Sessions)
  /\ up' = <<>> /\ down' = <<>> /\ polling' = FALSE
  /\ left' = left \cup {pending[i].id : i \in DOMAIN pending}
  /\ UNCHANGED <<links, terminals, pending, made>>

LinkReady ==
  /\ ~ready /\ links < MaxLinks
  /\ links' = links + 1 /\ ready' = TRUE
  /\ UNCHANGED <<open, terminals, agent, relay, history>>

----------------------------------------------------------------------------
\* Terminal to browser.

\* RelayClient.send: a terminal's output, or the news that it has exited.
Send(s, size, exit) ==
  LET m == [id |-> made + 1, session |-> s, size |-> size, exit |-> exit]
  IN  /\ ready /\ s \in terminals
      /\ made < MaxMade
      /\ made' = made + 1
      /\ since' = IF s \in open THEN [since EXCEPT ![s].output = Append(@, m.id)] ELSE since
      /\ terminals' = IF exit THEN terminals \ {s} ELSE terminals
      /\ \/ /\ Takes(up, m, AgentHighWater)
            /\ up' = Append(up, m)
            /\ UNCHANGED <<pending, polling>>
         \/ /\ ~Takes(up, m, AgentHighWater)
            /\ pending' = Append(pending, m)
            /\ polling' = TRUE
            /\ UNCHANGED up
      /\ UNCHANGED <<links, ready, open, relay, shown, left>>

\* A tick of the agent's drainTimer, which fills the socket to the low mark only.
Poll ==
  LET f == Flushed(up, pending, AgentLowWater)
  IN  /\ polling /\ Bytes(up) <= AgentLowWater
      /\ up' = f.socket /\ pending' = f.queue
      /\ polling' = (f.queue # <<>>)
      /\ left' = left \cap {f.queue[i].id : i \in DOMAIN f.queue}
      /\ UNCHANGED <<links, ready, open, terminals, relay, made, since, shown>>

\* AgentSession.deliverOutput of a message from the link: to the half, or kept.
Deliver(m) ==
  LET s == m.session
  IN  \/ /\ Takes(flight[s], m, HighWater)
         /\ flight' = [flight EXCEPT ![s] = Append(@, m)]
         /\ UNCHANGED <<open, outputs, pressured, inputs, paused, since, shown>>
      \/ /\ ~Takes(flight[s], m, HighWater)
         /\ ~Overflows(outputs[s], m)
         /\ outputs' = [outputs EXCEPT ![s] = Append(@, m)]
         /\ pressured' = [pressured EXCEPT ![s] = TRUE]
         /\ UNCHANGED <<open, flight, inputs, paused, since, shown>>
      \/ /\ ~Takes(flight[s], m, HighWater)
         /\ Overflows(outputs[s], m)
         /\ Forgotten({s})

\* The relay gets the next message: one for no channel is dropped, and a terminal's exit
\* ends its channel, with what is still kept for the browser.
Receive ==
  /\ up # <<>>
  /\ up' = Tail(up)
  /\ LET m == Head(up)
     IN  \/ m.session \in open /\ ~m.exit /\ Deliver(m)
         \/ m.session \in open /\ m.exit /\ Forgotten({m.session})
         \/ /\ m.session \notin open
            /\ UNCHANGED <<open, outputs, pressured, flight, inputs, paused, since, shown>>
  /\ UNCHANGED <<links, ready, terminals, pending, polling, down, made, left>>

\* A plausible mistake: a flush that the half refuses signals no pressure.
ReleasedOnce(rest) == FALSE

\* Whether pressure remains once the half has let a session flush.
Released(rest) == rest # <<>>

\* The browser's socket has passed a message on; below the low mark the half lets the
\* session flush (maybeReleasePressure, onClientDrained).
Shown(s) ==
  LET rest == Tail(flight[s])
      f    == Flushed(rest, outputs[s], HighWater)
  IN  /\ flight[s] # <<>>
      /\ shown' = [shown EXCEPT ![s].output = Append(@, Head(flight[s]).id)]
      /\ \/ /\ pressured[s] /\ Bytes(rest) < LowWater
            /\ flight' = [flight EXCEPT ![s] = f.socket]
            /\ outputs' = [outputs EXCEPT ![s] = f.queue]
            /\ pressured' = [pressured EXCEPT ![s] = Released(f.queue)]
         \/ /\ ~(pressured[s] /\ Bytes(rest) < LowWater)
            /\ flight' = [flight EXCEPT ![s] = rest]
            /\ UNCHANGED <<outputs, pressured>>
      /\ UNCHANGED <<links, ready, open, terminals, agent, inputs, paused, down, made, since, left>>

----------------------------------------------------------------------------
\* Browser to terminal.

\* AgentSession.onClientTerminalInput: to the link, or kept.
Input(s, size) ==
  LET m == [id |-> made + 1, session |-> s, size |-> size, exit |-> FALSE]
      Enters == since' = [since EXCEPT ![s].input = Append(@, m.id)]
  IN  /\ s \in open
      /\ made < MaxMade
      /\ made' = made + 1
      /\ \/ /\ Takes(down, m, HighWater)
            /\ down' = Append(down, m)
            /\ Enters
            /\ UNCHANGED <<open, outputs, pressured, flight, inputs, paused, shown>>
         \/ /\ ~Takes(down, m, HighWater)
            /\ ~Overflows(inputs[s], m)
            /\ inputs' = [inputs EXCEPT ![s] = Append(@, m)]
            /\ paused' = IF s \in ToSet(paused) THEN paused ELSE Append(paused, s)
            /\ Enters
            /\ UNCHANGED <<open, outputs, pressured, flight, down, shown>>
         \/ /\ ~Takes(down, m, HighWater)
            /\ Overflows(inputs[s], m)
            /\ Forgotten({s})
            /\ UNCHANGED down
      /\ UNCHANGED <<links, ready, terminals, agent, left>>

\* The link's socket and the queues of its channels, when channel s is flushed ...
ChannelFlushed(a, s) ==
  LET f == Flushed(a.down, a.inputs[s], HighWater)
  IN  [down |-> f.socket, inputs |-> [a.inputs EXCEPT ![s] = f.queue]]

\* ... and when those of ss are, in turn.
AllFlushed(a, ss) ==
  LET after[i \in 0 .. Len(ss)] == IF i = 0 THEN a ELSE ChannelFlushed(after[i - 1], ss[i])
  IN  after[Len(ss)]

\* A tick of the link's drainTimer flushes the paused channels in turn.
Drain ==
  LET all == AllFlushed([down |-> down, inputs |-> inputs], paused)
  IN  /\ paused # <<>> /\ Bytes(down) <= LowWater
      /\ down' = all.down /\ inputs' = all.inputs
      /\ paused' = Without(paused, {s \in Sessions : all.inputs[s] = <<>>})
      /\ UNCHANGED <<links, ready, open, terminals, agent, outputs, pressured, flight, history>>

\* The agent gets the next input, for its terminal.
Typed ==
  /\ down # <<>>
  /\ down' = Tail(down)
  /\ shown' = LET m == Head(down)
              IN  IF m.session \in open THEN [shown EXCEPT ![m.session].input = Append(@, m.id)]
                  ELSE shown
  /\ UNCHANGED <<links, ready, open, terminals, agent, outputs, pressured, flight, inputs,
                 paused, made, since, left>>

----------------------------------------------------------------------------
StreamsNext ==
  \/ \E s \in Sessions :
       \/ Attach(s) \/ Detach(s) \/ Shown(s)
       \/ \E size \in Sizes : Input(s, size) \/ \E exit \in BOOLEAN : Send(s, size, exit)
  \/ LinkLost \/ LinkReady \/ Poll \/ Receive \/ Drain \/ Typed

\* Timers fire, and the network moves: a socket passes on what it holds, or is closed.
StreamsFairness ==
  /\ WF_streamVars(Poll) /\ WF_streamVars(Drain)
  /\ WF_streamVars(up # <<>> /\ (Receive \/ LinkLost))
  /\ WF_streamVars(down # <<>> /\ (Typed \/ LinkLost))
  /\ \A s \in Sessions : WF_streamVars(flight[s] # <<>> /\ (Shown(s) \/ Detach(s)))

StreamsSpec == StreamsInit /\ [][StreamsNext]_streamVars /\ StreamsFairness

----------------------------------------------------------------------------
Ids(q) == [i \in DOMAIN q |-> q[i].id]

Times(id, q) == Cardinality({i \in DOMAIN q : q[i] = id})

\* Where messages of a session may be, on their way.
OutputTrip(s) ==
  Ids(pending) \o Ids(up) \o Ids(outputs[s]) \o Ids(flight[s]) \o shown[s].output
InputTrip(s) == Ids(inputs[s]) \o Ids(down) \o shown[s].input

\* While a browser stays, what its terminal has sent since it came, and what it has sent
\* itself, is on its way or there, once: no flush, refusal or callback loses or repeats a
\* message (agent-session.ts:105-133, :174-199, relay-client.ts:111-128, :373-394).
Conserved ==
  \A s \in open :
    /\ \A i \in DOMAIN since[s].output : Times(since[s].output[i], OutputTrip(s)) = 1
    /\ \A i \in DOMAIN since[s].input : Times(since[s].input[i], InputTrip(s)) = 1

Pends == ToSet(Ids(pending)) \ left

\* A queue whose first message not even an empty socket takes: it is never flushed, and
\* grows until it ends its channel.
Oversized(q, mark) == q # <<>> /\ Head(q).size > mark

\* What is queued is sent or given up, or is stuck behind a message that is larger than the
\* mark (agent-link.ts:294, ws-client-half.ts:168, relay-client.ts:384): a queue at the
\* relay is flushed or goes with its channel, and one at the agent is flushed unless its
\* link is lost; what is pending then waits for the next message that finds no room
\* (relay-client.ts:352, :373).
QueuesDrain ==
  /\ \A s \in Sessions :
       /\ outputs[s] # <<>> ~> outputs[s] = <<>> \/ Oversized(outputs[s], HighWater)
       /\ inputs[s] # <<>> ~> inputs[s] = <<>> \/ Oversized(inputs[s], HighWater)
  /\ Pends # {} ~> Pends = {} \/ Oversized(pending, AgentLowWater)

\* A browser is shown its terminal's output in the order in which it was sent: while its
\* half is pressured "output is buffered (capped) and flushed when the half drains"
\* (agent-session.ts:25).
OutputInOrder ==
  \A s \in Sessions : \A i, j \in DOMAIN shown[s].output :
    i < j => shown[s].output[i] < shown[s].output[j]
=============================================================================
