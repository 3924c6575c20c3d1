--------------------------- MODULE DeviceSessions ---------------------------
(***************************************************************************)
(* Browser terminals on an agent device: GUI sessions and their WebSocket  *)
(* halves (FrontDoor) are served over the device's link (LinkPresence) by  *)
(* terminals that the device's agent runs (relay/src/agent-link.ts,        *)
(* agent-session.ts, device-manager.ts; agent/src/index.ts, pty-manager.ts,*)
(* server/src/pty.ts).                                                     *)
(*                                                                         *)
(* The relay holds a channel per session on the link and tells the agent   *)
(* to open and close terminals; the agent says when one failed or exited.  *)
(* A link is a pair of FIFO wires.  The agent drops a link without the     *)
(* relay noticing, and the other way round; what is sent into a dropped    *)
(* link is lost.  A report that finds the agent's socket full is held,     *)
(* while later ones may pass it, and may reach the relay on a later link.  *)
(* A relay handler is one action, and so is an agent's.                    *)
(***************************************************************************)
EXTENDS Naturals, FiniteSets, Sequences

CONSTANTS
  Sessions, Halves, NoSession, NoHalf, MaxConnections,  \* of FrontDoor
  Links, NoLink,                                        \* of LinkPresence
  Device                                                \* the agent device

\* What FrontDoor assumes, and that no link is NoLink.
ASSUME DeviceAssumption ==
  /\ NoSession \notin Sessions /\ NoHalf \notin Halves
  /\ MaxConnections \in Nat \ {0}
  /\ NoLink \notin Links

VARIABLES
  gui, phase, session, shuttingDown,  \* of FrontDoor
  holder, gone,                       \* of LinkPresence
  bridge,     \* of each half, its AgentSession: "none", "open", "ended" or "closed"
  via,        \* the link of a half's AgentSession
  mux,        \* the link's channels, and what is on the wire to the agent
  up,         \* what is on the wire to the relay
  agentLink,  \* the link the agent has
  stopped,    \* the agent has been told goodbye and does not reconnect
  pty,        \* the agent's terminals, each named by the half it was started for
  held,       \* the reports in the agent's pendingSend
  shared      \* sessions that have had two sockets at a time, to state properties

door     == <<gui, phase, session, shuttingDown>>
presence == <<holder, gone>>
relay    == <<bridge, via, mux>>
agent    == <<agentLink, stopped, pty, held>>
vars     == <<door, presence, relay, up, agent, shared>>

Door     == INSTANCE FrontDoor WITH Solo <- {}
Presence == INSTANCE LinkPresence WITH Devices <- {Device}

\* The link in linksByDevice.
Link == holder[Device]

Requests == [kind : {"open"}, session : Sessions, half : Halves]
            \cup [kind : {"close"}, session : Sessions]
            \cup [kind : {"goodbye"}, session : {NoSession}]

\* A terminal failed or exited; the relay treats both alike.
Reports == [session : Sessions]

\* "unheard" and "stray" only record what happened: a channel whose open was
\* refused by a busy link, and a session whose terminal may outlive its channel.
TypeOK ==
  /\ Door!TypeOK
  /\ holder \in [{Device} -> Links \cup {NoLink}] /\ gone \subseteq Links
  /\ bridge \in [Halves -> {"none", "open", "ended", "closed"}]
  /\ via \in [Halves -> Links \cup {NoLink}]
  /\ mux \in [channels : [Sessions -> Halves \cup {NoHalf}], down : Seq(Requests),
              unheard : SUBSET Sessions, stray : SUBSET Sessions]
  /\ up \in Seq(Reports)
  /\ agentLink \in Links \cup {NoLink}
  /\ stopped \in BOOLEAN
  /\ pty \in [Sessions -> Halves \cup {NoHalf}]
  /\ held \in Seq(Reports)
  /\ shared \subseteq Sessions

Init ==
  /\ Door!Init /\ Presence!Init
  /\ bridge = [c \in Halves |-> "none"]
  /\ via = [c \in Halves |-> NoLink]
  /\ mux = [channels |-> [s \in Sessions |-> NoHalf], down |-> <<>>,
            unheard |-> {}, stray |-> {}]
  /\ up = <<>>
  /\ agentLink = NoLink
  /\ stopped = FALSE
  /\ pty = [s \in Sessions |-> NoHalf]
  /\ held = <<>>
  /\ shared = {}

----------------------------------------------------------------------------
\* The link's part.  "busy" says which sends find too many bytes waiting on the
\* link's socket: send() then returns false and nothing is sent.

Heard == agentLink = Link

Wire(down, msg) == IF Heard THEN Append(down, msg) ELSE down

\* A plausible mistake: the agent is not told.
RemoveChannelQuietly(m, s, busy) ==
  [m EXCEPT !.channels[s] = NoHalf, !.unheard = @ \ {s}]

\* Idempotent; the agent is asked to close the terminal.
RemoveChannel(m, s, busy) ==
  IF m.channels[s] = NoHalf THEN m
  ELSE [channels |-> [m.channels EXCEPT ![s] = NoHalf],
        down     |-> IF "close" \in busy THEN m.down
                     ELSE Wire(m.down, [kind |-> "close", session |-> s]),
        unheard  |-> m.unheard \ {s},
        stray    |-> IF "close" \in busy THEN m.stray \cup {s}
                     ELSE IF Heard THEN m.stray \ {s} ELSE m.stray]

\* The prior channel goes first; then the agent is asked for a terminal.
OpenChannel(m, s, c, busy) ==
  LET r == RemoveChannel(m, s, busy)
  IN  [channels |-> [r.channels EXCEPT ![s] = c],
       down     |-> IF "open" \in busy THEN r.down
                    ELSE Wire(r.down, [kind |-> "open", session |-> s, half |-> c]),
       unheard  |-> IF "open" \in busy THEN r.unheard \cup {s} ELSE r.unheard,
       stray    |-> IF "open" \notin busy /\ Heard THEN r.stray \ {s} ELSE r.stray]

Served == {mux.channels[s] : s \in Sessions} \ {NoHalf}

\* A plausible mistake: the browsers of a lost link or terminal are not told.
EndHalvesNever(cs) == UNCHANGED door

\* A plausible mistake: the close callback does not run.
EndHalvesSilently(cs) ==
  /\ phase' = [c \in Halves |-> IF c \in cs /\ Door!Live(c) THEN "closing" ELSE phase[c]]
  /\ UNCHANGED <<gui, session, shuttingDown>>

\* The relay terminates halves cs, those among them that are still live.
EndHalves(cs) ==
  IF cs \cap Door!LiveHalves = {} THEN UNCHANGED door
  ELSE Door!Terminate(cs \cap Door!LiveHalves)

\* AgentLink.teardown: every channel's AgentSession is closed and the channels are
\* forgotten, without a word to the agent about its terminals.
Teardown(down) ==
  /\ bridge' = [c \in Halves |-> IF c \in Served THEN "closed" ELSE bridge[c]]
  /\ mux' = [channels |-> [s \in Sessions |-> NoHalf], down |-> down, unheard |-> {},
             stray |-> mux.stray \cup {s \in Sessions : mux.channels[s] # NoHalf}]
  /\ up' = <<>>
  /\ UNCHANGED via

----------------------------------------------------------------------------
\* Browsers and the front door.

\* A session is created for a device that was online when the request came.
CreateSession(s) ==
  /\ Link # NoLink \/ gone # {}
  /\ Door!CreateSession(s)
  /\ UNCHANGED <<presence, relay, up, agent, shared>>

\* A half without a session id is refused when it is routed and never gets here.
Upgrade(c, s) ==
  /\ Door!Upgrade(c, s)
  /\ shared' = IF \A d \in Door!HalvesOf(s) : phase[d] = "gone" THEN shared
               ELSE shared \cup {s}
  /\ UNCHANGED <<presence, relay, up, agent>>

AuthRequest(c) == Door!AuthRequest(c) /\ UNCHANGED <<presence, relay, up, agent, shared>>
AuthFail(c) == Door!AuthFail(c) /\ UNCHANGED <<presence, relay, up, agent, shared>>
AuthTimeout(c) == Door!AuthTimeout(c) /\ UNCHANGED <<presence, relay, up, agent, shared>>
Sweep(due) == Door!Sweep(due) /\ UNCHANGED <<presence, relay, up, agent, shared>>

\* A half is terminated by itself; its AgentSession hears of it when the socket
\* ends.
Terminate(c) == Door!Terminate({c}) /\ UNCHANGED <<presence, relay, up, agent, shared>>

\* Credentials accepted: the half is routed to the device's link, even when the
\* API has just terminated it.
AuthOk(c, mayUse, busy) ==
  LET s      == session[c]
      routed == s \in Sessions /\ Link # NoLink
  IN  /\ Door!AuthOk(c, mayUse, routed)
      /\ IF routed
         THEN /\ bridge' = [bridge EXCEPT ![c] = "open"]
              /\ via' = [via EXCEPT ![c] = Link]
              /\ mux' = OpenChannel(mux, s, c, busy)
         ELSE UNCHANGED relay
      /\ UNCHANGED <<presence, up, agent, shared>>

\* A half's socket ends: its AgentSession removes the session's channel from its
\* link, by session id, and the half lets go of it.
SocketClose(c, busy) ==
  /\ Door!SocketClose(c)
  /\ bridge' = [bridge EXCEPT ![c] = "none"]
  /\ via' = [via EXCEPT ![c] = NoLink]
  /\ mux' = IF bridge[c] = "open" /\ via[c] = Link
            THEN RemoveChannel(mux, session[c], busy) ELSE mux
  /\ UNCHANGED <<presence, up, agent, shared>>

DeleteSession(s, busy) ==
  /\ Door!DeleteSession(s)
  /\ mux' = RemoveChannel(mux, s, busy)
  /\ UNCHANGED <<presence, bridge, via, up, agent, shared>>

----------------------------------------------------------------------------
\* The device's link, as far as DeviceLink lets it come and go.

\* The agent has a new link that authenticates; a link the relay still held for
\* the device is terminated.
LinkUp(l) ==
  /\ agentLink = NoLink /\ ~stopped /\ ~shuttingDown
  /\ Presence!Up(Device, l)
  /\ agentLink' = l
  /\ Teardown(<<>>)
  /\ EndHalves(Served)
  /\ UNCHANGED <<stopped, pty, held, shared>>

\* The relay loses the link, or ends it with a goodbye.
LinkDown(goodbye) ==
  /\ Link # NoLink
  /\ Presence!Down({Link})
  /\ Teardown(IF goodbye THEN Wire(mux.down, [kind |-> "goodbye", session |-> NoSession])
                         ELSE mux.down)
  /\ EndHalves(Served)
  /\ UNCHANGED <<agent, shared>>

\* The agent loses its link; the relay may go on sending.  What the agent holds it keeps.
AgentDrop ==
  /\ agentLink # NoLink
  /\ agentLink' = NoLink
  /\ mux' = [mux EXCEPT !.down = <<>>,
                        !.stray = @ \cup {s \in Sessions : pty[s] # NoHalf}]
  /\ UNCHANGED <<door, presence, bridge, via, up, stopped, pty, held, shared>>

\* The agent's process ends, its terminals with it, and is started again.
AgentRestart ==
  /\ agentLink' = NoLink
  /\ stopped' = FALSE
  /\ pty' = [s \in Sessions |-> NoHalf]
  /\ held' = <<>>
  /\ mux' = [mux EXCEPT !.down = <<>>, !.stray = {}]
  /\ UNCHANGED <<door, presence, bridge, via, up, shared>>

Shutdown ==
  /\ Door!Shutdown
  /\ Presence!Down({Link} \ {NoLink})
  /\ Teardown(Wire(mux.down, [kind |-> "goodbye", session |-> NoSession]))
  /\ UNCHANGED <<agent, shared>>

----------------------------------------------------------------------------
\* The agent and its terminals.

Sent(msg) == IF Heard THEN Append(up, msg) ELSE up

\* RelayClient.send: to the socket, or kept as long as it has no room.
Report(s) ==
  LET msg == [session |-> s]
  IN  \/ up' = Sent(msg) /\ UNCHANGED held
      \/ agentLink # NoLink /\ held' = Append(held, msg) /\ UNCHANGED up

\* A tick of the agent's drainTimer sends what it holds, one message after the other.  The
\* timer is set when any message is held, terminal output included.
AgentFlush ==
  /\ agentLink # NoLink /\ held # <<>>
  /\ up' = Sent(Head(held))
  /\ held' = Tail(held)
  /\ UNCHANGED <<door, presence, relay, agentLink, stopped, pty, shared>>

\* A terminal that runs under the session's id is kept, whoever it was started for.
StartPty(s, c) ==
  /\ UNCHANGED <<agentLink, stopped>>
  /\ \/ pty[s] # NoHalf /\ UNCHANGED <<pty, up, held>>
     \/ pty[s] = NoHalf /\ pty' = [pty EXCEPT ![s] = c] /\ UNCHANGED <<up, held>>
     \/ pty[s] = NoHalf /\ Report(s) /\ UNCHANGED pty

ClosePty(s) ==
  /\ pty' = [pty EXCEPT ![s] = NoHalf]
  /\ UNCHANGED <<agentLink, stopped, up, held>>

AgentReceive ==
  LET msg == Head(mux.down)
  IN  /\ agentLink # NoLink /\ mux.down # <<>>
      /\ \/ msg.kind = "open" /\ StartPty(msg.session, msg.half)
            /\ mux' = [mux EXCEPT !.down = Tail(@)]
         \/ msg.kind = "close" /\ ClosePty(msg.session)
            /\ mux' = [mux EXCEPT !.down = Tail(@)]
         \/ /\ msg.kind = "goodbye"
            /\ agentLink' = NoLink /\ stopped' = TRUE /\ UNCHANGED <<pty, up, held>>
            /\ mux' = [mux EXCEPT !.down = <<>>,
                                  !.stray = @ \cup {s \in Sessions : pty[s] # NoHalf}]
      /\ UNCHANGED <<door, presence, bridge, via, shared>>

\* A shell ends by itself.
PtyExit(s) ==
  /\ pty[s] # NoHalf
  /\ pty' = [pty EXCEPT ![s] = NoHalf]
  /\ Report(s)
  /\ UNCHANGED <<door, presence, relay, agentLink, stopped, shared>>

\* A report reaches the channel that the session has now, whichever terminal and link it
\* is about.
RelayReceive(busy) ==
  LET s == Head(up).session
      c == mux.channels[s]
  IN  /\ up # <<>> /\ up' = Tail(up)
      /\ IF c \in Halves /\ bridge[c] # "ended"
         THEN /\ bridge' = [bridge EXCEPT ![c] = "ended"]
              /\ mux' = RemoveChannel(mux, s, busy)
              /\ EndHalves({c})
         ELSE UNCHANGED <<door, bridge, mux>>
      /\ UNCHANGED <<presence, via, agent, shared>>

Next ==
  \/ \E s \in Sessions : CreateSession(s)
  \/ \E c \in Halves, s \in Sessions : Upgrade(c, s)
  \/ \E c \in Halves : AuthRequest(c)
  \/ \E c \in Halves : AuthFail(c)
  \/ \E c \in Halves : AuthTimeout(c)
  \/ \E due \in SUBSET Sessions : Sweep(due)
  \/ \E c \in Halves : Terminate(c)
  \/ \E c \in Halves, mayUse \in BOOLEAN, busy \in SUBSET {"open", "close"} :
       AuthOk(c, mayUse, busy)
  \/ \E c \in Halves, busy \in SUBSET {"close"} : SocketClose(c, busy)
  \/ \E s \in Sessions, busy \in SUBSET {"close"} : DeleteSession(s, busy)
  \/ \E l \in Links : LinkUp(l)
  \/ \E goodbye \in BOOLEAN : LinkDown(goodbye)
  \/ AgentDrop
  \/ AgentRestart
  \/ Shutdown
  \/ AgentReceive
  \/ \E s \in Sessions : PtyExit(s)
  \/ AgentFlush
  \/ \E busy \in SUBSET {"close"} : RelayReceive(busy)

Spec == Init /\ [][Next]_vars

----------------------------------------------------------------------------
\* A channel is held on a link for the AgentSession of a half of its session that
\* was routed over that link and has authenticated.  Unless a session has two sockets at a
\* time, its half has the channel for as long as it is ready: no late event of an
\* earlier half or link takes it away.
ChannelsServed ==
  \A s \in Sessions, c \in Halves :
    /\ mux.channels[s] = c =>
         /\ session[c] = s /\ phase[c] \in {"ready", "closing"}
         /\ bridge[c] = "open" /\ via[c] = Link /\ Link # NoLink
    /\ s \notin shared /\ session[c] = s /\ phase[c] = "ready" => mux.channels[s] = c

\* The last request for session s that is on its way to the agent, if there is one.
LastRequest(down, s) ==
  {down[i] : i \in {i \in DOMAIN down :
                      /\ down[i].session = s
                      /\ \A j \in DOMAIN down : j > i => down[j].session # s}}

ReportedOn(s) == \/ \E i \in DOMAIN up : up[i].session = s
                 \/ \E i \in DOMAIN held : held[i].session = s

\* The relay's channels and the agent's terminals agree as soon as the wires are
\* read: behind a channel is a terminal, an open on its way to the agent, or a
\* report of its end on its way to the relay or held by the agent, unless a busy link
\* refused the open.
\* Without a channel there is no terminal, or a close is on its way, unless the
\* link was lost or too busy to say so.
TerminalBehindChannel ==
  \A s \in Sessions :
    LET last == LastRequest(mux.down, s)
    IN  /\ mux.channels[s] # NoHalf /\ Heard /\ s \notin mux.unheard =>
             IF last = {} THEN pty[s] # NoHalf \/ ReportedOn(s)
             ELSE \A msg \in last : msg.kind = "open" /\ msg.half = mux.channels[s]
        /\ mux.channels[s] = NoHalf /\ s \notin mux.stray =>
             IF last = {} THEN pty[s] = NoHalf ELSE \A msg \in last : msg.kind = "close"

\* Whatever devices do, the front door goes through its own steps only, and so its
\* theorems hold here.
KeepsFrontDoor == Door!Init /\ [][Door!Next]_door
=============================================================================
