----------------------------- MODULE FrontDoor -----------------------------
(***************************************************************************)
(* The relay's WebSocket front door and its web API: GUI session records   *)
(* (GuiRegistry) and the WebSocket halves that browsers open for them      *)
(* (relay/src/ws-server.ts, ws-client-half.ts, api.ts, relay.ts).          *)
(*                                                                         *)
(* Node runs one handler at a time, so a handler is one action.  Token     *)
(* verification is the one place a handler awaits: AuthRequest starts it   *)
(* and AuthOk or AuthFail is its continuation, which looks again at        *)
(* nothing but the half's closed flag.                                     *)
(*                                                                         *)
(* phase[c]: "open" greeted, no credentials yet; "verifying" credentials   *)
(* received, verification awaited; "ready" authenticated; "closing" the    *)
(* half is closed and out of the server's set but its socket has not ended;*)
(* "gone" the socket has ended.                                            *)
(***************************************************************************)
EXTENDS GuiRegistry, Naturals, FiniteSets

CONSTANTS
  Solo,           \* sessions whose browser reconnects only when the last socket ended
  MaxConnections  \* halves the server admits at a time

ASSUME FrontDoorAssumption ==
  /\ Solo \subseteq Sessions
  /\ MaxConnections \in Nat \ {0}

VARIABLES
  gui,           \* the registry
  phase,         \* where each half is in its life
  session,       \* the session id in the half's upgrade request
  shuttingDown

vars == <<gui, phase, session, shuttingDown>>

LivePhases == {"open", "verifying", "ready"}

Live(c)    == phase[c] \in LivePhases
LiveHalves == {c \in Halves : Live(c)}
HalvesOf(s) == {c \in Halves : session[c] = s}

TypeOK ==
  /\ gui \in Registry
  /\ phase \in [Halves -> LivePhases \cup {"unused", "closing", "gone"}]
  /\ session \in [Halves -> Sessions \cup {NoSession}]
  /\ shuttingDown \in BOOLEAN

Init ==
  /\ gui = EmptyRegistry
  /\ phase = [c \in Halves |-> "unused"]
  /\ session = [c \in Halves |-> NoSession]
  /\ shuttingDown = FALSE

----------------------------------------------------------------------------
\* POST /api/devices/:id/sessions.
CreateSession(s) ==
  /\ gui.state[s] = "unused"
  /\ gui' = Create(gui, s)
  /\ UNCHANGED <<phase, session, shuttingDown>>

\* A session of Solo gets a new socket only when no earlier one is left.
BrowserMayConnect(s) ==
  s \in Solo => \A c \in HalvesOf(s) : phase[c] = "gone"

\* A browser's upgrade request for session s, or for none: the half joins the
\* server's set, is attached to the record and greeted.
Upgrade(c, s) ==
  /\ phase[c] = "unused"
  /\ ~shuttingDown
  /\ Cardinality(LiveHalves) < MaxConnections
  /\ s \in Sessions => IsOpen(gui, s) /\ BrowserMayConnect(s)
  /\ phase' = [phase EXCEPT ![c] = "open"]
  /\ session' = [session EXCEPT ![c] = s]
  /\ gui' = IF s \in Sessions THEN Attach(gui, s, c) ELSE gui
  /\ UNCHANGED shuttingDown

----------------------------------------------------------------------------
\* Halves cs are closed: the registry detaches them, their sockets end later.
Terminated(cs) == [c \in Halves |-> IF c \in cs THEN "closing" ELSE phase[c]]

AuthRequest(c) ==
  /\ phase[c] = "open"
  /\ phase' = [phase EXCEPT ![c] = "verifying"]
  /\ UNCHANGED <<gui, session, shuttingDown>>

AuthFail(c) ==
  /\ phase[c] = "verifying"
  /\ phase' = [phase EXCEPT ![c] = "open"]
  /\ UNCHANGED <<gui, session, shuttingDown>>

\* Whether the API lets the authenticated half go on: it is not bound to a
\* record, or the record is still there and the identity may use it.
Admitted(c, mayUse) ==
  session[c] \in Sessions => Exists(gui, session[c]) /\ mayUse

\* Credentials accepted: the half gets a session, the API links the record, the
\* relay routes the half.  A half that is not admitted, or has no route, is
\* terminated.
AuthOk(c, mayUse, routed) ==
  LET s == session[c]
      linked == IF s \in Sessions /\ Admitted(c, mayUse)
                THEN MarkConnected(gui, s, c) ELSE gui
  IN /\ phase[c] = "verifying"
     /\ IF Admitted(c, mayUse) /\ routed
        THEN /\ gui' = linked
             /\ phase' = [phase EXCEPT ![c] = "ready"]
        ELSE /\ gui' = MarkDisconnected(linked, {c})
             /\ phase' = Terminated({c})
     /\ UNCHANGED <<session, shuttingDown>>

\* The relay ends the live halves of cs in one handler: an idle timer, a
\* protocol error, an expired session, or all the halves of a device that went.
Terminate(cs) ==
  /\ cs # {} /\ cs \subseteq LiveHalves
  /\ gui' = MarkDisconnected(gui, cs)
  /\ phase' = Terminated(cs)
  /\ UNCHANGED <<session, shuttingDown>>

\* A plausible mistake: the timer is cleared when credentials arrive.
AuthTimeoutUntilRequest(c) ==
  /\ phase[c] = "open"
  /\ Terminate({c})

AuthTimeout(c) ==
  /\ phase[c] \in {"open", "verifying"}
  /\ Terminate({c})

\* A plausible mistake: a lost socket does not run the close callback.
SocketCloseSilent(c) ==
  /\ phase[c] \in LivePhases \cup {"closing"}
  /\ phase' = [phase EXCEPT ![c] = "gone"]
  /\ UNCHANGED <<gui, session, shuttingDown>>

\* The socket ends: after a close handshake (or the forced end after it), or
\* under a half the relay still holds open.
SocketClose(c) ==
  /\ phase[c] \in LivePhases \cup {"closing"}
  /\ gui' = IF Live(c) THEN MarkDisconnected(gui, {c}) ELSE gui
  /\ phase' = [phase EXCEPT ![c] = "gone"]
  /\ UNCHANGED <<session, shuttingDown>>

----------------------------------------------------------------------------
\* The live half the record names: DELETE terminates that one.
Named(s) == {c \in LiveHalves : gui.conn[s] = c}

\* A plausible mistake: the record is closed before its half is terminated.
DeleteClosesFirst(s) ==
  /\ Exists(gui, s)
  /\ gui' = MarkDisconnected(Close(gui, s), Named(s))
  /\ phase' = Terminated(Named(s))
  /\ UNCHANGED <<session, shuttingDown>>

\* DELETE /api/sessions/:id by the owner.
DeleteSession(s) ==
  /\ Exists(gui, s)
  /\ gui' = Close(MarkDisconnected(gui, Named(s)), s)
  /\ phase' = Terminated(Named(s))
  /\ UNCHANGED <<session, shuttingDown>>

\* The periodic sweep, stopped by shutdown.
Sweep(due) ==
  /\ ~shuttingDown
  /\ due # {}
  /\ \A s \in due : gui.state[s] \in {"creating", "disconnected", "closed"}
  /\ gui' = SweepDue(gui, due)
  /\ UNCHANGED <<phase, session, shuttingDown>>

Shutdown ==
  /\ ~shuttingDown
  /\ shuttingDown' = TRUE
  /\ gui' = MarkDisconnected(gui, LiveHalves)
  /\ phase' = Terminated(LiveHalves)
  /\ UNCHANGED session

Next ==
  \/ \E s \in Sessions : CreateSession(s)
  \/ \E s \in Sessions : DeleteSession(s)
  \/ \E c \in Halves, s \in Sessions \cup {NoSession} : Upgrade(c, s)
  \/ \E c \in Halves : AuthRequest(c)
  \/ \E c \in Halves : AuthFail(c)
  \/ \E c \in Halves, mayUse, routed \in BOOLEAN : AuthOk(c, mayUse, routed)
  \/ \E c \in Halves : AuthTimeout(c)
  \/ \E cs \in SUBSET Halves : Terminate(cs)
  \/ \E c \in Halves : SocketClose(c)
  \/ \E due \in SUBSET Sessions : Sweep(due)
  \/ Shutdown

\* The relay's timers fire: the sweep interval reaches every due record, the
\* authentication timer ends a silent half, and a closing socket is forced down
\* after a second.  Users and networks owe nothing.
Fairness ==
  /\ \A s \in Sessions : WF_vars(\E due \in SUBSET Sessions : s \in due /\ Sweep(due))
  /\ \A c \in Halves : WF_vars(AuthTimeout(c))
  /\ \A c \in Halves : WF_vars(phase[c] = "closing" /\ SocketClose(c))

Spec == Init /\ [][Next]_vars /\ Fairness

----------------------------------------------------------------------------
\* The map and the records agree, whatever browsers do: a record is
\* "connecting" or "connected" exactly while one connection is mapped to it,
\* that connection is a live half of the session, and no other half is mapped to
\* a record that is still open (gui-sessions.ts, attach and markDisconnected).
MappedIsLive ==
  \A s \in Sessions :
    /\ gui.state[s] \in Attached =>
         \E c \in HalvesOf(s) : Live(c) /\ gui.map[c] = s
    /\ \A c, d \in Halves :
         gui.map[c] = s /\ IsOpen(gui, s) =>
           /\ gui.state[s] \in Attached
           /\ session[c] = s /\ Live(c)
           /\ gui.map[d] = s => c = d

\* A session reconnected one socket at a time is backed by the half its record
\* names and by no other: DELETE terminates the right half, the sweep closes no
\* session in use, a closed session has no live half, and the map keeps no entry
\* for one.
RecordMatchesHalf ==
  \A s \in Solo :
    /\ gui.state[s] \in Attached =>
         gui.conn[s] \in LiveHalves /\ gui.map[gui.conn[s]] = s
    /\ \A c \in HalvesOf(s) :
         /\ Live(c) => gui.conn[s] = c
         /\ Live(c) => gui.state[s] = IF phase[c] = "ready" THEN "connected"
                                                            ELSE "connecting"
         /\ gui.map[c] = s <=> Live(c)

\* After shutdown no half is live, and none becomes live again (ws-server.ts,
\* close and onUpgrade).
ShutdownIsFinal == shuttingDown => LiveHalves = {}

\* The sessions of Solo keep the promise of GuiLifecycle.
Lifecycle == INSTANCE GuiLifecycle WITH
    Ids    <- Solo,
    st     <- [s \in Solo |-> gui.state[s]],
    backed <- [s \in Solo |-> \E c \in HalvesOf(s) : Live(c)]

KeepsLifecycle == Lifecycle!Spec

\* A session left "connecting" by a half that never authenticates does not stay
\* there: the authentication timer of its half ends it.
ConnectingResolves ==
  \A s \in Sessions : gui.state[s] = "connecting" ~> gui.state[s] # "connecting"

\* A session nobody attaches to is closed and forgotten, unless the relay stops.
AbandonedIsForgotten ==
  \A s \in Sessions :
    /\ gui.state[s] \in {"creating", "disconnected"} ~>
         gui.state[s] \in Attached \cup {"closed", "purged"} \/ shuttingDown
    /\ gui.state[s] = "closed" ~> gui.state[s] = "purged" \/ shuttingDown
=============================================================================
