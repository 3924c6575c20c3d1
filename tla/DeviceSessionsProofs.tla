------------------------ MODULE DeviceSessionsProofs ------------------------
(***************************************************************************)
(* Browser terminals on agent devices, for any number of sessions, halves  *)
(* and links: devices leave the front door's steps as they are, a half     *)
(* keeps its session's channel, and the relay's channels and the agent's   *)
(* terminals agree once the wires are read.                                *)
(***************************************************************************)
EXTENDS DeviceSessions, SequenceTheorems, WellFoundedInduction, TLAPS

\* The theorems of the front door, in which nothing is assumed of browsers.
Records == INSTANCE FrontDoorProofs WITH Solo <- {}

DoorInv == Records!IInv /\ Records!Owned

----------------------------------------------------------------------------
\* The front door of DeviceSessions is that of FrontDoorProofs.
LEMMA SameRegistry ==
  ASSUME NEW g, NEW s, NEW c, NEW cs
  PROVE  /\ Door!Create(g, s) = Records!Create(g, s)
         /\ Door!Close(g, s) = Records!Close(g, s)
         /\ Door!Attach(g, s, c) = Records!Attach(g, s, c)
         /\ Door!MarkConnected(g, s, c) = Records!MarkConnected(g, s, c)
         /\ Door!MarkDisconnected(g, cs) = Records!MarkDisconnected(g, cs)
         /\ Door!SweepDue(g, cs) = Records!SweepDue(g, cs)
         /\ Door!Exists(g, s) <=> Records!Exists(g, s)
         /\ Door!IsOpen(g, s) <=> Records!IsOpen(g, s)
<1>0. Door!RecordStates = Records!RecordStates /\ Door!NoRecord = Records!NoRecord
  BY DEF Door!RecordStates, Records!RecordStates, Door!NoRecord, Records!NoRecord
<1>1. Door!TRANSITIONS = Records!TRANSITIONS
  BY <1>0 DEF Door!TRANSITIONS, Records!TRANSITIONS
<1>2. \A h, t, to : Door!Allowed(h, t, to) <=> Records!Allowed(h, t, to)
  BY <1>1 DEF Door!Allowed, Records!Allowed
<1>3. \A h, d : Door!Detachable(h, d) <=> Records!Detachable(h, d)
  BY <1>2 DEF Door!Detachable, Records!Detachable
<1>4. Door!Create(g, s) = Records!Create(g, s)
  BY DEF Door!Create, Records!Create
<1>5. Door!Close(g, s) = Records!Close(g, s)
  BY <1>2 DEF Door!Close, Records!Close
<1>6. Door!Attach(g, s, c) = Records!Attach(g, s, c)
  BY <1>2 DEF Door!Attach, Records!Attach
<1>7. Door!MarkConnected(g, s, c) = Records!MarkConnected(g, s, c)
  BY <1>2 DEF Door!MarkConnected, Records!MarkConnected
<1>8. Door!MarkDisconnected(g, cs) = Records!MarkDisconnected(g, cs)
  BY <1>3 DEF Door!MarkDisconnected, Records!MarkDisconnected
<1>9. Door!SweepDue(g, cs) = Records!SweepDue(g, cs)
  <2>1. Door!Purged(g, cs) = Records!Purged(g, cs)
    BY DEF Door!Purged, Records!Purged
  <2>2. \A st : Door!Expired(st) = Records!Expired(st)
    BY DEF Door!Expired, Records!Expired
  <2>3. QED BY <2>1, <2>2 DEF Door!SweepDue, Records!SweepDue
<1>10. /\ Door!Exists(g, s) <=> Records!Exists(g, s)
       /\ Door!IsOpen(g, s) <=> Records!IsOpen(g, s)
  BY <1>0 DEF Door!Exists, Records!Exists, Door!IsOpen, Records!IsOpen
<1>11. QED BY <1>4, <1>5, <1>6, <1>7, <1>8, <1>9, <1>10

LEMMA SameDoor ==
  /\ Door!Init <=> Records!Init
  /\ [Door!Next]_door <=> [Records!Next]_(Records!vars)
<1>1. Door!Init <=> Records!Init
  BY DEF Door!Init, Records!Init, Door!EmptyRegistry, Records!EmptyRegistry
<1>2. /\ Door!LiveHalves = Records!LiveHalves
      /\ Door!LivePhases = Records!LivePhases
      /\ \A c : Door!Live(c) <=> Records!Live(c)
      /\ \A cs : Door!Terminated(cs) = Records!Terminated(cs)
      /\ \A s : Door!Named(s) = Records!Named(s)
      /\ \A s : Door!BrowserMayConnect(s) /\ Records!BrowserMayConnect(s)
      /\ \A c, m : Door!Admitted(c, m) <=> Records!Admitted(c, m)
  BY SameRegistry
     DEF Door!LiveHalves, Records!LiveHalves, Door!LivePhases, Records!LivePhases,
         Door!Live, Records!Live, Door!Terminated, Records!Terminated,
         Door!Named, Records!Named, Door!BrowserMayConnect, Records!BrowserMayConnect,
         Door!Admitted, Records!Admitted
<1>3. \A s : /\ Door!CreateSession(s) <=> Records!CreateSession(s)
             /\ Door!DeleteSession(s) <=> Records!DeleteSession(s)
  BY <1>2, SameRegistry
     DEF Door!CreateSession, Records!CreateSession, Door!DeleteSession, Records!DeleteSession
<1>4. \A c, s : Door!Upgrade(c, s) <=> Records!Upgrade(c, s)
  BY <1>2, SameRegistry
     DEF Door!Upgrade, Records!Upgrade, Door!Cardinality, Records!Cardinality
<1>5. \A c : /\ Door!AuthRequest(c) <=> Records!AuthRequest(c)
             /\ Door!AuthFail(c) <=> Records!AuthFail(c)
             /\ Door!SocketClose(c) <=> Records!SocketClose(c)
  BY <1>2, SameRegistry
     DEF Door!AuthRequest, Records!AuthRequest, Door!AuthFail, Records!AuthFail,
         Door!SocketClose, Records!SocketClose
<1>6. \A c, m, r : Door!AuthOk(c, m, r) <=> Records!AuthOk(c, m, r)
  BY <1>2, SameRegistry DEF Door!AuthOk, Records!AuthOk
<1>7. /\ \A cs : Door!Terminate(cs) <=> Records!Terminate(cs)
      /\ \A c : Door!AuthTimeout(c) <=> Records!AuthTimeout(c)
      /\ \A due : Door!Sweep(due) <=> Records!Sweep(due)
      /\ Door!Shutdown <=> Records!Shutdown
  BY <1>2, SameRegistry
     DEF Door!Terminate, Records!Terminate, Door!AuthTimeout, Records!AuthTimeout,
         Door!Sweep, Records!Sweep, Door!Shutdown, Records!Shutdown
<1>8. Door!Next <=> Records!Next
  BY <1>3, <1>4, <1>5, <1>6, <1>7 DEF Door!Next, Records!Next
<1>9. QED BY <1>1, <1>8 DEF door, Records!vars

LEMMA DoorInitOk == Door!Init => DoorInv
<1>1. Records!Init => Records!Owned
  BY DeviceAssumption DEF Records!Init, Records!Owned, Records!EmptyRegistry
<1>2. QED BY <1>1, SameDoor, Records!InitInv, DeviceAssumption DEF DoorInv

LEMMA DoorKept ==
  ASSUME DoorInv, [Door!Next]_door
  PROVE  DoorInv'
<1>1. [Records!Next]_(Records!vars)
  BY SameDoor
<1>2. Records!IInv' /\ Records!Owned'
  BY <1>1, Records!NextInv, DeviceAssumption DEF DoorInv
<1>3. QED BY <1>2 DEF DoorInv
----------------------------------------------------------------------------
\* What the door's own invariant lacks: of a session that never had two sockets at
\* a time, no more than one socket has not ended, and the record and the map name
\* its half for as long as that half is live.
Unused == \A c \in Halves : phase[c] = "unused" => session[c] = NoSession

AtATime ==
  \A s \in Sessions \ shared : \A c, d \in Halves :
    session[c] = s /\ session[d] = s /\ phase[c] # "gone" /\ phase[d] # "gone" => c = d

RecordNames(g, s, c) ==
  g.conn[s] = c /\ g.state[s] \in {"connecting", "connected"} /\ g.map[c] = s

Alone ==
  \A s \in Sessions \ shared : \A c \in Halves :
    session[c] = s /\ Door!Live(c) => RecordNames(gui, s, c)

DoorPart == DoorInv /\ Unused /\ AtATime /\ Alone

LEMMA DoorFacts ==
  ASSUME DoorInv
  PROVE  /\ Door!TypeOK
         /\ \A s \in Sessions : gui.state[s] \in {"connecting", "connected"} =>
              \E c \in Halves : session[c] = s /\ Door!Live(c)
         /\ \A c \in Halves : gui.map[c] # NoSession => session[c] = gui.map[c]
         /\ \A s \in Sessions : gui.conn[s] \in Halves => session[gui.conn[s]] = s
<1>1. Door!TypeOK
  BY DEF DoorInv, Records!IInv, Records!TypeOK, Door!TypeOK, Records!Registry, Door!Registry,
         Records!RecordStates, Door!RecordStates, Records!NoRecord, Door!NoRecord,
         Records!LivePhases, Door!LivePhases
<1>2. \A s \in Sessions : gui.state[s] \in {"connecting", "connected"} =>
        \E c \in Halves : session[c] = s /\ Door!Live(c)
  BY DEF DoorInv, Records!IInv, Records!Consistent, Records!MappedIsLive, Records!Attached,
         Records!HalvesOf, Records!Live, Records!LivePhases, Door!Live, Door!LivePhases
<1>3. \A c \in Halves : gui.map[c] # NoSession => session[c] = gui.map[c]
  BY DEF DoorInv, Records!IInv, Records!Consistent, Records!FreshIds
<1>4. \A s \in Sessions : gui.conn[s] \in Halves => session[gui.conn[s]] = s
  BY DEF DoorInv, Records!Owned
<1>5. QED BY <1>1, <1>2, <1>3, <1>4

\* The steps in which no half is new.
LEMMA Narrows ==
  ASSUME DoorPart, [Door!Next]_door, UNCHANGED <<session, shared>>,
         \A c \in Halves :
           /\ phase'[c] = "unused" => phase[c] = "unused"
           /\ phase'[c] # "gone" => phase[c] # "gone"
           /\ Door!Live(c)' => Door!Live(c),
         \A s \in Sessions \ shared : \A c \in Halves :
           session[c] = s /\ Door!Live(c)' /\ RecordNames(gui, s, c) => RecordNames(gui', s, c)
  PROVE  DoorPart'
<1>1. DoorInv'
  BY DoorKept DEF DoorPart
<1>2. Unused' /\ AtATime'
  BY DEF DoorPart, Unused, AtATime
<1>3. Alone'
  BY DEF DoorPart, Alone
<1>4. QED BY <1>1, <1>2, <1>3 DEF DoorPart

\* Halves that end do not disturb the record of another session.
LEMMA Spared ==
  ASSUME DoorPart, NEW cs \in SUBSET Halves, NEW s \in Sessions \ shared, NEW c \in Halves,
         session[c] = s, Door!Live(c), c \notin cs, \A d \in cs : Door!Live(d)
  PROVE  RecordNames(Door!MarkDisconnected(gui, cs), s, c)
<1>1. RecordNames(gui, s, c)
  BY DEF DoorPart, Alone
<1>2. \A d \in cs : gui.map[d] # s
  <2> SUFFICES ASSUME NEW d \in cs, gui.map[d] = s PROVE FALSE
    OBVIOUS
  <2>1. session[d] = s
    BY DoorFacts, DeviceAssumption DEF DoorPart
  <2>2. phase[c] # "gone" /\ phase[d] # "gone"
    BY DEF Door!Live, Door!LivePhases
  <2>3. QED BY <2>1, <2>2 DEF DoorPart, AtATime
<1>3. gui \in Door!Registry
  BY DoorFacts DEF DoorPart, Door!TypeOK
<1>4. QED
  BY <1>1, <1>2, <1>3 DEF RecordNames, Door!MarkDisconnected, Door!Registry

LEMMA PartQuiet ==
  ASSUME DoorPart, UNCHANGED <<door, shared>>
  PROVE  DoorPart'
<1>1. UNCHANGED <<gui, phase, session>>
  BY DEF door
<1>2. \A c : Door!Live(c)' <=> Door!Live(c)
  BY <1>1 DEF Door!Live
<1>3. QED BY <1>1, <1>2, Narrows

LEMMA PartCreate ==
  ASSUME DoorPart, NEW s \in Sessions, Door!CreateSession(s), UNCHANGED shared
  PROVE  DoorPart'
<1>1. gui \in Door!Registry
  BY DoorFacts DEF DoorPart, Door!TypeOK
<1>2. UNCHANGED <<phase, session>> /\ gui.state[s] = "unused" /\ gui' = Door!Create(gui, s)
  BY DEF Door!CreateSession
<1>3. \A t \in Sessions : \A c : RecordNames(gui, t, c) => RecordNames(gui', t, c)
  BY <1>1, <1>2 DEF RecordNames, Door!Create, Door!Registry
<1>4. \A c : Door!Live(c)' <=> Door!Live(c)
  BY <1>2 DEF Door!Live
<1>5. Door!Next
  BY DEF Door!Next
<1>6. QED BY <1>2, <1>3, <1>4, <1>5, Narrows

LEMMA PartVerify ==
  ASSUME DoorPart, NEW c \in Halves, Door!AuthRequest(c) \/ Door!AuthFail(c), UNCHANGED shared
  PROVE  DoorPart'
<1>1. phase \in [Halves -> Door!LivePhases \cup {"unused", "closing", "gone"}]
  BY DoorFacts DEF DoorPart, Door!TypeOK
<1>2. /\ UNCHANGED <<gui, session>>
      /\ phase[c] \in {"open", "verifying"}
      /\ \E p \in {"open", "verifying"} : phase' = [phase EXCEPT ![c] = p]
  BY DEF Door!AuthRequest, Door!AuthFail
<1>3. \A d \in Halves : /\ Door!Live(d)' <=> Door!Live(d)
                        /\ phase'[d] = "unused" => phase[d] = "unused"
                        /\ phase'[d] # "gone" => phase[d] # "gone"
  BY <1>1, <1>2 DEF Door!Live, Door!LivePhases
<1>4. Door!Next
  BY DEF Door!Next
<1>5. QED BY <1>2, <1>3, <1>4, Narrows

\* A new half is attached to the record, when it is the only one of its session.
LEMMA PartUpgrade ==
  ASSUME DoorPart, NEW c \in Halves, NEW s \in Sessions, Door!Upgrade(c, s),
         shared' = IF \A d \in Door!HalvesOf(s) : phase[d] = "gone" THEN shared
                   ELSE shared \cup {s}
  PROVE  DoorPart'
<1>1. /\ gui \in Door!Registry
      /\ phase \in [Halves -> Door!LivePhases \cup {"unused", "closing", "gone"}]
      /\ session \in [Halves -> Sessions \cup {NoSession}]
  BY DoorFacts DEF DoorPart, Door!TypeOK
<1>2. /\ phase[c] = "unused" /\ Door!IsOpen(gui, s)
      /\ phase' = [phase EXCEPT ![c] = "open"]
      /\ session' = [session EXCEPT ![c] = s]
      /\ gui' = Door!Attach(gui, s, c)
  BY DEF Door!Upgrade
<1>3. Door!Next
  BY DEF Door!Next
<1>4. DoorInv'
  BY <1>3, DoorKept DEF DoorPart
<1>5. Unused'
  BY <1>1, <1>2 DEF DoorPart, Unused
<1>6. \A t \in Sessions \ shared' :
        /\ t \notin shared
        /\ t = s => \A d \in Halves : session[d] = s => phase[d] = "gone"
  BY DEF Door!HalvesOf
<1>7. AtATime'
  BY <1>1, <1>2, <1>6 DEF DoorPart, AtATime
<1>8. ASSUME NEW t \in Sessions \ shared', NEW d \in Halves, session'[d] = t, Door!Live(d)'
      PROVE  RecordNames(gui', t, d)
  <2>1. CASE t = s
    <3>1. d = c
      BY <1>1, <1>2, <1>6, <1>8, <2>1 DEF Door!Live, Door!LivePhases
    <3>2. gui.state[s] \notin {"connecting", "connected"}
      BY <1>6, <2>1, DoorFacts DEF DoorPart, Door!Live, Door!LivePhases
    <3>3. Door!Allowed(gui, s, "connecting")
      BY <1>1, <1>2, <3>2 DEF Door!IsOpen, Door!Exists, Door!Allowed, Door!TRANSITIONS,
         Door!RecordStates, Door!NoRecord, Door!Registry
    <3>4. QED BY <1>1, <1>2, <2>1, <3>1, <3>3 DEF RecordNames, Door!Attach, Door!Registry
  <2>2. CASE t # s
    <3>1. d # c /\ session[d] = t /\ Door!Live(d)
      BY <1>1, <1>2, <1>8, <2>2 DEF Door!Live
    <3>2. RecordNames(gui, t, d)
      BY <3>1, <1>6 DEF DoorPart, Alone
    <3>3. QED BY <1>1, <1>2, <2>2, <3>1, <3>2 DEF RecordNames, Door!Attach, Door!Registry
  <2>3. QED BY <2>1, <2>2
<1>9. Alone'
  BY <1>8 DEF Alone
<1>10. QED BY <1>4, <1>5, <1>7, <1>9 DEF DoorPart

\* Halves cs end, or are about to.
LEMMA PartTerminate ==
  ASSUME DoorPart, NEW cs, Door!Terminate(cs), UNCHANGED shared
  PROVE  DoorPart'
<1>1. phase \in [Halves -> Door!LivePhases \cup {"unused", "closing", "gone"}]
  BY DoorFacts DEF DoorPart, Door!TypeOK
<1>2. /\ cs \subseteq Halves /\ \A d \in cs : Door!Live(d)
      /\ gui' = Door!MarkDisconnected(gui, cs)
      /\ phase' = [c \in Halves |-> IF c \in cs THEN "closing" ELSE phase[c]]
      /\ UNCHANGED session
  BY DEF Door!Terminate, Door!Terminated, Door!LiveHalves
<1>3. \A c \in Halves : /\ Door!Live(c)' => Door!Live(c) /\ c \notin cs
                        /\ phase'[c] = "unused" => phase[c] = "unused"
                        /\ phase'[c] # "gone" => phase[c] # "gone"
  BY <1>1, <1>2 DEF Door!Live, Door!LivePhases
<1>4. Door!Next
  BY <1>2 DEF Door!Next
<1>5. QED BY <1>2, <1>3, <1>4, Narrows, Spared

LEMMA PartSocketClose ==
  ASSUME DoorPart, NEW c \in Halves, Door!SocketClose(c), UNCHANGED shared
  PROVE  DoorPart'
<1>1. phase \in [Halves -> Door!LivePhases \cup {"unused", "closing", "gone"}]
  BY DoorFacts DEF DoorPart, Door!TypeOK
<1>2. /\ gui' = IF Door!Live(c) THEN Door!MarkDisconnected(gui, {c}) ELSE gui
      /\ phase' = [phase EXCEPT ![c] = "gone"]
      /\ UNCHANGED session
  BY DEF Door!SocketClose
<1>3. \A d \in Halves : /\ Door!Live(d)' => Door!Live(d) /\ d \notin {c}
                        /\ phase'[d] = "unused" => phase[d] = "unused"
                        /\ phase'[d] # "gone" => phase[d] # "gone"
  BY <1>1, <1>2 DEF Door!Live, Door!LivePhases
<1>4. Door!Next
  BY DEF Door!Next
<1>5. \A s \in Sessions \ shared : \A d \in Halves :
        session[d] = s /\ Door!Live(d)' /\ RecordNames(gui, s, d) => RecordNames(gui', s, d)
  <2>1. CASE Door!Live(c)
    BY <1>2, <1>3, <2>1, Spared
  <2>2. CASE ~Door!Live(c)
    BY <1>2, <2>2
  <2>3. QED BY <2>1, <2>2
<1>6. QED BY <1>2, <1>3, <1>4, <1>5, Narrows

LEMMA PartShutdown ==
  ASSUME DoorPart, Door!Shutdown, UNCHANGED shared
  PROVE  DoorPart' /\ \A c \in Halves : ~Door!Live(c)'
<1>1. phase \in [Halves -> Door!LivePhases \cup {"unused", "closing", "gone"}]
  BY DoorFacts DEF DoorPart, Door!TypeOK
<1>2. /\ phase' = [c \in Halves |-> IF Door!Live(c) THEN "closing" ELSE phase[c]]
      /\ UNCHANGED session
  BY DEF Door!Shutdown, Door!Terminated, Door!LiveHalves
<1>3. \A c \in Halves : /\ ~Door!Live(c)'
                        /\ phase'[c] = "unused" => phase[c] = "unused"
                        /\ phase'[c] # "gone" => phase[c] # "gone"
  BY <1>1, <1>2 DEF Door!Live, Door!LivePhases
<1>4. Door!Next
  BY DEF Door!Next
<1>5. QED BY <1>2, <1>3, <1>4, Narrows

\* The sweep leaves records in use alone.
LEMMA PartSweep ==
  ASSUME DoorPart, NEW due \in SUBSET Sessions, Door!Sweep(due), UNCHANGED shared
  PROVE  DoorPart'
<1>1. /\ gui \in Door!Registry
      /\ \A t \in Sessions : gui.conn[t] \in Halves => session[gui.conn[t]] = t
  BY DoorFacts DEF DoorPart, Door!TypeOK
<1>2. /\ UNCHANGED <<phase, session>> /\ gui' = Door!SweepDue(gui, due)
      /\ \A s \in due : gui.state[s] \in {"creating", "disconnected", "closed"}
  BY DEF Door!Sweep
<1>3. \A c : Door!Live(c)' <=> Door!Live(c)
  BY <1>2 DEF Door!Live
<1>4. ASSUME NEW s \in Sessions \ shared, NEW c \in Halves, session[c] = s,
             RecordNames(gui, s, c)
      PROVE  RecordNames(gui', s, c)
  <2>1. s \notin due
    BY <1>2, <1>4 DEF RecordNames
  <2>2. \A t \in Door!Purged(gui, due) : t \in due /\ gui.conn[t] # c
    BY <1>1, <1>4, <2>1 DEF Door!Purged
  <2>3. /\ Door!SweepDue(gui, due).state[s] = gui.state[s]
        /\ Door!SweepDue(gui, due).conn[s] = gui.conn[s]
        /\ Door!SweepDue(gui, due).map[c] = gui.map[c]
    BY <2>1, <2>2 DEF Door!SweepDue
  <2>4. QED BY <1>2, <1>4, <2>3 DEF RecordNames
<1>5. Door!Next
  BY DEF Door!Next
<1>6. QED BY <1>2, <1>3, <1>4, <1>5, Narrows

\* Deleting a session ends its half, for the record names it.
LEMMA PartDelete ==
  ASSUME DoorPart, NEW s \in Sessions, Door!DeleteSession(s), UNCHANGED shared
  PROVE  /\ DoorPart'
         /\ s \notin shared => \A c \in Halves : session[c] = s => ~Door!Live(c)'
<1>1. phase \in [Halves -> Door!LivePhases \cup {"unused", "closing", "gone"}]
  BY DoorFacts DEF DoorPart, Door!TypeOK
<1> DEFINE cs == Door!Named(s)
           g  == Door!MarkDisconnected(gui, cs)
<1>2. /\ cs \subseteq Halves
      /\ \A c \in Halves : c \in cs <=> Door!Live(c) /\ gui.conn[s] = c
  BY DEF Door!Named, Door!LiveHalves
<1>3. /\ gui' = Door!Close(g, s)
      /\ phase' = [c \in Halves |-> IF c \in cs THEN "closing" ELSE phase[c]]
      /\ UNCHANGED session
  BY DEF Door!DeleteSession, Door!Terminated
<1> HIDE DEF cs
<1>4. \A c \in Halves : /\ Door!Live(c)' => Door!Live(c) /\ c \notin cs
                        /\ phase'[c] = "unused" => phase[c] = "unused"
                        /\ phase'[c] # "gone" => phase[c] # "gone"
  BY <1>1, <1>2, <1>3 DEF Door!Live, Door!LivePhases
<1>5. s \notin shared => \A c \in Halves : session[c] = s => ~Door!Live(c)'
  BY <1>2, <1>4 DEF DoorPart, Alone, RecordNames
<1>6. ASSUME NEW t \in Sessions \ shared, NEW c \in Halves, session[c] = t, Door!Live(c)'
      PROVE  RecordNames(gui', t, c)
  <2>1. t # s
    BY <1>5, <1>6
  <2>2. RecordNames(g, t, c)
    BY <1>2, <1>4, <1>6, Spared
  <2>3. g \in Door!Registry
    <3>1. gui \in Door!Registry
      BY DoorFacts DEF DoorPart, Door!TypeOK
    <3>2. QED BY <3>1 DEF Door!MarkDisconnected, Door!Registry, Door!RecordStates, Door!NoRecord
  <2> HIDE DEF g
  <2>4. QED BY <1>3, <2>1, <2>2, <2>3 DEF RecordNames, Door!Close, Door!Registry
<1>7. Door!Next
  BY DEF Door!Next
<1>8. QED BY <1>3, <1>4, <1>5, <1>6, <1>7, Narrows

\* The record of an authenticated half names it already.
LEMMA PartAuthOk ==
  ASSUME DoorPart, NEW c \in Halves, NEW m \in BOOLEAN, NEW r \in BOOLEAN,
         Door!AuthOk(c, m, r), UNCHANGED shared
  PROVE  DoorPart'
<1> DEFINE s == session[c]
           linked == IF s \in Sessions /\ Door!Admitted(c, m)
                     THEN Door!MarkConnected(gui, s, c) ELSE gui
<1>1. /\ gui \in Door!Registry
      /\ phase \in [Halves -> Door!LivePhases \cup {"unused", "closing", "gone"}]
      /\ gui.map[c] # NoSession => s = gui.map[c]
  BY DoorFacts DEF DoorPart, Door!TypeOK
<1>2. /\ phase[c] = "verifying" /\ UNCHANGED session
      /\ \/ gui' = linked /\ phase' = [phase EXCEPT ![c] = "ready"]
         \/ /\ gui' = Door!MarkDisconnected(linked, {c})
            /\ phase' = [d \in Halves |-> IF d \in {c} THEN "closing" ELSE phase[d]]
  BY DEF Door!AuthOk, Door!Terminated
<1>3. linked \in Door!Registry /\ linked.map = gui.map
  <2>1. s \in Sessions => LET g == Door!MarkConnected(gui, s, c)
                          IN  g \in Door!Registry /\ g.map = gui.map
    BY <1>1 DEF Door!MarkConnected, Door!Registry, Door!RecordStates, Door!NoRecord
  <2>2. QED BY <1>1, <2>1
<1>4. \A t \in Sessions, d \in Halves :
        RecordNames(gui, t, d) /\ (t = s => d = c) => RecordNames(linked, t, d)
  <2>1. \A t \in Sessions, d \in Halves :
          s \in Sessions /\ RecordNames(gui, t, d) /\ (t = s => d = c)
            => RecordNames(Door!MarkConnected(gui, s, c), t, d)
    BY <1>1 DEF Door!MarkConnected, Door!Registry, RecordNames
  <2>2. QED BY <2>1
<1> HIDE DEF linked
<1>5. \A d \in Halves : /\ Door!Live(d)' => Door!Live(d)
                        /\ phase'[d] = "unused" => phase[d] = "unused"
                        /\ phase'[d] # "gone" => phase[d] # "gone"
  BY <1>1, <1>2 DEF Door!Live, Door!LivePhases
<1>6. ASSUME NEW t \in Sessions \ shared, NEW d \in Halves, session[d] = t, Door!Live(d)',
             RecordNames(gui, t, d)
      PROVE  RecordNames(gui', t, d)
  <2>1. t = s => d = c
    BY <1>1, <1>2, <1>5, <1>6 DEF DoorPart, AtATime, Door!Live, Door!LivePhases
  <2>2. RecordNames(linked, t, d)
    BY <1>4, <1>6, <2>1
  <2>3. CASE gui' = linked
    BY <2>2, <2>3
  <2>4. CASE gui' = Door!MarkDisconnected(linked, {c}) /\ phase'[c] = "closing"
    <3>1. d # c
      BY <1>6, <2>4 DEF Door!Live, Door!LivePhases
    <3>2. gui.map[c] # t
      BY <1>1, <2>1, <3>1, DeviceAssumption
    <3>3. QED
      BY <1>3, <2>2, <2>4, <3>1, <3>2 DEF RecordNames, Door!MarkDisconnected, Door!Registry
  <2>5. QED BY <1>2, <2>3, <2>4
<1>7. Door!Next
  BY DEF Door!Next
<1>8. QED BY <1>2, <1>5, <1>6, <1>7, Narrows

LEMMA PartEnded ==
  ASSUME DoorPart, NEW cs \in SUBSET Halves, EndHalves(cs), UNCHANGED shared
  PROVE  /\ DoorPart' /\ UNCHANGED session
         /\ \A c \in Halves :
              phase'[c] = IF c \in cs /\ Door!Live(c) THEN "closing" ELSE phase[c]
<1>1. /\ phase \in [Halves -> Door!LivePhases \cup {"unused", "closing", "gone"}]
      /\ \A c \in Halves : c \in Door!LiveHalves <=> Door!Live(c)
  BY DoorFacts DEF DoorPart, Door!TypeOK, Door!LiveHalves
<1>2. CASE cs \cap Door!LiveHalves = {}
  <2>1. UNCHANGED door
    BY <1>2 DEF EndHalves
  <2>2. UNCHANGED <<phase, session>>
    BY <2>1 DEF door
  <2>3. \A c \in Halves : c \in cs => ~Door!Live(c)
    BY <1>1, <1>2
  <2>4. QED BY <1>1, <2>1, <2>2, <2>3, PartQuiet
<1>3. CASE cs \cap Door!LiveHalves # {}
  <2> DEFINE ended == cs \cap Door!LiveHalves
  <2>1. Door!Terminate(ended)
    BY <1>3 DEF EndHalves
  <2>2. /\ phase' = [c \in Halves |-> IF c \in ended THEN "closing" ELSE phase[c]]
        /\ UNCHANGED session
    BY <2>1 DEF Door!Terminate, Door!Terminated
  <2>3. DoorPart'
    BY <2>1, PartTerminate
  <2>4. QED BY <1>1, <2>2, <2>3
<1>4. QED BY <1>2, <1>3

----------------------------------------------------------------------------
\* What is on the wire to the agent.
LEMMA LastOfNone ==
  ASSUME NEW s
  PROVE  LastRequest(<<>>, s) = {}
BY DEF LastRequest

LEMMA LastOfAppend ==
  ASSUME NEW down \in Seq(Requests), NEW e \in Requests, NEW s
  PROVE  LastRequest(Append(down, e), s) = IF e.session = s THEN {e} ELSE LastRequest(down, s)
<1> DEFINE d == Append(down, e)
<1>1. /\ DOMAIN down = 1 .. Len(down) /\ Len(down) \in Nat
      /\ DOMAIN d = 1 .. (Len(down) + 1)
      /\ d[Len(down) + 1] = e
      /\ \A i \in DOMAIN down : d[i] = down[i]
  OBVIOUS
<1> HIDE DEF d
<1>2. CASE e.session = s
  BY <1>1, <1>2 DEF LastRequest
<1>3. CASE e.session # s
  BY <1>1, <1>3 DEF LastRequest
<1>4. QED BY <1>2, <1>3 DEF d

LEMMA LeastElement ==
  ASSUME NEW T, T \subseteq Nat, T # {}
  PROVE  \E x \in T : \A y \in T : x <= y
<1>1. PICK x \in T : \A y \in T : <<y, x>> \notin OpToRel(<, Nat)
  BY NatLessThanWellFounded, WFMin
<1>2. ASSUME NEW y \in T PROVE x <= y
  <2>1. x \in Nat /\ y \in Nat
    OBVIOUS
  <2>2. <<y, x>> \in OpToRel(<, Nat) <=> y < x
    BY <2>1 DEF OpToRel
  <2>3. ~(y < x)
    BY <1>1, <2>2, Zenon
  <2>4. QED BY <2>1, <2>3
<1>3. QED BY <1>2

\* A session for which something is asked has a last request.
LEMMA LastOfSome ==
  ASSUME NEW down \in Seq(Requests), NEW s, NEW i \in DOMAIN down, down[i].session = s
  PROVE  LastRequest(down, s) # {}
<1> DEFINE n == Len(down)
           T == {k \in Nat : n - k \in DOMAIN down /\ down[n - k].session = s}
<1>1. DOMAIN down = 1 .. n /\ n \in Nat
  OBVIOUS
<1> HIDE DEF n
<1>2. n - i \in T
  <2>1. n - i \in Nat /\ n - (n - i) = i
    BY <1>1
  <2>2. QED BY <2>1
<1>3. PICK k \in T : \A m \in T : k <= m
  BY <1>2, LeastElement
<1>4. n - k \in DOMAIN down /\ down[n - k].session = s /\ k \in Nat
  BY <1>3
<1>5. ASSUME NEW j \in DOMAIN down, j > n - k
      PROVE  down[j].session # s
  <2>1. n - j \in Nat /\ n - (n - j) = j /\ ~(k <= n - j)
    BY <1>1, <1>4, <1>5
  <2>2. n - j \notin T
    BY <1>3, <2>1
  <2>3. QED BY <1>5, <2>1, <2>2
<1>6. QED BY <1>4, <1>5 DEF LastRequest

LEMMA LastOfTail ==
  ASSUME NEW down \in Seq(Requests), down # <<>>, NEW s
  PROVE  /\ Head(down).session # s => LastRequest(Tail(down), s) = LastRequest(down, s)
         /\ Head(down).session = s =>
              \/ /\ LastRequest(Tail(down), s) = LastRequest(down, s)
                 /\ LastRequest(down, s) # {}
              \/ LastRequest(Tail(down), s) = {} /\ LastRequest(down, s) = {Head(down)}
<1> DEFINE d == Tail(down)
<1>1. /\ DOMAIN down = 1 .. Len(down) /\ Len(down) \in Nat \ {0}
      /\ DOMAIN d = 1 .. (Len(down) - 1)
      /\ Head(down) = down[1]
      /\ \A i \in DOMAIN d : i + 1 \in DOMAIN down /\ d[i] = down[i + 1]
      /\ \A i \in DOMAIN down : i # 1 => i - 1 \in DOMAIN d /\ d[i - 1] = down[i]
  OBVIOUS
<1> HIDE DEF d
<1> DEFINE Latest(q, i) == q[i].session = s /\ \A j \in DOMAIN q : j > i => q[j].session # s
<1>2. /\ \A i \in DOMAIN d : Latest(d, i) <=> Latest(down, i + 1)
      /\ \A i \in DOMAIN down : i # 1 => (Latest(down, i) <=> Latest(d, i - 1))
  <2>1. ASSUME NEW i \in DOMAIN d PROVE Latest(d, i) <=> Latest(down, i + 1)
    <3>1. ASSUME Latest(d, i), NEW j \in DOMAIN down, j > i + 1
          PROVE  down[j].session # s
      <4>1. j - 1 \in DOMAIN d /\ j - 1 > i /\ d[j - 1] = down[j]
        BY <1>1, <3>1
      <4>2. QED BY <3>1, <4>1
    <3>2. ASSUME Latest(down, i + 1), NEW j \in DOMAIN d, j > i
          PROVE  d[j].session # s
      <4>1. j + 1 \in DOMAIN down /\ j + 1 > i + 1 /\ d[j] = down[j + 1]
        BY <1>1, <3>2
      <4>2. QED BY <3>2, <4>1
    <3>3. d[i] = down[i + 1]
      BY <1>1
    <3>4. QED BY <3>1, <3>2, <3>3
  <2>2. ASSUME NEW i \in DOMAIN down, i # 1 PROVE Latest(down, i) <=> Latest(d, i - 1)
    <3>1. i - 1 \in DOMAIN d /\ (i - 1) + 1 = i
      BY <1>1, <2>2
    <3>2. Latest(d, i - 1) <=> Latest(down, (i - 1) + 1)
      BY <2>1, <3>1
    <3>3. QED BY <3>1, <3>2
  <2>3. QED BY <2>1, <2>2
<1>3. LastRequest(d, s) = {d[i] : i \in {i \in DOMAIN d : Latest(d, i)}}
  BY DEF LastRequest
<1>4. LastRequest(down, s) = {down[i] : i \in {i \in DOMAIN down : Latest(down, i)}}
  BY DEF LastRequest
<1>5. Latest(down, 1) <=> Head(down).session = s /\ \A j \in DOMAIN d : d[j].session # s
  <2>1. \A j \in DOMAIN down : j > 1 <=> j # 1
    BY <1>1
  <2>2. (\A j \in DOMAIN down : j > 1 => down[j].session # s)
          <=> \A j \in DOMAIN d : d[j].session # s
    <3>1. ASSUME NEW j \in DOMAIN d, \A k \in DOMAIN down : k > 1 => down[k].session # s
          PROVE  d[j].session # s
      <4>1. j + 1 > 1 /\ j + 1 \in DOMAIN down /\ d[j] = down[j + 1]
        BY <1>1
      <4>2. QED BY <3>1, <4>1
    <3>2. ASSUME NEW j \in DOMAIN down, j > 1, \A k \in DOMAIN d : d[k].session # s
          PROVE  down[j].session # s
      BY <1>1, <2>1, <3>2
    <3>3. QED BY <3>1, <3>2
  <2>3. QED BY <1>1, <2>2
<1> HIDE DEF Latest
<1>6. LastRequest(d, s) \subseteq LastRequest(down, s)
  BY <1>1, <1>2, <1>3, <1>4
<1>7. ~Latest(down, 1) => LastRequest(down, s) \subseteq LastRequest(d, s)
  BY <1>1, <1>2, <1>3, <1>4
<1>8. Latest(down, 1) => LastRequest(d, s) = {} /\ LastRequest(down, s) = {Head(down)}
  <2> SUFFICES ASSUME Latest(down, 1)
               PROVE  LastRequest(d, s) = {} /\ LastRequest(down, s) = {Head(down)}
    OBVIOUS
  <2>1. \A i \in DOMAIN d : ~Latest(d, i)
    BY <1>5 DEF Latest
  <2>2. \A i \in DOMAIN down : Latest(down, i) <=> i = 1
    BY <1>1, <1>2, <2>1
  <2>3. 1 \in DOMAIN down
    BY <1>1
  <2>4. QED BY <1>1, <1>3, <1>4, <2>1, <2>2, <2>3
<1>9. Head(down).session = s => LastRequest(down, s) # {}
  BY <1>1, LastOfSome
<1>10. CASE Latest(down, 1)
  BY <1>5, <1>8, <1>10 DEF d
<1>11. CASE ~Latest(down, 1)
  BY <1>6, <1>7, <1>9, <1>11 DEF d
<1>12. QED BY <1>10, <1>11

----------------------------------------------------------------------------
\* Channels, requests and terminals.
Muxes == [channels : [Sessions -> Halves \cup {NoHalf}], down : Seq(Requests),
          unheard : SUBSET Sessions, stray : SUBSET Sessions]

\* TerminalBehindChannel for one session: a link m that the agent has or has not,
\* a terminal that runs or not, and an end that is reported or not.
Behind(m, s, heard, runs, told) ==
  /\ m.channels[s] # NoHalf /\ heard /\ s \notin m.unheard =>
       IF LastRequest(m.down, s) = {} THEN runs \/ told
       ELSE \A msg \in LastRequest(m.down, s) : msg.kind = "open" /\ msg.half = m.channels[s]
  /\ m.channels[s] = NoHalf /\ s \notin m.stray =>
       IF LastRequest(m.down, s) = {} THEN ~runs
       ELSE \A msg \in LastRequest(m.down, s) : msg.kind = "close"

\* Behind a channel on a link that the agent has lost nothing is asked, and a
\* terminal is a stray one.
Cut(m, s, runs) ==
  ~Heard /\ m.channels[s] # NoHalf => LastRequest(m.down, s) = {} /\ (runs => s \in m.stray)

CloseMsg(s) == [kind |-> "close", session |-> s]

LEMMA RemoveIs ==
  ASSUME NEW m \in Muxes, NEW s \in Sessions, NEW busy, NEW r, r = RemoveChannel(m, s, busy)
  PROVE  /\ r \in Muxes
         /\ \A t \in Sessions : r.channels[t] = IF t = s THEN NoHalf ELSE m.channels[t]
         /\ \A t \in Sessions \ {s} : /\ t \in r.unheard <=> t \in m.unheard
                                      /\ t \in r.stray <=> t \in m.stray
         /\ m.channels[s] = NoHalf => r = m
         /\ m.channels[s] # NoHalf =>
              /\ "close" \in busy => r.down = m.down /\ s \in r.stray
              /\ "close" \notin busy =>
                   /\ Heard => r.down = Append(m.down, CloseMsg(s))
                   /\ ~Heard => r.down = m.down /\ (s \in r.stray <=> s \in m.stray)
<1>1. CloseMsg(s) \in Requests
  BY DEF CloseMsg, Requests
<1>2. CASE m.channels[s] = NoHalf
  BY <1>2 DEF RemoveChannel
<1>3. CASE m.channels[s] # NoHalf
  <2>1. /\ r.channels = [m.channels EXCEPT ![s] = NoHalf]
        /\ r.down = IF "close" \in busy THEN m.down ELSE Wire(m.down, CloseMsg(s))
        /\ r.unheard = m.unheard \ {s}
        /\ r.stray = IF "close" \in busy THEN m.stray \cup {s}
                     ELSE IF Heard THEN m.stray \ {s} ELSE m.stray
        /\ r = [channels |-> r.channels, down |-> r.down, unheard |-> r.unheard,
                stray |-> r.stray]
    BY <1>3 DEF RemoveChannel, CloseMsg
  <2>2. /\ m.channels \in [Sessions -> Halves \cup {NoHalf}]
        /\ m.down \in Seq(Requests) /\ m.unheard \subseteq Sessions /\ m.stray \subseteq Sessions
    BY DEF Muxes
  <2>3. r.down \in Seq(Requests)
    BY <1>1, <2>1, <2>2 DEF Wire
  <2>4. r \in Muxes
    <3>1. /\ r.channels \in [Sessions -> Halves \cup {NoHalf}]
          /\ r.unheard \in SUBSET Sessions /\ r.stray \in SUBSET Sessions
      BY <2>1, <2>2
    <3>2. QED BY <2>1, <2>3, <3>1 DEF Muxes
  <2>5. /\ \A t \in Sessions : r.channels[t] = IF t = s THEN NoHalf ELSE m.channels[t]
        /\ \A t \in Sessions \ {s} : /\ t \in r.unheard <=> t \in m.unheard
                                     /\ t \in r.stray <=> t \in m.stray
    BY <2>1, <2>2
  <2>6. QED BY <1>3, <2>1, <2>4, <2>5 DEF Wire
<1>4. QED BY <1>2, <1>3

\* Removing a channel leaves no session worse off.
LEMMA RemoveKeeps ==
  ASSUME NEW m \in Muxes, NEW s \in Sessions, NEW busy, NEW r, r = RemoveChannel(m, s, busy),
         NEW t \in Sessions, NEW runs \in BOOLEAN, NEW told \in BOOLEAN,
         Behind(m, t, Heard, runs, told), Cut(m, t, runs)
  PROVE  /\ Behind(r, t, Heard, runs, told)
         /\ ~Heard => r.down = m.down /\ m.stray \subseteq r.stray
<1>1. /\ \A u \in Sessions : r.channels[u] = IF u = s THEN NoHalf ELSE m.channels[u]
      /\ \A u \in Sessions \ {s} : /\ u \in r.unheard <=> u \in m.unheard
                                   /\ u \in r.stray <=> u \in m.stray
      /\ m.channels[s] = NoHalf => r = m
      /\ m.channels[s] # NoHalf =>
           /\ "close" \in busy => r.down = m.down /\ s \in r.stray
           /\ "close" \notin busy =>
                /\ Heard => r.down = Append(m.down, CloseMsg(s))
                /\ ~Heard => r.down = m.down /\ (s \in r.stray <=> s \in m.stray)
  BY RemoveIs
<1>2. ~Heard => r.down = m.down /\ m.stray \subseteq r.stray
  BY <1>1 DEF Muxes
<1>3. CASE m.channels[s] = NoHalf
  BY <1>1, <1>2, <1>3
<1>4. CASE m.channels[s] # NoHalf
  <2>1. /\ r.down = m.down \/ r.down = Append(m.down, CloseMsg(s))
        /\ CloseMsg(s) \in Requests /\ CloseMsg(s).session = s /\ CloseMsg(s).kind = "close"
        /\ m.down \in Seq(Requests)
    BY <1>1, <1>4 DEF CloseMsg, Requests, Muxes
  <2>2. CASE t # s
    <3>1. LastRequest(r.down, t) = LastRequest(m.down, t)
      <4>1. LastRequest(Append(m.down, CloseMsg(s)), t) = LastRequest(m.down, t)
        BY <2>1, <2>2, LastOfAppend
      <4>2. QED BY <2>1, <4>1
    <3>2. /\ r.channels[t] = m.channels[t]
          /\ t \in r.unheard <=> t \in m.unheard
          /\ t \in r.stray <=> t \in m.stray
      BY <1>1, <2>2
    <3>3. QED BY <1>2, <3>1, <3>2 DEF Behind
  <2>3. CASE t = s
    <3>1. r.channels[t] = NoHalf
      BY <1>1, <2>3
    <3>2. CASE "close" \in busy
      BY <1>1, <1>2, <1>4, <2>3, <3>1, <3>2 DEF Behind
    <3>3. CASE "close" \notin busy /\ Heard
      <4>1. LastRequest(r.down, t) = {CloseMsg(s)}
        <5>1. r.down = Append(m.down, CloseMsg(s))
          BY <1>1, <1>4, <3>3
        <5>2. LastRequest(Append(m.down, CloseMsg(s)), s) = {CloseMsg(s)}
          BY <2>1, LastOfAppend
        <5>3. QED BY <2>3, <5>1, <5>2
      <4>2. QED BY <1>2, <2>1, <3>1, <4>1 DEF Behind
    <3>4. CASE "close" \notin busy /\ ~Heard
      <4>1. LastRequest(r.down, t) = {} /\ (runs => t \in r.stray)
        BY <1>1, <1>4, <2>3, <3>4 DEF Cut
      <4>2. QED BY <1>2, <3>1, <4>1 DEF Behind
    <3>5. QED BY <3>2, <3>3, <3>4
  <2>4. QED BY <2>2, <2>3
<1>5. QED BY <1>3, <1>4

OpenMsg(s, c) == [kind |-> "open", session |-> s, half |-> c]

\* Opening a channel: the agent is asked for a terminal, or the link is too busy.
LEMMA OpenKeeps ==
  ASSUME NEW m \in Muxes, NEW s \in Sessions, NEW c \in Halves, NEW busy, NEW o,
         o = OpenChannel(m, s, c, busy)
  PROVE  /\ o \in Muxes
         /\ \A t \in Sessions : o.channels[t] = IF t = s THEN c ELSE m.channels[t]
         /\ \A t \in Sessions, runs, told \in BOOLEAN :
              Behind(m, t, Heard, runs, told) /\ Cut(m, t, runs) =>
                /\ Behind(o, t, Heard, runs, told)
                /\ ~Heard => o.down = m.down /\ m.stray \subseteq o.stray
<1> DEFINE r == RemoveChannel(m, s, busy)
<1>1. /\ r \in Muxes
      /\ \A t \in Sessions : r.channels[t] = IF t = s THEN NoHalf ELSE m.channels[t]
  BY RemoveIs
<1>2. /\ o.channels = [r.channels EXCEPT ![s] = c]
      /\ o.down = IF "open" \in busy THEN r.down ELSE Wire(r.down, OpenMsg(s, c))
      /\ o.unheard = IF "open" \in busy THEN r.unheard \cup {s} ELSE r.unheard
      /\ o.stray = IF "open" \notin busy /\ Heard THEN r.stray \ {s} ELSE r.stray
      /\ o = [channels |-> o.channels, down |-> o.down, unheard |-> o.unheard,
              stray |-> o.stray]
  BY DEF OpenChannel, OpenMsg
<1>3. \A t \in Sessions, runs, told \in BOOLEAN :
        Behind(m, t, Heard, runs, told) /\ Cut(m, t, runs) =>
          /\ Behind(r, t, Heard, runs, told)
          /\ ~Heard => r.down = m.down /\ m.stray \subseteq r.stray
  BY RemoveKeeps
<1> HIDE DEF r
<1>4. /\ r.channels \in [Sessions -> Halves \cup {NoHalf}]
      /\ r.down \in Seq(Requests) /\ r.unheard \subseteq Sessions /\ r.stray \subseteq Sessions
  BY <1>1 DEF Muxes
<1>5. /\ OpenMsg(s, c) \in Requests /\ OpenMsg(s, c).session = s
      /\ OpenMsg(s, c).kind = "open" /\ OpenMsg(s, c).half = c
  BY DEF OpenMsg, Requests
<1>6. o \in Muxes
  <2>1. o.down \in Seq(Requests)
    BY <1>2, <1>4, <1>5 DEF Wire
  <2>2. /\ o.channels \in [Sessions -> Halves \cup {NoHalf}]
        /\ o.unheard \in SUBSET Sessions /\ o.stray \in SUBSET Sessions
    BY <1>2, <1>4
  <2>3. QED BY <1>2, <2>1, <2>2 DEF Muxes
<1>7. \A t \in Sessions : o.channels[t] = IF t = s THEN c ELSE m.channels[t]
  BY <1>1, <1>2, <1>4
<1>8. ~Heard => o.down = r.down /\ o.stray = r.stray
  BY <1>2 DEF Wire
<1>9. ASSUME NEW t \in Sessions, NEW runs \in BOOLEAN, NEW told \in BOOLEAN,
             Behind(r, t, Heard, runs, told)
      PROVE  Behind(o, t, Heard, runs, told)
  <2>1. CASE t # s
    <3>1. /\ o.channels[t] = r.channels[t]
          /\ t \in o.unheard <=> t \in r.unheard
          /\ t \in o.stray <=> t \in r.stray
      BY <1>2, <1>4, <2>1
    <3>2. LastRequest(o.down, t) = LastRequest(r.down, t)
      BY <1>2, <1>4, <1>5, <2>1, LastOfAppend DEF Wire
    <3>3. QED BY <1>9, <3>1, <3>2 DEF Behind
  <2>2. CASE t = s
    <3>1. o.channels[t] = c /\ c # NoHalf
      BY <1>7, <2>2, DeviceAssumption
    <3>2. CASE "open" \in busy
      <4>1. t \in o.unheard
        BY <1>2, <2>2, <3>2
      <4>2. QED BY <3>1, <4>1 DEF Behind
    <3>3. CASE "open" \notin busy /\ Heard
      <4>1. LastRequest(o.down, t) = {OpenMsg(s, c)}
        BY <1>2, <1>4, <1>5, <2>2, <3>3, LastOfAppend DEF Wire
      <4>2. QED BY <1>5, <3>1, <4>1 DEF Behind
    <3>4. CASE ~Heard
      BY <3>1, <3>4 DEF Behind
    <3>5. QED BY <3>2, <3>3, <3>4
  <2>3. QED BY <2>1, <2>2
<1>10. QED BY <1>3, <1>6, <1>7, <1>8, <1>9

----------------------------------------------------------------------------
\* The inductive invariant.
RelayTyped ==
  /\ holder \in [{Device} -> Links \cup {NoLink}] /\ gone \subseteq Links
  /\ bridge \in [Halves -> {"none", "open", "ended", "closed"}]
  /\ via \in [Halves -> Links \cup {NoLink}]
  /\ mux \in Muxes
  /\ up \in Seq(Reports)
  /\ agentLink \in Links \cup {NoLink}
  /\ stopped \in BOOLEAN
  /\ pty \in [Sessions -> Halves \cup {NoHalf}]
  /\ held \in Seq(Reports)
  /\ shared \subseteq Sessions

\* An AgentSession belongs to a half that was routed and has not ended.
InUse ==
  \A c \in Halves :
    bridge[c] # "none" => session[c] \in Sessions /\ phase[c] \in {"ready", "closing"}

\* The two halves of ChannelsServed.
Channeled ==
  \A s \in Sessions, c \in Halves :
    mux.channels[s] = c =>
      /\ session[c] = s /\ phase[c] \in {"ready", "closing"}
      /\ bridge[c] = "open" /\ via[c] = Link /\ Link # NoLink

ReadyServed ==
  \A s \in Sessions \ shared, c \in Halves :
    session[c] = s /\ phase[c] = "ready" => mux.channels[s] = c

SessionsPart == InUse /\ Channeled /\ ReadyServed

\* The agent has the link the relay has, or one of them has none.
LinkEnds == agentLink \in {Link, NoLink} \/ Link = NoLink

\* Nothing is on its way to an agent without a link, and its terminals are stray.
NothingAsked ==
  agentLink = NoLink =>
    \A s \in Sessions :
      LastRequest(mux.down, s) = {} /\ (pty[s] # NoHalf => s \in mux.stray)

AllBehind == \A s \in Sessions : Behind(mux, s, Heard, pty[s] # NoHalf, ReportedOn(s))

WiresPart == LinkEnds /\ NothingAsked /\ AllBehind

IInv == RelayTyped /\ DoorPart /\ SessionsPart /\ WiresPart

LEMMA IInvGives ==
  ASSUME IInv
  PROVE  TypeOK /\ ChannelsServed /\ TerminalBehindChannel
<1>1. TypeOK
  BY DoorFacts DEF IInv, DoorPart, RelayTyped, Muxes, TypeOK
<1>2. ChannelsServed
  BY DEF IInv, SessionsPart, Channeled, ReadyServed, ChannelsServed
<1>3. TerminalBehindChannel
  BY DEF IInv, WiresPart, AllBehind, Behind, TerminalBehindChannel
<1>4. QED BY <1>1, <1>2, <1>3

LEMMA InitOk == Init => IInv
<1> SUFFICES ASSUME Init PROVE IInv
  OBVIOUS
<1>1. /\ Door!Init /\ holder = [d \in {Device} |-> NoLink] /\ gone = {}
      /\ bridge = [c \in Halves |-> "none"] /\ via = [c \in Halves |-> NoLink]
      /\ up = <<>> /\ agentLink = NoLink /\ stopped = FALSE
      /\ pty = [s \in Sessions |-> NoHalf] /\ held = <<>> /\ shared = {}
  BY DEF Init, Presence!Init
<1>2. /\ mux \in Muxes /\ mux.down = <<>>
      /\ \A s \in Sessions : mux.channels[s] = NoHalf
  BY DEF Init, Muxes
<1>3. RelayTyped
  <2>0. stopped \in BOOLEAN
    BY <1>1
  <2>1. up \in Seq(Reports) /\ held \in Seq(Reports)
    BY <1>1
  <2>2. /\ bridge \in [Halves -> {"none", "open", "ended", "closed"}]
        /\ via \in [Halves -> Links \cup {NoLink}]
        /\ holder \in [{Device} -> Links \cup {NoLink}]
        /\ pty \in [Sessions -> Halves \cup {NoHalf}]
    BY <1>1
  <2>3. QED BY <1>1, <1>2, <2>0, <2>1, <2>2 DEF RelayTyped
<1>4. DoorPart
  <2>1. \A c \in Halves : phase[c] = "unused" /\ session[c] = NoSession
    BY <1>1 DEF Door!Init
  <2>2. Unused /\ AtATime /\ Alone
    BY <2>1, DeviceAssumption DEF Unused, AtATime, Alone
  <2>3. QED BY <1>1, <2>2, DoorInitOk DEF DoorPart
<1>5. SessionsPart
  <2>1. \A c \in Halves : phase[c] = "unused"
    BY <1>1 DEF Door!Init
  <2>2. QED
    BY <1>1, <1>2, <2>1, DeviceAssumption DEF SessionsPart, InUse, Channeled, ReadyServed
<1>6. \A s \in Sessions : LastRequest(mux.down, s) = {}
  BY <1>2, LastOfNone
<1>7. WiresPart
  BY <1>1, <1>2, <1>6 DEF WiresPart, LinkEnds, NothingAsked, AllBehind, Behind
<1>8. QED BY <1>3, <1>4, <1>5, <1>7 DEF IInv

----------------------------------------------------------------------------
\* Parts of steps.

\* Halves end or move on, and none becomes ready.
LEMMA SessionsKept ==
  ASSUME RelayTyped, SessionsPart, UNCHANGED <<session, shared, bridge, via, holder>>,
         mux'.channels = mux.channels,
         \A c \in Halves :
           /\ phase[c] \in {"ready", "closing"} => phase'[c] \in {"ready", "closing"}
           /\ phase'[c] = "ready" => phase[c] = "ready"
  PROVE  SessionsPart'
<1>1. Link' = Link
  BY DEF Link
<1>2. QED BY <1>1 DEF SessionsPart, InUse, Channeled, ReadyServed

LEMMA WiresKept ==
  ASSUME WiresPart, UNCHANGED <<presence, mux, up, agent>>
  PROVE  WiresPart'
<1>1. UNCHANGED <<holder, agentLink, pty, held>>
  BY DEF presence, agent
<1>2. /\ UNCHANGED <<Link, Heard>>
      /\ \A s : ReportedOn(s)' <=> ReportedOn(s)
  BY <1>1 DEF Link, Heard, ReportedOn
<1>3. QED
  BY <1>1, <1>2 DEF WiresPart, LinkEnds, NothingAsked, AllBehind, Behind

LEMMA TypedKept ==
  ASSUME RelayTyped, UNCHANGED <<presence, bridge, via, up, agent, shared>>, mux' \in Muxes
  PROVE  RelayTyped'
BY DEF RelayTyped, presence, agent

\* A step of the front door alone.
LEMMA DoorStep ==
  ASSUME IInv, DoorPart', UNCHANGED <<session, presence, relay, up, agent, shared>>,
         \A c \in Halves :
           /\ phase[c] \in {"ready", "closing"} => phase'[c] \in {"ready", "closing"}
           /\ phase'[c] = "ready" => phase[c] = "ready"
  PROVE  IInv'
<1>1. UNCHANGED <<bridge, via, mux, holder>>
  BY DEF relay, presence
<1>2. RelayTyped'
  BY <1>1, TypedKept DEF IInv, RelayTyped
<1>3. SessionsPart'
  BY <1>1, SessionsKept DEF IInv
<1>4. WiresPart'
  BY <1>1, WiresKept DEF IInv
<1>5. QED BY <1>2, <1>3, <1>4 DEF IInv

\* A channel is there only while relay and agent have the same link, or the agent
\* has none.
LEMMA CutHolds ==
  ASSUME IInv, NEW s \in Sessions
  PROVE  Cut(mux, s, pty[s] # NoHalf)
<1> SUFFICES ASSUME ~Heard, mux.channels[s] # NoHalf PROVE agentLink = NoLink
  BY DEF IInv, WiresPart, NothingAsked, Cut
<1>1. mux.channels[s] \in Halves
  BY DEF IInv, RelayTyped, Muxes
<1>2. Link # NoLink
  BY <1>1 DEF IInv, SessionsPart, Channeled
<1>3. QED BY <1>2 DEF IInv, WiresPart, LinkEnds, Heard

\* What has been told matters to a session with a channel only.
LEMMA Retold ==
  ASSUME NEW m, NEW s, NEW heard, NEW runs, NEW told, NEW told2,
         Behind(m, s, heard, runs, told),
         m.channels[s] = NoHalf \/ (told => told2)
  PROVE  Behind(m, s, heard, runs, told2)
BY DEF Behind

\* The relay's channels change, and no session is worse off.
LEMMA WiresFollow ==
  ASSUME IInv, UNCHANGED <<presence, agent>>,
         ~Heard => mux'.down = mux.down /\ mux.stray \subseteq mux'.stray,
         \A s \in Sessions :
           /\ Behind(mux', s, Heard, pty[s] # NoHalf, ReportedOn(s))
           /\ mux'.channels[s] = NoHalf \/ (ReportedOn(s) => ReportedOn(s)'),
         Heard /\ agentLink = NoLink => mux' = mux
  PROVE  WiresPart'
<1>1. UNCHANGED <<holder, agentLink, pty>>
  BY DEF presence, agent
<1>2. UNCHANGED <<Link, Heard>>
  BY <1>1 DEF Link, Heard
<1>3. LinkEnds'
  BY <1>1, <1>2 DEF IInv, WiresPart, LinkEnds
<1>4. NothingAsked'
  BY <1>1, <1>2 DEF IInv, WiresPart, NothingAsked
<1>5. ASSUME NEW s \in Sessions
      PROVE  Behind(mux', s, Heard, pty[s] # NoHalf, ReportedOn(s)')
  BY Retold
<1>6. AllBehind'
  BY <1>1, <1>2, <1>5 DEF AllBehind
<1>7. QED BY <1>3, <1>4, <1>6 DEF WiresPart

----------------------------------------------------------------------------
\* The front door's steps.
LEMMA CreateStep ==
  ASSUME IInv, NEW s \in Sessions, CreateSession(s)
  PROVE  IInv'
<1>1. DoorPart'
  BY PartCreate DEF CreateSession, IInv
<1>2. UNCHANGED <<phase, session, presence, relay, up, agent, shared>>
  BY DEF CreateSession, Door!CreateSession
<1>3. QED BY <1>1, <1>2, DoorStep

LEMMA VerifyStep ==
  ASSUME IInv, NEW c \in Halves, AuthRequest(c) \/ AuthFail(c)
  PROVE  IInv'
<1>1. /\ Door!AuthRequest(c) \/ Door!AuthFail(c)
      /\ UNCHANGED <<presence, relay, up, agent, shared>>
  BY DEF AuthRequest, AuthFail
<1>2. DoorPart'
  BY <1>1, PartVerify DEF IInv
<1>3. phase \in [Halves -> Door!LivePhases \cup {"unused", "closing", "gone"}]
  BY DoorFacts DEF IInv, DoorPart, Door!TypeOK
<1>4. /\ UNCHANGED session
      /\ phase[c] \in {"open", "verifying"}
      /\ \E p \in {"open", "verifying"} : phase' = [phase EXCEPT ![c] = p]
  BY <1>1 DEF Door!AuthRequest, Door!AuthFail
<1>5. QED BY <1>1, <1>2, <1>3, <1>4, DoorStep

LEMMA SweepStep ==
  ASSUME IInv, NEW due \in SUBSET Sessions, Sweep(due)
  PROVE  IInv'
<1>1. DoorPart'
  BY PartSweep DEF Sweep, IInv
<1>2. UNCHANGED <<phase, session, presence, relay, up, agent, shared>>
  BY DEF Sweep, Door!Sweep
<1>3. QED BY <1>1, <1>2, DoorStep

\* A half is terminated by itself, or timed out.
LEMMA TerminateStep ==
  ASSUME IInv, NEW c \in Halves, Terminate(c) \/ AuthTimeout(c)
  PROVE  IInv'
<1>1. /\ Door!Terminate({c})
      /\ UNCHANGED <<presence, relay, up, agent, shared>>
  BY DEF Terminate, AuthTimeout, Door!AuthTimeout
<1>2. DoorPart'
  BY <1>1, PartTerminate DEF IInv
<1>3. /\ UNCHANGED session
      /\ phase' = [d \in Halves |-> IF d \in {c} THEN "closing" ELSE phase[d]]
  BY <1>1 DEF Door!Terminate, Door!Terminated
<1>4. QED BY <1>1, <1>2, <1>3, DoorStep

LEMMA UpgradeStep ==
  ASSUME IInv, NEW c \in Halves, NEW s \in Sessions, Upgrade(c, s)
  PROVE  IInv'
<1>1. DoorPart'
  BY PartUpgrade DEF Upgrade, IInv
<1>2. /\ phase \in [Halves -> Door!LivePhases \cup {"unused", "closing", "gone"}]
      /\ session \in [Halves -> Sessions \cup {NoSession}]
  BY DoorFacts DEF IInv, DoorPart, Door!TypeOK
<1>3. /\ phase[c] = "unused"
      /\ phase' = [phase EXCEPT ![c] = "open"]
      /\ session' = [session EXCEPT ![c] = s]
      /\ shared \subseteq shared' /\ shared' \subseteq shared \cup {s}
  BY DEF Upgrade, Door!Upgrade
<1>4. UNCHANGED <<holder, gone, bridge, via, mux, up, agentLink, stopped, pty, held>>
  BY DEF Upgrade, presence, relay, agent
<1>5. RelayTyped'
  BY <1>3, <1>4 DEF IInv, RelayTyped
<1>6. SessionsPart'
  <2>1. \A d \in Halves : phase[d] \in {"ready", "closing"} =>
          d # c /\ phase'[d] = phase[d] /\ session'[d] = session[d]
    BY <1>2, <1>3
  <2>2. InUse'
    BY <1>4, <2>1 DEF IInv, SessionsPart, InUse
  <2>3. Link' = Link
    BY <1>4 DEF Link
  <2>4. Channeled'
    BY <1>4, <2>1, <2>3 DEF IInv, SessionsPart, Channeled
  <2>5. \A d \in Halves : phase'[d] = "ready" => phase[d] = "ready" /\ session'[d] = session[d]
    BY <1>2, <1>3
  <2>6. ReadyServed'
    BY <1>3, <1>4, <2>5 DEF IInv, SessionsPart, ReadyServed
  <2>7. QED BY <2>2, <2>4, <2>6 DEF SessionsPart
<1>7. WiresPart'
  BY <1>4, WiresKept DEF IInv, presence, agent
<1>8. QED BY <1>1, <1>5, <1>6, <1>7 DEF IInv

\* A link that agent and relay do not have both serves nobody.
LEMMA NoLinkNoChannel ==
  ASSUME IInv, NEW s \in Sessions, Link = NoLink
  PROVE  mux.channels[s] = NoHalf
<1>1. mux.channels[s] \in Halves \cup {NoHalf}
  BY DEF IInv, RelayTyped, Muxes
<1>2. QED BY <1>1 DEF IInv, SessionsPart, Channeled

LEMMA RemoveWires ==
  ASSUME IInv, NEW s \in Sessions, NEW busy, mux' = RemoveChannel(mux, s, busy),
         UNCHANGED <<presence, agent>>,
         \A t \in Sessions :
           mux'.channels[t] = NoHalf \/ (ReportedOn(t) => ReportedOn(t)')
  PROVE  WiresPart'
<1>1. mux \in Muxes /\ pty \in [Sessions -> Halves \cup {NoHalf}]
  BY DEF IInv, RelayTyped
<1>2. ASSUME NEW t \in Sessions
      PROVE  /\ Behind(mux', t, Heard, pty[t] # NoHalf, ReportedOn(t))
             /\ ~Heard => mux'.down = mux.down /\ mux.stray \subseteq mux'.stray
  <2> DEFINE runs == pty[t] # NoHalf
             told == ReportedOn(t)
  <2>1. Behind(mux, t, Heard, runs, told) /\ Cut(mux, t, runs)
    BY CutHolds DEF IInv, WiresPart, AllBehind
  <2>2. runs \in BOOLEAN /\ told \in BOOLEAN
    BY DEF ReportedOn
  <2> HIDE DEF runs, told
  <2>3. /\ Behind(mux', t, Heard, runs, told)
        /\ ~Heard => mux'.down = mux.down /\ mux.stray \subseteq mux'.stray
    BY <1>1, <2>1, <2>2, RemoveKeeps
  <2>4. QED BY <2>3 DEF runs, told
<1>3. Heard /\ agentLink = NoLink => mux' = mux
  <2> SUFFICES ASSUME Heard, agentLink = NoLink PROVE mux' = mux
    OBVIOUS
  <2>1. mux.channels[s] = NoHalf
    BY NoLinkNoChannel DEF Heard
  <2>2. QED BY <2>1, RemoveIs, <1>1
<1>4. QED BY <1>2, <1>3, WiresFollow

\* The socket of a half takes its channel along, and no other half's.
LEMMA SocketCloseStep ==
  ASSUME IInv, NEW c \in Halves, NEW busy, SocketClose(c, busy)
  PROVE  IInv'
<1>1. DoorPart'
  BY PartSocketClose DEF SocketClose, IInv
<1>2. /\ phase \in [Halves -> Door!LivePhases \cup {"unused", "closing", "gone"}]
      /\ mux \in Muxes
      /\ bridge \in [Halves -> {"none", "open", "ended", "closed"}]
      /\ via \in [Halves -> Links \cup {NoLink}]
  BY DoorFacts DEF IInv, RelayTyped, DoorPart, Door!TypeOK
<1>3. /\ phase[c] \in Door!LivePhases \cup {"closing"}
      /\ phase' = [phase EXCEPT ![c] = "gone"] /\ UNCHANGED session
      /\ bridge' = [bridge EXCEPT ![c] = "none"]
      /\ via' = [via EXCEPT ![c] = NoLink]
      /\ UNCHANGED <<presence, up, agent, shared>>
  BY DEF SocketClose, Door!SocketClose
<1>4. /\ UNCHANGED <<holder, Link>>
      /\ \A t : ReportedOn(t)' <=> ReportedOn(t)
  BY <1>3 DEF presence, agent, Link, ReportedOn
<1> DEFINE s == session[c]
           removes == bridge[c] = "open" /\ via[c] = Link
<1>5. /\ removes => s \in Sessions /\ mux' = RemoveChannel(mux, s, busy)
      /\ ~removes => mux' = mux
  BY DEF SocketClose, IInv, SessionsPart, InUse
<1>6. /\ mux' \in Muxes
      /\ \A t \in Sessions :
           mux'.channels[t] = IF removes /\ t = s THEN NoHalf ELSE mux.channels[t]
  <2>1. CASE removes
    <3>1. s \in Sessions /\ mux' = RemoveChannel(mux, s, busy)
      BY <1>5, <2>1
    <3>2. /\ mux' \in Muxes
          /\ \A t \in Sessions : mux'.channels[t] = IF t = s THEN NoHalf ELSE mux.channels[t]
      BY <1>2, <3>1, RemoveIs
    <3>3. QED BY <2>1, <3>2
  <2>2. CASE ~removes
    BY <1>2, <1>5, <2>2
  <2>3. QED BY <2>1, <2>2
<1> HIDE DEF removes
<1>7. RelayTyped'
  BY <1>2, <1>3, <1>6 DEF IInv, RelayTyped, presence, agent
<1>8. SessionsPart'
  <2>1. InUse'
    BY <1>2, <1>3 DEF IInv, SessionsPart, InUse
  <2>2. ASSUME NEW t \in Sessions, NEW d \in Halves, mux'.channels[t] = d
        PROVE  d # c /\ mux.channels[t] = d
    <3>1. mux.channels[t] = d /\ ~(removes /\ t = s)
      BY <1>6, <2>2, DeviceAssumption
    <3>2. session[d] = t /\ bridge[d] = "open" /\ via[d] = Link
      BY <3>1 DEF IInv, SessionsPart, Channeled
    <3>3. QED BY <3>1, <3>2 DEF removes
  <2>3. Channeled'
    BY <1>2, <1>3, <1>4, <2>2 DEF IInv, SessionsPart, Channeled
  <2>4. ASSUME NEW t \in Sessions \ shared, NEW d \in Halves, session[d] = t, phase'[d] = "ready"
        PROVE  mux'.channels[t] = d
    <3>1. d # c /\ phase[d] = "ready"
      BY <1>2, <1>3, <2>4
    <3>2. mux.channels[t] = d
      BY <2>4, <3>1 DEF IInv, SessionsPart, ReadyServed
    <3>3. phase[c] # "gone" /\ phase[d] # "gone"
      BY <1>3, <3>1 DEF Door!LivePhases
    <3>4. t # s
      BY <2>4, <3>1, <3>3 DEF IInv, DoorPart, AtATime
    <3>5. QED BY <1>6, <3>2, <3>4
  <2>5. ReadyServed'
    BY <1>3, <2>4 DEF ReadyServed
  <2>6. QED BY <2>1, <2>3, <2>5 DEF SessionsPart
<1>9. WiresPart'
  <2>1. CASE removes
    BY <1>3, <1>4, <1>5, <2>1, RemoveWires
  <2>2. CASE ~removes
    BY <1>3, <1>5, <2>2, WiresKept DEF IInv
  <2>3. QED BY <2>1, <2>2
<1>10. QED BY <1>1, <1>7, <1>8, <1>9 DEF IInv

LEMMA DeleteStep ==
  ASSUME IInv, NEW s \in Sessions, NEW busy, DeleteSession(s, busy)
  PROVE  IInv'
<1>1. /\ DoorPart'
      /\ s \notin shared => \A c \in Halves : session[c] = s => ~Door!Live(c)'
  BY PartDelete DEF DeleteSession, IInv
<1>2. mux \in Muxes
  BY DEF IInv, RelayTyped
<1>3. /\ phase' = [c \in Halves |-> IF c \in Door!Named(s) THEN "closing" ELSE phase[c]]
      /\ UNCHANGED <<session, presence, bridge, via, up, agent, shared>>
      /\ mux' = RemoveChannel(mux, s, busy)
  BY DEF DeleteSession, Door!DeleteSession, Door!Terminated
<1>4. /\ UNCHANGED <<holder, Link>>
      /\ \A t : ReportedOn(t)' <=> ReportedOn(t)
  BY <1>3 DEF presence, agent, Link, ReportedOn
<1>5. /\ mux' \in Muxes
      /\ \A t \in Sessions : mux'.channels[t] = IF t = s THEN NoHalf ELSE mux.channels[t]
  BY <1>2, <1>3, RemoveIs
<1>6. RelayTyped'
  BY <1>3, <1>5, TypedKept DEF IInv
<1>7. SessionsPart'
  <2>1. \A c \in Halves :
          /\ phase[c] \in {"ready", "closing"} => phase'[c] \in {"ready", "closing"}
          /\ phase'[c] = "ready" => phase[c] = "ready" /\ Door!Live(c)'
    BY <1>3 DEF Door!Live, Door!LivePhases
  <2>2. InUse'
    BY <1>3, <2>1 DEF IInv, SessionsPart, InUse
  <2>3. Channeled'
    BY <1>3, <1>4, <1>5, <2>1, DeviceAssumption DEF IInv, SessionsPart, Channeled
  <2>4. ReadyServed'
    BY <1>1, <1>3, <1>5, <2>1 DEF IInv, SessionsPart, ReadyServed
  <2>5. QED BY <2>2, <2>3, <2>4 DEF SessionsPart
<1>8. WiresPart'
  BY <1>3, <1>4, RemoveWires
<1>9. QED BY <1>1, <1>6, <1>7, <1>8 DEF IInv

\* A half that is routed takes the channel.
LEMMA AuthOkStep ==
  ASSUME IInv, NEW c \in Halves, NEW mayUse \in BOOLEAN, NEW busy, AuthOk(c, mayUse, busy)
  PROVE  IInv'
<1> DEFINE s == session[c]
           routed == s \in Sessions /\ Link # NoLink
<1>1. Door!AuthOk(c, mayUse, routed) /\ UNCHANGED <<presence, up, agent, shared>>
  BY DEF AuthOk
<1>2. DoorPart'
  BY <1>1, PartAuthOk DEF IInv
<1>3. /\ phase \in [Halves -> Door!LivePhases \cup {"unused", "closing", "gone"}]
      /\ mux \in Muxes
      /\ bridge \in [Halves -> {"none", "open", "ended", "closed"}]
      /\ via \in [Halves -> Links \cup {NoLink}]
      /\ Link \in Links \cup {NoLink}
  BY DoorFacts DEF IInv, RelayTyped, DoorPart, Door!TypeOK, Link
<1>4. /\ phase[c] = "verifying" /\ UNCHANGED session
      /\ phase'[c] \in {"ready", "closing"}
      /\ ~routed => phase'[c] = "closing"
      /\ \A d \in Halves \ {c} : phase'[d] = phase[d]
  BY <1>1, <1>3 DEF Door!AuthOk, Door!Terminated
<1>5. /\ routed => /\ bridge' = [bridge EXCEPT ![c] = "open"]
                   /\ via' = [via EXCEPT ![c] = Link]
                   /\ mux' = OpenChannel(mux, s, c, busy)
      /\ ~routed => UNCHANGED relay
  BY DEF AuthOk
<1>6. /\ UNCHANGED <<holder, Link>>
      /\ \A t : ReportedOn(t)' <=> ReportedOn(t)
  BY <1>1 DEF presence, agent, Link, ReportedOn
<1>7. CASE ~routed
  BY <1>1, <1>2, <1>4, <1>5, <1>7, DoorStep
<1>8. CASE routed
  <2>1. /\ s \in Sessions /\ Link # NoLink
        /\ bridge' = [bridge EXCEPT ![c] = "open"]
        /\ via' = [via EXCEPT ![c] = Link]
        /\ mux' = OpenChannel(mux, s, c, busy)
    BY <1>5, <1>8
  <2> HIDE DEF routed
  <2>2. /\ mux' \in Muxes
        /\ \A t \in Sessions : mux'.channels[t] = IF t = s THEN c ELSE mux.channels[t]
        /\ \A t \in Sessions, runs, told \in BOOLEAN :
             Behind(mux, t, Heard, runs, told) /\ Cut(mux, t, runs) =>
               /\ Behind(mux', t, Heard, runs, told)
               /\ ~Heard => mux'.down = mux.down /\ mux.stray \subseteq mux'.stray
    BY <1>3, <2>1, OpenKeeps
  <2>3. RelayTyped'
    BY <1>1, <1>3, <2>1, <2>2 DEF IInv, RelayTyped, presence, agent
  <2>4. SessionsPart'
    <3>1. InUse'
      BY <1>3, <1>4, <2>1 DEF IInv, SessionsPart, InUse
    <3>2. ASSUME NEW t \in Sessions, NEW d \in Halves, mux'.channels[t] = d
          PROVE  /\ session[d] = t /\ phase'[d] \in {"ready", "closing"}
                 /\ bridge'[d] = "open" /\ via'[d] = Link
      <4>1. CASE t = s
        BY <1>3, <1>4, <2>1, <2>2, <3>2, <4>1
      <4>2. CASE t # s
        <5>1. session[d] = t /\ phase[d] \in {"ready", "closing"} /\ bridge[d] = "open"
                /\ via[d] = Link
          BY <2>2, <3>2, <4>2 DEF IInv, SessionsPart, Channeled
        <5>2. QED BY <1>3, <1>4, <2>1, <4>2, <5>1
      <4>3. QED BY <4>1, <4>2
    <3>3. Channeled'
      BY <1>4, <1>6, <2>1, <3>2 DEF Channeled
    <3>4. ASSUME NEW t \in Sessions \ shared, NEW d \in Halves, session[d] = t,
                 phase'[d] = "ready"
          PROVE  mux'.channels[t] = d
      <4>1. CASE d = c
        BY <2>2, <3>4, <4>1
      <4>2. CASE d # c
        <5>1. phase[d] = "ready"
          BY <1>4, <3>4, <4>2
        <5>2. t # s
          BY <1>4, <3>4, <4>2, <5>1 DEF IInv, DoorPart, AtATime
        <5>3. QED BY <2>2, <3>4, <5>1, <5>2 DEF IInv, SessionsPart, ReadyServed
      <4>3. QED BY <4>1, <4>2
    <3>5. ReadyServed'
      BY <1>1, <1>4, <3>4 DEF ReadyServed
    <3>6. QED BY <3>1, <3>3, <3>5 DEF SessionsPart
  <2>5. ASSUME NEW t \in Sessions
        PROVE  /\ Behind(mux', t, Heard, pty[t] # NoHalf, ReportedOn(t))
               /\ ~Heard => mux'.down = mux.down /\ mux.stray \subseteq mux'.stray
    <3> DEFINE runs == pty[t] # NoHalf
               told == ReportedOn(t)
    <3>1. Behind(mux, t, Heard, runs, told) /\ Cut(mux, t, runs)
      BY CutHolds DEF IInv, WiresPart, AllBehind
    <3>2. runs \in BOOLEAN /\ told \in BOOLEAN
      BY DEF ReportedOn
    <3> HIDE DEF runs, told
    <3>3. QED BY <2>2, <3>1, <3>2 DEF runs, told
  <2>6. Heard => agentLink # NoLink
    BY <2>1 DEF Heard
  <2>7. WiresPart'
    BY <1>1, <1>6, <2>1, <2>5, <2>6, WiresFollow
  <2>8. QED BY <1>2, <2>3, <2>4, <2>7 DEF IInv
<1>9. QED BY <1>7, <1>8

\* A report ends the session's channel and its half.
LEMMA RelayReceiveStep ==
  ASSUME IInv, NEW busy, RelayReceive(busy)
  PROVE  IInv'
<1> DEFINE s == Head(up).session
           c == mux.channels[s]
<1>1. /\ up \in Seq(Reports) /\ up # <<>> /\ up' = Tail(up)
      /\ mux \in Muxes /\ bridge \in [Halves -> {"none", "open", "ended", "closed"}]
      /\ UNCHANGED <<presence, via, agent, shared>>
  BY DEF RelayReceive, IInv, RelayTyped
<1>2. Head(up) \in Reports /\ up' \in Seq(Reports)
  BY <1>1
<1>3. s \in Sessions
  BY <1>2 DEF Reports
<1>4. ASSUME NEW t \in Sessions, t # s
      PROVE  ReportedOn(t) => ReportedOn(t)'
  <2>0. held' = held
    BY <1>1 DEF agent
  <2> SUFFICES ASSUME NEW i \in DOMAIN up, up[i].session = t
               PROVE  \E j \in DOMAIN up' : up'[j].session = t
    BY <2>0 DEF ReportedOn
  <2>1. i # 1
    BY <1>1, <1>4
  <2>2. i - 1 \in DOMAIN up' /\ up'[i - 1] = up[i]
    BY <1>1, <2>1
  <2>3. QED BY <2>2
<1>5. UNCHANGED <<holder, Link>>
  BY <1>1 DEF presence, Link
<1> HIDE DEF s
<1>6. CASE c \in Halves
  <2>1. session[c] = s /\ phase[c] \in {"ready", "closing"} /\ bridge[c] = "open"
    BY <1>3, <1>6 DEF IInv, SessionsPart, Channeled
  <2>2. /\ bridge' = [bridge EXCEPT ![c] = "ended"]
        /\ mux' = RemoveChannel(mux, s, busy)
        /\ EndHalves({c})
    BY <1>6, <2>1 DEF RelayReceive, s
  <2>3. /\ DoorPart' /\ UNCHANGED session
        /\ \A d \in Halves :
             phase'[d] = IF d \in {c} /\ Door!Live(d) THEN "closing" ELSE phase[d]
    BY <1>1, <1>6, <2>2, PartEnded DEF IInv
  <2>4. /\ mux' \in Muxes
        /\ \A t \in Sessions : mux'.channels[t] = IF t = s THEN NoHalf ELSE mux.channels[t]
    BY <1>1, <1>3, <2>2, RemoveIs
  <2>5. RelayTyped'
    BY <1>1, <1>2, <2>2, <2>4 DEF IInv, RelayTyped, presence, agent
  <2>6. phase'[c] = "closing" /\ \A d \in Halves \ {c} : phase'[d] = phase[d]
    BY <1>6, <2>1, <2>3 DEF Door!Live, Door!LivePhases
  <2>7. InUse'
    BY <1>1, <2>1, <2>2, <2>3, <2>6 DEF IInv, SessionsPart, InUse
  <2>8. ASSUME NEW t \in Sessions, NEW d \in Halves, mux'.channels[t] = d
        PROVE  mux.channels[t] = d /\ d # c
    <3>1. t # s /\ mux.channels[t] = d
      BY <2>4, <2>8, DeviceAssumption
    <3>2. QED BY <2>1, <3>1 DEF IInv, SessionsPart, Channeled
  <2>9. Channeled'
    BY <1>1, <1>5, <2>2, <2>3, <2>6, <2>8 DEF IInv, SessionsPart, Channeled
  <2>10. ASSUME NEW t \in Sessions \ shared, NEW d \in Halves, session[d] = t, phase'[d] = "ready"
         PROVE  mux'.channels[t] = d
    <3>1. d # c /\ phase[d] = "ready"
      BY <2>6, <2>10
    <3>2. mux.channels[t] = d
      BY <2>10, <3>1 DEF IInv, SessionsPart, ReadyServed
    <3>3. QED BY <2>4, <3>1, <3>2
  <2>11. ReadyServed'
    BY <1>1, <2>3, <2>10 DEF ReadyServed
  <2>12. WiresPart'
    BY <1>1, <1>3, <1>4, <2>2, <2>4, RemoveWires
  <2>13. QED BY <2>3, <2>5, <2>7, <2>9, <2>11, <2>12 DEF IInv, SessionsPart
<1>7. CASE c \notin Halves
  <2>1. UNCHANGED <<door, bridge, mux>> /\ c = NoHalf
    BY <1>1, <1>3, <1>7 DEF RelayReceive, Muxes, s
  <2>2. DoorPart'
    BY <1>1, <2>1, PartQuiet DEF IInv
  <2>3. UNCHANGED <<session, phase>>
    BY <2>1 DEF door
  <2>4. RelayTyped'
    BY <1>1, <1>2, <2>1 DEF IInv, RelayTyped, presence, agent
  <2>5. SessionsPart'
    BY <1>1, <1>5, <2>1, <2>3, SessionsKept DEF IInv
  <2>6. \A t \in Sessions : mux'.channels[t] = NoHalf \/ (ReportedOn(t) => ReportedOn(t)')
    BY <1>4, <2>1
  <2>7. WiresPart'
    BY <1>1, <2>1, <2>6, WiresFollow DEF IInv, WiresPart, AllBehind
  <2>8. QED BY <2>2, <2>4, <2>5, <2>7 DEF IInv
<1>8. QED BY <1>6, <1>7

----------------------------------------------------------------------------
\* The link comes and goes: no channel is left.
LEMMA TeardownIs ==
  ASSUME IInv, NEW down \in Seq(Requests), Teardown(down)
  PROVE  /\ mux' \in Muxes /\ mux'.down = down
         /\ \A s \in Sessions : mux'.channels[s] = NoHalf
         /\ mux'.stray = mux.stray \cup {s \in Sessions : mux.channels[s] # NoHalf}
         /\ \A c \in Halves : bridge'[c] = IF c \in Served THEN "closed" ELSE bridge[c]
         /\ bridge' \in [Halves -> {"none", "open", "ended", "closed"}]
         /\ up' = <<>> /\ UNCHANGED via
         /\ Served \subseteq Halves
<1>1. /\ mux' = [channels |-> [s \in Sessions |-> NoHalf], down |-> down, unheard |-> {},
                 stray |-> mux.stray \cup {s \in Sessions : mux.channels[s] # NoHalf}]
      /\ bridge' = [c \in Halves |-> IF c \in Served THEN "closed" ELSE bridge[c]]
      /\ up' = <<>> /\ UNCHANGED via
  BY DEF Teardown
<1>2. mux \in Muxes /\ bridge \in [Halves -> {"none", "open", "ended", "closed"}]
  BY DEF IInv, RelayTyped
<1>3. mux' \in Muxes
  BY <1>1, <1>2 DEF Muxes
<1>4. Served \subseteq Halves
  BY <1>2 DEF Served, Muxes
<1>5. bridge' \in [Halves -> {"none", "open", "ended", "closed"}]
  BY <1>1, <1>2
<1>6. QED BY <1>1, <1>3, <1>4, <1>5

LEMMA TeardownSessions ==
  ASSUME IInv, NEW down \in Seq(Requests), Teardown(down), UNCHANGED <<session, shared>>,
         \A c \in Halves :
           /\ phase[c] \in {"ready", "closing"} => phase'[c] \in {"ready", "closing"}
           /\ phase'[c] = "ready" => phase[c] = "ready" /\ c \notin Served
  PROVE  SessionsPart'
<1>1. /\ \A s \in Sessions : mux'.channels[s] = NoHalf
      /\ \A c \in Halves : bridge'[c] = IF c \in Served THEN "closed" ELSE bridge[c]
  BY TeardownIs
<1>2. ASSUME NEW s \in Sessions, NEW c \in Halves, mux.channels[s] = c
      PROVE  c \in Served
  BY <1>2, DeviceAssumption DEF Served
<1>3. \A c \in Served : c \in Halves /\ bridge[c] = "open"
  <2>1. \A s \in Sessions : mux.channels[s] \in Halves \cup {NoHalf}
    BY DEF IInv, RelayTyped, Muxes
  <2>2. QED BY <2>1 DEF Served, IInv, SessionsPart, Channeled
<1>4. InUse'
  BY <1>1, <1>3 DEF IInv, SessionsPart, InUse
<1>5. Channeled'
  BY <1>1, DeviceAssumption DEF Channeled
<1>6. ReadyServed'
  BY <1>2 DEF IInv, SessionsPart, ReadyServed
<1>7. QED BY <1>4, <1>5, <1>6 DEF SessionsPart

\* The relay has no link any more; the agent may read on.
LEMMA TeardownWires ==
  ASSUME IInv, NEW down \in Seq(Requests), Teardown(down), Link' = NoLink, UNCHANGED agent,
         \A s \in Sessions : LastRequest(down, s) = LastRequest(mux.down, s)
  PROVE  WiresPart'
<1>1. /\ mux'.down = down
      /\ \A s \in Sessions : mux'.channels[s] = NoHalf
      /\ mux'.stray = mux.stray \cup {s \in Sessions : mux.channels[s] # NoHalf}
  BY TeardownIs
<1>2. UNCHANGED <<agentLink, pty>>
  BY DEF agent
<1>3. NothingAsked'
  BY <1>1, <1>2 DEF IInv, WiresPart, NothingAsked
<1>4. ASSUME NEW s \in Sessions, s \notin mux'.stray
      PROVE  IF LastRequest(mux'.down, s) = {} THEN pty[s] = NoHalf
             ELSE \A msg \in LastRequest(mux'.down, s) : msg.kind = "close"
  <2>1. mux.channels[s] = NoHalf /\ s \notin mux.stray
    BY <1>1, <1>4
  <2>2. LastRequest(mux'.down, s) = LastRequest(mux.down, s)
    BY <1>1
  <2>3. QED BY <2>1, <2>2 DEF IInv, WiresPart, AllBehind, Behind
<1>5. AllBehind'
  BY <1>1, <1>2, <1>4 DEF AllBehind, Behind
<1>6. QED BY <1>3, <1>5 DEF WiresPart, LinkEnds

GoodbyeMsg == [kind |-> "goodbye", session |-> NoSession]

LEMMA GoodbyeAsksNothing ==
  ASSUME IInv
  PROVE  /\ mux.down \in Seq(Requests) /\ Wire(mux.down, GoodbyeMsg) \in Seq(Requests)
         /\ \A s \in Sessions :
              LastRequest(Wire(mux.down, GoodbyeMsg), s) = LastRequest(mux.down, s)
<1>1. /\ mux.down \in Seq(Requests)
      /\ GoodbyeMsg \in Requests /\ GoodbyeMsg.session = NoSession
  BY DEF IInv, RelayTyped, Muxes, GoodbyeMsg, Requests
<1>2. \A s \in Sessions :
        LastRequest(Append(mux.down, GoodbyeMsg), s) = LastRequest(mux.down, s)
  BY <1>1, LastOfAppend, DeviceAssumption
<1>3. QED BY <1>1, <1>2 DEF Wire

LEMMA LinkUpStep ==
  ASSUME IInv, NEW l \in Links, LinkUp(l)
  PROVE  IInv'
<1>1. /\ agentLink = NoLink /\ agentLink' = l /\ Presence!Up(Device, l)
      /\ Teardown(<<>>) /\ EndHalves(Served)
      /\ UNCHANGED <<stopped, pty, held, shared>>
  BY DEF LinkUp
<1>2. /\ <<>> \in Seq(Requests) /\ holder \in [{Device} -> Links \cup {NoLink}]
      /\ gone \subseteq Links
  BY DEF IInv, RelayTyped
<1>3. /\ mux' \in Muxes /\ mux'.down = <<>>
      /\ \A s \in Sessions : mux'.channels[s] = NoHalf
      /\ mux'.stray = mux.stray \cup {s \in Sessions : mux.channels[s] # NoHalf}
      /\ bridge' \in [Halves -> {"none", "open", "ended", "closed"}]
      /\ up' = <<>> /\ UNCHANGED via
      /\ Served \subseteq Halves
  BY <1>1, <1>2, TeardownIs
<1>4. /\ DoorPart' /\ UNCHANGED session
      /\ \A c \in Halves :
           phase'[c] = IF c \in Served /\ Door!Live(c) THEN "closing" ELSE phase[c]
  BY <1>1, <1>3, PartEnded DEF IInv
<1>5. /\ holder' \in [{Device} -> Links \cup {NoLink}] /\ gone' \subseteq Links
      /\ Link' = l
  <2>1. /\ holder' = [holder EXCEPT ![Device] = l]
        /\ gone' = gone \cup ({holder[Device]} \ {NoLink})
    BY <1>1 DEF Presence!Up
  <2>2. QED BY <1>2, <2>1 DEF Link
<1>6. RelayTyped'
  <2>1. up' \in Seq(Reports)
    BY <1>3
  <2>2. QED BY <1>1, <1>3, <1>5, <2>1 DEF IInv, RelayTyped
<1>7. SessionsPart'
  <2>1. \A c \in Halves :
          /\ phase[c] \in {"ready", "closing"} => phase'[c] \in {"ready", "closing"}
          /\ phase'[c] = "ready" => phase[c] = "ready" /\ c \notin Served
    BY <1>4 DEF Door!Live, Door!LivePhases
  <2>2. QED BY <1>1, <1>2, <1>4, <2>1, TeardownSessions
<1>8. WiresPart'
  <2>1. LinkEnds' /\ NothingAsked'
    BY <1>1, <1>5, DeviceAssumption DEF LinkEnds, NothingAsked
  <2>2. ASSUME NEW s \in Sessions
        PROVE  /\ mux'.channels[s] = NoHalf /\ LastRequest(mux'.down, s) = {}
               /\ s \notin mux'.stray => pty'[s] = NoHalf
    BY <1>1, <1>3, LastOfNone DEF IInv, WiresPart, NothingAsked
  <2>3. AllBehind'
    BY <2>2 DEF AllBehind, Behind
  <2>4. QED BY <2>1, <2>3 DEF WiresPart
<1>9. QED BY <1>4, <1>6, <1>7, <1>8 DEF IInv

\* Links of the device end: it is reached over none.
LEMMA DownIs ==
  ASSUME IInv, NEW ls \in SUBSET Links, Presence!Down(ls), Link \in ls \/ Link = NoLink
  PROVE  /\ holder' \in [{Device} -> Links \cup {NoLink}] /\ gone' \subseteq Links
         /\ Link' = NoLink
<1>1. /\ holder' = [d \in {Device} |-> IF holder[d] \in ls THEN NoLink ELSE holder[d]]
      /\ gone' = gone \cup ls
  BY DEF Presence!Down
<1>2. holder \in [{Device} -> Links \cup {NoLink}] /\ gone \subseteq Links
  BY DEF IInv, RelayTyped
<1>3. QED BY <1>1, <1>2 DEF Link

LEMMA LinkDownStep ==
  ASSUME IInv, NEW goodbye \in BOOLEAN, LinkDown(goodbye)
  PROVE  IInv'
<1> DEFINE down == IF goodbye THEN Wire(mux.down, GoodbyeMsg) ELSE mux.down
<1>1. /\ Link # NoLink /\ Presence!Down({Link})
      /\ Teardown(down) /\ EndHalves(Served)
      /\ UNCHANGED <<agent, shared>>
  BY DEF LinkDown, GoodbyeMsg
<1>2. /\ down \in Seq(Requests)
      /\ \A s \in Sessions : LastRequest(down, s) = LastRequest(mux.down, s)
  BY GoodbyeAsksNothing
<1> HIDE DEF down
<1>3. /\ mux' \in Muxes
      /\ bridge' \in [Halves -> {"none", "open", "ended", "closed"}]
      /\ up' = <<>> /\ UNCHANGED via
      /\ Served \subseteq Halves
  BY <1>1, <1>2, TeardownIs
<1>4. /\ DoorPart' /\ UNCHANGED session
      /\ \A c \in Halves :
           phase'[c] = IF c \in Served /\ Door!Live(c) THEN "closing" ELSE phase[c]
  BY <1>1, <1>3, PartEnded DEF IInv
<1>5. /\ holder' \in [{Device} -> Links \cup {NoLink}] /\ gone' \subseteq Links
      /\ Link' = NoLink
  <2>1. Link \in Links
    BY <1>1 DEF IInv, RelayTyped, Link
  <2>2. {Link} \in SUBSET Links
    BY <2>1
  <2>3. QED BY <1>1, <2>2, DownIs
<1>6. RelayTyped'
  <2>1. up' \in Seq(Reports)
    BY <1>3
  <2>2. QED BY <1>1, <1>3, <1>5, <2>1 DEF IInv, RelayTyped, agent
<1>7. SessionsPart'
  <2>1. \A c \in Halves :
          /\ phase[c] \in {"ready", "closing"} => phase'[c] \in {"ready", "closing"}
          /\ phase'[c] = "ready" => phase[c] = "ready" /\ c \notin Served
    BY <1>4 DEF Door!Live, Door!LivePhases
  <2>2. QED BY <1>1, <1>2, <1>4, <2>1, TeardownSessions
<1>8. WiresPart'
  BY <1>1, <1>2, <1>5, TeardownWires
<1>9. QED BY <1>4, <1>6, <1>7, <1>8 DEF IInv

LEMMA ShutdownStep ==
  ASSUME IInv, Shutdown
  PROVE  IInv'
<1> DEFINE down == Wire(mux.down, GoodbyeMsg)
<1>1. /\ Door!Shutdown /\ Presence!Down({Link} \ {NoLink})
      /\ Teardown(down) /\ UNCHANGED <<agent, shared>>
  BY DEF Shutdown, GoodbyeMsg
<1>2. /\ down \in Seq(Requests)
      /\ \A s \in Sessions : LastRequest(down, s) = LastRequest(mux.down, s)
  BY GoodbyeAsksNothing
<1> HIDE DEF down
<1>3. /\ mux' \in Muxes
      /\ bridge' \in [Halves -> {"none", "open", "ended", "closed"}]
      /\ up' = <<>> /\ UNCHANGED via
  BY <1>1, <1>2, TeardownIs
<1>4. DoorPart' /\ \A c \in Halves : ~Door!Live(c)'
  BY <1>1, PartShutdown DEF IInv
<1>5. /\ holder' \in [{Device} -> Links \cup {NoLink}] /\ gone' \subseteq Links
      /\ Link' = NoLink
  <2>1. Link \in Links \cup {NoLink}
    BY DEF IInv, RelayTyped, Link
  <2>2. {Link} \ {NoLink} \in SUBSET Links
    BY <2>1
  <2>3. QED BY <1>1, <2>2, DownIs
<1>6. RelayTyped'
  <2>1. up' \in Seq(Reports)
    BY <1>3
  <2>2. QED BY <1>1, <1>3, <1>5, <2>1 DEF IInv, RelayTyped, agent
<1>7. SessionsPart'
  <2>1. /\ UNCHANGED session
        /\ \A c \in Halves : phase'[c] = phase[c] \/ phase'[c] = "closing"
    BY <1>1 DEF Door!Shutdown, Door!Terminated
  <2>2. \A c \in Halves :
          /\ phase[c] \in {"ready", "closing"} => phase'[c] \in {"ready", "closing"}
          /\ phase'[c] = "ready" => phase[c] = "ready" /\ c \notin Served
    BY <1>4, <2>1 DEF Door!Live, Door!LivePhases
  <2>3. QED BY <1>1, <1>2, <2>1, <2>2, TeardownSessions
<1>8. WiresPart'
  BY <1>1, <1>2, <1>5, TeardownWires
<1>9. QED BY <1>4, <1>6, <1>7, <1>8 DEF IInv

----------------------------------------------------------------------------
\* The agent.

\* The agent has no link any more: what was asked is lost, what runs is stray.
LEMMA AgentLost ==
  ASSUME IInv, UNCHANGED <<door, presence, bridge, via, shared>>,
         agentLink' = NoLink, mux' \in Muxes, mux'.channels = mux.channels, mux'.down = <<>>,
         up' \in Seq(Reports), held' \in Seq(Reports), stopped' \in BOOLEAN,
         pty' \in [Sessions -> Halves \cup {NoHalf}],
         \A s \in Sessions : pty'[s] # NoHalf => s \in mux'.stray
  PROVE  IInv'
<1>1. UNCHANGED <<phase, session, holder, gone, Link>>
  BY DEF door, presence, Link
<1>2. RelayTyped'
  BY <1>1 DEF IInv, RelayTyped
<1>3. DoorPart'
  BY PartQuiet DEF IInv
<1>4. SessionsPart'
  BY <1>1, SessionsKept DEF IInv
<1>5. \A s \in Sessions : LastRequest(mux'.down, s) = {}
  BY LastOfNone
<1>6. LinkEnds' /\ NothingAsked'
  BY <1>5 DEF LinkEnds, NothingAsked
<1>7. ASSUME NEW s \in Sessions, Heard'
      PROVE  mux'.channels[s] = NoHalf
  BY <1>1, <1>7, NoLinkNoChannel DEF Heard
<1>8. AllBehind'
  BY <1>5, <1>7 DEF AllBehind, Behind
<1>9. QED BY <1>2, <1>3, <1>4, <1>6, <1>8 DEF IInv, WiresPart

\* The wire to the agent changes, and what is stray.
Rewire(down, stray) == [mux EXCEPT !.down = down, !.stray = stray]

LEMMA Rewired ==
  ASSUME IInv, NEW down \in Seq(Requests), NEW stray \in SUBSET Sessions,
         mux' = Rewire(down, stray)
  PROVE  /\ mux' \in Muxes /\ mux'.channels = mux.channels /\ mux'.down = down
         /\ mux'.unheard = mux.unheard /\ mux'.stray = stray
<1>1. /\ mux = [channels |-> mux.channels, down |-> mux.down, unheard |-> mux.unheard,
                stray |-> mux.stray]
      /\ mux.channels \in [Sessions -> Halves \cup {NoHalf}] /\ mux.unheard \in SUBSET Sessions
  BY DEF IInv, RelayTyped, Muxes
<1>2. mux' = [channels |-> mux.channels, down |-> down, unheard |-> mux.unheard,
              stray |-> stray]
  BY <1>1 DEF Rewire
<1>3. QED BY <1>1, <1>2 DEF Muxes

LEMMA AgentDropStep ==
  ASSUME IInv, AgentDrop \/ AgentRestart
  PROVE  IInv'
<1>1. /\ mux.stray \in SUBSET Sessions /\ <<>> \in Seq(Requests)
      /\ pty \in [Sessions -> Halves \cup {NoHalf}]
      /\ up \in Seq(Reports) /\ held \in Seq(Reports) /\ stopped \in BOOLEAN
  BY DEF IInv, RelayTyped, Muxes
<1>2. CASE AgentDrop
  <2> DEFINE stray == mux.stray \cup {s \in Sessions : pty[s] # NoHalf}
  <2>1. /\ mux' = Rewire(<<>>, stray)
        /\ agentLink' = NoLink
        /\ UNCHANGED <<door, presence, bridge, via, up, stopped, pty, held, shared>>
    BY <1>2 DEF AgentDrop, Rewire
  <2>2. stray \in SUBSET Sessions /\ \A s \in Sessions : pty[s] # NoHalf => s \in stray
    BY <1>1
  <2> HIDE DEF stray
  <2>3. /\ mux' \in Muxes /\ mux'.channels = mux.channels /\ mux'.down = <<>>
        /\ mux'.stray = stray
    BY <1>1, <2>1, <2>2, Rewired
  <2>4. QED BY <1>1, <2>1, <2>2, <2>3, AgentLost
<1>3. CASE AgentRestart
  <2>1. /\ mux' = Rewire(<<>>, {})
        /\ agentLink' = NoLink /\ pty' = [s \in Sessions |-> NoHalf]
        /\ UNCHANGED <<door, presence, bridge, via, up, shared>>
    BY <1>3 DEF AgentRestart, Rewire
  <2>2. mux' \in Muxes /\ mux'.channels = mux.channels /\ mux'.down = <<>>
    <3>1. {} \in SUBSET Sessions /\ <<>> \in Seq(Requests)
      OBVIOUS
    <3>2. QED BY <2>1, <3>1, Rewired
  <2>3. stopped' \in BOOLEAN
    BY <1>3 DEF AgentRestart
  <2>4. held' = <<>>
    BY <1>3 DEF AgentRestart
  <2>5. held' \in Seq(Reports)
    BY <2>4
  <2>6. QED BY <1>1, <2>1, <2>2, <2>3, <2>5, AgentLost
<1>4. QED BY <1>2, <1>3

\* A report that is sent or held is added to those before it.
LEMMA Appended ==
  ASSUME NEW q \in Seq(Reports), NEW msg \in Reports
  PROVE  /\ Append(q, msg) \in Seq(Reports)
         /\ \A t : (\E i \in DOMAIN Append(q, msg) : Append(q, msg)[i].session = t)
                     <=> (\E i \in DOMAIN q : q[i].session = t) \/ msg.session = t
<1> DEFINE r == Append(q, msg)
<1>1. /\ r \in Seq(Reports) /\ Len(r) = Len(q) + 1 /\ r[Len(q) + 1] = msg
      /\ \A i \in 1..Len(q) : r[i] = q[i]
  OBVIOUS
<1>2. DOMAIN r = 1..(Len(q) + 1) /\ DOMAIN q = 1..Len(q) /\ Len(q) \in Nat
  BY <1>1
<1> HIDE DEF r
<1>3. \A i \in DOMAIN r : i \in DOMAIN q \/ i = Len(q) + 1
  BY <1>2
<1>4. \A i \in DOMAIN q : i \in DOMAIN r /\ r[i] = q[i]
  BY <1>1, <1>2
<1>5. Len(q) + 1 \in DOMAIN r
  BY <1>2
<1>6. \A t : (\E i \in DOMAIN r : r[i].session = t)
               <=> (\E i \in DOMAIN q : q[i].session = t) \/ msg.session = t
  BY <1>1, <1>3, <1>4, <1>5
<1>7. QED BY <1>1, <1>6 DEF r

LEMMA Reported ==
  ASSUME IInv, NEW s \in Sessions, Report(s)
  PROVE  /\ up' \in Seq(Reports) /\ held' \in Seq(Reports)
         /\ \A t \in Sessions : ReportedOn(t) => ReportedOn(t)'
         /\ Heard => ReportedOn(s)'
<1> DEFINE msg == [session |-> s]
<1>1. /\ up \in Seq(Reports) /\ held \in Seq(Reports)
      /\ msg \in Reports /\ msg.session = s
  BY DEF IInv, RelayTyped, Reports
<1>2. \/ up' = Sent(msg) /\ UNCHANGED held
      \/ held' = Append(held, msg) /\ UNCHANGED up
  BY DEF Report
<1> HIDE DEF msg
<1>3. CASE up' = Append(up, msg) /\ UNCHANGED held
  BY <1>1, <1>3, Appended DEF ReportedOn
<1>4. CASE ~Heard /\ UNCHANGED <<up, held>>
  BY <1>1, <1>4 DEF ReportedOn
<1>5. CASE held' = Append(held, msg) /\ UNCHANGED up
  BY <1>1, <1>5, Appended DEF ReportedOn
<1>6. QED BY <1>2, <1>3, <1>4, <1>5 DEF Sent

\* What the agent does on an open or a close.
LEMMA Obeyed ==
  ASSUME IInv, NEW msg \in Requests, msg.session \in Sessions,
         \/ msg.kind = "open" /\ StartPty(msg.session, msg.half)
         \/ msg.kind = "close" /\ ClosePty(msg.session)
  PROVE  /\ pty' \in [Sessions -> Halves \cup {NoHalf}]
         /\ up' \in Seq(Reports) /\ held' \in Seq(Reports)
         /\ UNCHANGED <<agentLink, stopped>>
         /\ \A t \in Sessions : ReportedOn(t) => ReportedOn(t)'
         /\ \A t \in Sessions \ {msg.session} : pty'[t] = pty[t]
         /\ msg.kind = "open" /\ Heard => pty'[msg.session] # NoHalf \/ ReportedOn(msg.session)'
         /\ msg.kind = "close" => pty'[msg.session] = NoHalf
<1> DEFINE s == msg.session
<1>1. /\ pty \in [Sessions -> Halves \cup {NoHalf}]
      /\ up \in Seq(Reports) /\ held \in Seq(Reports)
  BY DEF IInv, RelayTyped
<1>2. CASE msg.kind = "close"
  <2>1. pty' = [pty EXCEPT ![s] = NoHalf] /\ UNCHANGED <<agentLink, stopped, up, held>>
    BY <1>2 DEF ClosePty
  <2>2. QED BY <1>1, <1>2, <2>1 DEF ReportedOn
<1>3. CASE msg.kind = "open"
  <2>1. msg.half \in Halves
    BY <1>3 DEF Requests
  <2>2. UNCHANGED <<agentLink, stopped>> /\ StartPty(s, msg.half)
    BY <1>3 DEF StartPty
  <2>3. CASE pty[s] # NoHalf /\ UNCHANGED <<pty, up, held>>
    BY <1>1, <1>3, <2>2, <2>3 DEF ReportedOn
  <2>4. CASE pty[s] = NoHalf /\ pty' = [pty EXCEPT ![s] = msg.half] /\ UNCHANGED <<up, held>>
    BY <1>1, <1>3, <2>1, <2>2, <2>4, DeviceAssumption DEF ReportedOn
  <2>5. CASE pty[s] = NoHalf /\ Report(s) /\ UNCHANGED pty
    <3>1. /\ up' \in Seq(Reports) /\ held' \in Seq(Reports)
          /\ \A t \in Sessions : ReportedOn(t) => ReportedOn(t)'
          /\ Heard => ReportedOn(s)'
      BY <2>5, Reported
    <3>2. QED BY <1>1, <1>3, <2>2, <2>5, <3>1
  <2>6. QED BY <2>2, <2>3, <2>4, <2>5 DEF StartPty
<1>4. QED BY <1>2, <1>3

LEMMA AgentReceiveStep ==
  ASSUME IInv, AgentReceive
  PROVE  IInv'
<1>1. /\ agentLink # NoLink /\ mux.down # <<>>
      /\ UNCHANGED <<door, presence, bridge, via, shared>>
  BY DEF AgentReceive
<1>2. /\ mux \in Muxes /\ <<>> \in Seq(Requests) /\ mux.down \in Seq(Requests) /\ mux.stray \in SUBSET Sessions
      /\ pty \in [Sessions -> Halves \cup {NoHalf}]
      /\ up \in Seq(Reports) /\ held \in Seq(Reports)
  BY DEF IInv, RelayTyped, Muxes
<1>3. PICK msg \in Requests : msg = Head(mux.down)
  BY <1>1, <1>2
<1> DEFINE s == msg.session
<1>4. CASE msg.kind = "goodbye"
  <2> DEFINE stray == mux.stray \cup {t \in Sessions : pty[t] # NoHalf}
  <2>1. /\ mux' = Rewire(<<>>, stray)
        /\ agentLink' = NoLink /\ UNCHANGED <<pty, up, held>>
    BY <1>3, <1>4 DEF AgentReceive, Rewire
  <2>2. stopped' \in BOOLEAN
    BY <1>3, <1>4 DEF AgentReceive
  <2>3. stray \in SUBSET Sessions /\ \A t \in Sessions : pty[t] # NoHalf => t \in stray
    BY <1>2
  <2> HIDE DEF stray
  <2>4. /\ mux' \in Muxes /\ mux'.channels = mux.channels /\ mux'.down = <<>>
        /\ mux'.stray = stray
    BY <1>2, <2>1, <2>3, Rewired
  <2>5. QED BY <1>1, <1>2, <2>1, <2>2, <2>3, <2>4, AgentLost
<1>5. CASE msg.kind # "goodbye"
  <2>1. /\ mux' = [mux EXCEPT !.down = Tail(mux.down)]
        /\ \/ msg.kind = "open" /\ StartPty(s, msg.half)
           \/ msg.kind = "close" /\ ClosePty(s)
    BY <1>3, <1>5 DEF AgentReceive
  <2>2. s \in Sessions
    BY <1>3, <1>5 DEF Requests
  <2>3. /\ pty' \in [Sessions -> Halves \cup {NoHalf}]
        /\ up' \in Seq(Reports) /\ held' \in Seq(Reports)
        /\ UNCHANGED <<agentLink, stopped>>
        /\ \A t \in Sessions : ReportedOn(t) => ReportedOn(t)'
        /\ \A t \in Sessions \ {s} : pty'[t] = pty[t]
        /\ msg.kind = "open" /\ Heard => pty'[s] # NoHalf \/ ReportedOn(s)'
        /\ msg.kind = "close" => pty'[s] = NoHalf
    BY <1>3, <2>1, <2>2, Obeyed
  <2>4. /\ mux' \in Muxes /\ mux'.channels = mux.channels /\ mux'.down = Tail(mux.down)
        /\ mux'.unheard = mux.unheard /\ mux'.stray = mux.stray
    <3>1. mux' = Rewire(Tail(mux.down), mux.stray)
      BY <1>2, <2>1 DEF Muxes, Rewire
    <3>2. Tail(mux.down) \in Seq(Requests)
      BY <1>1, <1>2
    <3>3. QED BY <1>2, <3>1, <3>2, Rewired
  <2>5. UNCHANGED <<phase, session, holder, gone, Link, Heard>>
    BY <1>1, <2>3 DEF door, presence, Link, Heard
  <2>6. RelayTyped'
    BY <1>1, <2>3, <2>4, <2>5 DEF IInv, RelayTyped
  <2>7. DoorPart'
    BY <1>1, PartQuiet DEF IInv
  <2>8. SessionsPart'
    BY <1>1, <2>4, <2>5, SessionsKept DEF IInv
  <2>9. LinkEnds' /\ NothingAsked'
    BY <1>1, <2>3, <2>5 DEF LinkEnds, NothingAsked, IInv, WiresPart
  <2>10. AllBehind'
    <3> SUFFICES ASSUME NEW t \in Sessions
                 PROVE  Behind(mux', t, Heard, pty'[t] # NoHalf, ReportedOn(t)')
      BY <2>5 DEF AllBehind
    <3>1. Behind(mux, t, Heard, pty[t] # NoHalf, ReportedOn(t))
      BY DEF IInv, WiresPart, AllBehind
    <3>2. /\ s # t => LastRequest(mux'.down, t) = LastRequest(mux.down, t)
          /\ s = t => \/ /\ LastRequest(mux'.down, t) = LastRequest(mux.down, t)
                         /\ LastRequest(mux.down, t) # {}
                      \/ LastRequest(mux'.down, t) = {} /\ LastRequest(mux.down, t) = {msg}
      <4>1. mux.down \in Seq(Requests) /\ mux.down # <<>> /\ Head(mux.down) = msg
        BY <1>1, <1>2, <1>3
      <4>2. /\ s # t => LastRequest(Tail(mux.down), t) = LastRequest(mux.down, t)
            /\ s = t => \/ /\ LastRequest(Tail(mux.down), t) = LastRequest(mux.down, t)
                           /\ LastRequest(mux.down, t) # {}
                        \/ LastRequest(Tail(mux.down), t) = {} /\ LastRequest(mux.down, t) = {msg}
        BY <4>1, LastOfTail
      <4>3. mux'.down = Tail(mux.down)
        BY <2>4
      <4>4. QED BY <4>2, <4>3
    <3>3. CASE s # t
      BY <2>3, <2>4, <3>1, <3>2, <3>3 DEF Behind
    <3>4. CASE LastRequest(mux'.down, t) = LastRequest(mux.down, t) /\ LastRequest(mux.down, t) # {}
      BY <2>4, <3>1, <3>4 DEF Behind
    <3>5. CASE s = t /\ LastRequest(mux'.down, t) = {} /\ LastRequest(mux.down, t) = {msg}
      <4>1. ASSUME mux'.channels[t] # NoHalf, Heard, t \notin mux'.unheard
            PROVE  pty'[t] # NoHalf \/ ReportedOn(t)'
        <5>1. msg.kind = "open"
          BY <2>4, <3>1, <3>5, <4>1 DEF Behind
        <5>2. QED BY <2>3, <3>5, <4>1, <5>1
      <4>2. mux'.channels[t] = NoHalf /\ t \notin mux'.stray => ~(pty'[t] # NoHalf)
        BY <2>3, <2>4, <3>1, <3>5 DEF Behind
      <4>3. QED BY <3>5, <4>1, <4>2 DEF Behind
    <3>6. QED BY <3>2, <3>3, <3>4, <3>5
  <2>11. QED BY <2>6, <2>7, <2>8, <2>9, <2>10 DEF IInv, WiresPart
<1>6. QED BY <1>4, <1>5

LEMMA PtyExitStep ==
  ASSUME IInv, NEW s \in Sessions, PtyExit(s)
  PROVE  IInv'
<1>1. /\ pty' = [pty EXCEPT ![s] = NoHalf] /\ Report(s)
      /\ UNCHANGED <<door, presence, relay, agentLink, stopped, shared>>
  BY DEF PtyExit
<1>2. /\ up' \in Seq(Reports) /\ held' \in Seq(Reports)
      /\ \A t \in Sessions : ReportedOn(t) => ReportedOn(t)'
      /\ Heard => ReportedOn(s)'
  BY <1>1, Reported
<1>3. UNCHANGED <<phase, session, holder, gone, Link, Heard, bridge, via, mux>>
  BY <1>1 DEF door, presence, relay, Link, Heard
<1>4. pty \in [Sessions -> Halves \cup {NoHalf}]
  BY DEF IInv, RelayTyped
<1>5. RelayTyped'
  BY <1>1, <1>2, <1>3, <1>4 DEF IInv, RelayTyped
<1>6. DoorPart'
  BY <1>1, PartQuiet DEF IInv
<1>7. SessionsPart'
  BY <1>1, <1>3, SessionsKept DEF IInv
<1>8. LinkEnds' /\ NothingAsked'
  BY <1>1, <1>3, <1>4 DEF IInv, WiresPart, LinkEnds, NothingAsked
<1>9. AllBehind'
  <2> SUFFICES ASSUME NEW t \in Sessions
               PROVE  Behind(mux, t, Heard, pty'[t] # NoHalf, ReportedOn(t)')
    BY <1>3 DEF AllBehind
  <2>1. Behind(mux, t, Heard, pty[t] # NoHalf, ReportedOn(t))
    BY DEF IInv, WiresPart, AllBehind
  <2>2. pty'[t] = IF t = s THEN NoHalf ELSE pty[t]
    BY <1>1, <1>4
  <2>3. QED BY <1>2, <2>1, <2>2 DEF Behind
<1>10. QED BY <1>5, <1>6, <1>7, <1>8, <1>9 DEF IInv, WiresPart

\* A report that was held is sent; to a relay that does not hear the agent it is lost,
\* and then there is no channel that it could matter to.
LEMMA AgentFlushStep ==
  ASSUME IInv, AgentFlush
  PROVE  IInv'
<1>1. /\ held # <<>> /\ up' = Sent(Head(held)) /\ held' = Tail(held)
      /\ UNCHANGED <<door, presence, relay, agentLink, stopped, pty, shared>>
  BY DEF AgentFlush
<1>2. up \in Seq(Reports) /\ held \in Seq(Reports)
  BY DEF IInv, RelayTyped
<1>3. PICK msg \in Reports : msg = Head(held)
  BY <1>1, <1>2
<1>4. up' \in Seq(Reports) /\ held' \in Seq(Reports)
  BY <1>1, <1>2, <1>3, Appended DEF Sent
<1>5. UNCHANGED <<phase, session, holder, gone, Link, Heard, bridge, via, mux>>
  BY <1>1 DEF door, presence, relay, Link, Heard
<1>6. RelayTyped'
  BY <1>1, <1>4, <1>5 DEF IInv, RelayTyped
<1>7. DoorPart'
  BY <1>1, PartQuiet DEF IInv
<1>8. SessionsPart'
  BY <1>1, <1>5, SessionsKept DEF IInv
<1>9. LinkEnds' /\ NothingAsked'
  BY <1>1, <1>5 DEF IInv, WiresPart, LinkEnds, NothingAsked
<1>10. ASSUME NEW t \in Sessions, Heard, ReportedOn(t)
       PROVE  ReportedOn(t)'
  <2>1. up' = Append(up, msg)
    BY <1>1, <1>3, <1>10 DEF Sent
  <2>2. CASE \E i \in DOMAIN up : up[i].session = t
    BY <1>2, <2>1, <2>2, Appended DEF ReportedOn
  <2>3. CASE \E i \in DOMAIN held : held[i].session = t
    <3>1. PICK i \in DOMAIN held : held[i].session = t
      BY <2>3
    <3>2. CASE i = 1
      BY <1>1, <1>2, <1>3, <2>1, <3>1, <3>2, Appended DEF ReportedOn
    <3>3. CASE i # 1
      <4>1. i - 1 \in DOMAIN held' /\ held'[i - 1] = held[i]
        BY <1>1, <1>2, <3>1, <3>3
      <4>2. QED BY <3>1, <4>1 DEF ReportedOn
    <3>4. QED BY <3>2, <3>3
  <2>4. QED BY <1>10, <2>2, <2>3 DEF ReportedOn
<1>11. AllBehind'
  <2> SUFFICES ASSUME NEW t \in Sessions
               PROVE  Behind(mux, t, Heard, pty[t] # NoHalf, ReportedOn(t)')
    BY <1>1, <1>5 DEF AllBehind
  <2>1. Behind(mux, t, Heard, pty[t] # NoHalf, ReportedOn(t))
    BY DEF IInv, WiresPart, AllBehind
  <2>2. QED BY <1>10, <2>1 DEF Behind
<1>12. QED BY <1>6, <1>7, <1>8, <1>9, <1>11 DEF IInv, WiresPart

LEMMA QuietStep ==
  ASSUME IInv, UNCHANGED vars
  PROVE  IInv'
<1>1. UNCHANGED <<door, presence, relay, up, agent, shared>>
  BY DEF vars
<1>2. DoorPart' /\ UNCHANGED <<phase, session>>
  BY <1>1, PartQuiet DEF IInv, door
<1>3. QED BY <1>1, <1>2, DoorStep

LEMMA NextStep ==
  ASSUME IInv, [Next]_vars
  PROVE  IInv'
<1>1. CASE \E s \in Sessions : CreateSession(s)
  BY <1>1, CreateStep
<1>2. CASE \E c \in Halves, s \in Sessions : Upgrade(c, s)
  BY <1>2, UpgradeStep
<1>3. CASE \E c \in Halves : AuthRequest(c) \/ AuthFail(c)
  BY <1>3, VerifyStep
<1>4. CASE \E c \in Halves : AuthTimeout(c) \/ Terminate(c)
  BY <1>4, TerminateStep
<1>5. CASE \E due \in SUBSET Sessions : Sweep(due)
  BY <1>5, SweepStep
<1>6. CASE \E c \in Halves, mayUse \in BOOLEAN, busy \in SUBSET {"open", "close"} :
             AuthOk(c, mayUse, busy)
  BY <1>6, AuthOkStep
<1>7. CASE \E c \in Halves, busy \in SUBSET {"close"} : SocketClose(c, busy)
  BY <1>7, SocketCloseStep
<1>8. CASE \E s \in Sessions, busy \in SUBSET {"close"} : DeleteSession(s, busy)
  BY <1>8, DeleteStep
<1>9. CASE \E l \in Links : LinkUp(l)
  BY <1>9, LinkUpStep
<1>10. CASE \E goodbye \in BOOLEAN : LinkDown(goodbye)
  BY <1>10, LinkDownStep
<1>11. CASE AgentDrop \/ AgentRestart
  BY <1>11, AgentDropStep
<1>12. CASE Shutdown
  BY <1>12, ShutdownStep
<1>13. CASE AgentReceive
  BY <1>13, AgentReceiveStep
<1>14. CASE \E s \in Sessions : PtyExit(s)
  BY <1>14, PtyExitStep
<1>15. CASE \E busy \in SUBSET {"close"} : RelayReceive(busy)
  BY <1>15, RelayReceiveStep
<1>16. CASE AgentFlush
  BY <1>16, AgentFlushStep
<1>17. CASE UNCHANGED vars
  BY <1>17, QuietStep
<1>18. QED
  BY <1>1, <1>2, <1>3, <1>4, <1>5, <1>6, <1>7, <1>8, <1>9, <1>10, <1>11, <1>12, <1>13,
     <1>14, <1>15, <1>16, <1>17 DEF Next

----------------------------------------------------------------------------
\* The invariant of browser terminals on an agent device: what the theorems below
\* rest on.
THEOREM Inductive == Spec => []IInv
<1>1. IInv /\ [Next]_vars => IInv'
  BY NextStep
<1>2. QED BY InitOk, <1>1, PTL DEF Spec

\* Every reachable state of front door, link, wires and agent has its type.
THEOREM TypeCorrect == Spec => []TypeOK
<1>1. IInv => TypeOK
  BY IInvGives
<1>2. QED BY Inductive, <1>1, PTL

\* A channel is held for a routed half of its session over the link the relay has,
\* and a half that is alone with its session keeps its channel while it is ready.
THEOREM ChannelsAlwaysServed == Spec => []ChannelsServed
<1>1. IInv => ChannelsServed
  BY IInvGives
<1>2. QED BY Inductive, <1>1, PTL

\* The relay's channels and the agent's terminals agree as soon as the wires are read.
THEOREM TerminalsBehindChannels == Spec => []TerminalBehindChannel
<1>1. IInv => TerminalBehindChannel
  BY IInvGives
<1>2. QED BY Inductive, <1>1, PTL

\* Whatever devices do, the front door's map and records agree, and no half is live
\* after shutdown.
THEOREM FrontDoorAgrees == Spec => [](Door!MappedIsLive /\ Door!ShutdownIsFinal)
<1>1. ASSUME IInv
      PROVE  Door!MappedIsLive /\ Door!ShutdownIsFinal
  <2>1. Records!MappedIsLive /\ Records!ShutdownIsFinal
    BY <1>1 DEF IInv, DoorPart, DoorInv, Records!IInv, Records!Consistent
  <2>2. /\ Door!LiveHalves = Records!LiveHalves
        /\ \A c : Door!Live(c) <=> Records!Live(c)
        /\ \A s \in Sessions : /\ Door!HalvesOf(s) = Records!HalvesOf(s)
                               /\ Door!IsOpen(gui, s) <=> Records!IsOpen(gui, s)
        /\ Door!Attached = Records!Attached
    BY SameRegistry
       DEF Door!LiveHalves, Records!LiveHalves, Door!LivePhases, Records!LivePhases,
           Door!Live, Records!Live, Door!HalvesOf, Records!HalvesOf,
           Door!Attached, Records!Attached
  <2>3. Door!MappedIsLive
    BY <2>1, <2>2 DEF Door!MappedIsLive, Records!MappedIsLive
  <2>4. Door!ShutdownIsFinal
    BY <2>1, <2>2 DEF Door!ShutdownIsFinal, Records!ShutdownIsFinal
  <2>5. QED BY <2>3, <2>4
<1>2. QED BY Inductive, <1>1, PTL

\* Halves end as the front door ends them.
LEMMA HalvesEnd ==
  ASSUME NEW cs, EndHalves(cs)
  PROVE  [Door!Next]_door
<1>1. CASE cs \cap Door!LiveHalves = {}
  BY <1>1 DEF EndHalves
<1>2. CASE cs \cap Door!LiveHalves # {}
  <2>1. Door!Terminate(cs \cap Door!LiveHalves)
    BY <1>2 DEF EndHalves
  <2>2. cs \cap Door!LiveHalves \in SUBSET Halves
    BY DEF Door!LiveHalves
  <2>3. QED BY <2>1, <2>2 DEF Door!Next
<1>3. QED BY <1>1, <1>2

\* A step of browsers, link and agent is a step of the front door, or leaves it alone.
LEMMA StepOfDoor ==
  ASSUME Next
  PROVE  [Door!Next]_door
<1>1. CASE \E s \in Sessions : CreateSession(s)
  BY <1>1 DEF CreateSession, Door!Next
<1>2. CASE \E c \in Halves, s \in Sessions : Upgrade(c, s)
  BY <1>2 DEF Upgrade, Door!Next
<1>3. CASE \E c \in Halves : AuthRequest(c) \/ AuthFail(c) \/ AuthTimeout(c)
  BY <1>3 DEF AuthRequest, AuthFail, AuthTimeout, Door!Next
<1>4. CASE \E due \in SUBSET Sessions : Sweep(due)
  BY <1>4 DEF Sweep, Door!Next
<1>5. CASE \E c \in Halves : Terminate(c)
  <2>1. PICK c \in Halves : Door!Terminate({c})
    BY <1>5 DEF Terminate
  <2>2. {c} \in SUBSET Halves
    OBVIOUS
  <2>3. QED BY <2>1, <2>2 DEF Door!Next
<1>6. CASE \E c \in Halves, mayUse \in BOOLEAN, busy \in SUBSET {"open", "close"} :
             AuthOk(c, mayUse, busy)
  <2>1. PICK c \in Halves, mayUse \in BOOLEAN :
          Door!AuthOk(c, mayUse, session[c] \in Sessions /\ Link # NoLink)
    BY <1>6 DEF AuthOk
  <2>2. (session[c] \in Sessions /\ Link # NoLink) \in BOOLEAN
    OBVIOUS
  <2>3. QED BY <2>1, <2>2 DEF Door!Next
<1>7. CASE \E c \in Halves, busy \in SUBSET {"close"} : SocketClose(c, busy)
  BY <1>7 DEF SocketClose, Door!Next
<1>8. CASE \E s \in Sessions, busy \in SUBSET {"close"} : DeleteSession(s, busy)
  BY <1>8 DEF DeleteSession, Door!Next
<1>9. CASE \E l \in Links : LinkUp(l)
  BY <1>9, HalvesEnd DEF LinkUp
<1>10. CASE \E goodbye \in BOOLEAN : LinkDown(goodbye)
  BY <1>10, HalvesEnd DEF LinkDown
<1>11. CASE Shutdown
  BY <1>11 DEF Shutdown, Door!Next
<1>12. CASE \/ AgentDrop \/ AgentRestart \/ AgentReceive \/ AgentFlush
            \/ \E s \in Sessions : PtyExit(s)
  BY <1>12 DEF AgentDrop, AgentRestart, AgentReceive, AgentFlush, PtyExit
<1>13. CASE \E busy \in SUBSET {"close"} : RelayReceive(busy)
  <2>1. UNCHANGED door \/ EndHalves({mux.channels[Head(up).session]})
    BY <1>13 DEF RelayReceive
  <2>2. QED BY <2>1, HalvesEnd
<1>14. QED
  BY <1>1, <1>2, <1>3, <1>4, <1>5, <1>6, <1>7, <1>8, <1>9, <1>10, <1>11, <1>12, <1>13
     DEF Next

\* Whatever devices do, the front door goes through its own steps only.
THEOREM FrontDoorKept == Spec => KeepsFrontDoor
<1>1. Init => Door!Init
  BY DEF Init
<1>2. [Next]_vars => [Door!Next]_door
  BY StepOfDoor DEF vars
<1>3. QED BY <1>1, <1>2, PTL DEF Spec, KeepsFrontDoor
=============================================================================
