-------------------------- MODULE FrontDoorProofs --------------------------
(***************************************************************************)
(* The front door's safety properties for any number of sessions, halves   *)
(* and connection slots.                                                   *)
(***************************************************************************)
EXTENDS FrontDoor, TLAPS

\* What the invariants need of ids not yet in use: they are not in the map, and a
\* map entry always leads to the session of the half's own upgrade request.
FreshIds ==
  /\ \A c \in Halves : phase[c] = "unused" => gui.map[c] = NoSession
  /\ \A c \in Halves :
       gui.map[c] # NoSession =>
         session[c] = gui.map[c] /\ gui.state[gui.map[c]] # "unused"

Consistent == FreshIds /\ MappedIsLive /\ RecordMatchesHalf

\* A record names a half that was opened for it.
Owned ==
  \A s \in Sessions :
    gui.conn[s] \in Halves => session[gui.conn[s]] = s /\ phase[gui.conn[s]] # "unused"

IInv == TypeOK /\ Consistent /\ ShutdownIsFinal

----------------------------------------------------------------------------
\* Every registry operation returns a registry.
LEMMA CreateClosed ==
  ASSUME NEW g \in Registry, NEW s \in Sessions
  PROVE  Create(g, s) \in Registry /\ Close(g, s) \in Registry
BY DEF Registry, Create, Close, RecordStates, NoRecord

LEMMA AttachClosed ==
  ASSUME NEW g \in Registry, NEW s \in Sessions, NEW c \in Halves
  PROVE  Attach(g, s, c) \in Registry /\ MarkConnected(g, s, c) \in Registry
BY DEF Registry, Attach, MarkConnected, RecordStates, NoRecord

LEMMA DisconnectClosed ==
  ASSUME NEW g \in Registry, NEW cs
  PROVE  MarkDisconnected(g, cs) \in Registry
BY DEF Registry, MarkDisconnected, RecordStates, NoRecord

LEMMA SweepClosed ==
  ASSUME NEW g \in Registry, NEW due
  PROVE  SweepDue(g, due) \in Registry
<1>1. \A s \in Sessions : Expired(g.state[s]) \in RecordStates \cup NoRecord
  BY DEF Expired, Registry, RecordStates, NoRecord
<1>2. QED BY <1>1 DEF SweepDue, Registry

\* Which states may go where, without the table.
LEMMA AllowedIs ==
  ASSUME NEW g \in Registry, NEW s \in Sessions
  PROVE  /\ Allowed(g, s, "connecting") <=> g.state[s] \in {"creating", "disconnected"}
         /\ Allowed(g, s, "connected") <=> g.state[s] = "connecting"
         /\ Allowed(g, s, "disconnected") <=> g.state[s] \in Attached
         /\ Allowed(g, s, "closed") <=> IsOpen(g, s)
<1>1. g.state[s] \in RecordStates \cup NoRecord
  BY DEF Registry
<1>2. QED
  BY <1>1 DEF Allowed, TRANSITIONS, IsOpen, Exists, Attached, RecordStates, NoRecord

\* A connection detaches its record exactly when it is mapped to an attached one.
LEMMA DetachableIs ==
  ASSUME NEW g \in Registry, NEW c \in Halves
  PROVE  Detachable(g, c) <=> g.map[c] \in Sessions /\ g.state[g.map[c]] \in Attached
BY AllowedIs, RegistryAssumption DEF Detachable, Registry

----------------------------------------------------------------------------
LEMMA InitInv == Init => IInv
<1> SUFFICES ASSUME Init PROVE IInv
  OBVIOUS
<1>1. TypeOK
  BY DEF Init, TypeOK, EmptyRegistry, Registry, RecordStates, NoRecord, LivePhases
<1>2. \A s \in Sessions : gui.state[s] = "unused"
  BY DEF Init, EmptyRegistry
<1>3. \A c \in Halves : gui.map[c] = NoSession /\ session[c] = NoSession /\ ~Live(c)
  BY DEF Init, EmptyRegistry, Live, LivePhases
<1>4. FreshIds
  BY <1>3 DEF FreshIds
<1>5. MappedIsLive
  BY <1>2, <1>3, RegistryAssumption DEF MappedIsLive, Attached
<1>6. RecordMatchesHalf
  BY <1>2, <1>3, RegistryAssumption, FrontDoorAssumption
  DEF RecordMatchesHalf, Attached, HalvesOf
<1>7. ShutdownIsFinal
  BY DEF Init, ShutdownIsFinal
<1>8. QED BY <1>1, <1>4, <1>5, <1>6, <1>7 DEF IInv, Consistent

\* Creating a record: no connection is mapped to its id yet.
LEMMA CreateInv ==
  ASSUME IInv, NEW s \in Sessions, CreateSession(s)
  PROVE  IInv'
<1> USE DEF IInv, CreateSession
<1>1. TypeOK'
  BY CreateClosed DEF TypeOK
<1>2. /\ gui'.state = [gui.state EXCEPT ![s] = "creating"]
      /\ gui'.conn = gui.conn
      /\ gui'.map = gui.map
  BY DEF Create, TypeOK, Registry
<1>3. FreshIds'
  BY <1>2, RegistryAssumption DEF Consistent, FreshIds, TypeOK, Registry
<1>4. MappedIsLive'
  BY <1>2, RegistryAssumption
  DEF Consistent, MappedIsLive, FreshIds, TypeOK, Registry, IsOpen, Exists, Attached,
      HalvesOf, Live, NoRecord
<1>5. RecordMatchesHalf'
  BY <1>2, FrontDoorAssumption
  DEF Consistent, RecordMatchesHalf, TypeOK, Registry, Attached, HalvesOf, Live, LiveHalves
<1>6. QED BY <1>1, <1>3, <1>4, <1>5 DEF Consistent, ShutdownIsFinal, LiveHalves, Live

\* A new half attaches only to a record nobody is attached to; in Solo there is
\* then no other live half.
LEMMA UpgradeInv ==
  ASSUME IInv, NEW c \in Halves, NEW s \in Sessions \cup {NoSession}, Upgrade(c, s)
  PROVE  IInv'
<1> USE DEF IInv, Upgrade
<1>1. TypeOK'
  BY AttachClosed, RegistryAssumption DEF TypeOK, LivePhases
<1>2. gui.map[c] = NoSession /\ ~Live(c)
  BY DEF Consistent, FreshIds, Live, LivePhases
<1>3. /\ phase' = [phase EXCEPT ![c] = "open"] /\ phase'[c] = "open"
      /\ session' = [session EXCEPT ![c] = s] /\ session'[c] = s
      /\ \A d \in Halves \ {c} : phase'[d] = phase[d] /\ session'[d] = session[d]
  BY DEF TypeOK
<1>4. CASE s \in Sessions /\ gui.state[s] \in {"creating", "disconnected"}
  <2>1. /\ gui'.state = [gui.state EXCEPT ![s] = "connecting"]
        /\ gui'.conn = [gui.conn EXCEPT ![s] = c]
        /\ gui'.map = [gui.map EXCEPT ![c] = s]
    BY <1>4, AllowedIs, RegistryAssumption DEF Attach, TypeOK, Registry
  <2>2. \A d \in Halves : gui.map[d] # s
    BY <1>4 DEF Consistent, MappedIsLive, IsOpen, Exists, NoRecord, Attached
  <2>3. FreshIds'
    BY <2>1, <1>3, RegistryAssumption DEF Consistent, FreshIds, TypeOK, Registry
  <2>4. MappedIsLive'
    BY SMTT(30), <2>1, <2>2, <1>2, <1>3, <1>4, RegistryAssumption
    DEF Consistent, MappedIsLive, TypeOK, Registry, IsOpen, Exists, Attached, HalvesOf,
        Live, LivePhases, NoRecord
  <2>5. RecordMatchesHalf'
    <3> SUFFICES ASSUME NEW t \in Solo
                 PROVE  /\ gui'.state[t] \in Attached =>
                             gui'.conn[t] \in LiveHalves' /\ gui'.map[gui'.conn[t]] = t
                        /\ \A d \in HalvesOf(t)' :
                             /\ Live(d)' => gui'.conn[t] = d
                             /\ Live(d)' => gui'.state[t] = IF phase'[d] = "ready"
                                              THEN "connected" ELSE "connecting"
                             /\ gui'.map[d] = t <=> Live(d)'
      BY DEF RecordMatchesHalf
    <3>1. CASE t = s
      <4>1. \A d \in HalvesOf(s) : ~Live(d) /\ gui.map[d] # s
        BY <1>4, <2>2, <3>1 DEF BrowserMayConnect, HalvesOf, Live, LivePhases
      <4>2. gui'.state[s] = "connecting" /\ gui'.conn[s] = c /\ gui'.map[c] = s
        BY <2>1, <1>4 DEF TypeOK, Registry
      <4>3. Live(c)' /\ c \in LiveHalves' /\ phase'[c] # "ready"
        BY <1>3 DEF Live, LiveHalves, LivePhases
      <4>4. \A d \in HalvesOf(s)' \ {c} : ~Live(d)' /\ gui'.map[d] # s
        BY <1>3, <2>1, <4>1 DEF TypeOK, Registry, HalvesOf, Live
      <4>5. QED BY <3>1, <4>2, <4>3, <4>4
    <3>2. CASE t # s
      BY <1>2, <1>3, <2>1, <3>2, <1>4, FrontDoorAssumption, RegistryAssumption
      DEF Consistent, RecordMatchesHalf, TypeOK, Registry, Attached, HalvesOf, Live, LiveHalves,
          LivePhases
    <3>3. QED BY <3>1, <3>2
  <2>6. QED BY <1>1, <2>3, <2>4, <2>5 DEF Consistent, ShutdownIsFinal
<1>5. CASE ~(s \in Sessions /\ gui.state[s] \in {"creating", "disconnected"})
  <2>1. gui' = gui
    BY <1>5, AllowedIs DEF Attach, TypeOK
  <2>2. FreshIds'
    BY <1>2, <1>3, <2>1 DEF Consistent, FreshIds
  <2>3. MappedIsLive'
    BY <1>2, <1>3, <2>1, RegistryAssumption
    DEF Consistent, MappedIsLive, TypeOK, Registry, IsOpen, Exists, HalvesOf, Live, LivePhases
  <2>4. s \notin Solo
    <3> SUFFICES ASSUME s \in Solo PROVE FALSE
      OBVIOUS
    <3>1. s \in Sessions /\ IsOpen(gui, s) /\ BrowserMayConnect(s)
      BY FrontDoorAssumption
    <3>2. gui.state[s] \in Attached
      BY <3>1, <1>5 DEF IsOpen, Exists, TypeOK, Registry, RecordStates, NoRecord, Attached
    <3>3. PICK d \in HalvesOf(s) : Live(d)
      BY <3>1, <3>2 DEF Consistent, MappedIsLive
    <3>4. QED BY <3>1, <3>3 DEF BrowserMayConnect, Live, LivePhases
  <2>5. RecordMatchesHalf'
    BY <1>2, <1>3, <2>1, <2>4
    DEF Consistent, RecordMatchesHalf, TypeOK, Registry, Attached, HalvesOf, Live, LiveHalves,
        LivePhases
  <2>6. QED BY <1>1, <2>2, <2>3, <2>5 DEF Consistent, ShutdownIsFinal
<1>6. QED BY <1>4, <1>5

\* Starting or failing a verification leaves the half live and unauthenticated.
LEMMA VerifyInv ==
  ASSUME IInv, NEW c \in Halves, AuthRequest(c) \/ AuthFail(c)
  PROVE  IInv'
<1>1. /\ UNCHANGED <<gui, session, shuttingDown>>
      /\ Live(c) /\ phase[c] # "ready"
      /\ phase' = [phase EXCEPT ![c] = phase'[c]]
      /\ phase'[c] \in {"open", "verifying"}
  BY DEF AuthRequest, AuthFail, IInv, TypeOK, Live, LivePhases
<1>2. TypeOK'
  BY <1>1 DEF IInv, TypeOK, LivePhases
<1>3. \A d \in Halves : Live(d)' <=> Live(d)
  BY <1>1 DEF IInv, TypeOK, Live, LivePhases
<1>4. \A d \in Halves : phase'[d] = "ready" <=> phase[d] = "ready"
  BY <1>1 DEF IInv, TypeOK
<1>5. LiveHalves' = LiveHalves
  BY <1>3 DEF LiveHalves
<1>6. FreshIds'
  BY <1>1 DEF IInv, Consistent, FreshIds, TypeOK
<1>7. MappedIsLive'
  BY <1>1, <1>3 DEF IInv, Consistent, MappedIsLive, IsOpen, Exists, HalvesOf
<1>8. RecordMatchesHalf'
  BY <1>1, <1>3, <1>4, <1>5 DEF IInv, Consistent, RecordMatchesHalf, HalvesOf
<1>9. QED
  BY <1>1, <1>2, <1>5, <1>6, <1>7, <1>8 DEF IInv, Consistent, ShutdownIsFinal

----------------------------------------------------------------------------
\* What closing the halves cs does, whichever handler closes them: the records
\* they are mapped to become "disconnected" and their map entries go.
LEMMA DetachEffect ==
  ASSUME IInv, NEW cs \in SUBSET Halves, NEW g, g = MarkDisconnected(gui, cs)
  PROVE  /\ g \in Registry
         /\ g.conn = gui.conn
         /\ \A c \in Halves :
              g.map[c] = IF c \in cs /\ gui.map[c] \in Sessions
                              /\ gui.state[gui.map[c]] \in Attached
                         THEN NoSession ELSE gui.map[c]
         /\ \A s \in Sessions :
              g.state[s] = IF gui.state[s] \in Attached /\ \E c \in cs : gui.map[c] = s
                           THEN "disconnected" ELSE gui.state[s]
<1>1. g \in Registry /\ gui \in Registry
  BY DisconnectClosed DEF IInv, TypeOK
<1>2. g = [state |-> [s \in Sessions |->
                        IF \E c \in cs : gui.map[c] = s /\ Detachable(gui, c)
                        THEN "disconnected" ELSE gui.state[s]],
           conn  |-> gui.conn,
           map   |-> [c \in Halves |-> IF c \in cs /\ Detachable(gui, c)
                                       THEN NoSession ELSE gui.map[c]]]
  BY <1>1 DEF MarkDisconnected, Registry
<1>3. QED
  BY <1>1, <1>2, DetachableIs

\* Closing halves keeps the registry consistent with those that are left.
LEMMA DetachInv ==
  ASSUME IInv, NEW cs \in SUBSET Halves,
         gui' = MarkDisconnected(gui, cs), session' = session,
         \A c \in cs : phase[c] # "unused" /\ phase'[c] \in {"closing", "gone"},
         \A c \in Halves \ cs :
           phase'[c] = phase[c] \/ (phase[c] = "closing" /\ phase'[c] = "gone")
  PROVE  Consistent'
<1>1. \A c \in Halves : Live(c)' <=> Live(c) /\ c \notin cs
  BY DEF Live, LivePhases
<1>2. /\ gui'.conn = gui.conn
      /\ \A c \in Halves :
           gui'.map[c] = IF c \in cs /\ gui.map[c] \in Sessions
                             /\ gui.state[gui.map[c]] \in Attached
                         THEN NoSession ELSE gui.map[c]
      /\ \A s \in Sessions :
           gui'.state[s] = IF gui.state[s] \in Attached /\ \E c \in cs : gui.map[c] = s
                           THEN "disconnected" ELSE gui.state[s]
  BY DetachEffect
<1>3. FreshIds'
  BY <1>2, RegistryAssumption DEF IInv, TypeOK, Registry, Consistent, FreshIds
<1>4. MappedIsLive'
  <2> SUFFICES ASSUME NEW s \in Sessions
               PROVE  /\ gui'.state[s] \in Attached =>
                           \E c \in HalvesOf(s)' : Live(c)' /\ gui'.map[c] = s
                      /\ \A c, d \in Halves :
                           gui'.map[c] = s /\ IsOpen(gui', s) =>
                             /\ gui'.state[s] \in Attached
                             /\ session'[c] = s /\ Live(c)'
                             /\ gui'.map[d] = s => c = d
    BY DEF MappedIsLive
  <2>1. ASSUME gui'.state[s] \in Attached
        PROVE  \E c \in HalvesOf(s)' : Live(c)' /\ gui'.map[c] = s
    <3>1. gui.state[s] \in Attached /\ ~ \E c \in cs : gui.map[c] = s
      BY <2>1, <1>2 DEF Attached
    <3>2. PICK c \in HalvesOf(s) : Live(c) /\ gui.map[c] = s
      BY <3>1 DEF IInv, Consistent, MappedIsLive
    <3>3. QED BY <3>1, <3>2, <1>1, <1>2 DEF HalvesOf
  <2>2. ASSUME NEW c \in Halves, NEW d \in Halves, gui'.map[c] = s, IsOpen(gui', s)
        PROVE  /\ gui'.state[s] \in Attached
               /\ session'[c] = s /\ Live(c)'
               /\ gui'.map[d] = s => c = d
    <3>1. gui.map[c] = s /\ ~(c \in cs /\ gui.state[s] \in Attached)
      BY <2>2, <1>2, RegistryAssumption
    <3>2. IsOpen(gui, s)
      BY <2>2, <1>2 DEF IsOpen, Exists, NoRecord, Attached
    <3>3. gui.state[s] \in Attached /\ session[c] = s /\ Live(c)
          /\ \A e \in Halves : gui.map[e] = s => c = e
      BY <3>1, <3>2 DEF IInv, Consistent, MappedIsLive
    <3>4. c \notin cs /\ gui'.state[s] = gui.state[s]
      BY <3>1, <3>3, <1>2
    <3>5. QED BY <3>3, <3>4, <1>1, <1>2, RegistryAssumption
  <2>3. QED BY <2>1, <2>2
<1>5. RecordMatchesHalf'
  <2> SUFFICES ASSUME NEW s \in Solo
               PROVE  /\ gui'.state[s] \in Attached =>
                           gui'.conn[s] \in LiveHalves' /\ gui'.map[gui'.conn[s]] = s
                      /\ \A c \in HalvesOf(s)' :
                           /\ Live(c)' => gui'.conn[s] = c
                           /\ Live(c)' => gui'.state[s] = IF phase'[c] = "ready"
                                            THEN "connected" ELSE "connecting"
                           /\ gui'.map[c] = s <=> Live(c)'
    BY DEF RecordMatchesHalf
  <2>1. s \in Sessions /\ s # NoSession
    BY FrontDoorAssumption, RegistryAssumption
  <2>2. /\ gui.state[s] \in Attached =>
             gui.conn[s] \in LiveHalves /\ gui.map[gui.conn[s]] = s
        /\ \A c \in HalvesOf(s) :
             /\ Live(c) => gui.conn[s] = c
             /\ Live(c) => gui.state[s] = IF phase[c] = "ready"
                             THEN "connected" ELSE "connecting"
             /\ gui.map[c] = s <=> Live(c)
    BY DEF IInv, Consistent, RecordMatchesHalf
  <2>3. \A c \in Halves : gui.map[c] = s => c \in HalvesOf(s)
    BY <2>1 DEF IInv, Consistent, FreshIds, HalvesOf
  <2>4. ASSUME gui'.state[s] \in Attached
        PROVE  gui'.conn[s] \in LiveHalves' /\ gui'.map[gui'.conn[s]] = s
    <3>1. gui.state[s] \in Attached /\ ~ \E c \in cs : gui.map[c] = s
      BY <2>4, <2>1, <1>2 DEF Attached
    <3>2. gui.conn[s] \in LiveHalves /\ gui.map[gui.conn[s]] = s
      BY <3>1, <2>2
    <3>3. QED BY <3>1, <3>2, <1>1, <1>2 DEF LiveHalves
  <2>5. ASSUME NEW c \in HalvesOf(s)', Live(c)'
        PROVE  /\ gui'.conn[s] = c /\ gui'.map[c] = s
               /\ gui'.state[s] = IF phase'[c] = "ready" THEN "connected" ELSE "connecting"
    <3>1. c \in HalvesOf(s) /\ c \in Halves /\ Live(c) /\ c \notin cs
      BY <2>5, <1>1 DEF HalvesOf
    <3>2. phase'[c] = phase[c]
      BY <3>1 DEF Live, LivePhases
    <3>3. \A d \in cs : gui.map[d] # s
      BY <3>1, <2>2, <2>3
    <3>4. QED BY <3>1, <3>2, <3>3, <2>1, <2>2, <1>2
  <2>6. ASSUME NEW c \in HalvesOf(s)', gui'.map[c] = s
        PROVE  Live(c)'
    <3>1. c \in Halves /\ c \in HalvesOf(s) /\ gui.map[c] = s
      BY <2>6, <2>1, <1>2 DEF HalvesOf
    <3>2. Live(c) /\ gui.state[s] \in Attached
      BY <3>1, <2>2 DEF Attached
    <3>3. c \notin cs
      BY <3>1, <3>2, <2>1, <2>6, <1>2
    <3>4. QED BY <3>1, <3>2, <3>3, <1>1
  <2>7. QED BY <2>4, <2>5, <2>6
<1>6. QED BY <1>3, <1>4, <1>5 DEF Consistent

LEMMA TerminatedTyped ==
  ASSUME TypeOK, NEW cs
  PROVE  /\ Terminated(cs) \in [Halves -> LivePhases \cup {"unused", "closing", "gone"}]
         /\ \A c \in Halves : Terminated(cs)[c] = IF c \in cs THEN "closing" ELSE phase[c]
BY DEF Terminated, TypeOK

LEMMA TerminateInv ==
  ASSUME IInv, NEW cs \in SUBSET Halves, Terminate(cs)
  PROVE  IInv'
<1> USE DEF Terminate
<1>1. TypeOK'
  BY DisconnectClosed, TerminatedTyped DEF IInv, TypeOK
<1>2. Consistent'
  BY DetachInv, TerminatedTyped DEF IInv, LiveHalves, Live, LivePhases
<1>3. ShutdownIsFinal'
  BY TerminatedTyped DEF IInv, ShutdownIsFinal, LiveHalves, Live, LivePhases
<1>4. QED BY <1>1, <1>2, <1>3 DEF IInv

\* A lost socket is a half closed in the same step; the end of a closing socket
\* changes nothing the registry knows.
LEMMA SocketCloseInv ==
  ASSUME IInv, NEW c \in Halves, SocketClose(c)
  PROVE  IInv'
<1> USE DEF SocketClose
<1>1. TypeOK'
  BY DisconnectClosed DEF IInv, TypeOK
<1>2. /\ phase'[c] = "gone" /\ phase[c] # "unused"
      /\ \A d \in Halves \ {c} : phase'[d] = phase[d]
  BY DEF IInv, TypeOK, LivePhases
<1>3. Consistent'
  <2>1. CASE Live(c)
    BY <2>1, <1>2, DetachInv
  <2>2. CASE ~Live(c)
    <3>1. gui' = gui /\ phase[c] = "closing"
      BY <2>2 DEF Live, LivePhases
    <3>2. \A d \in Halves : Live(d)' <=> Live(d)
      BY <3>1, <1>2 DEF Live, LivePhases
    <3>3. LiveHalves' = LiveHalves
      BY <3>2 DEF LiveHalves
    <3>4. FreshIds'
      BY <3>1, <1>2 DEF IInv, Consistent, FreshIds
    <3>5. MappedIsLive'
      BY <3>1, <3>2 DEF IInv, Consistent, MappedIsLive, IsOpen, Exists, HalvesOf
    <3>6. RecordMatchesHalf'
      BY <3>1, <3>2, <3>3, <1>2
      DEF IInv, Consistent, RecordMatchesHalf, HalvesOf, Live, LivePhases
    <3>7. QED BY <3>4, <3>5, <3>6 DEF Consistent
  <2>3. QED BY <2>1, <2>2
<1>4. ShutdownIsFinal'
  BY <1>2 DEF IInv, ShutdownIsFinal, LiveHalves, Live, LivePhases
<1>5. QED BY <1>1, <1>3, <1>4 DEF IInv

LEMMA ShutdownInv ==
  ASSUME IInv, Shutdown
  PROVE  IInv'
<1> USE DEF Shutdown
<1>1. TypeOK'
  BY DisconnectClosed, TerminatedTyped DEF IInv, TypeOK
<1>2. LiveHalves \in SUBSET Halves
  BY DEF LiveHalves
<1>3. Consistent'
  BY <1>2, DetachInv, TerminatedTyped DEF IInv, LiveHalves, Live, LivePhases
<1>4. ShutdownIsFinal'
  BY TerminatedTyped DEF IInv, ShutdownIsFinal, LiveHalves, Live, LivePhases
<1>5. QED BY <1>1, <1>3, <1>4 DEF IInv

----------------------------------------------------------------------------
\* Linking the record of a verifying half that is the mapped one.
LEMMA AuthOkInv ==
  ASSUME IInv, NEW c \in Halves, NEW mayUse \in BOOLEAN, NEW routed \in BOOLEAN,
         AuthOk(c, mayUse, routed)
  PROVE  IInv'
<1> DEFINE s == session[c]
           goes == Admitted(c, mayUse) /\ routed
           links == s \in Sessions /\ Admitted(c, mayUse) /\ gui.state[s] = "connecting"
           linked == IF s \in Sessions /\ Admitted(c, mayUse)
                     THEN MarkConnected(gui, s, c) ELSE gui
<1>1. /\ phase[c] = "verifying" /\ session' = session /\ shuttingDown' = shuttingDown
      /\ goes => gui' = linked /\ phase' = [phase EXCEPT ![c] = "ready"]
      /\ ~goes => gui' = MarkDisconnected(linked, {c}) /\ phase' = Terminated({c})
  BY DEF AuthOk
<1>2. linked \in Registry /\ gui \in Registry /\ (~links => linked = gui)
  BY AttachClosed, AllowedIs DEF IInv, TypeOK, MarkConnected
<1>3. links => /\ linked.state = [gui.state EXCEPT ![s] = "connected"]
               /\ linked.conn = [gui.conn EXCEPT ![s] = c]
               /\ linked.map = gui.map
  BY <1>2, AllowedIs DEF MarkConnected, Registry
<1> HIDE DEF linked, goes, links
<1>4. TypeOK'
  BY <1>1, <1>2, DisconnectClosed, TerminatedTyped DEF IInv, TypeOK, LivePhases
<1>5. /\ \A d \in Halves \ {c} : phase'[d] = phase[d]
      /\ goes => phase'[c] = "ready"
      /\ ~goes => phase'[c] = "closing"
  BY <1>1, TerminatedTyped DEF IInv, TypeOK
<1>6. Live(c) /\ c \in HalvesOf(s) /\ (Live(c)' <=> goes)
  BY <1>1, <1>5 DEF HalvesOf, Live, LivePhases
<1>7. \A d \in Halves \ {c} : Live(d)' <=> Live(d)
  BY <1>5 DEF Live
<1>8. s \in Solo =>
        /\ gui.map[c] = s /\ gui.conn[s] = c /\ gui.state[s] = "connecting"
        /\ \A d \in HalvesOf(s) \ {c} : ~Live(d) /\ gui.map[d] # s
  BY <1>1, <1>6 DEF IInv, Consistent, RecordMatchesHalf
<1>9. ShutdownIsFinal'
  BY <1>1, <1>6, <1>7 DEF IInv, ShutdownIsFinal, LiveHalves
<1>10. CASE ~links /\ ~goes
  BY <1>1, <1>2, <1>4, <1>5, <1>9, <1>10, DetachInv DEF IInv
<1>11. CASE ~links /\ goes
  <2>1. gui' = gui
    BY <1>1, <1>2, <1>11
  <2>2. s \notin Solo
    BY <1>8, <1>11, FrontDoorAssumption DEF goes, links
  <2>3. \A d \in Halves : Live(d)' <=> Live(d)
    BY <1>6, <1>7, <1>11
  <2>4. FreshIds'
    BY <2>1, <1>1, <1>5, <1>11 DEF IInv, Consistent, FreshIds
  <2>5. MappedIsLive'
    BY <2>1, <2>3, <1>1 DEF IInv, Consistent, MappedIsLive, IsOpen, Exists, HalvesOf
  <2>6. RecordMatchesHalf'
    BY <2>1, <2>2, <2>3, <1>1, <1>5
    DEF IInv, Consistent, RecordMatchesHalf, HalvesOf, LiveHalves
  <2>7. QED BY <1>4, <1>9, <2>4, <2>5, <2>6 DEF IInv, Consistent
<1>12. CASE links /\ goes
  <2>1. gui' = linked /\ s \in Sessions /\ gui.state[s] = "connecting"
    BY <1>1, <1>12 DEF links
  <2>2. /\ gui'.map = gui.map
        /\ gui'.state[s] = "connected" /\ gui'.conn[s] = c
        /\ \A t \in Sessions \ {s} :
             gui'.state[t] = gui.state[t] /\ gui'.conn[t] = gui.conn[t]
    BY <2>1, <1>2, <1>3, <1>12 DEF Registry
  <2>3. \A d \in Halves : Live(d)' <=> Live(d)
    BY <1>6, <1>7, <1>12
  <2>4. FreshIds'
    BY <2>1, <2>2, <1>1, <1>2, <1>5, <1>12, RegistryAssumption
    DEF IInv, Consistent, FreshIds, Registry
  <2>5. MappedIsLive'
    BY <2>1, <2>2, <2>3, <1>1
    DEF IInv, Consistent, MappedIsLive, IsOpen, Exists, NoRecord, Attached, HalvesOf
  <2>6. RecordMatchesHalf'
    <3> SUFFICES ASSUME NEW t \in Solo
                 PROVE  /\ gui'.state[t] \in Attached =>
                             gui'.conn[t] \in LiveHalves' /\ gui'.map[gui'.conn[t]] = t
                        /\ \A d \in HalvesOf(t)' :
                             /\ Live(d)' => gui'.conn[t] = d
                             /\ Live(d)' => gui'.state[t] = IF phase'[d] = "ready"
                                              THEN "connected" ELSE "connecting"
                             /\ gui'.map[d] = t <=> Live(d)'
      BY DEF RecordMatchesHalf
    <3>1. LiveHalves' = LiveHalves
      BY <2>3 DEF LiveHalves
    <3>2. CASE t = s
      BY <3>1, <3>2, <2>2, <2>3, <1>1, <1>5, <1>6, <1>8, <1>12 DEF HalvesOf, LiveHalves
    <3>3. CASE t # s
      <4>1. c \notin HalvesOf(t) /\ HalvesOf(t)' = HalvesOf(t) /\ t \in Sessions
        BY <3>3, <1>1, FrontDoorAssumption DEF HalvesOf
      <4>2. QED
        BY <4>1, <3>1, <3>3, <2>2, <2>3, <1>5
        DEF IInv, Consistent, RecordMatchesHalf, HalvesOf
    <3>4. QED BY <3>2, <3>3
  <2>7. QED BY <1>4, <1>9, <2>4, <2>5, <2>6 DEF IInv, Consistent
\* The record is linked and the half then has no route: it is detached again,
\* unless another half is the one the map knows.
<1>13. CASE links /\ ~goes
  <2>1. /\ gui' = MarkDisconnected(linked, {c}) /\ s \in Sessions
        /\ gui.state[s] = "connecting"
    BY <1>1, <1>13 DEF links
  <2>2. /\ linked.map = gui.map
        /\ linked.state[s] = "connected" /\ linked.conn[s] = c
        /\ \A t \in Sessions \ {s} :
             linked.state[t] = gui.state[t] /\ linked.conn[t] = gui.conn[t]
    BY <2>1, <1>2, <1>3, <1>13 DEF Registry
  <2>3. gui.map[c] \in {s, NoSession}
    BY <1>2 DEF IInv, Consistent, FreshIds
  <2>4. \A d \in Halves : Detachable(linked, d) <=>
          linked.map[d] \in Sessions /\ linked.state[linked.map[d]] \in Attached
    BY <1>2, DetachableIs
  <2>5. gui' = [state |-> [t \in Sessions |->
                            IF \E d \in {c} : linked.map[d] = t /\ Detachable(linked, d)
                            THEN "disconnected" ELSE linked.state[t]],
                conn  |-> linked.conn,
                map   |-> [d \in Halves |-> IF d \in {c} /\ Detachable(linked, d)
                                            THEN NoSession ELSE linked.map[d]]]
    BY <2>1, <1>2 DEF MarkDisconnected, Registry
  <2>6. CASE gui.map[c] = s
    <3>1. Detachable(linked, c)
      BY <2>1, <2>2, <2>4, <2>6 DEF Attached
    <3>2. /\ gui'.state[s] = "disconnected" /\ gui'.conn[s] = c
          /\ \A t \in Sessions \ {s} :
               gui'.state[t] = gui.state[t] /\ gui'.conn[t] = gui.conn[t]
          /\ gui'.map[c] = NoSession
          /\ \A d \in Halves \ {c} : gui'.map[d] = gui.map[d]
      BY SMTT(30), <3>1, <2>1, <2>2, <2>5, <2>6
    <3>3. \A d \in Halves \ {c} : gui.map[d] # s
      BY <2>1, <2>6 DEF IInv, Consistent, MappedIsLive, IsOpen, Exists, NoRecord
    <3>4. FreshIds'
      <4>1. \A d \in Halves : phase'[d] = "unused" => gui'.map[d] = NoSession
        BY <3>2, <1>5, <1>13 DEF IInv, Consistent, FreshIds
      <4>2. ASSUME NEW d \in Halves, gui'.map[d] # NoSession
            PROVE  session'[d] = gui'.map[d] /\ gui'.state[gui'.map[d]] # "unused"
        <5>1. d # c /\ gui'.map[d] = gui.map[d] /\ gui.map[d] # s
          BY <4>2, <3>2, <3>3
        <5>2. gui.map[d] \in Sessions \ {s}
          BY <5>1, <4>2, <1>2 DEF Registry
        <5>3. QED BY <5>1, <5>2, <4>2, <3>2, <1>1 DEF IInv, Consistent, FreshIds
      <4>3. QED BY <4>1, <4>2 DEF FreshIds
    <3>5. MappedIsLive'
      <4> SUFFICES ASSUME NEW t \in Sessions
                   PROVE  /\ gui'.state[t] \in Attached =>
                               \E d \in HalvesOf(t)' : Live(d)' /\ gui'.map[d] = t
                          /\ \A d, e \in Halves :
                               gui'.map[d] = t /\ IsOpen(gui', t) =>
                                 /\ gui'.state[t] \in Attached
                                 /\ session'[d] = t /\ Live(d)'
                                 /\ gui'.map[e] = t => d = e
        BY DEF MappedIsLive
      <4>1. CASE t = s
        <5>1. \A d \in Halves : gui'.map[d] # s
          BY <3>2, <3>3, <2>1, RegistryAssumption
        <5>2. QED BY <4>1, <5>1, <3>2 DEF Attached
      <4>2. CASE t # s
        <5>1. gui'.state[t] = gui.state[t] /\ (IsOpen(gui', t) <=> IsOpen(gui, t))
          BY <4>2, <3>2 DEF IsOpen, Exists
        <5>2. \A d \in Halves : gui'.map[d] = t <=> d # c /\ gui.map[d] = t
          BY <4>2, <3>2, <2>6, RegistryAssumption
        <5>3. HalvesOf(t)' = HalvesOf(t)
          BY <1>1 DEF HalvesOf
        <5>4. gui.map[c] # t
          BY <4>2, <2>6
        <5>5. QED
          BY <5>1, <5>2, <5>3, <5>4, <1>1, <1>7 DEF IInv, Consistent, MappedIsLive, HalvesOf
      <4>3. QED BY <4>1, <4>2
    <3>6. RecordMatchesHalf'
      <4> SUFFICES ASSUME NEW t \in Solo
                   PROVE  /\ gui'.state[t] \in Attached =>
                               gui'.conn[t] \in LiveHalves' /\ gui'.map[gui'.conn[t]] = t
                          /\ \A d \in HalvesOf(t)' :
                               /\ Live(d)' => gui'.conn[t] = d
                               /\ Live(d)' => gui'.state[t] = IF phase'[d] = "ready"
                                                THEN "connected" ELSE "connecting"
                               /\ gui'.map[d] = t <=> Live(d)'
        BY DEF RecordMatchesHalf
      <4>1. CASE t = s
        <5>1. \A d \in HalvesOf(s) \ {c} : ~Live(d)' /\ gui'.map[d] # s
          BY <4>1, <3>2, <1>7, <1>8 DEF HalvesOf
        <5>2. ~Live(c)' /\ gui'.map[c] # s
          BY <3>2, <2>1, <1>6, <1>13, RegistryAssumption
        <5>3. HalvesOf(t)' = HalvesOf(s)
          BY <4>1, <1>1 DEF HalvesOf
        <5>4. gui'.state[t] \notin Attached
          BY <4>1, <3>2 DEF Attached
        <5>5. \A d \in HalvesOf(t)' : ~Live(d)' /\ gui'.map[d] # t
          BY <4>1, <5>1, <5>2, <5>3
        <5>6. QED BY <5>4, <5>5
      <4>2. CASE t # s
        <5>1. c \notin HalvesOf(t) /\ HalvesOf(t)' = HalvesOf(t) /\ t \in Sessions
          BY <4>2, <1>1, FrontDoorAssumption DEF HalvesOf
        <5>2. gui.state[t] \in Attached => gui.conn[t] # c
          BY <5>1, <1>2, <2>6, <4>2 DEF IInv, Consistent, RecordMatchesHalf
        <5>3. QED
          BY <5>1, <5>2, <4>2, <3>2, <1>5, <1>7
          DEF IInv, Consistent, RecordMatchesHalf, HalvesOf, LiveHalves
      <4>3. QED BY <4>1, <4>2
    <3>7. QED BY <1>4, <1>9, <3>4, <3>5, <3>6 DEF IInv, Consistent
  <2>7. CASE gui.map[c] = NoSession
    <3>1. gui' = linked
      BY <2>2, <2>4, <2>5, <2>7, <1>2, RegistryAssumption DEF Registry
    <3>2. s \notin Solo
      BY <1>8, <2>1, <2>7, RegistryAssumption
    <3>3. FreshIds'
      <4>1. \A d \in Halves : phase'[d] = "unused" => gui'.map[d] = NoSession
        BY <3>1, <2>2, <1>5, <1>13 DEF IInv, Consistent, FreshIds
      <4>2. ASSUME NEW d \in Halves, gui'.map[d] # NoSession
            PROVE  session'[d] = gui'.map[d] /\ gui'.state[gui'.map[d]] # "unused"
        <5>1. gui'.map[d] = gui.map[d] /\ gui.map[d] \in Sessions
          BY <4>2, <3>1, <2>2, <1>2 DEF Registry
        <5>2. gui.map[d] = s \/ gui'.state[gui.map[d]] = gui.state[gui.map[d]]
          BY <5>1, <3>1, <2>2
        <5>3. QED BY <5>1, <5>2, <4>2, <3>1, <2>2, <1>1 DEF IInv, Consistent, FreshIds
      <4>3. QED BY <4>1, <4>2 DEF FreshIds
    <3>4. MappedIsLive'
      <4>1. \A t \in Sessions :
              /\ gui'.state[t] \in Attached <=> gui.state[t] \in Attached
              /\ IsOpen(gui', t) <=> IsOpen(gui, t)
        BY <3>1, <2>1, <2>2 DEF IsOpen, Exists, NoRecord, Attached
      <4>2. \A t \in Sessions : gui.map[c] # t
        BY <2>7, RegistryAssumption
      <4>3. \A t \in Sessions : HalvesOf(t)' = HalvesOf(t)
        BY <1>1 DEF HalvesOf
      <4>4. gui'.map = gui.map
        BY <3>1, <2>2
      <4>5. \A t \in Sessions, d \in Halves :
              gui.map[d] = t => d # c /\ (Live(d)' <=> Live(d))
        BY <4>2, <1>7
      <4>6. ASSUME NEW t \in Sessions, gui'.state[t] \in Attached
            PROVE  \E d \in HalvesOf(t)' : Live(d)' /\ gui'.map[d] = t
        <5>1. PICK d \in HalvesOf(t) : Live(d) /\ gui.map[d] = t
          BY <4>1, <4>6 DEF IInv, Consistent, MappedIsLive
        <5>2. QED BY <5>1, <4>3, <4>4, <4>5 DEF HalvesOf
      <4>7. ASSUME NEW t \in Sessions, NEW d \in Halves, NEW e \in Halves,
                   gui'.map[d] = t, IsOpen(gui', t)
            PROVE  /\ gui'.state[t] \in Attached
                   /\ session'[d] = t /\ Live(d)'
                   /\ gui'.map[e] = t => d = e
        BY <4>1, <4>4, <4>5, <4>7, <1>1 DEF IInv, Consistent, MappedIsLive
      <4>8. QED BY <4>6, <4>7 DEF MappedIsLive
    <3>5. RecordMatchesHalf'
      <4> SUFFICES ASSUME NEW t \in Solo
                   PROVE  /\ gui'.state[t] \in Attached =>
                               gui'.conn[t] \in LiveHalves' /\ gui'.map[gui'.conn[t]] = t
                          /\ \A d \in HalvesOf(t)' :
                               /\ Live(d)' => gui'.conn[t] = d
                               /\ Live(d)' => gui'.state[t] = IF phase'[d] = "ready"
                                                THEN "connected" ELSE "connecting"
                               /\ gui'.map[d] = t <=> Live(d)'
        BY DEF RecordMatchesHalf
      <4>1. t # s /\ t \in Sessions /\ c \notin HalvesOf(t) /\ HalvesOf(t)' = HalvesOf(t)
        BY <3>2, <1>1, FrontDoorAssumption DEF HalvesOf
      <4>2. gui.state[t] \in Attached => gui.conn[t] # c
        BY <4>1, <2>7, RegistryAssumption DEF IInv, Consistent, RecordMatchesHalf
      <4>3. QED
        BY <4>1, <4>2, <3>1, <2>2, <1>5, <1>7
        DEF IInv, Consistent, RecordMatchesHalf, HalvesOf, LiveHalves
    <3>6. QED BY <1>4, <1>9, <3>3, <3>4, <3>5 DEF IInv, Consistent
  <2>8. QED BY <2>3, <2>6, <2>7
<1>14. QED BY <1>10, <1>11, <1>12, <1>13

----------------------------------------------------------------------------
\* DELETE detaches the half the record names and then closes the record.
LEMMA DeleteInv ==
  ASSUME IInv, NEW s \in Sessions, DeleteSession(s)
  PROVE  IInv'
<1> DEFINE cs == Named(s)
           g  == MarkDisconnected(gui, cs)
<1>1. /\ Exists(gui, s) /\ gui' = Close(g, s) /\ phase' = Terminated(cs)
      /\ session' = session /\ shuttingDown' = shuttingDown
  BY DEF DeleteSession
<1>2. cs \in SUBSET LiveHalves /\ cs \in SUBSET Halves /\ \A c \in cs : gui.conn[s] = c
  BY DEF Named, LiveHalves
<1>3. /\ g \in Registry /\ gui \in Registry
      /\ g.conn = gui.conn
      /\ \A c \in Halves :
           g.map[c] = IF c \in cs /\ gui.map[c] \in Sessions
                           /\ gui.state[gui.map[c]] \in Attached
                      THEN NoSession ELSE gui.map[c]
      /\ \A t \in Sessions :
           g.state[t] = IF gui.state[t] \in Attached /\ \E c \in cs : gui.map[c] = t
                        THEN "disconnected" ELSE gui.state[t]
  BY <1>2, DetachEffect DEF IInv, TypeOK
<1> HIDE DEF cs, g
<1>4. TypeOK'
  BY <1>1, <1>2, <1>3, CreateClosed, TerminatedTyped DEF IInv, TypeOK
<1>5. /\ \A c \in Halves : Live(c)' <=> Live(c) /\ c \notin cs
      /\ \A c \in Halves : phase'[c] = IF c \in cs THEN "closing" ELSE phase[c]
  BY <1>1, <1>2 DEF Terminated, Live, LivePhases, LiveHalves
<1>6. ShutdownIsFinal'
  BY <1>1, <1>5 DEF IInv, ShutdownIsFinal, LiveHalves
<1>7. /\ gui'.conn = gui.conn /\ gui'.map = g.map
      /\ ~IsOpen(gui', s) /\ gui'.state[s] \in {"closed", "purged"}
      /\ \A t \in Sessions \ {s} : gui'.state[t] = g.state[t]
  <2>1. Exists(g, s)
    BY <1>1, <1>3 DEF Exists, NoRecord
  <2>2. CASE IsOpen(g, s)
    BY <1>1, <1>3, <2>2, AllowedIs DEF Close, Registry, IsOpen
  <2>3. CASE ~IsOpen(g, s)
    BY <1>1, <1>3, <2>1, <2>3, AllowedIs DEF Close, IsOpen, Exists
  <2>4. QED BY <2>2, <2>3
<1>8. FreshIds'
  <2>1. \A c \in Halves : phase'[c] = "unused" => gui'.map[c] = NoSession
    BY <1>3, <1>5, <1>7 DEF IInv, Consistent, FreshIds
  <2>2. ASSUME NEW c \in Halves, gui'.map[c] # NoSession
        PROVE  session'[c] = gui'.map[c] /\ gui'.state[gui'.map[c]] # "unused"
    <3>1. gui'.map[c] = gui.map[c] /\ gui.map[c] \in Sessions
      BY <2>2, <1>3, <1>7 DEF Registry
    <3>2. session[c] = gui.map[c] /\ gui.state[gui.map[c]] # "unused"
      BY <2>2, <3>1 DEF IInv, Consistent, FreshIds
    <3>3. QED BY <3>1, <3>2, <1>1, <1>3, <1>7
  <2>3. QED BY <2>1, <2>2 DEF FreshIds
<1>9. MappedIsLive'
  <2> SUFFICES ASSUME NEW t \in Sessions
               PROVE  /\ gui'.state[t] \in Attached =>
                           \E d \in HalvesOf(t)' : Live(d)' /\ gui'.map[d] = t
                      /\ \A d, e \in Halves :
                           gui'.map[d] = t /\ IsOpen(gui', t) =>
                             /\ gui'.state[t] \in Attached
                             /\ session'[d] = t /\ Live(d)'
                             /\ gui'.map[e] = t => d = e
    BY DEF MappedIsLive
  <2>1. CASE t = s
    BY <2>1, <1>7 DEF Attached
  <2>2. CASE t # s
    <3>1. gui'.state[t] = g.state[t] /\ HalvesOf(t)' = HalvesOf(t)
      BY <2>2, <1>1, <1>7 DEF HalvesOf
    <3>2. ASSUME gui'.state[t] \in Attached
          PROVE  \E d \in HalvesOf(t)' : Live(d)' /\ gui'.map[d] = t
      <4>1. gui.state[t] \in Attached /\ ~ \E c \in cs : gui.map[c] = t
        BY <3>1, <3>2, <1>3 DEF Attached
      <4>2. PICK d \in HalvesOf(t) : Live(d) /\ gui.map[d] = t
        BY <4>1 DEF IInv, Consistent, MappedIsLive
      <4>3. QED BY <4>1, <4>2, <3>1, <1>3, <1>5, <1>7 DEF HalvesOf
    <3>3. ASSUME NEW d \in Halves, NEW e \in Halves, gui'.map[d] = t, IsOpen(gui', t)
          PROVE  /\ gui'.state[t] \in Attached
                 /\ session'[d] = t /\ Live(d)'
                 /\ gui'.map[e] = t => d = e
      <4>1. gui.map[d] = t /\ ~(d \in cs /\ gui.state[t] \in Attached)
        BY <3>3, <1>3, <1>7, RegistryAssumption
      <4>2. IsOpen(gui, t)
        BY <3>3, <3>1, <1>3 DEF IsOpen, Exists, NoRecord, Attached
      <4>3. /\ gui.state[t] \in Attached /\ session[d] = t /\ Live(d)
            /\ gui.map[e] = t => d = e
        BY <4>1, <4>2 DEF IInv, Consistent, MappedIsLive
      <4>4. d \notin cs
        BY <4>1, <4>3
      <4>5. ~ \E c \in cs : gui.map[c] = t
        BY <4>1, <4>2, <4>4, <1>2 DEF IInv, Consistent, MappedIsLive
      <4>6. QED BY <4>3, <4>4, <4>5, <3>1, <1>1, <1>3, <1>5, <1>7, RegistryAssumption
    <3>4. QED BY <3>2, <3>3
  <2>3. QED BY <2>1, <2>2
<1>10. RecordMatchesHalf'
  <2> SUFFICES ASSUME NEW t \in Solo
               PROVE  /\ gui'.state[t] \in Attached =>
                           gui'.conn[t] \in LiveHalves' /\ gui'.map[gui'.conn[t]] = t
                      /\ \A d \in HalvesOf(t)' :
                           /\ Live(d)' => gui'.conn[t] = d
                           /\ Live(d)' => gui'.state[t] = IF phase'[d] = "ready"
                                            THEN "connected" ELSE "connecting"
                           /\ gui'.map[d] = t <=> Live(d)'
    BY DEF RecordMatchesHalf
  <2>1. t \in Sessions /\ HalvesOf(t)' = HalvesOf(t)
    BY <1>1, FrontDoorAssumption DEF HalvesOf
  <2>2. \A d \in HalvesOf(t) :
          /\ Live(d) => gui.conn[t] = d
          /\ Live(d) => gui.state[t] = IF phase[d] = "ready" THEN "connected" ELSE "connecting"
          /\ gui.map[d] = t <=> Live(d)
    BY DEF IInv, Consistent, RecordMatchesHalf
  <2>3. gui.state[t] \in Attached => gui.conn[t] \in LiveHalves /\ gui.map[gui.conn[t]] = t
    BY DEF IInv, Consistent, RecordMatchesHalf
  <2>4. \A d \in HalvesOf(t) : d \in cs => session[d] = t /\ (gui.map[d] = t <=> Live(d))
    BY <2>2 DEF HalvesOf
  <2>5. \A d \in HalvesOf(t) : Live(d) => gui.state[t] \in Attached
    BY <2>2 DEF Attached
  <2>6. \A d \in HalvesOf(t) : gui'.map[d] = t <=> Live(d)'
    <3> TAKE d \in HalvesOf(t)
    <3>1. d \in Halves /\ (gui.map[d] = t <=> Live(d))
      BY <2>2 DEF HalvesOf
    <3>2. CASE Live(d)
      BY <3>1, <3>2, <2>1, <2>5, <1>3, <1>5, <1>7, RegistryAssumption
    <3>3. CASE ~Live(d)
      BY <3>1, <3>3, <2>1, <1>3, <1>5, <1>7, RegistryAssumption
    <3>4. QED BY <3>2, <3>3
  <2>7. CASE t = s
    <3>1. \A d \in HalvesOf(t) : Live(d) => d \in cs
      BY <2>2, <2>7 DEF Named, cs, LiveHalves, HalvesOf
    <3>2. \A d \in HalvesOf(t) : ~Live(d)'
      BY <3>1, <1>5 DEF HalvesOf
    <3>3. QED BY <2>1, <2>6, <2>7, <3>2, <1>7 DEF Attached
  <2>8. CASE t # s
    <3>1. gui'.state[t] = g.state[t]
      BY <2>8, <2>1, <1>7
    <3>2. ASSUME gui'.state[t] \in Attached
          PROVE  gui'.conn[t] \in LiveHalves' /\ gui'.map[gui'.conn[t]] = t
      <4>1. gui.state[t] \in Attached /\ ~ \E c \in cs : gui.map[c] = t
        BY <3>1, <3>2, <2>1, <1>3 DEF Attached
      <4>2. gui.conn[t] \notin cs
        BY <4>1, <2>3
      <4>3. QED BY <4>1, <4>2, <2>3, <1>3, <1>5, <1>7 DEF LiveHalves
    <3>3. ASSUME NEW d \in HalvesOf(t), Live(d)'
          PROVE  /\ gui'.conn[t] = d
                 /\ gui'.state[t] = IF phase'[d] = "ready" THEN "connected" ELSE "connecting"
      <4>1. d \in Halves /\ Live(d) /\ d \notin cs
        BY <3>3, <1>5 DEF HalvesOf
      <4>2. gui.map[d] = t /\ gui.conn[t] = d /\ gui.state[t] \in Attached
        BY <4>1, <2>2, <2>5
      <4>3. ~ \E c \in cs : gui.map[c] = t
        BY <4>1, <4>2, <1>2, <2>1
        DEF IInv, Consistent, MappedIsLive, IsOpen, Exists, NoRecord, Attached
      <4>4. QED BY <4>1, <4>2, <4>3, <3>1, <2>1, <2>2, <1>3, <1>5, <1>7
    <3>4. QED BY <2>1, <2>6, <3>2, <3>3
  <2>9. QED BY <2>7, <2>8
<1>11. QED BY <1>4, <1>6, <1>8, <1>9, <1>10 DEF IInv, Consistent

----------------------------------------------------------------------------
\* The sweep moves only records no half is attached to.
LEMMA SweepInv ==
  ASSUME IInv, Owned, NEW due \in SUBSET Sessions, Sweep(due)
  PROVE  IInv'
<1>1. /\ gui' = SweepDue(gui, due) /\ UNCHANGED <<phase, session, shuttingDown>>
      /\ \A s \in due : gui.state[s] \in {"creating", "disconnected", "closed"}
  BY DEF Sweep
<1>2. TypeOK'
  BY <1>1, SweepClosed DEF IInv, TypeOK
<1>3. \A s \in Sessions :
        /\ s \in due => /\ gui.state[s] \notin Attached
                        /\ gui'.state[s] \in {"closed", "purged"}
        /\ s \notin due => gui'.state[s] = gui.state[s] /\ gui'.conn[s] = gui.conn[s]
  BY <1>1 DEF SweepDue, Expired, Purged, Attached
<1>4. \A c \in Halves :
        \/ gui'.map[c] = gui.map[c]
        \/ gui'.map[c] = NoSession /\ \E s \in due : gui.state[s] = "closed" /\ gui.conn[s] = c
  BY <1>1 DEF SweepDue, Purged
<1>5. \A c \in Halves : Live(c)' <=> Live(c)
  BY <1>1 DEF Live
<1>6. LiveHalves' = LiveHalves /\ \A s \in Sessions : HalvesOf(s)' = HalvesOf(s)
  BY <1>1, <1>5 DEF LiveHalves, HalvesOf
<1>7. FreshIds'
  BY <1>1, <1>3, <1>4, RegistryAssumption DEF IInv, Consistent, FreshIds, TypeOK, Registry
<1>8. \A t \in Sessions, c \in Halves :
        gui.map[c] = t /\ gui.state[t] \in Attached => gui'.map[c] = t
  <2> SUFFICES ASSUME NEW t \in Sessions, NEW c \in Halves, gui.map[c] = t,
                      gui.state[t] \in Attached, gui'.map[c] # t
               PROVE  FALSE
    OBVIOUS
  <2>1. PICK s \in due : gui.state[s] = "closed" /\ gui.conn[s] = c
    BY <1>4
  <2>2. session[c] = s
    BY <2>1 DEF Owned
  <2>3. session[c] = t
    BY RegistryAssumption DEF IInv, Consistent, FreshIds
  <2>4. QED BY <2>1, <2>2, <2>3 DEF Attached
<1>9. \A t \in Sessions, c \in Halves : gui'.map[c] = t => gui.map[c] = t
  BY <1>4, RegistryAssumption
<1>10. \A t \in Sessions : gui'.state[t] \in Attached <=> gui.state[t] \in Attached
  BY <1>3 DEF Attached
<1>11. MappedIsLive'
  <2> SUFFICES ASSUME NEW t \in Sessions
               PROVE  /\ gui'.state[t] \in Attached =>
                           \E d \in HalvesOf(t)' : Live(d)' /\ gui'.map[d] = t
                      /\ \A d, e \in Halves :
                           gui'.map[d] = t /\ IsOpen(gui', t) =>
                             /\ gui'.state[t] \in Attached
                             /\ session'[d] = t /\ Live(d)'
                             /\ gui'.map[e] = t => d = e
    BY DEF MappedIsLive
  <2>1. ASSUME gui'.state[t] \in Attached
        PROVE  \E d \in HalvesOf(t)' : Live(d)' /\ gui'.map[d] = t
    <3>1. PICK d \in HalvesOf(t) : Live(d) /\ gui.map[d] = t
      BY <2>1, <1>10 DEF IInv, Consistent, MappedIsLive
    <3>2. QED BY <2>1, <3>1, <1>5, <1>6, <1>8, <1>10 DEF HalvesOf
  <2>2. IsOpen(gui', t) => IsOpen(gui, t)
    BY <1>3 DEF IsOpen, Exists, NoRecord
  <2>3. QED
    BY <2>1, <2>2, <1>1, <1>5, <1>9, <1>10 DEF IInv, Consistent, MappedIsLive
<1>12. RecordMatchesHalf'
  <2> SUFFICES ASSUME NEW t \in Solo
               PROVE  /\ gui'.state[t] \in Attached =>
                           gui'.conn[t] \in LiveHalves' /\ gui'.map[gui'.conn[t]] = t
                      /\ \A d \in HalvesOf(t)' :
                           /\ Live(d)' => gui'.conn[t] = d
                           /\ Live(d)' => gui'.state[t] = IF phase'[d] = "ready"
                                            THEN "connected" ELSE "connecting"
                           /\ gui'.map[d] = t <=> Live(d)'
    BY DEF RecordMatchesHalf
  <2>1. t \in Sessions
    BY FrontDoorAssumption
  <2>2. \A d \in HalvesOf(t) :
          /\ Live(d) => gui.conn[t] = d
          /\ Live(d) => gui.state[t] = IF phase[d] = "ready" THEN "connected" ELSE "connecting"
          /\ gui.map[d] = t <=> Live(d)
    BY DEF IInv, Consistent, RecordMatchesHalf
  <2>3. gui.state[t] \in Attached => gui.conn[t] \in LiveHalves /\ gui.map[gui.conn[t]] = t
    BY DEF IInv, Consistent, RecordMatchesHalf
  <2>4. gui.state[t] \in Attached => gui'.state[t] = gui.state[t] /\ gui'.conn[t] = gui.conn[t]
    BY <2>1, <1>3
  <2>5. \A d \in HalvesOf(t) : Live(d) => gui.state[t] \in Attached
    BY <2>2 DEF Attached
  <2>6. ASSUME gui'.state[t] \in Attached
        PROVE  gui'.conn[t] \in LiveHalves' /\ gui'.map[gui'.conn[t]] = t
    BY <2>6, <2>1, <2>3, <2>4, <1>6, <1>8, <1>10 DEF LiveHalves
  <2>7. ASSUME NEW d \in HalvesOf(t)
        PROVE  /\ Live(d)' => gui'.conn[t] = d
               /\ Live(d)' => gui'.state[t] = IF phase'[d] = "ready"
                                THEN "connected" ELSE "connecting"
               /\ gui'.map[d] = t <=> Live(d)'
    <3>1. d \in Halves /\ (Live(d)' <=> Live(d)) /\ phase'[d] = phase[d]
      BY <1>1, <1>5 DEF HalvesOf
    <3>2. gui'.map[d] = t <=> Live(d)
      BY <3>1, <2>1, <2>2, <2>5, <1>8, <1>9
    <3>3. QED BY <3>1, <3>2, <2>2, <2>4, <2>5
  <2>8. QED BY <2>1, <2>6, <2>7, <1>6
<1>13. ShutdownIsFinal'
  BY <1>1, <1>6 DEF IInv, ShutdownIsFinal
<1>14. QED BY <1>2, <1>7, <1>11, <1>12, <1>13 DEF IInv, Consistent

----------------------------------------------------------------------------
\* A record takes a connection only from a half that was opened for it.
LEMMA OwnedStep ==
  ASSUME IInv, Owned, Next
  PROVE  Owned'
<1> SUFFICES ASSUME NEW s \in Sessions, gui'.conn[s] \in Halves
             PROVE  session'[gui'.conn[s]] = s /\ phase'[gui'.conn[s]] # "unused"
  BY DEF Owned
<1> DEFINE Kept == /\ gui'.conn[s] = gui.conn[s]
                   /\ \A c \in Halves :
                        phase[c] # "unused" => session'[c] = session[c] /\ phase'[c] # "unused"
<1>0. Kept => session'[gui'.conn[s]] = s /\ phase'[gui'.conn[s]] # "unused"
  BY DEF Owned
<1>1. ASSUME NEW t \in Sessions, CreateSession(t) PROVE Kept
  BY <1>1 DEF CreateSession, Create, IInv, TypeOK, Registry
<1>2. ASSUME NEW t \in Sessions, DeleteSession(t) PROVE Kept
  <2>1. MarkDisconnected(gui, Named(t)) \in Registry
    BY DisconnectClosed DEF IInv, TypeOK
  <2>2. gui'.conn = MarkDisconnected(gui, Named(t)).conn
    BY <1>2, <2>1 DEF DeleteSession, Close, Registry
  <2>3. MarkDisconnected(gui, Named(t)).conn = gui.conn
    BY DEF MarkDisconnected, IInv, TypeOK, Registry
  <2>4. QED BY <1>2, <2>2, <2>3 DEF DeleteSession, Terminated
<1>3. ASSUME NEW c \in Halves, NEW t \in Sessions \cup {NoSession}, Upgrade(c, t)
      PROVE  session'[gui'.conn[s]] = s /\ phase'[gui'.conn[s]] # "unused"
  <2>1. /\ phase[c] = "unused" /\ phase'[c] = "open" /\ session'[c] = t
        /\ \A d \in Halves \ {c} : phase'[d] = phase[d] /\ session'[d] = session[d]
    BY <1>3 DEF Upgrade, IInv, TypeOK
  <2>2. gui'.conn[s] = gui.conn[s] \/ (s = t /\ gui'.conn[s] = c)
    BY <1>3 DEF Upgrade, Attach, IInv, TypeOK, Registry
  <2>3. gui.conn[s] \in Halves => gui.conn[s] # c
    BY <2>1 DEF Owned
  <2>4. QED BY <2>1, <2>2, <2>3 DEF Owned
<1>4. ASSUME NEW c \in Halves, AuthRequest(c) \/ AuthFail(c) PROVE Kept
  BY <1>4 DEF AuthRequest, AuthFail, IInv, TypeOK
<1>5. ASSUME NEW c \in Halves, NEW m \in BOOLEAN, NEW r \in BOOLEAN, AuthOk(c, m, r)
      PROVE  session'[gui'.conn[s]] = s /\ phase'[gui'.conn[s]] # "unused"
  <2> DEFINE t == session[c]
             linked == IF t \in Sessions /\ Admitted(c, m)
                       THEN MarkConnected(gui, t, c) ELSE gui
  <2>1. /\ linked \in Registry
        /\ linked.conn[s] = gui.conn[s] \/ (s = t /\ linked.conn[s] = c)
    <3>1. gui \in Registry
      BY DEF IInv, TypeOK
    <3>2. linked \in Registry
      BY <3>1, AttachClosed
    <3>3. t \in Sessions =>
            LET g == MarkConnected(gui, t, c)
            IN  g.conn[s] = gui.conn[s] \/ (s = t /\ g.conn[s] = c)
      BY <3>1 DEF MarkConnected, Registry
    <3>4. QED BY <3>2, <3>3
  <2>2. gui' = linked \/ gui' = MarkDisconnected(linked, {c})
    BY <1>5 DEF AuthOk
  <2> HIDE DEF linked
  <2>3. gui'.conn = linked.conn
    BY <2>1, <2>2 DEF MarkDisconnected, Registry
  <2>4. /\ session' = session /\ phase[c] = "verifying"
        /\ \A d \in Halves : phase[d] # "unused" => phase'[d] # "unused"
    BY <1>5 DEF AuthOk, Terminated, IInv, TypeOK
  <2>5. CASE linked.conn[s] = gui.conn[s]
    BY <2>3, <2>4, <2>5 DEF Owned
  <2>6. CASE s = t /\ linked.conn[s] = c
    BY <2>3, <2>4, <2>6
  <2>7. QED BY <2>1, <2>5, <2>6
<1>6. ASSUME NEW cs, Terminate(cs) PROVE Kept
  BY <1>6 DEF Terminate, Terminated, MarkDisconnected, IInv, TypeOK, Registry
<1>7. ASSUME NEW c \in Halves, SocketClose(c) PROVE Kept
  BY <1>7 DEF SocketClose, MarkDisconnected, IInv, TypeOK, Registry
<1>8. ASSUME NEW due \in SUBSET Sessions, Sweep(due) PROVE Kept
  BY <1>8, RegistryAssumption DEF Sweep, SweepDue
<1>9. ASSUME Shutdown PROVE Kept
  BY <1>9 DEF Shutdown, Terminated, MarkDisconnected, IInv, TypeOK, Registry
<1> HIDE DEF Kept
<1>10. QED
  BY <1>0, <1>1, <1>2, <1>3, <1>4, <1>5, <1>6, <1>7, <1>8, <1>9 DEF Next, AuthTimeout

LEMMA NextInv ==
  ASSUME IInv, Owned, [Next]_vars
  PROVE  IInv' /\ Owned'
<1>1. CASE Next
  <2>1. IInv'
    BY <1>1, CreateInv, DeleteInv, UpgradeInv, VerifyInv, AuthOkInv, TerminateInv,
       SocketCloseInv, SweepInv, ShutdownInv DEF Next, AuthTimeout
  <2>2. QED BY <1>1, <2>1, OwnedStep
<1>2. CASE UNCHANGED vars
  BY <1>2 DEF vars, IInv, TypeOK, Consistent, FreshIds, MappedIsLive, RecordMatchesHalf,
     ShutdownIsFinal, Owned, HalvesOf, Live, LiveHalves
<1>3. QED BY <1>1, <1>2

----------------------------------------------------------------------------
\* The invariant of the front door: what the theorems below rest on.
THEOREM Inductive == Spec => [](IInv /\ Owned)
<1>1. Init => IInv /\ Owned
  BY InitInv, RegistryAssumption DEF Init, Owned, EmptyRegistry
<1>2. IInv /\ Owned /\ [Next]_vars => IInv' /\ Owned'
  BY NextInv
<1>3. QED BY <1>1, <1>2, PTL DEF Spec

\* Every reachable state of the registry, the halves and the server has its type.
THEOREM TypeCorrect == Spec => []TypeOK
<1>1. IInv => TypeOK
  BY DEF IInv
<1>2. QED BY Inductive, <1>1, PTL

\* The map and the records agree, whatever browsers do.
THEOREM MapAgrees == Spec => []MappedIsLive
<1>1. IInv => MappedIsLive
  BY DEF IInv, Consistent
<1>2. QED BY Inductive, <1>1, PTL

\* A session reconnected one socket at a time is backed by the half its record names.
THEOREM RecordAgrees == Spec => []RecordMatchesHalf
<1>1. IInv => RecordMatchesHalf
  BY DEF IInv, Consistent
<1>2. QED BY Inductive, <1>1, PTL

\* No half is live after shutdown.
THEOREM ShutdownStays == Spec => []ShutdownIsFinal
<1>1. IInv => ShutdownIsFinal
  BY DEF IInv
<1>2. QED BY Inductive, <1>1, PTL

----------------------------------------------------------------------------
\* A session of Solo is backed by a live half exactly while its record says so.
LEMMA BackedIs ==
  ASSUME IInv, NEW s \in Solo
  PROVE  (\E c \in HalvesOf(s) : Live(c)) <=> gui.state[s] \in Attached
<1>1. s \in Sessions
  BY FrontDoorAssumption
<1>2. ASSUME NEW c \in HalvesOf(s), Live(c) PROVE gui.state[s] \in Attached
  BY <1>2 DEF IInv, Consistent, RecordMatchesHalf, Attached
<1>3. ASSUME gui.state[s] \in Attached PROVE \E c \in HalvesOf(s) : Live(c)
  BY <1>1, <1>3 DEF IInv, Consistent, MappedIsLive
<1>4. QED BY <1>2, <1>3

\* What detaching connections, marking a connection and closing a record may do to
\* the state of a record.
LEMMA DetachMoves ==
  ASSUME NEW g \in Registry, NEW cs \in SUBSET Halves, NEW h, h = MarkDisconnected(g, cs),
         NEW s \in Sessions
  PROVE  \/ h.state[s] = g.state[s]
         \/ g.state[s] \in Attached /\ h.state[s] = "disconnected"
<1>1. h.state[s] = IF \E c \in cs : g.map[c] = s /\ Detachable(g, c)
                   THEN "disconnected" ELSE g.state[s]
  BY DEF MarkDisconnected, Registry
<1>2. ASSUME NEW c \in cs, g.map[c] = s, Detachable(g, c) PROVE g.state[s] \in Attached
  BY <1>2, AllowedIs DEF Detachable
<1>3. QED BY <1>1, <1>2

LEMMA MarkMoves ==
  ASSUME NEW g \in Registry, NEW t \in Sessions, NEW c \in Halves, NEW h,
         h = MarkConnected(g, t, c), NEW s \in Sessions
  PROVE  \/ h.state[s] = g.state[s]
         \/ g.state[s] = "connecting" /\ h.state[s] = "connected"
<1>1. CASE Allowed(g, t, "connected")
  <2>1. h.state = [g.state EXCEPT ![t] = "connected"] /\ g.state[t] = "connecting"
    BY <1>1, AllowedIs DEF MarkConnected, Registry
  <2>2. QED BY <2>1 DEF Registry
<1>2. CASE ~Allowed(g, t, "connected")
  BY <1>2 DEF MarkConnected
<1>3. QED BY <1>1, <1>2

LEMMA CloseMoves ==
  ASSUME NEW g \in Registry, NEW t \in Sessions, NEW h, h = Close(g, t), NEW s \in Sessions
  PROVE  \/ h.state[s] = g.state[s]
         \/ IsOpen(g, s) /\ h.state[s] = "closed"
<1>1. CASE Allowed(g, t, "closed")
  <2>1. h.state = [g.state EXCEPT ![t] = "closed"] /\ IsOpen(g, t)
    BY <1>1, AllowedIs DEF Close, Registry
  <2>2. QED BY <2>1 DEF Registry
<1>2. CASE ~Allowed(g, t, "closed")
  BY <1>2 DEF Close
<1>3. QED BY <1>1, <1>2

\* What one step may do to the state of a record.
Moved(s, from, to) == gui.state[s] \in from /\ gui'.state[s] = to

LEMMA StateMoves ==
  ASSUME IInv, NEW s \in Sessions, [Next]_vars
  PROVE  \/ gui'.state[s] = gui.state[s]
         \/ Moved(s, {"unused"}, "creating")
         \/ Moved(s, {"creating", "disconnected"}, "connecting")
         \/ Moved(s, {"connecting"}, "connected")
         \/ Moved(s, Attached, "disconnected")
         \/ IsOpen(gui, s) /\ gui'.state[s] = "closed"
         \/ Moved(s, {"closed"}, "purged")
<1> DEFINE Same == gui'.state[s] = gui.state[s]
           Lost == Moved(s, Attached, "disconnected")
<1>1. gui \in Registry
  BY DEF IInv, TypeOK
<1>2. ASSUME NEW cs \in SUBSET Halves, gui' = MarkDisconnected(gui, cs)
      PROVE  Same \/ Lost
  BY <1>1, <1>2, DetachMoves DEF Moved
<1>3. LiveHalves \in SUBSET Halves /\ \A t \in Sessions : Named(t) \in SUBSET Halves
  BY DEF LiveHalves, Named
<1>4. ASSUME NEW t \in Sessions, CreateSession(t)
      PROVE  Same \/ Moved(s, {"unused"}, "creating")
  <2>1. gui'.state = [gui.state EXCEPT ![t] = "creating"] /\ gui.state[t] = "unused"
    BY <1>1, <1>4 DEF CreateSession, Create, Registry
  <2>2. QED BY <1>1, <2>1 DEF Moved, Registry
<1>5. ASSUME NEW t \in Sessions, DeleteSession(t)
      PROVE  Same \/ Lost \/ (IsOpen(gui, s) /\ gui'.state[s] = "closed")
  <2>0. PICK g : g = MarkDisconnected(gui, Named(t))
    OBVIOUS
  <2>1. g \in Registry /\ gui' = Close(g, t)
    BY <1>1, <1>3, <1>5, <2>0, DisconnectClosed DEF DeleteSession
  <2>2. g.state[s] = gui.state[s] \/ (gui.state[s] \in Attached /\ g.state[s] = "disconnected")
    BY <1>1, <1>3, <2>0, DetachMoves
  <2>3. gui'.state[s] = g.state[s] \/ (IsOpen(g, s) /\ gui'.state[s] = "closed")
    BY <2>1, CloseMoves
  <2>4. IsOpen(g, s) => IsOpen(gui, s)
    BY <2>2 DEF IsOpen, Exists, NoRecord, Attached
  <2>5. QED BY <2>2, <2>3, <2>4 DEF Moved
<1>6. ASSUME NEW c \in Halves, NEW t \in Sessions \cup {NoSession}, Upgrade(c, t)
      PROVE  Same \/ Moved(s, {"creating", "disconnected"}, "connecting")
  <2>1. CASE t \in Sessions /\ Allowed(gui, t, "connecting")
    <3>1. /\ gui'.state = [gui.state EXCEPT ![t] = "connecting"]
          /\ gui.state[t] \in {"creating", "disconnected"}
      BY <1>1, <1>6, <2>1, AllowedIs DEF Upgrade, Attach, Registry
    <3>2. QED BY <1>1, <3>1 DEF Moved, Registry
  <2>2. CASE ~(t \in Sessions /\ Allowed(gui, t, "connecting"))
    BY <1>6, <2>2 DEF Upgrade, Attach
  <2>3. QED BY <2>1, <2>2
<1>7. ASSUME NEW c \in Halves, AuthRequest(c) \/ AuthFail(c) PROVE Same
  BY <1>7 DEF AuthRequest, AuthFail
<1>8. ASSUME NEW c \in Halves, NEW m \in BOOLEAN, NEW r \in BOOLEAN, AuthOk(c, m, r)
      PROVE  Same \/ Lost \/ Moved(s, {"connecting"}, "connected")
  <2>0. PICK linked : linked = IF session[c] \in Sessions /\ Admitted(c, m)
                               THEN MarkConnected(gui, session[c], c) ELSE gui
    OBVIOUS
  <2>1. linked \in Registry
    BY <1>1, <2>0, AttachClosed
  <2>2. linked.state[s] = gui.state[s]
        \/ (gui.state[s] = "connecting" /\ linked.state[s] = "connected")
    <3>1. CASE session[c] \in Sessions /\ Admitted(c, m)
      BY <1>1, <2>0, <3>1, MarkMoves
    <3>2. CASE ~(session[c] \in Sessions /\ Admitted(c, m))
      BY <2>0, <3>2
    <3>3. QED BY <3>1, <3>2
  <2>3. gui' = linked \/ gui' = MarkDisconnected(linked, {c})
    BY <1>8, <2>0 DEF AuthOk
  <2>4. gui'.state[s] = linked.state[s]
        \/ (linked.state[s] \in Attached /\ gui'.state[s] = "disconnected")
    BY <2>1, <2>3, DetachMoves
  <2>5. QED BY <2>2, <2>4 DEF Moved, Attached
<1>9. ASSUME NEW cs \in SUBSET Halves, Terminate(cs) PROVE Same \/ Lost
  BY <1>2, <1>9 DEF Terminate
<1>10. ASSUME NEW c \in Halves, SocketClose(c) PROVE Same \/ Lost
  BY <1>2, <1>10 DEF SocketClose
<1>11. ASSUME NEW due \in SUBSET Sessions, Sweep(due)
       PROVE  \/ Same
              \/ IsOpen(gui, s) /\ gui'.state[s] = "closed"
              \/ Moved(s, {"closed"}, "purged")
  <2>1. gui'.state[s] = IF s \in due THEN Expired(gui.state[s]) ELSE gui.state[s]
    BY <1>11 DEF Sweep, SweepDue
  <2>2. s \in due => gui.state[s] \in {"creating", "disconnected", "closed"}
    BY <1>11 DEF Sweep
  <2>3. QED BY <2>1, <2>2 DEF Expired, Moved, IsOpen, Exists, NoRecord
<1>12. ASSUME Shutdown PROVE Same \/ Lost
  BY <1>2, <1>3, <1>12 DEF Shutdown
<1>13. ASSUME UNCHANGED vars PROVE Same
  BY <1>13 DEF vars
<1> HIDE DEF Same, Lost
<1>14. CASE Next
  <2>1. ASSUME NEW c \in Halves, AuthTimeout(c) PROVE Same \/ Lost
    BY <1>9, <2>1 DEF AuthTimeout
  <2>2. QED
    BY <1>4, <1>5, <1>6, <1>7, <1>8, <1>9, <1>10, <1>11, <1>12, <1>14, <2>1
    DEF Next, Same, Lost
<1>15. QED BY <1>13, <1>14 DEF Same

\* The front door implements the lifecycle: every step is a lifecycle step of each
\* session of Solo.
THEOREM ImplementsLifecycle == Spec => KeepsLifecycle
<1>1. Init => Lifecycle!Init
  <2> SUFFICES ASSUME Init PROVE Lifecycle!Init
    OBVIOUS
  <2>1. \A s \in Sessions : gui.state[s] = "unused"
    BY DEF Init, EmptyRegistry
  <2>2. \A s \in Solo : (\E c \in HalvesOf(s) : Live(c)) = FALSE
    BY DEF Init, Live, LivePhases, HalvesOf
  <2>3. QED BY <2>1, <2>2, FrontDoorAssumption DEF Lifecycle!Init
<1>2. ASSUME IInv, IInv', [Next]_vars
      PROVE  Lifecycle!Next
  <2>1. ASSUME NEW s \in Solo PROVE Lifecycle!Step(s)
    <3>1. s \in Sessions /\ gui.state[s] \in RecordStates \cup NoRecord
      BY <1>2, FrontDoorAssumption DEF IInv, TypeOK, Registry
    <3>2. (\E c \in HalvesOf(s) : Live(c)) <=> gui.state[s] \in Attached
      BY <1>2, BackedIs
    <3>3. (\E c \in HalvesOf(s)' : Live(c)') <=> gui'.state[s] \in Attached
      <4>1. ASSUME NEW c \in HalvesOf(s)', Live(c)' PROVE gui'.state[s] \in Attached
        BY <1>2, <4>1 DEF IInv, Consistent, RecordMatchesHalf, Attached
      <4>2. ASSUME gui'.state[s] \in Attached PROVE \E c \in HalvesOf(s)' : Live(c)'
        BY <1>2, <3>1, <4>2 DEF IInv, Consistent, MappedIsLive
      <4>3. QED BY <4>1, <4>2
    <3>4. ASSUME Moved(s, {"unused"}, "creating") PROVE Lifecycle!Created(s)
      BY <3>2, <3>3, <3>4 DEF Moved, Lifecycle!Created, Lifecycle!Moves, Attached
    <3>5. ASSUME Moved(s, {"creating", "disconnected"}, "connecting")
          PROVE  Lifecycle!Connecting(s)
      BY <3>2, <3>3, <3>5 DEF Moved, Lifecycle!Connecting, Lifecycle!Moves, Attached
    <3>6. ASSUME Moved(s, {"connecting"}, "connected") PROVE Lifecycle!Authenticated(s)
      BY <3>2, <3>3, <3>6 DEF Moved, Lifecycle!Authenticated, Lifecycle!Moves, Attached
    <3>7. ASSUME Moved(s, Attached, "disconnected") PROVE Lifecycle!Lost(s)
      BY <3>2, <3>3, <3>7 DEF Moved, Lifecycle!Lost, Lifecycle!Moves, Attached
    <3>8. ASSUME IsOpen(gui, s), gui'.state[s] = "closed" PROVE Lifecycle!Closed(s)
      BY <3>1, <3>3, <3>8
      DEF Lifecycle!Closed, Lifecycle!Moves, IsOpen, Exists, RecordStates, NoRecord, Attached
    <3>9. ASSUME Moved(s, {"closed"}, "purged") PROVE Lifecycle!Forgotten(s)
      BY <3>2, <3>3, <3>9 DEF Moved, Lifecycle!Forgotten, Lifecycle!Moves, Attached
    <3>10. ASSUME gui'.state[s] = gui.state[s] PROVE Lifecycle!Stays(s)
      BY <3>2, <3>3, <3>10 DEF Lifecycle!Stays
    <3>11. QED
      BY <1>2, <3>1, <3>4, <3>5, <3>6, <3>7, <3>8, <3>9, <3>10, StateMoves
      DEF Lifecycle!Step
  <2>2. QED BY <2>1 DEF Lifecycle!Next
<1>3. IInv /\ IInv' /\ [Next]_vars => [Lifecycle!Next]_(Lifecycle!vars)
  BY <1>2
<1>4. QED BY <1>1, <1>3, Inductive, PTL DEF Spec, KeepsLifecycle, Lifecycle!Spec
=============================================================================
