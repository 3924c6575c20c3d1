---------------------------- MODULE GuiRegistry ----------------------------
(***************************************************************************)
(* The GUI session registry of the relay (relay/src/gui-sessions.ts) as    *)
(* operators on a registry value.  A record and a WebSocket connection     *)
(* have separate lives: a record may lose its connection and be attached   *)
(* again, so the registry keeps the state of each record, the connection   *)
(* the record names, and the map from a connection to its record.          *)
(*                                                                         *)
(* Ids are 16 random bytes: an id is used once.  "unused" is an id no      *)
(* record has had yet and "purged" one whose record was deleted; the code  *)
(* finds no record under either.                                           *)
(***************************************************************************)
CONSTANTS
  Sessions,   \* ids of GUI session records
  Halves,     \* connection ids of WebSocket halves
  NoSession,  \* a connection that is not in the map
  NoHalf      \* a record whose connectionId is undefined

ASSUME RegistryAssumption ==
  /\ NoSession \notin Sessions
  /\ NoHalf \notin Halves

RecordStates == {"creating", "connecting", "connected", "disconnected", "closed"}
NoRecord     == {"unused", "purged"}
Attached     == {"connecting", "connected"}

\* The table of allowed state changes, "no record" included: transition() and
\* the other operations refuse an id without a record.
TRANSITIONS ==
  [st \in RecordStates \cup NoRecord |->
     CASE st = "creating"     -> {"connecting", "closed"}
       [] st = "connecting"   -> {"connected", "disconnected", "closed"}
       [] st = "connected"    -> {"disconnected", "closed"}
       [] st = "disconnected" -> {"connecting", "closed"}
       [] OTHER               -> {}]

Registry ==
  [state : [Sessions -> RecordStates \cup NoRecord],
   conn  : [Sessions -> Halves \cup {NoHalf}],
   map   : [Halves -> Sessions \cup {NoSession}]]

EmptyRegistry ==
  [state |-> [s \in Sessions |-> "unused"],
   conn  |-> [s \in Sessions |-> NoHalf],
   map   |-> [c \in Halves |-> NoSession]]

Exists(g, s) == g.state[s] \notin NoRecord

\* Whether a WebSocket may still attach to the session.
IsOpen(g, s) == Exists(g, s) /\ g.state[s] # "closed"

Allowed(g, s, to) == to \in TRANSITIONS[g.state[s]]

\* Whether the map leads from connection c to a record that may become
\* "disconnected".
Detachable(g, c) ==
  g.map[c] # NoSession /\ Allowed(g, g.map[c], "disconnected")

----------------------------------------------------------------------------

Create(g, s) == [g EXCEPT !.state[s] = "creating"]

\* A refused attach leaves the registry alone: the connection stays unmapped.
Attach(g, s, c) ==
  IF Allowed(g, s, "connecting")
  THEN [g EXCEPT !.state[s] = "connecting", !.conn[s] = c, !.map[c] = s]
  ELSE g

\* The record takes the authenticated connection's id; the map is not touched.
MarkConnected(g, s, c) ==
  IF Allowed(g, s, "connected")
  THEN [g EXCEPT !.state[s] = "connected", !.conn[s] = c]
  ELSE g

\* A plausible mistake: the map entry outlives the connection.
MarkDisconnectedKeepingMap(g, cs) ==
  [g EXCEPT
     !.state = [s \in Sessions |->
                  IF \E c \in cs : g.map[c] = s /\ Detachable(g, c)
                  THEN "disconnected" ELSE g.state[s]]]

\* The connections of cs end.  A map entry goes only with a state change.
MarkDisconnected(g, cs) ==
  [g EXCEPT
     !.state = [s \in Sessions |->
                  IF \E c \in cs : g.map[c] = s /\ Detachable(g, c)
                  THEN "disconnected" ELSE g.state[s]],
     !.map   = [c \in Halves |->
                  IF c \in cs /\ Detachable(g, c) THEN NoSession ELSE g.map[c]]]

Close(g, s) ==
  IF Allowed(g, s, "closed") THEN [g EXCEPT !.state[s] = "closed"] ELSE g

\* A plausible mistake: the reconnect grace never ends.
ExpiredNeverAttached(st) ==
  CASE st = "creating" -> "closed"
    [] st = "closed"   -> "purged"
    [] OTHER           -> st

\* One sweep, over the records whose window has passed: the create window, the
\* reconnect grace or the purge age, by state.
Expired(st) ==
  CASE st \in {"creating", "disconnected"} -> "closed"
    [] st = "closed"                       -> "purged"
    [] OTHER                               -> st

Purged(g, due) == {s \in due : g.state[s] = "closed"}

SweepDue(g, due) ==
  [state |-> [s \in Sessions |->
                IF s \in due THEN Expired(g.state[s]) ELSE g.state[s]],
   conn  |-> [s \in Sessions |->
                IF s \in Purged(g, due) THEN NoHalf ELSE g.conn[s]],
   map   |-> [c \in Halves |->
                IF \E s \in Purged(g, due) : g.conn[s] = c
                THEN NoSession ELSE g.map[c]]]
=============================================================================
