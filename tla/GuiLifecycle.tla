---------------------------- MODULE GuiLifecycle ----------------------------
(***************************************************************************)
(* What a GUI terminal session promises its user, whatever WebSockets come *)
(* and go: its record moves along                                          *)
(*   creating -> connecting -> connected -> disconnected -> connecting ... *)
(* and from any of these to closed, which is final and then forgotten; and *)
(* a live connection backs it exactly while it says so (the lifecycle of   *)
(* relay/src/gui-sessions.ts).  One step may move several sessions: a      *)
(* sweep, a device that goes or a shutdown reaches many.                   *)
(***************************************************************************)
CONSTANT Ids

VARIABLES
  st,      \* the state of each session's record
  backed   \* whether a live connection belongs to the session

vars == <<st, backed>>

Init ==
  /\ st = [s \in Ids |-> "unused"]
  /\ backed = [s \in Ids |-> FALSE]

Moves(s, from, to) == st[s] \in from /\ st'[s] = to

Created(s)       == Moves(s, {"unused"}, "creating") /\ ~backed[s] /\ ~backed'[s]
Connecting(s)    == Moves(s, {"creating", "disconnected"}, "connecting")
                    /\ ~backed[s] /\ backed'[s]
Authenticated(s) == Moves(s, {"connecting"}, "connected") /\ backed[s] /\ backed'[s]
Lost(s)          == Moves(s, {"connecting", "connected"}, "disconnected")
                    /\ backed[s] /\ ~backed'[s]
Closed(s)        == Moves(s, {"creating", "connecting", "connected", "disconnected"}, "closed")
                    /\ ~backed'[s]
Forgotten(s)     == Moves(s, {"closed"}, "purged") /\ ~backed[s] /\ ~backed'[s]
Stays(s)         == st'[s] = st[s] /\ backed'[s] = backed[s]

Step(s) ==
  \/ Created(s)
  \/ Connecting(s)
  \/ Authenticated(s)
  \/ Lost(s)
  \/ Closed(s)
  \/ Forgotten(s)
  \/ Stays(s)

Next ==
  /\ st' = [s \in Ids |-> st'[s]]
  /\ backed' = [s \in Ids |-> backed'[s]]
  /\ \A s \in Ids : Step(s)

Spec == Init /\ [][Next]_vars
=============================================================================
