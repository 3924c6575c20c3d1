-------------------------- MODULE SessionRegistry --------------------------
(***************************************************************************)
(* The registry of authenticated sessions (server/src/sessions.ts), which  *)
(* server and relay use, as operators on a registry value: the session map *)
(* by id, each session with its connection, and the map from connections   *)
(* to session ids.  Ages are abstracted to which sessions are due.         *)
(***************************************************************************)
CONSTANTS
  Conns, NoConn,         \* connection ids; the connection of no session
  Sessions, NoSession    \* session ids; the session of no connection

ASSUME SessionAssumption == NoConn \notin Conns /\ NoSession \notin Sessions

Registry ==
  [sessions : [Sessions -> Conns \cup {NoConn}],
   connectionToSession : [Conns -> Sessions \cup {NoSession}]]

Empty ==
  [sessions |-> [s \in Sessions |-> NoConn],
   connectionToSession |-> [c \in Conns |-> NoSession]]

Fresh(r, s) == r.sessions[s] = NoConn

HasSession(r, c) == r.connectionToSession[c] # NoSession

\* The registry after create(c), where s is the id that is generated.
Created(r, c, s) ==
  IF HasSession(r, c) THEN r
  ELSE [r EXCEPT !.sessions[s] = c, !.connectionToSession[c] = s]

RemovedByConnection(r, c) ==
  IF ~HasSession(r, c) THEN r
  ELSE [r EXCEPT !.sessions[r.connectionToSession[c]] = NoConn,
                 !.connectionToSession[c] = NoSession]

\* The registry without the sessions that are due.
ExpiredDue(r, due) ==
  [sessions |-> [s \in Sessions |-> IF s \in due THEN NoConn ELSE r.sessions[s]],
   connectionToSession |-> [c \in Conns |->
      IF \E s \in due : r.sessions[s] = c THEN NoSession ELSE r.connectionToSession[c]]]

\* The two maps are inverses of each other.
Paired(r) ==
  /\ \A s \in Sessions : r.sessions[s] \in Conns => r.connectionToSession[r.sessions[s]] = s
  /\ \A c \in Conns : HasSession(r, c) => r.sessions[r.connectionToSession[c]] = c
=============================================================================
