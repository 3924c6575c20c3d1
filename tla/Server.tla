------------------------------- MODULE Server -------------------------------
(***************************************************************************)
(* The TCP server of termlink (server/src/server.ts, connection.ts,        *)
(* protocol.ts): connections with their protocol state, the awaited        *)
(* verification of credentials, the limiter and the session registry they  *)
(* share, the terminals of the backend (pty.ts or ssh-backend.ts), expiry  *)
(* and shutdown.                                                           *)
(*                                                                         *)
(* Handlers are actions.  A connection id is random and used once.  What   *)
(* an authenticated client and its terminal say to each other changes no   *)
(* state and is left out.                                                  *)
(***************************************************************************)
EXTENDS RateLimiter, SessionRegistry, Sequences

CONSTANTS
  IpOf,              \* the address of the client of each connection
  Backend,           \* "none", "pty" or "ssh"
  MaxConnections, MaxAuthAttempts,
  MaxClock           \* bound of the clock

ASSUME ServerAssumption ==
  /\ IpOf \in [Conns -> Ips \cup {NoIp}]
  /\ Backend \in {"none", "pty", "ssh"}
  /\ {MaxConnections, MaxAuthAttempts} \subseteq Nat \ {0}
  /\ MaxClock \in Nat

VARIABLES
  conn,      \* the connections
  registry,  \* the session registry
  term,      \* connections that have a terminal in the backend
  limiter,   \* the limiter of authentication attempts
  clock,     \* the time
  begun,     \* history: when verifications began, of all and of each address
  server     \* the server: up, stopping, down, or crashed

vars == <<conn, registry, term, limiter, clock, begun, server>>

\* A socket: open; ended by the server, so that only its peer may still speak;
\* finishing, with both directions ended or an error, so that only its close event is to
\* come; closed.
Socks == {"unused", "open", "ended", "finishing", "closed"}

Connection ==
  [sock : Socks, proto : {"connecting", "authenticating", "ready", "closing"},
   authenticated : BOOLEAN, attempts : 0..MaxAuthAttempts,
   verifying : BOOLEAN,    \* a verification is awaited
   timer : BOOLEAN]        \* authTimer is armed

Begun == [all : Seq(Nat), by : [Ips -> Seq(Nat)]]

\* Date.now() is far past the start of the limiter's first window, which is 0.
Init ==
  /\ conn = [c \in Conns |-> [sock |-> "unused", proto |-> "connecting",
                               authenticated |-> FALSE, attempts |-> 0,
                               verifying |-> FALSE, timer |-> FALSE]]
  /\ registry = Empty
  /\ term = {}
  /\ limiter = NoAttempts
  /\ clock = Window
  /\ begun = [all |-> <<>>, by |-> [ip \in Ips |-> <<>>]]
  /\ server = "up"

Up == server \in {"up", "stopping"}

\* The connections in the server's map.
LiveIn(k) == k.sock \in {"open", "ended", "finishing"}

Live == {c \in Conns : LiveIn(conn[c])}

\* What a client sends is read.
Reads(c) == conn[c].sock \in {"open", "ended"}

-----------------------------------------------------------------------------
(* A connection after each of these.                                       *)

\* A write, which on a socket that was ended is an error that destroys it.
Written(k) == [k EXCEPT !.sock = IF @ = "open" THEN @ ELSE "finishing"]

Ended(k) == [k EXCEPT !.sock = IF @ = "open" THEN "ended" ELSE @]

\* fail, and shutdown, which does the same.
Failed(k) == Ended(Written([k EXCEPT !.proto = "closing"]))

\* authOk.
Ready(k) == Written([k EXCEPT !.proto = "ready"])

\* authOk and authFail throw unless the protocol is authenticating.
\* A plausible mistake: the protocol does not check its state.
ThrowsNever(k) == k.proto = "connecting"

Throws(k) == k.proto # "authenticating"

-----------------------------------------------------------------------------
(* Connections                                                             *)

Accept(c) ==
  /\ server = "up"
  /\ conn[c].sock = "unused"
  /\ Cardinality(Live) < MaxConnections
  /\ conn' = [conn EXCEPT ![c].sock = "open", ![c].proto = "authenticating", ![c].timer = TRUE]
  /\ UNCHANGED <<registry, term, limiter, clock, begun, server>>

\* The attempt is let through: its verification begins.
Begins(c) ==
  /\ Acquires(limiter, IpOf[c], clock)
  /\ conn[c].attempts < MaxAuthAttempts
  /\ conn' = [conn EXCEPT ![c].attempts = @ + 1, ![c].verifying = TRUE]
  /\ begun' = [all |-> Append(begun.all, clock),
               by |-> [ip \in Ips |-> IF ip = IpOf[c] THEN Append(begun.by[ip], clock)
                                      ELSE begun.by[ip]]]

\* The attempt is refused, by the limiter or after too many on this connection.
Refuses(c) ==
  /\ \/ ~Acquires(limiter, IpOf[c], clock)
     \/ conn[c].attempts >= MaxAuthAttempts
  /\ conn' = [conn EXCEPT ![c] = Written(@)]
  /\ UNCHANGED begun

\* A client waits for the answer to its credentials before it sends others.
AuthRequest(c) ==
  /\ Up
  /\ Reads(c) /\ ~conn[c].verifying
  /\ conn[c].proto = "authenticating"
  /\ Begins(c) \/ Refuses(c)
  /\ limiter' = Tried(limiter, IpOf[c], clock)
  /\ UNCHANGED <<registry, term, clock, server>>

\* A throw inside the voided async function is an unhandled rejection, which ends the
\* process.
Crash ==
  /\ server' = "crashed"
  /\ UNCHANGED <<conn, registry, term>>

\* startTerminalBackend: a shell may fail to spawn; SSH reports its failures later.
Start(c, k) ==
  \/ /\ term' = IF Backend = "none" THEN term ELSE term \cup {c}
     /\ conn' = [conn EXCEPT ![c] = k]
  \/ /\ Backend = "pty"
     /\ conn' = [conn EXCEPT ![c] = Failed(k)]
     /\ UNCHANGED term

Succeeds(c) ==
  /\ \E s \in Sessions :
       /\ Fresh(registry, s)
       /\ registry' = Created(registry, c, s)
  /\ Start(c, Ready([conn[c] EXCEPT !.verifying = FALSE, !.authenticated = TRUE,
                                    !.timer = FALSE]))
  /\ UNCHANGED server

\* The verification is done.  Only the closed flag is looked at.
Verified(c) ==
  /\ Up
  /\ conn[c].verifying
  /\ \/ /\ conn[c].sock = "closed"
        /\ conn' = [conn EXCEPT ![c].verifying = FALSE]
        /\ UNCHANGED <<registry, term, server>>
     \/ LiveIn(conn[c]) /\ Throws(conn[c]) /\ Crash
     \/ LiveIn(conn[c]) /\ ~Throws(conn[c]) /\ Succeeds(c)
     \/ /\ LiveIn(conn[c]) /\ ~Throws(conn[c])
        /\ conn' = [conn EXCEPT ![c] = Written([@ EXCEPT !.verifying = FALSE])]
        /\ UNCHANGED <<registry, term, server>>
  /\ UNCHANGED <<limiter, clock, begun>>

\* The client says goodbye.  The server answers, and leaves it to the client to end.
Goodbye(c) ==
  /\ Up
  /\ Reads(c)
  /\ conn[c].proto \in {"ready", "authenticating"}
  /\ conn' = [conn EXCEPT ![c] = Written([@ EXCEPT !.proto = "closing"])]
  /\ UNCHANGED <<registry, term, limiter, clock, begun, server>>

\* A frame that cannot be decoded, or a message that is not valid in this state.
ProtocolError(c) ==
  /\ Up
  /\ Reads(c)
  /\ conn' = [conn EXCEPT ![c] = Failed(@)]
  /\ UNCHANGED <<registry, term, limiter, clock, begun, server>>

\* A plausible mistake: the first attempt clears the timer.
AuthTimeoutUntilAttempt(c) ==
  /\ Up
  /\ conn[c].timer /\ conn[c].attempts = 0
  /\ conn' = [conn EXCEPT ![c] = Failed([@ EXCEPT !.timer = FALSE])]
  /\ UNCHANGED <<registry, term, limiter, clock, begun, server>>

AuthTimeout(c) ==
  /\ Up
  /\ conn[c].timer
  /\ conn' = [conn EXCEPT ![c] = Failed([@ EXCEPT !.timer = FALSE])]
  /\ UNCHANGED <<registry, term, limiter, clock, begun, server>>

IdleTimeout(c) ==
  /\ Up
  /\ conn[c].sock = "open"
  /\ conn' = [conn EXCEPT ![c] = Ended([@ EXCEPT !.proto = "closing"])]
  /\ UNCHANGED <<registry, term, limiter, clock, begun, server>>

\* The peer's FIN: onEnd ends the socket too, and the protocol state stays.
PeerEnds(c) ==
  /\ Up
  /\ Reads(c)
  /\ conn' = [conn EXCEPT ![c].sock = "finishing"]
  /\ UNCHANGED <<registry, term, limiter, clock, begun, server>>

\* The socket's close event, which an error may bring at any time.
SocketClosed(c) ==
  /\ Up
  /\ c \in Live
  /\ conn' = [conn EXCEPT ![c].sock = "closed", ![c].timer = FALSE]
  /\ term' = term \ {c}
  /\ registry' = RemovedByConnection(registry, c)
  /\ UNCHANGED <<limiter, clock, begun, server>>

\* The shell exits, or the SSH session ends, by itself.
TerminalExits(c) ==
  /\ Up
  /\ c \in term
  /\ term' = term \ {c}
  /\ conn' = [conn EXCEPT ![c] = Failed(@)]
  /\ UNCHANGED <<registry, limiter, clock, begun, server>>

-----------------------------------------------------------------------------
(* The server                                                              *)

\* A plausible mistake: the sessions go, their connections stay.
ExpireSessionsOnly(due) ==
  /\ server = "up"
  /\ due # {} /\ \A s \in due : ~Fresh(registry, s)
  /\ registry' = ExpiredDue(registry, due)
  /\ UNCHANGED <<conn, term, limiter, clock, begun, server>>

\* The sessions that are due are removed and their connections told.
ExpireSessions(due) ==
  /\ server = "up"
  /\ due # {} /\ \A s \in due : ~Fresh(registry, s)
  /\ registry' = ExpiredDue(registry, due)
  /\ conn' = [c \in Conns |-> IF \E s \in due : registry.sessions[s] = c THEN Failed(conn[c])
                              ELSE conn[c]]
  /\ UNCHANGED <<term, limiter, clock, begun, server>>

Close ==
  /\ server = "up"
  /\ server' = "stopping"
  /\ term' = {}
  /\ conn' = [c \in Conns |-> IF c \in Live THEN Failed(conn[c]) ELSE conn[c]]
  /\ UNCHANGED <<registry, limiter, clock, begun>>

\* All connections have closed, or ten seconds have passed.
Exit ==
  /\ server = "stopping"
  /\ server' = "down"
  /\ UNCHANGED <<conn, registry, term, limiter, clock, begun>>

Tick ==
  /\ Up
  /\ clock < MaxClock
  /\ clock' = clock + 1
  /\ UNCHANGED <<conn, registry, term, limiter, begun, server>>

Next ==
  \/ \E c \in Conns :
       \/ Accept(c) \/ AuthRequest(c) \/ Verified(c) \/ Goodbye(c) \/ ProtocolError(c)
       \/ AuthTimeout(c) \/ IdleTimeout(c) \/ PeerEnds(c) \/ SocketClosed(c)
       \/ TerminalExits(c)
  \/ \E due \in SUBSET Sessions : ExpireSessions(due)
  \/ Close \/ Exit \/ Tick

\* Timers fire and hashing is done.
Fairness == \A c \in Conns : WF_vars(AuthTimeout(c)) /\ WF_vars(Verified(c))

Spec == Init /\ [][Next]_vars /\ Fairness

-----------------------------------------------------------------------------
(* Properties                                                              *)

\* Types.  No connection makes more attempts than allowed.
TypeOK ==
  /\ conn \in [Conns -> Connection]
  /\ registry \in Registry
  /\ term \subseteq Conns
  /\ IsLimiter(limiter)
  /\ clock \in Nat
  /\ begun \in Begun
  /\ server \in {"up", "stopping", "down", "crashed"}

\* The two maps of the registry are inverses of each other, a session or a terminal
\* belongs to a live connection that has authenticated, and a connection is served only
\* while it has its session and its terminal: whatever ends one of them ends the serving
\* (sessions.ts, connection.ts:393-405, server.ts:141-151).
SessionsMatch ==
  /\ Paired(registry)
  /\ \A c \in Conns :
       /\ HasSession(registry, c) \/ c \in term => c \in Live /\ conn[c].authenticated
       /\ c \in Live /\ conn[c].proto = "ready" =>
            HasSession(registry, c) /\ (Backend # "none" => c \in term)

\* After close() no terminal runs and no connection is served, although verifications
\* were awaited when it was called (server.ts:163-180).
ShutdownIsFinal ==
  server = "stopping" => term = {} /\ \A c \in Live : conn[c].proto = "closing"

\* Any Window-long interval sees at most twice the limit of attempts begin.
Spread(s, limit) ==
  \A i, j \in 1..Len(s) : j >= i + 2 * limit => s[j] >= s[i] + Window

\* rate-limit.ts:3: "so brute-force pressure is bounded both globally and per client IP":
\* whatever connections come and go, and whichever addresses the limiter forgets, any
\* interval as long as the window sees at most twice the limit of attempts begin, of all
\* clients and of each address.  A fixed window promises no less than twice.
PressureBounded ==
  /\ GlobalLimit > 0 => Spread(begun.all, GlobalLimit)
  /\ PerIpLimit > 0 => \A ip \in Ips : Spread(begun.by[ip], PerIpLimit)

\* protocol.ts:31 says connecting, authenticating, ready, closing: the state of a
\* connection only moves forward, one step or to the end, and it becomes ready only when
\* credentials that were verified on it succeed.
ProtocolOrder ==
  [][\A c \in Conns : conn'[c].proto # conn[c].proto =>
       \/ conn[c].proto = "connecting" /\ conn'[c].proto = "authenticating"
       \/ conn[c].proto # "connecting" /\ conn'[c].proto = "closing"
       \/ /\ conn[c].proto = "authenticating" /\ conn'[c].proto = "ready"
          /\ conn[c].verifying /\ ~conn[c].authenticated /\ conn'[c].authenticated
    ]_vars

\* An accepted connection does not stay unauthenticated for ever, whatever its client
\* sends or leaves (connection.ts:144-155).
AuthResolves ==
  \A c \in Conns : conn[c].proto = "authenticating"
    ~> conn[c].proto # "authenticating" \/ c \notin Live \/ ~Up
=============================================================================
