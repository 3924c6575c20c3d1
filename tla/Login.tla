--------------------------------- MODULE Login ---------------------------------
(***************************************************************************)
(* Signing in to the relay's web API (relay/src/api.ts) and the sessions a *)
(* sign-in starts (relay/src/http-sessions.ts).  A login request passes    *)
(* the throttle of its address, awaits its body and the check of its       *)
(* credentials, and only then counts against the throttle, so requests     *)
(* that overlap have all been let in before the first is counted.          *)
(*                                                                         *)
(* Times are ticks of one clock.  A refused request changes nothing and is *)
(* no step.  The limiter that logins share with other connections          *)
(* (RateLimiter) answers freely here.  Left out: user names and methods,   *)
(* the cookie, a relay restart, which forgets everything.                  *)
(***************************************************************************)
EXTENDS Integers, Sequences, FiniteSets

CONSTANTS
  Addresses,
  MaxAttempts,    \* LOGIN_MAX_ATTEMPTS
  Window, Lock,   \* LOGIN_WINDOW_MS and LOGIN_LOCK_MS in ticks
  MaxSessions,    \* MAX_SESSIONS
  EvictBatch,     \* how many sessions a full store gives up: a tenth
  \* Bounds
  Overlap,        \* requests of an address in pending
  MaxClock, MaxTokens

ASSUME LoginAssumption ==
  /\ {MaxAttempts, Window, MaxSessions, EvictBatch, Overlap} \subseteq Nat \ {0}
  /\ {Lock, MaxClock, MaxTokens} \subseteq Nat
  /\ EvictBatch <= MaxSessions

VARIABLES
  clock,
  entry,      \* the throttle's entry of an address; count 0: it has none
  pending,    \* requests of each address that await their body or its check
  issued,     \* tokens 1 .. issued have been created, in this order
  store,      \* the tokens of the sessions
  seen,       \* when each of them was last used
  \* To state properties
  failures,   \* when the logins of each address failed
  starts      \* those of them that began a window

http   == <<issued, store, seen>>
past   == <<failures, starts>>
vars   == <<clock, entry, pending, http, past>>

Entry  == [count : Nat, windowStart : Nat, lockedUntil : Nat]
NoEntry == [count |-> 0, windowStart |-> 0, lockedUntil |-> 0]
Tokens == 1 .. MaxTokens

TypeOK ==
  /\ clock \in Nat
  /\ entry \in [Addresses -> Entry]
  /\ pending \in [Addresses -> 0 .. Overlap]
  /\ issued \in 0 .. MaxTokens
  /\ store \subseteq 1 .. issued
  /\ seen \in [Tokens -> Nat]
  /\ failures \in [Addresses -> Seq(Nat)]
  /\ starts \in [Addresses -> SUBSET Nat]

Init ==
  /\ clock = 0
  /\ entry = [a \in Addresses |-> NoEntry]
  /\ pending = [a \in Addresses |-> 0]
  /\ issued = 0 /\ store = {} /\ seen = [t \in Tokens |-> 0]
  /\ failures = [a \in Addresses |-> <<>>]
  /\ starts = [a \in Addresses |-> {}]

----------------------------------------------------------------------------
\* The throttle: at most MaxAttempts counted failures in a window, which the first
\* failure begins.

Elapsed(e) == clock - e.windowStart >= Window

\* A plausible mistake: an address is let in as soon as its lock is over.
OnceUnlocked(e) == e.count = 0 \/ clock >= e.lockedUntil

LoginAllowed(e) ==
  \/ e.count = 0
  \/ clock >= e.lockedUntil /\ (Elapsed(e) \/ e.count < MaxAttempts)

\* What the test leaves of the entry: one that has elapsed is deleted.
Tested(e) == IF e.count > 0 /\ clock >= e.lockedUntil /\ Elapsed(e) THEN NoEntry ELSE e

BeginsWindow(e) == e.count = 0 \/ Elapsed(e)

Failed(e) ==
  LET count == IF BeginsWindow(e) THEN 1 ELSE e.count + 1
  IN  [count       |-> count,
       windowStart |-> IF BeginsWindow(e) THEN clock ELSE e.windowStart,
       lockedUntil |-> IF count >= MaxAttempts THEN clock + Lock
                       ELSE IF BeginsWindow(e) THEN 0 ELSE e.lockedUntil]

----------------------------------------------------------------------------
\* POST /api/auth/login

LoginRequest(a) ==
  /\ LoginAllowed(entry[a])
  /\ pending[a] < Overlap
  /\ entry' = [entry EXCEPT ![a] = Tested(@)]
  /\ pending' = [pending EXCEPT ![a] = @ + 1]
  /\ UNCHANGED <<clock, http, past>>

Answered(a) ==
  /\ pending[a] > 0
  /\ pending' = [pending EXCEPT ![a] = @ - 1]
  /\ UNCHANGED clock

\* The body is too long, is not JSON or lacks the credentials; or the credentials are
\* good, but the shared limiter refuses.
LoginRefused(a) == Answered(a) /\ UNCHANGED <<entry, http, past>>

LoginFails(a) ==
  /\ Answered(a)
  /\ entry' = [entry EXCEPT ![a] = Failed(@)]
  /\ failures' = [failures EXCEPT ![a] = Append(@, clock)]
  /\ starts' = IF BeginsWindow(entry[a])
               THEN [starts EXCEPT ![a] = @ \cup {Len(failures[a]) + 1}] ELSE starts
  /\ UNCHANGED http

----------------------------------------------------------------------------
\* The session store.

\* A plausible mistake: the sessions created first make room.
CreatedBefore(t, u) == t < u

\* The order in which sessions make room: the least recently used first, and of those
\* used at the same time the one created first.
Before(t, u) == seen[t] < seen[u] \/ (seen[t] = seen[u] /\ t < u)

Evicted ==
  IF Cardinality(store) < MaxSessions THEN {}
  ELSE {t \in store : Cardinality({u \in store : Before(u, t)}) < EvictBatch}

LoginSucceeds(a) ==
  /\ Answered(a)
  /\ issued < MaxTokens
  /\ issued' = issued + 1
  /\ store' = (store \ Evicted) \cup {issued'}
  /\ seen' = [t \in Tokens |-> IF t = issued' THEN clock
                               ELSE IF t \in store' THEN seen[t] ELSE 0]
  /\ UNCHANGED <<entry, past>>

\* Any request, or a WebSocket's auth_request, that carries the session's token.
Use(t) ==
  /\ t \in store
  /\ seen' = [seen EXCEPT ![t] = clock]
  /\ UNCHANGED <<clock, entry, pending, issued, store, past>>

Logout(t) ==
  /\ t \in store
  /\ store' = store \ {t}
  /\ seen' = [seen EXCEPT ![t] = 0]
  /\ UNCHANGED <<clock, entry, pending, issued, past>>

Tick ==
  /\ clock < MaxClock
  /\ clock' = clock + 1
  /\ UNCHANGED <<entry, pending, http, past>>

Next ==
  \/ \E a \in Addresses :
       LoginRequest(a) \/ LoginRefused(a) \/ LoginFails(a) \/ LoginSucceeds(a)
  \/ \E t \in store : Use(t) \/ Logout(t)
  \/ Tick

Spec == Init /\ [][Next]_vars

----------------------------------------------------------------------------
\* What one window may count: the last attempt that is let in, and those that were
\* under way with it.
WindowMost == MaxAttempts - 1 + Overlap

\* However logins overlap, and wherever windows and locks end, the failed logins of an
\* address within any span shorter than a window are fewer than two windows' most: the
\* failure that comes so many after another comes at least a window after it
\* (loginAllowed before the awaits of handleLogin, recordLoginFailure after them).
AttemptsBounded ==
  \A a \in Addresses : \A i, k \in DOMAIN failures[a] :
    k - i >= 2 * WindowMost - 1 => failures[a][k] - failures[a][i] >= Window

\* A step ends sessions only by their own logout, or for want of room: then at least
\* the sessions that stay, and one more, have been used as lately as any that goes
\* (HttpSessionStore.evictIfOversized).
ActiveStaySignedIn ==
  [][\A t \in store \ store' :
       \/ store' = store \ {t} /\ issued' = issued
       \/ Cardinality({u \in store : seen[u] >= seen[t]}) > MaxSessions - EvictBatch]_vars

\* The store never holds more sessions than it may.
StoreBounded == Cardinality(store) <= MaxSessions
=============================================================================
