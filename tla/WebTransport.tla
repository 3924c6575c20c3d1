---------------------------- MODULE WebTransport ----------------------------
(***************************************************************************)
(* The browser's WebSocket transport (web/src/transport.ts) as operators   *)
(* on the state of one transport.  A transport retries by itself when its  *)
(* socket closes, unless it was told to stop, was rejected, or has tried   *)
(* MaxAttempts times in a row; it opens its next socket from a timer.      *)
(*                                                                         *)
(* A socket that the transport lets go says nothing any more: its close    *)
(* event is recognised as that of an old socket, and a WebSocket delivers  *)
(* no message after close().  So only the current socket is kept.          *)
(***************************************************************************)
EXTENDS Naturals

CONSTANT MaxAttempts   \* retries in a row

ASSUME AttemptsAssumption == MaxAttempts \in Nat

\* closedByUs stands for authRejected too: the two are set together.
Transport ==
  [ws         : {"none", "connecting", "open"},
   readyState : {"disconnected", "connecting", "authenticating", "ready"},
   closedByUs : BOOLEAN,
   attempts   : 0 .. MaxAttempts,
   timer      : BOOLEAN]

Unopened ==
  [ws |-> "none", readyState |-> "disconnected", closedByUs |-> FALSE,
   attempts |-> 0, timer |-> FALSE]

\* openSocket, from connect() or from the reconnect timer.
Opened(t) == [t EXCEPT !.ws = "connecting", !.readyState = "connecting", !.timer = FALSE]

\* The transport lets its socket go without a "closed" event: after a protocol
\* error, when it has no credentials to offer, when too much waits to be sent.
TornDown(t) ==
  [t EXCEPT !.ws = "none", !.readyState = "disconnected", !.closedByUs = TRUE]

\* A plausible mistake: the reconnect timer is forgotten.
DestroyedNotTimer(t) == TornDown(t)

\* close() and destroy(), which differ only in saying goodbye.
Destroyed(t) == [TornDown(t) EXCEPT !.timer = FALSE]

Greeted(t)    == [t EXCEPT !.readyState = "authenticating"]
Authorised(t) == [t EXCEPT !.readyState = "ready", !.attempts = 0]

\* A plausible mistake: to the transport, a rejection is like any other message.
RejectedOnly(t) == [t EXCEPT !.timer = FALSE]

Rejected(t)   == [t EXCEPT !.closedByUs = TRUE, !.timer = FALSE]
Dismissed(t)  == [Rejected(t) EXCEPT !.readyState = "disconnected"]

MayRetry(t) == ~t.closedByUs /\ t.attempts < MaxAttempts

\* A plausible mistake: attempts are not counted.
DisconnectedUncounted(t) ==
  LET down == [t EXCEPT !.ws = "none", !.readyState = "disconnected"]
  IN  IF MayRetry(t) THEN [down EXCEPT !.timer = TRUE] ELSE down

\* The socket has closed: schedule the next one, or give up.
Disconnected(t) ==
  LET down == [t EXCEPT !.ws = "none", !.readyState = "disconnected"]
  IN  IF MayRetry(t)
      THEN [down EXCEPT !.attempts = t.attempts + 1, !.timer = TRUE]
      ELSE down

\* Whether the socket becomes ready is up to the relay.
Undecided(t) == t.ws # "none" /\ t.readyState \in {"connecting", "authenticating"}

\* The transport will do something by itself.
Lives(t) == t.ws # "none" \/ t.timer
=============================================================================
