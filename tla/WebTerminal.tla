---------------------------- MODULE WebTerminal ----------------------------
(***************************************************************************)
(* One terminal tab of the web client: the TerminalSession                 *)
(* (web/src/terminal-session.ts) with the transports it opens, one for     *)
(* each call of open().  Every transport reports to the same session,      *)
(* whichever of them is current.  The relay says hello, answers            *)
(* credentials, says goodbye, and may end or lose the socket at any time;  *)
(* it may also say something out of turn ("odd").                          *)
(***************************************************************************)
EXTENDS WebTransport

CONSTANT MaxTransports   \* transports opened, a bound on calls of open()

ASSUME TransportsAssumption == MaxTransports \in Nat

VARIABLES
  tab,       \* the session: what it shows, its closed flag, its transport, its ping timer
  creating,  \* the answer to create() is awaited
  used,      \* how many transports were opened
  tr,        \* the transports
  asked,     \* transports whose credentials the relay has not answered
  dropped    \* transports that let their socket go unannounced, to state properties

vars == <<tab, creating, used, tr, asked, dropped>>

Transports == 1 .. MaxTransports

States == {"creating", "connecting", "connected", "disconnected", "reconnecting", "closed"}

TypeOK ==
  /\ tab \in [state : States, closed : BOOLEAN, current : 0 .. MaxTransports, ping : BOOLEAN]
  /\ creating \in BOOLEAN
  /\ used \in 0 .. MaxTransports
  /\ tr \in [Transports -> Transport]
  /\ asked \subseteq Transports
  /\ dropped \subseteq Transports

Shown(st) == [state |-> st, closed |-> FALSE, current |-> 0, ping |-> FALSE]

\* A plausible mistake: after the relay's goodbye the session is not marked closed.
HeardGoodbyeOnly(v, event) ==
  IF v.closed /\ event # "goodbye" THEN v
  ELSE CASE event = "connecting"       -> [v EXCEPT !.state = "connecting"]
         [] event = "retrying"         -> [v EXCEPT !.state = "reconnecting"]
         [] event = "ready"            -> [v EXCEPT !.state = "connected", !.ping = TRUE]
         [] event = "goodbye"          -> [v EXCEPT !.state = "closed", !.ping = FALSE]
         [] OTHER                      -> [v EXCEPT !.state = "disconnected", !.ping = FALSE]

\* What an event of a transport does to the session.
Heard(v, event) ==
  IF v.closed /\ event # "goodbye" THEN v
  ELSE CASE event = "connecting"       -> [v EXCEPT !.state = "connecting"]
         [] event = "retrying"         -> [v EXCEPT !.state = "reconnecting"]
         [] event = "ready"            -> [v EXCEPT !.state = "connected", !.ping = TRUE]
         [] event = "goodbye"          -> [v EXCEPT !.state = "closed", !.closed = TRUE, !.ping = FALSE]
         [] event = "closed"           ->
              [v EXCEPT !.ping = FALSE,
                        !.state = IF @ \in {"connected", "reconnecting", "connecting"}
                                  THEN "disconnected" ELSE @]
         [] event \in {"auth_failed", "reconnect_failed"} ->
              [v EXCEPT !.state = "disconnected", !.ping = FALSE]

\* open(): the transport in use is destroyed, and a new one connects.
CanOpen(v) == ~v.closed /\ v.state # "connected"
Open(v) ==
  /\ CanOpen(v)
  /\ used < MaxTransports
  /\ used' = used + 1
  /\ tr' = [t \in Transports |-> CASE t = used + 1  -> Opened(Unopened)
                                   [] t = v.current -> Destroyed(tr[t])
                                   [] OTHER         -> tr[t]]
  /\ tab' = [v EXCEPT !.state = "connecting", !.current = used + 1]
  /\ asked' = asked \ {v.current}
  /\ UNCHANGED dropped

----------------------------------------------------------------------------
\* The session is created here, or made for a record of the relay: one that is
\* open there is opened at once.
Init ==
  /\ asked = {} /\ dropped = {}
  /\ \/ /\ tab = Shown("creating") /\ creating = TRUE /\ used = 0
        /\ tr = [t \in Transports |-> Unopened]
     \/ /\ tab = Shown("closed") /\ creating = FALSE /\ used = 0
        /\ tr = [t \in Transports |-> Unopened]
     \/ /\ MaxTransports > 0
        /\ tab = [Shown("connecting") EXCEPT !.current = 1] /\ creating = FALSE /\ used = 1
        /\ tr = [t \in Transports |-> IF t = 1 THEN Opened(Unopened) ELSE Unopened]

\* The relay answers create(); a failure is the controller's to handle, which
\* forgets the session.
Provisioned ==
  /\ creating
  /\ creating' = FALSE
  /\ LET v == [tab EXCEPT !.state = "connecting"]
     IN  IF CanOpen(v) THEN Open(v)
         ELSE tab' = v /\ UNCHANGED <<used, tr, asked, dropped>>

\* reconnect(), from the controller, or open(), when a disconnected tab is selected.
\* A tab still being created is offered neither.
Reconnect == ~creating /\ Open(tab) /\ UNCHANGED creating

Close ==
  /\ ~tab.closed
  /\ tab' = [state |-> "closed", closed |-> TRUE, current |-> 0, ping |-> FALSE]
  /\ tr' = IF tab.current = 0 THEN tr ELSE [tr EXCEPT ![tab.current] = Destroyed(@)]
  /\ asked' = asked \ {tab.current}
  /\ UNCHANGED <<creating, used, dropped>>

----------------------------------------------------------------------------
\* Events of the transport t.

Becomes(t, next) == tr' = [tr EXCEPT ![t] = next]

SocketOpens(t) ==
  /\ tr[t].ws = "connecting"
  /\ Becomes(t, [tr[t] EXCEPT !.ws = "open"])
  /\ UNCHANGED <<tab, creating, used, asked, dropped>>

\* The transport lets its socket go and tells the session no more than an error.
Drops(t) ==
  /\ Becomes(t, TornDown(tr[t]))
  /\ asked' = asked \ {t}
  /\ dropped' = dropped \cup {t}
  /\ UNCHANGED <<tab, creating, used>>

Hello(t) ==
  /\ tr[t].ws = "open" /\ tr[t].readyState = "connecting"
  /\ Becomes(t, Greeted(tr[t]))
  /\ asked' = asked \cup {t}
  /\ UNCHANGED <<tab, creating, used, dropped>>

\* The token is gone, or the relay takes other credentials.
HelloUnusable(t) ==
  /\ tr[t].ws = "open" /\ tr[t].readyState = "connecting"
  /\ Drops(t)

AuthOk(t) ==
  /\ tr[t].ws = "open" /\ t \in asked
  /\ Becomes(t, Authorised(tr[t]))
  /\ tab' = Heard(tab, "ready")
  /\ asked' = asked \ {t}
  /\ UNCHANGED <<creating, used, dropped>>

AuthFail(t) ==
  /\ tr[t].ws = "open" /\ t \in asked
  /\ Becomes(t, Rejected(tr[t]))
  /\ tab' = Heard(tab, "auth_failed")
  /\ asked' = asked \ {t}
  /\ UNCHANGED <<creating, used, dropped>>

Goodbye(t) ==
  /\ tr[t].ws = "open" /\ tr[t].readyState # "disconnected"
  /\ Becomes(t, Dismissed(tr[t]))
  /\ tab' = Heard(tab, "goodbye")
  /\ asked' = asked \ {t}
  /\ UNCHANGED <<creating, used, dropped>>

Odd(t) == tr[t].ws = "open" /\ Drops(t)

\* Input that does not fit into the buffer for output.
Overflow(t) ==
  /\ t = tab.current
  /\ tr[t].ws = "open" /\ tr[t].readyState = "ready"
  /\ Drops(t)

SocketCloses(t) ==
  /\ tr[t].ws # "none"
  /\ Becomes(t, Disconnected(tr[t]))
  /\ tab' = LET v == Heard(tab, "closed")
            IN  IF tr[t].closedByUs THEN v
                ELSE Heard(v, IF MayRetry(tr[t]) THEN "retrying" ELSE "reconnect_failed")
  /\ asked' = asked \ {t}
  /\ UNCHANGED <<creating, used, dropped>>

RetryTimer(t) ==
  /\ tr[t].timer
  /\ Becomes(t, Opened(tr[t]))
  /\ tab' = Heard(tab, IF tr[t].attempts > 0 THEN "retrying" ELSE "connecting")
  /\ UNCHANGED <<creating, used, asked, dropped>>

\* A relay ends the connection that does not authenticate in time, and a browser
\* the attempt that does not connect.
RunsOut(t) == Undecided(tr[t]) /\ SocketCloses(t)

Next ==
  \/ Provisioned \/ Reconnect \/ Close
  \/ \E t \in Transports :
       \/ SocketOpens(t) \/ Hello(t) \/ HelloUnusable(t) \/ AuthOk(t) \/ AuthFail(t)
       \/ Goodbye(t) \/ Odd(t) \/ Overflow(t) \/ SocketCloses(t) \/ RetryTimer(t)

Fairness ==
  \A t \in Transports : WF_vars(RetryTimer(t)) /\ WF_vars(RunsOut(t))

Spec == Init /\ [][Next]_vars /\ Fairness

----------------------------------------------------------------------------
\* Only the current transport has a socket or a timer, however often the tab was
\* reopened, and a tab the user closed has none: no second socket for one session
\* (terminal-session.ts:131), nothing that comes back after "closed for good"
\* (155).  What the relay ended is left to the relay to close.
OneTransport ==
  /\ \A t \in Transports : Lives(tr[t]) => t = tab.current
  /\ tab.closed => \A t \in Transports : ~tr[t].timer /\ tr[t].readyState = "disconnected"

\* A tab shows what its transport is doing, and pings exactly while it is connected,
\* unless the transport let its socket go unannounced (transport.ts:273-277).
ShowsTransport ==
  ~tab.closed /\ tab.current # 0 /\ tab.current \notin dropped =>
    LET t == tr[tab.current]
    IN  /\ tab.state = "connected"    <=> t.readyState = "ready"
        /\ tab.state = "connecting"   <=> Undecided(t) /\ t.attempts = 0 /\ ~t.closedByUs
        /\ tab.state = "reconnecting" <=> t.timer \/ (Undecided(t) /\ t.attempts > 0 /\ ~t.closedByUs)
        /\ tab.state = "disconnected" => ~t.timer /\ (t.ws = "none" \/ t.closedByUs)
        /\ tab.ping <=> tab.state = "connected"

\* The tab goes through the life it promises, whatever its transports do
\* (terminal-session.ts:6-9): refinement of TabLife.
LIFE == INSTANCE TabLife
LifeOf ==
  [state  |-> IF tab.state \in {"connecting", "reconnecting"} THEN "trying" ELSE tab.state,
   closed |-> tab.closed,
   lives  |-> \E t \in Transports : Lives(tr[t])]
KeepsLife ==
  /\ LifeOf \in {LIFE!Made, LIFE!Hydrated(TRUE), LIFE!Hydrated(FALSE)}
  /\ [][LIFE!Step(LifeOf, LifeOf')]_LifeOf

\* A tab that is trying to connect succeeds, or gives up and says so: it retries a
\* bounded number of times (README.md:108).
Trying ==
  ~tab.closed /\ tab.state \in {"connecting", "reconnecting"} /\ tab.current \notin dropped
TryingEnds == Trying ~> ~Trying
=============================================================================
