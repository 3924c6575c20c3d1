--------------------------- MODULE WebTerminalProofs ---------------------------
(***************************************************************************)
(* Proofs that a tab has at most one live transport, shows what that one   *)
(* does, and keeps the life of TabLife, for any number of retries and of   *)
(* transports.                                                             *)
(***************************************************************************)
EXTENDS WebTerminal, TLAPS

\* How the fields of one transport go together.
Coherent(t) ==
  /\ t.readyState # "disconnected" => t.ws # "none"
  /\ t.ws # "none" /\ ~t.closedByUs => t.readyState # "disconnected"
  /\ t.readyState = "connecting" => ~t.closedByUs
  /\ t.timer => t.ws = "none" /\ ~t.closedByUs /\ t.attempts > 0

\* What the model and the tab know of its transports.
Tracked ==
  /\ tab.current <= used /\ dropped \subseteq 1 .. used
  /\ creating => tab.current = 0 /\ tab.state \in {"creating", "closed"}
  /\ tab.ping => tab.state = "connected"
  /\ \A t \in Transports :
       /\ Coherent(tr[t])
       /\ t \in asked => /\ tr[t].ws = "open" /\ tr[t].readyState = "authenticating"
                         /\ ~tr[t].closedByUs
       /\ t \in dropped => ~Lives(tr[t])
       /\ tab.closed /\ tr[t].ws # "none" => tr[t].closedByUs

IInv == TypeOK /\ Tracked /\ OneTransport /\ ShowsTransport

-----------------------------------------------------------------------------
(* What the operators on transports do.                                    *)

LEMMA UnopenedTyped == Unopened \in Transport /\ Coherent(Unopened) /\ ~Lives(Unopened)
<1>1. 0 \in 0 .. MaxAttempts
  BY AttemptsAssumption
<1> QED
  BY <1>1 DEF Unopened, Transport, Coherent, Lives

LEMMA OpenedFields ==
  ASSUME NEW t \in Transport
  PROVE  LET n == Opened(t)
         IN  /\ n \in Transport /\ n.ws = "connecting" /\ n.readyState = "connecting"
             /\ n.timer = FALSE /\ n.closedByUs = t.closedByUs /\ n.attempts = t.attempts
BY DEF Opened, Transport

LEMMA TornDownFields ==
  ASSUME NEW t \in Transport
  PROVE  LET n == TornDown(t)
         IN  /\ n \in Transport /\ n.ws = "none" /\ n.readyState = "disconnected"
             /\ n.timer = t.timer /\ n.closedByUs = TRUE /\ n.attempts = t.attempts
BY DEF TornDown, Transport

LEMMA DestroyedFields ==
  ASSUME NEW t \in Transport
  PROVE  LET n == Destroyed(t)
         IN  /\ n \in Transport /\ n.ws = "none" /\ n.readyState = "disconnected"
             /\ n.timer = FALSE /\ n.closedByUs = TRUE
BY DEF Destroyed, TornDown, Transport

LEMMA GreetedFields ==
  ASSUME NEW t \in Transport
  PROVE  LET n == Greeted(t)
         IN  /\ n \in Transport /\ n.ws = t.ws /\ n.readyState = "authenticating"
             /\ n.timer = t.timer /\ n.closedByUs = t.closedByUs /\ n.attempts = t.attempts
BY DEF Greeted, Transport

LEMMA AuthorisedFields ==
  ASSUME NEW t \in Transport
  PROVE  LET n == Authorised(t)
         IN  /\ n \in Transport /\ n.ws = t.ws /\ n.readyState = "ready"
             /\ n.timer = t.timer /\ n.closedByUs = t.closedByUs /\ n.attempts = 0
<1>1. 0 \in 0 .. MaxAttempts
  BY AttemptsAssumption
<1> QED
  BY <1>1 DEF Authorised, Transport

LEMMA RejectedFields ==
  ASSUME NEW t \in Transport
  PROVE  LET n == Rejected(t)
         IN  /\ n \in Transport /\ n.ws = t.ws /\ n.readyState = t.readyState
             /\ n.timer = FALSE /\ n.closedByUs = TRUE
BY DEF Rejected, Transport

LEMMA DismissedFields ==
  ASSUME NEW t \in Transport
  PROVE  LET n == Dismissed(t)
         IN  /\ n \in Transport /\ n.ws = t.ws /\ n.readyState = "disconnected"
             /\ n.timer = FALSE /\ n.closedByUs = TRUE
BY DEF Dismissed, Rejected, Transport

LEMMA DisconnectedFields ==
  ASSUME NEW t \in Transport, ~t.timer
  PROVE  LET n == Disconnected(t)
         IN  /\ n \in Transport /\ n.ws = "none" /\ n.readyState = "disconnected"
             /\ n.timer = MayRetry(t) /\ n.closedByUs = t.closedByUs
             /\ n.timer => n.attempts > 0
<1> DEFINE down == [t EXCEPT !.ws = "none", !.readyState = "disconnected"]
<1>1. /\ down \in Transport /\ down.ws = "none" /\ down.readyState = "disconnected"
      /\ down.timer = FALSE /\ down.closedByUs = t.closedByUs /\ down.attempts = t.attempts
  BY DEF Transport
<1> HIDE DEF down
<1>2. CASE MayRetry(t)
  <2>1. t.attempts + 1 \in 0 .. MaxAttempts /\ t.attempts + 1 > 0
    BY <1>2, AttemptsAssumption DEF MayRetry, Transport
  <2>2. Disconnected(t) = [down EXCEPT !.attempts = t.attempts + 1, !.timer = TRUE]
    BY <1>2 DEF Disconnected, down
  <2> QED
    BY <1>1, <1>2, <2>1, <2>2 DEF Transport, MayRetry
<1>3. CASE ~MayRetry(t)
  <2>1. Disconnected(t) = down
    BY <1>3 DEF Disconnected, down
  <2> QED
    BY <1>1, <1>3, <2>1 DEF MayRetry
<1> QED
  BY <1>2, <1>3

-----------------------------------------------------------------------------
LEMMA InitHolds == Init => IInv
<1> SUFFICES ASSUME Init PROVE IInv
  OBVIOUS
<1> USE AttemptsAssumption, TransportsAssumption
<1> DEFINE first == Opened(Unopened)
<1>0. /\ first \in Transport /\ Coherent(first) /\ Unopened.readyState = "disconnected"
      /\ first.readyState = "connecting" /\ first.ws = "connecting" /\ first.timer = FALSE
      /\ first.closedByUs = FALSE /\ first.attempts = 0
      /\ Unopened.timer = FALSE /\ Unopened.ws = "none"
  <2>1. Unopened.closedByUs = FALSE /\ Unopened.attempts = 0 /\ Unopened.readyState = "disconnected"
        /\ Unopened.timer = FALSE /\ Unopened.ws = "none"
    BY DEF Unopened
  <2> QED
    BY <2>1, UnopenedTyped, OpenedFields DEF Coherent
<1> HIDE DEF first
<1>00. /\ asked = {} /\ dropped = {} /\ used \in 0 .. MaxTransports /\ creating \in BOOLEAN
       /\ tab.current = used /\ tab.ping = FALSE /\ tab.closed = FALSE
       /\ tab \in [state : States, closed : BOOLEAN, current : 0 .. MaxTransports, ping : BOOLEAN]
       /\ \A t \in Transports : tr[t] = IF t = used THEN first ELSE Unopened
       /\ tr \in [Transports -> Transport]
       /\ IF used = 0 THEN tab.state \in {"creating", "closed"}
          ELSE tab.state = "connecting" /\ ~creating
  <2>z. 0 \in 0 .. MaxTransports
    OBVIOUS
  <2>a. asked = {} /\ dropped = {}
    BY DEF Init
  <2>w. used = 0 => tr = [t \in Transports |-> Unopened] /\ creating \in BOOLEAN
    <3>1. CASE creating = TRUE /\ tr = [t \in Transports |-> Unopened]
      BY <3>1
    <3>2. CASE creating = FALSE /\ tr = [t \in Transports |-> Unopened]
      BY <3>2
    <3>3. CASE used = 1
      BY <3>3
    <3> QED
      BY <3>1, <3>2, <3>3 DEF Init
  <2>1. CASE tab = Shown("creating") /\ used = 0
    <3>1. tr = [t \in Transports |-> Unopened] /\ creating \in BOOLEAN
      BY <2>1, <2>w DEF Init, Shown
    <3>2. tab = [state |-> "creating", closed |-> FALSE, current |-> 0, ping |-> FALSE]
      BY <2>1 DEF Shown
    <3>3. /\ tab \in [state : States, closed : BOOLEAN, current : 0 .. MaxTransports, ping : BOOLEAN]
          /\ tab.state = "creating" /\ tab.closed = FALSE /\ tab.current = 0 /\ tab.ping = FALSE
      BY <3>2, <2>z DEF States
    <3>4. \A t \in Transports : t # 0
      BY DEF Transports
    <3>5. \A t \in Transports : tr[t] = IF t = used THEN first ELSE Unopened
      BY <2>1, <3>1, <3>4
    <3>6. tr \in [Transports -> Transport]
      BY <3>1, UnopenedTyped
    <3> QED
      BY <2>1, <2>z, <2>a, <3>1, <3>3, <3>5, <3>6
  <2>2. CASE tab = Shown("closed") /\ used = 0
    <3>1. tr = [t \in Transports |-> Unopened] /\ creating \in BOOLEAN
      BY <2>2, <2>w DEF Init, Shown
    <3>2. tab = [state |-> "closed", closed |-> FALSE, current |-> 0, ping |-> FALSE]
      BY <2>2 DEF Shown
    <3>3. /\ tab \in [state : States, closed : BOOLEAN, current : 0 .. MaxTransports, ping : BOOLEAN]
          /\ tab.state = "closed" /\ tab.closed = FALSE /\ tab.current = 0 /\ tab.ping = FALSE
      BY <3>2, <2>z DEF States
    <3>4. \A t \in Transports : t # 0
      BY DEF Transports
    <3>5. \A t \in Transports : tr[t] = IF t = used THEN first ELSE Unopened
      BY <2>2, <3>1, <3>4
    <3>6. tr \in [Transports -> Transport]
      BY <3>1, UnopenedTyped
    <3> QED
      BY <2>2, <2>z, <2>a, <3>1, <3>3, <3>5, <3>6
  <2>3. CASE tab = [Shown("connecting") EXCEPT !.current = 1] /\ used = 1
    <3>1. /\ MaxTransports > 0 /\ creating = FALSE
          /\ tr = [t \in Transports |-> IF t = 1 THEN first ELSE Unopened]
      BY <2>3 DEF Init, first
    <3>2. 1 \in 0 .. MaxTransports
      BY <3>1
    <3>3. tab = [state |-> "connecting", closed |-> FALSE, current |-> 1, ping |-> FALSE]
      BY <2>3 DEF Shown
    <3>4. /\ tab \in [state : States, closed : BOOLEAN, current : 0 .. MaxTransports, ping : BOOLEAN]
          /\ tab.state = "connecting" /\ tab.closed = FALSE /\ tab.current = 1 /\ tab.ping = FALSE
      BY <3>2, <3>3 DEF States
    <3>5. \A t \in Transports : tr[t] = IF t = used THEN first ELSE Unopened
      BY <2>3, <3>1
    <3>6. tr \in [Transports -> Transport]
      BY <1>0, <3>1, UnopenedTyped
    <3>7. tab.current = used /\ used \in 0 .. MaxTransports /\ used # 0
      BY <2>3, <3>2, <3>4
    <3> QED
      BY <2>a, <3>1, <3>4, <3>5, <3>6, <3>7
  <2> QED
    BY <2>1, <2>2, <2>3 DEF Init
<1>1. TypeOK
  BY <1>00 DEF TypeOK
<1>2. Tracked
  BY <1>0, <1>00, UnopenedTyped DEF Tracked, Lives
<1>3. OneTransport
  BY <1>00, UnopenedTyped DEF OneTransport
<1>4. ShowsTransport
  <2>1. CASE used = 0
    BY <1>00, <2>1 DEF ShowsTransport
  <2>2. CASE used # 0
    <3>1. tr[tab.current] = first
      BY <1>00, <2>2 DEF Transports
    <3> QED
      BY <1>0, <1>00, <2>2, <3>1 DEF ShowsTransport, Undecided
  <2> QED
    BY <2>1, <2>2
<1> QED
  BY <1>1, <1>2, <1>3, <1>4 DEF IInv

-----------------------------------------------------------------------------
(* A transport that has an event is the current one, and the model is     *)
(* right about it.                                                         *)

LEMMA LiveIsCurrent ==
  ASSUME IInv, NEW t \in Transports, Lives(tr[t])
  PROVE  /\ t = tab.current /\ t # 0 /\ t <= used /\ t \notin dropped /\ ~creating
         /\ tr[t] \in Transport /\ Coherent(tr[t])
         /\ tab.closed => /\ tr[t].closedByUs /\ ~tr[t].timer
                          /\ tr[t].readyState = "disconnected"
BY DEF IInv, TypeOK, Tracked, OneTransport, Lives, Transports, Coherent

\* A step that changes the current transport to next, and the tab to v, keeps what
\* concerns transports if it does so for these two.
Fits(v, next) ==
  /\ v.closed => ~next.timer /\ next.readyState = "disconnected"
  /\ v.closed /\ next.ws # "none" => next.closedByUs

Shows(v, next) ==
  /\ v.state = "connected"    <=> next.readyState = "ready"
  /\ v.state = "connecting"   <=> Undecided(next) /\ next.attempts = 0 /\ ~next.closedByUs
  /\ v.state = "reconnecting" <=> next.timer \/ (Undecided(next) /\ next.attempts > 0 /\ ~next.closedByUs)
  /\ v.state = "disconnected" => ~next.timer /\ (next.ws = "none" \/ next.closedByUs)
  /\ v.ping <=> v.state = "connected"

LEMMA EventKeeps ==
  ASSUME IInv, NEW t \in Transports, Lives(tr[t]),
         NEW next \in Transport, Becomes(t, next), Coherent(next),
         tab' \in [state : States, closed : BOOLEAN, current : 0 .. MaxTransports, ping : BOOLEAN],
         tab'.current = tab.current, tab.closed => tab'.closed,
         tab'.ping => tab'.state = "connected",
         UNCHANGED <<creating, used>>,
         asked' \in {asked \ {t}, asked \cup {t}},
         t \in asked' => /\ next.ws = "open" /\ next.readyState = "authenticating"
                         /\ ~next.closedByUs,
         \/ dropped' = dropped /\ (~tab'.closed => Shows(tab', next))
         \/ dropped' = dropped \cup {t} /\ ~Lives(next),
         Fits(tab', next)
  PROVE  IInv'
<1>1. t = tab.current /\ t # 0 /\ t <= used /\ t \notin dropped /\ ~creating
  BY LiveIsCurrent
<1>2. tr' = [tr EXCEPT ![t] = next] /\ tr \in [Transports -> Transport]
  BY DEF Becomes, IInv, TypeOK
<1>3. /\ tr'[t] = next
      /\ \A u \in Transports : u # t => tr'[u] = tr[u] /\ ~Lives(tr[u])
  BY <1>1, <1>2 DEF IInv, OneTransport
<1>4. TypeOK'
  BY <1>2 DEF IInv, TypeOK
<1>5. Tracked'
  <2>1. tab'.current <= used' /\ dropped' \subseteq 1 .. used'
    <3>1. t \in 1 .. used
      BY <1>1 DEF IInv, TypeOK, Transports
    <3> QED
      BY <3>1 DEF IInv, Tracked
  <2>2. ASSUME NEW u \in Transports
        PROVE  /\ Coherent(tr'[u])
               /\ u \in asked' => /\ tr'[u].ws = "open" /\ tr'[u].readyState = "authenticating"
                                  /\ ~tr'[u].closedByUs
               /\ u \in dropped' => ~Lives(tr'[u])
               /\ tab'.closed /\ tr'[u].ws # "none" => tr'[u].closedByUs
    <3>1. CASE u = t
      BY <3>1, <1>1, <1>3 DEF Fits
    <3>2. CASE u # t
      BY <3>2, <1>3 DEF IInv, Tracked, Lives
    <3> QED
      BY <3>1, <3>2
  <2> QED
    BY <2>1, <2>2, <1>1 DEF Tracked
<1>6. OneTransport'
  <2>1. ASSUME NEW u \in Transports, u # t PROVE ~Lives(tr'[u]) /\ tr'[u].readyState = "disconnected"
    BY <1>3, <2>1 DEF IInv, Tracked, Coherent, Lives
  <2> QED
    BY <2>1, <1>1, <1>3 DEF OneTransport, Fits, Lives
<1>7. ShowsTransport'
  BY <1>1, <1>3 DEF ShowsTransport, Shows
<1> QED
  BY <1>4, <1>5, <1>6, <1>7 DEF IInv

-----------------------------------------------------------------------------
(* The calls of the tab.                                                   *)

LEMMA OpenKeeps ==
  ASSUME IInv, NEW v, v \in {tab, [tab EXCEPT !.state = "connecting"]}, v = tab \/ creating,
         Open(v), creating' = FALSE, v = tab => ~creating
  PROVE  IInv'
<1> DEFINE n == used + 1
<1>1. n \in Transports /\ used' = n /\ n \notin dropped /\ v.current = tab.current /\ ~tab.closed
      /\ v \in [state : States, closed : BOOLEAN, current : 0 .. MaxTransports, ping : BOOLEAN]
      /\ ~v.ping
  BY TransportsAssumption DEF Open, CanOpen, IInv, TypeOK, Tracked, Transports, States
<1>2. tab' = [v EXCEPT !.state = "connecting", !.current = n]
  BY DEF Open
<1>3. \A t \in Transports : tr'[t] = IF t = n THEN Opened(Unopened)
                                     ELSE IF t = tab.current THEN Destroyed(tr[t]) ELSE tr[t]
  <2>1. tr' = [t \in Transports |-> CASE t = used + 1  -> Opened(Unopened)
                                      [] t = v.current -> Destroyed(tr[t])
                                      [] OTHER         -> tr[t]]
    BY DEF Open
  <2>2. ASSUME NEW t \in Transports
        PROVE  tr'[t] = IF t = n THEN Opened(Unopened)
                        ELSE IF t = tab.current THEN Destroyed(tr[t]) ELSE tr[t]
    <3>1. n # v.current
      BY <1>1 DEF IInv, Tracked, TypeOK
    <3> QED
      BY <2>1, <3>1, <1>1
  <2> QED
    BY <2>2
<1>4. tr' \in [Transports -> Transport]
  <2>1. Opened(Unopened) \in Transport
    BY UnopenedTyped, OpenedFields
  <2>2. \A t \in Transports : Destroyed(tr[t]) \in Transport
    BY DestroyedFields DEF IInv, TypeOK
  <2> QED
    BY <2>1, <2>2, <1>1 DEF Open, IInv, TypeOK
<1>5. \A t \in Transports : t # n => ~Lives(tr'[t]) /\ Coherent(tr'[t])
  <2> SUFFICES ASSUME NEW t \in Transports, t # n PROVE ~Lives(tr'[t]) /\ Coherent(tr'[t])
    OBVIOUS
  <2>1. CASE t = tab.current
    <3>1. tr[t] \in Transport
      BY DEF IInv, TypeOK
    <3> QED
      BY <2>1, <3>1, <1>3, DestroyedFields DEF Lives, Coherent
  <2>2. CASE t # tab.current
    BY <2>2, <1>3 DEF IInv, OneTransport, Tracked
  <2> QED
    BY <2>1, <2>2
<1>6. tr'[n] = Opened(Unopened) /\ Coherent(tr'[n])
  <2>1. Unopened.closedByUs = FALSE
    BY DEF Unopened
  <2> QED
    BY <1>1, <1>3, <2>1, UnopenedTyped, OpenedFields DEF Coherent
<1>7. asked' = asked \ {tab.current} /\ dropped' = dropped
  BY <1>1 DEF Open
<1>8. TypeOK'
  <2>1. tab' \in [state : States, closed : BOOLEAN, current : 0 .. MaxTransports, ping : BOOLEAN]
    <3>1. n \in 0 .. MaxTransports
      BY <1>1 DEF Transports
    <3> HIDE DEF n
    <3> QED
      BY <1>1, <1>2, <3>1 DEF States
  <2>2. used' \in 0 .. MaxTransports
    BY <1>1 DEF Transports, IInv, TypeOK
  <2> QED
    BY <1>4, <1>7, <2>1, <2>2 DEF IInv, TypeOK
<1>9. n \notin asked'
  BY <1>1, <1>7 DEF IInv, Tracked, OneTransport, Lives, Transports
<1>10. Tracked'
  <2>1. tab'.current <= used' /\ dropped' \subseteq 1 .. used'
    BY <1>1, <1>2, <1>7 DEF IInv, Tracked, TypeOK
  <2>2. ~tab'.ping /\ ~tab'.closed
    BY <1>1, <1>2 DEF Open, CanOpen
  <2>3. ASSUME NEW t \in Transports, t \in asked' PROVE FALSE
    BY <2>3, <1>1, <1>7 DEF IInv, Tracked, OneTransport, Lives
  <2>4. ASSUME NEW t \in Transports, t \in dropped' PROVE ~Lives(tr'[t])
    BY <2>4, <1>1, <1>5, <1>7
  <2> QED
    BY <2>1, <2>2, <2>3, <2>4, <1>5, <1>6 DEF Tracked
<1>11. OneTransport'
  BY <1>1, <1>2, <1>5 DEF OneTransport, Open, CanOpen
<1>12. ShowsTransport'
  <2>1. Unopened.closedByUs = FALSE /\ Unopened.attempts = 0
    BY DEF Unopened
  <2>2. tr'[n].closedByUs = FALSE /\ tr'[n].attempts = 0 /\ tr'[n].ws = "connecting"
        /\ tr'[n].readyState = "connecting" /\ tr'[n].timer = FALSE
    BY <1>6, <2>1, UnopenedTyped, OpenedFields
  <2>3. tab'.current = n /\ tab'.state = "connecting" /\ ~tab'.ping
    BY <1>1, <1>2
  <2> QED
    BY <2>2, <2>3 DEF ShowsTransport, Undecided
<1> QED
  BY <1>8, <1>10, <1>11, <1>12 DEF IInv

LEMMA ProvisionedKeeps == ASSUME IInv, Provisioned PROVE IInv'
<1> DEFINE v == [tab EXCEPT !.state = "connecting"]
<1>1. CASE CanOpen(v)
  <2>1. Open(v) /\ creating /\ creating' = FALSE
    BY <1>1 DEF Provisioned
  <2>2. v # tab
    BY <2>1 DEF IInv, Tracked, TypeOK
  <2> QED
    BY <2>1, <2>2, OpenKeeps
<1>2. CASE ~CanOpen(v)
  <2>1. tab' = v /\ UNCHANGED <<used, tr, asked, dropped>> /\ creating /\ creating' = FALSE
    BY <1>2 DEF Provisioned
  <2>2. v \in [state : States, closed : BOOLEAN, current : 0 .. MaxTransports, ping : BOOLEAN]
        /\ v.current = tab.current /\ v.closed = tab.closed /\ v.ping = tab.ping
        /\ v.state = "connecting"
    BY DEF IInv, TypeOK, States
  <2>3. tab.closed /\ tab.current = 0 /\ ~tab.ping
    BY <1>2, <2>1, <2>2 DEF CanOpen, IInv, Tracked
  <2>4. TypeOK'
    BY <2>1, <2>2 DEF IInv, TypeOK
  <2>5. Tracked'
    BY <2>1, <2>2, <2>3 DEF IInv, Tracked
  <2>6. OneTransport' /\ ShowsTransport'
    BY <2>1, <2>2, <2>3 DEF IInv, OneTransport, ShowsTransport
  <2> QED
    BY <2>4, <2>5, <2>6 DEF IInv
<1> QED
  BY <1>1, <1>2

LEMMA CloseKeeps == ASSUME IInv, Close PROVE IInv'
<1>1. /\ tab' = [state |-> "closed", closed |-> TRUE, current |-> 0, ping |-> FALSE]
      /\ UNCHANGED <<creating, used, dropped>> /\ asked' = asked \ {tab.current}
  BY DEF Close
<1>2. \A t \in Transports : tr'[t] = IF t = tab.current THEN Destroyed(tr[t]) ELSE tr[t]
  BY DEF Close, IInv, TypeOK, Transports
<1>3. tr' \in [Transports -> Transport]
  <2>1. \A t \in Transports : Destroyed(tr[t]) \in Transport
    BY DestroyedFields DEF IInv, TypeOK
  <2> QED
    BY <2>1 DEF Close, IInv, TypeOK
<1>4. \A t \in Transports : ~Lives(tr'[t]) /\ Coherent(tr'[t])
  <2> SUFFICES ASSUME NEW t \in Transports PROVE ~Lives(tr'[t]) /\ Coherent(tr'[t])
    OBVIOUS
  <2>1. CASE t = tab.current
    <3>1. tr[t] \in Transport
      BY DEF IInv, TypeOK
    <3>2. tr'[t] = Destroyed(tr[t])
      BY <2>1, <1>2
    <3>3. tr'[t].ws = "none" /\ tr'[t].timer = FALSE /\ tr'[t].readyState = "disconnected"
      BY <3>1, <3>2, DestroyedFields
    <3> QED
      BY <3>3 DEF Lives, Coherent
  <2>2. CASE t # tab.current
    BY <2>2, <1>2 DEF IInv, OneTransport, Tracked
  <2> QED
    BY <2>1, <2>2
<1>5. \A t \in Transports : t \notin asked'
  BY <1>1 DEF IInv, Tracked, OneTransport, Lives
<1>6. TypeOK'
  BY <1>1, <1>3, TransportsAssumption DEF IInv, TypeOK, States
<1>7. Tracked'
  <2>1. tab'.current = 0 /\ tab'.ping = FALSE /\ tab'.state = "closed"
    BY <1>1
  <2>2. tab'.current <= used'
    BY <1>1, <2>1 DEF IInv, TypeOK
  <2> QED
    BY <1>1, <1>4, <1>5, <2>1, <2>2 DEF IInv, Tracked, Lives
<1>8. OneTransport' /\ ShowsTransport'
  BY <1>1, <1>4 DEF OneTransport, ShowsTransport, Lives, Coherent
<1> QED
  BY <1>6, <1>7, <1>8 DEF IInv

-----------------------------------------------------------------------------
(* The events of a transport.                                              *)

LEMMA DropsKeeps ==
  ASSUME IInv, NEW t \in Transports, tr[t].ws = "open", Drops(t)
  PROVE  IInv'
<1>1. Lives(tr[t]) /\ tr[t] \in Transport /\ Coherent(tr[t])
  BY DEF Lives, IInv, TypeOK, Tracked
<1> DEFINE next == TornDown(tr[t])
<1>2. next \in Transport /\ Coherent(next) /\ ~Lives(next)
  BY <1>1, TornDownFields DEF Coherent, Lives
<1>3. Fits(tab, next)
  BY <1>1, TornDownFields, LiveIsCurrent DEF Fits, Coherent
<1> HIDE DEF next
<1>4. Becomes(t, next) /\ dropped' = dropped \cup {t} /\ asked' = asked \ {t}
      /\ UNCHANGED <<tab, creating, used>>
  BY DEF Drops, next
<1> QED
  BY <1>1, <1>2, <1>3, <1>4, EventKeeps DEF IInv, TypeOK, Tracked

LEMMA SocketOpensKeeps == ASSUME IInv, NEW t \in Transports, SocketOpens(t) PROVE IInv'
<1> DEFINE next == [tr[t] EXCEPT !.ws = "open"]
<1>1. Lives(tr[t]) /\ tr[t] \in Transport /\ Coherent(tr[t]) /\ t = tab.current /\ t # 0 /\ t \notin dropped
  BY LiveIsCurrent DEF SocketOpens, Lives
<1>2. next \in Transport /\ Coherent(next) /\ Fits(tab, next)
  BY <1>1, LiveIsCurrent DEF Transport, Coherent, Fits, SocketOpens
<1>3. ~tab.closed => Shows(tab, next)
  BY <1>1 DEF IInv, ShowsTransport, Shows, Undecided, Transport, SocketOpens
<1>4. t \notin asked
  BY DEF SocketOpens, IInv, Tracked
<1> HIDE DEF next
<1>5. Becomes(t, next) /\ UNCHANGED <<tab, creating, used, asked, dropped>>
  BY DEF SocketOpens, next
<1> QED
  BY <1>1, <1>2, <1>3, <1>4, <1>5, EventKeeps DEF IInv, TypeOK, Tracked

LEMMA HelloKeeps == ASSUME IInv, NEW t \in Transports, Hello(t) PROVE IInv'
<1> DEFINE next == Greeted(tr[t])
<1>1. Lives(tr[t]) /\ tr[t] \in Transport /\ Coherent(tr[t]) /\ t = tab.current /\ t # 0 /\ t \notin dropped
      /\ ~tab.closed
  BY LiveIsCurrent DEF Hello, Lives
<1>2. ~tr[t].closedByUs
  BY <1>1 DEF Hello, Coherent
<1>3. next \in Transport /\ Coherent(next) /\ Fits(tab, next) /\ next.ws = "open"
      /\ next.readyState = "authenticating" /\ ~next.closedByUs
  BY <1>1, <1>2 DEF Transport, Coherent, Fits, Hello, Greeted
<1>4. Shows(tab, next)
  BY <1>1 DEF IInv, ShowsTransport, Shows, Undecided, Transport, Hello, Greeted
<1> HIDE DEF next
<1>5. Becomes(t, next) /\ UNCHANGED <<tab, creating, used, dropped>> /\ asked' = asked \cup {t}
  BY DEF Hello, next
<1> QED
  BY <1>1, <1>3, <1>4, <1>5, EventKeeps DEF IInv, TypeOK, Tracked

LEMMA AuthOkKeeps == ASSUME IInv, NEW t \in Transports, AuthOk(t) PROVE IInv'
<1> DEFINE next == Authorised(tr[t])
<1>1. Lives(tr[t]) /\ tr[t] \in Transport /\ Coherent(tr[t]) /\ t = tab.current /\ t # 0 /\ t \notin dropped
      /\ ~tab.closed /\ tr[t].readyState = "authenticating" /\ ~tr[t].closedByUs
  BY LiveIsCurrent DEF AuthOk, Lives, IInv, Tracked
<1>2. next \in Transport /\ Coherent(next)
  BY <1>1, AuthorisedFields DEF Coherent, AuthOk
<1>3. tab' = [tab EXCEPT !.state = "connected", !.ping = TRUE]
  BY <1>1 DEF AuthOk, Heard
<1>4. /\ tab' \in [state : States, closed : BOOLEAN, current : 0 .. MaxTransports, ping : BOOLEAN]
      /\ tab'.state = "connected" /\ tab'.current = tab.current /\ tab'.closed = tab.closed /\ tab'.ping
  BY <1>3 DEF IInv, TypeOK, States
<1>5. Fits(tab', next)
  BY <1>1, <1>4 DEF Fits
<1>6. Shows(tab', next)
  BY <1>1, <1>4, <1>2 DEF Shows, Undecided, Authorised, Transport, AuthOk, Coherent
<1> HIDE DEF next
<1>7. Becomes(t, next) /\ UNCHANGED <<creating, used, dropped>> /\ asked' = asked \ {t}
  BY DEF AuthOk, next
<1> QED
  BY <1>1, <1>2, <1>4, <1>5, <1>6, <1>7, EventKeeps

LEMMA AuthFailKeeps == ASSUME IInv, NEW t \in Transports, AuthFail(t) PROVE IInv'
<1> DEFINE next == Rejected(tr[t])
<1>1. Lives(tr[t]) /\ tr[t] \in Transport /\ Coherent(tr[t]) /\ t = tab.current /\ t # 0 /\ t \notin dropped
      /\ ~tab.closed /\ tr[t].readyState = "authenticating"
  BY LiveIsCurrent DEF AuthFail, Lives, IInv, Tracked
<1>2. next \in Transport /\ Coherent(next)
  BY <1>1 DEF Transport, Coherent, AuthFail, Rejected
<1>3. tab' = [tab EXCEPT !.state = "disconnected", !.ping = FALSE]
  BY <1>1 DEF AuthFail, Heard
<1>4. /\ tab' \in [state : States, closed : BOOLEAN, current : 0 .. MaxTransports, ping : BOOLEAN]
      /\ tab'.state = "disconnected" /\ tab'.current = tab.current /\ tab'.closed = tab.closed
      /\ ~tab'.ping
  BY <1>3 DEF IInv, TypeOK, States
<1>5. Fits(tab', next)
  BY <1>1, <1>4 DEF Fits
<1>6. Shows(tab', next)
  BY <1>1, <1>4 DEF Shows, Undecided, Rejected, Transport, AuthFail
<1> HIDE DEF next
<1>7. Becomes(t, next) /\ UNCHANGED <<creating, used, dropped>> /\ asked' = asked \ {t}
  BY DEF AuthFail, next
<1> QED
  BY <1>1, <1>2, <1>4, <1>5, <1>6, <1>7, EventKeeps

LEMMA GoodbyeKeeps == ASSUME IInv, NEW t \in Transports, Goodbye(t) PROVE IInv'
<1> DEFINE next == Dismissed(tr[t])
<1>1. Lives(tr[t]) /\ tr[t] \in Transport /\ t = tab.current /\ ~tab.closed
  BY LiveIsCurrent DEF Goodbye, Lives
<1>2. next \in Transport /\ Coherent(next)
  BY <1>1 DEF Transport, Coherent, Goodbye, Dismissed, Rejected
<1>3. tab' = [tab EXCEPT !.state = "closed", !.closed = TRUE, !.ping = FALSE]
  BY <1>1 DEF Goodbye, Heard
<1>4. /\ tab' \in [state : States, closed : BOOLEAN, current : 0 .. MaxTransports, ping : BOOLEAN]
      /\ tab'.current = tab.current /\ tab'.closed /\ ~tab'.ping
  BY <1>3 DEF IInv, TypeOK, States
<1>5. Fits(tab', next)
  BY <1>1, <1>4 DEF Fits, Dismissed, Rejected, Transport
<1> HIDE DEF next
<1>7. Becomes(t, next) /\ UNCHANGED <<creating, used, dropped>> /\ asked' = asked \ {t}
  BY DEF Goodbye, next
<1> QED
  BY <1>1, <1>2, <1>4, <1>5, <1>7, EventKeeps

LEMMA SocketClosesKeeps == ASSUME IInv, NEW t \in Transports, SocketCloses(t) PROVE IInv'
<1> DEFINE next == Disconnected(tr[t])
<1>1. Lives(tr[t]) /\ tr[t] \in Transport /\ Coherent(tr[t]) /\ t = tab.current /\ t # 0 /\ t \notin dropped
      /\ (tab.closed => tr[t].closedByUs /\ ~tr[t].timer)
  BY LiveIsCurrent DEF SocketCloses, Lives
<1>2. /\ next \in Transport /\ Coherent(next)
      /\ next.ws = "none" /\ next.readyState = "disconnected"
      /\ next.closedByUs = tr[t].closedByUs
      /\ next.timer = MayRetry(tr[t])
  <2>1. ~tr[t].timer
    BY <1>1 DEF SocketCloses, Coherent
  <2> QED
    BY <1>1, <2>1, DisconnectedFields DEF Coherent, MayRetry
<1>3. CASE tab.closed
  <2>1. tab' = tab
    BY <1>1, <1>3 DEF SocketCloses, Heard
  <2>2. Fits(tab', next)
    BY <1>1, <1>2, <1>3 DEF Fits, MayRetry
  <2> HIDE DEF next
  <2>3. Becomes(t, next) /\ UNCHANGED <<creating, used, dropped>> /\ asked' = asked \ {t}
    BY DEF SocketCloses, next
  <2> QED
    BY <1>1, <1>2, <1>3, <2>1, <2>2, <2>3, EventKeeps DEF IInv, TypeOK, Tracked
<1>4. CASE ~tab.closed
  <2>1. /\ tab' \in [state : States, closed : BOOLEAN, current : 0 .. MaxTransports, ping : BOOLEAN]
        /\ tab'.current = tab.current /\ tab'.closed = tab.closed /\ ~tab'.ping
        /\ IF MayRetry(tr[t]) THEN tab'.state = "reconnecting"
           ELSE tab'.state \notin {"connected", "connecting", "reconnecting"}
    BY <1>1, <1>4 DEF SocketCloses, Heard, IInv, TypeOK, States, MayRetry
  <2>2. Fits(tab', next)
    BY <1>4, <2>1 DEF Fits
  <2>3. Shows(tab', next)
    BY <1>2, <2>1 DEF Shows, Undecided, MayRetry
  <2> HIDE DEF next
  <2>4. Becomes(t, next) /\ UNCHANGED <<creating, used, dropped>> /\ asked' = asked \ {t}
    BY DEF SocketCloses, next
  <2> QED
    BY <1>1, <1>2, <1>4, <2>1, <2>2, <2>3, <2>4, EventKeeps
<1> QED
  BY <1>3, <1>4

LEMMA RetryTimerKeeps == ASSUME IInv, NEW t \in Transports, RetryTimer(t) PROVE IInv'
<1> DEFINE next == Opened(tr[t])
<1>1. Lives(tr[t]) /\ tr[t] \in Transport /\ Coherent(tr[t]) /\ t = tab.current /\ t # 0 /\ t \notin dropped
      /\ ~tab.closed /\ tr[t].ws = "none" /\ ~tr[t].closedByUs /\ tr[t].attempts > 0
  BY LiveIsCurrent DEF RetryTimer, Lives, Coherent
<1>2. next \in Transport /\ Coherent(next)
  BY <1>1 DEF Transport, Coherent, Opened
<1>3. tab' = [tab EXCEPT !.state = "reconnecting"]
  BY <1>1 DEF RetryTimer, Heard
<1>4. ~tab.ping
  BY <1>1 DEF IInv, ShowsTransport, Tracked, Coherent, RetryTimer
<1>5. /\ tab' \in [state : States, closed : BOOLEAN, current : 0 .. MaxTransports, ping : BOOLEAN]
      /\ tab'.state = "reconnecting" /\ tab'.current = tab.current /\ tab'.closed = tab.closed
      /\ ~tab'.ping
  BY <1>3, <1>4 DEF IInv, TypeOK, States
<1>6. Fits(tab', next) /\ Shows(tab', next) /\ t \notin asked
  BY <1>1, <1>5 DEF Fits, Shows, Undecided, Opened, Transport, IInv, Tracked
<1> HIDE DEF next
<1>7. Becomes(t, next) /\ UNCHANGED <<creating, used, asked, dropped>>
  BY DEF RetryTimer, next
<1> QED
  BY <1>1, <1>2, <1>5, <1>6, <1>7, EventKeeps

LEMMA NextKeeps == IInv /\ [Next]_vars => IInv'
<1> SUFFICES ASSUME IInv, [Next]_vars PROVE IInv'
  OBVIOUS
<1>1. CASE UNCHANGED vars
  BY <1>1 DEF vars, IInv, TypeOK, Tracked, OneTransport, ShowsTransport, Lives, Undecided, Coherent
<1>2. CASE Provisioned
  BY <1>2, ProvisionedKeeps
<1>3. CASE Reconnect
  <2>1. Open(tab) /\ ~creating /\ creating' = FALSE
    BY <1>3 DEF Reconnect, IInv, TypeOK
  <2> QED
    BY <2>1, OpenKeeps
<1>4. CASE Close
  BY <1>4, CloseKeeps
<1>5. ASSUME NEW t \in Transports, SocketOpens(t) PROVE IInv'
  BY <1>5, SocketOpensKeeps
<1>6. ASSUME NEW t \in Transports, Hello(t) PROVE IInv'
  BY <1>6, HelloKeeps
<1>7. ASSUME NEW t \in Transports, HelloUnusable(t) \/ Odd(t) \/ Overflow(t) PROVE IInv'
  BY <1>7, DropsKeeps DEF HelloUnusable, Odd, Overflow
<1>8. ASSUME NEW t \in Transports, AuthOk(t) PROVE IInv'
  BY <1>8, AuthOkKeeps
<1>9. ASSUME NEW t \in Transports, AuthFail(t) PROVE IInv'
  BY <1>9, AuthFailKeeps
<1>10. ASSUME NEW t \in Transports, Goodbye(t) PROVE IInv'
  BY <1>10, GoodbyeKeeps
<1>11. ASSUME NEW t \in Transports, SocketCloses(t) PROVE IInv'
  BY <1>11, SocketClosesKeeps
<1>12. ASSUME NEW t \in Transports, RetryTimer(t) PROVE IInv'
  BY <1>12, RetryTimerKeeps
<1> QED
  BY <1>1, <1>2, <1>3, <1>4, <1>5, <1>6, <1>7, <1>8, <1>9, <1>10, <1>11, <1>12 DEF Next

\* The strengthened invariant of a tab and its transports always holds.
THEOREM Inductive == Spec => []IInv
  BY InitHolds, NextKeeps, PTL DEF Spec

\* The state is always well typed.
THEOREM TypeCorrect == Spec => []TypeOK
<1>1. IInv => TypeOK
  BY DEF IInv
<1> QED
  BY <1>1, Inductive, PTL

\* Only the current transport has a socket or a timer (terminal-session.ts:131, 155).
THEOREM AtMostOneTransport == Spec => []OneTransport
<1>1. IInv => OneTransport
  BY DEF IInv
<1> QED
  BY <1>1, Inductive, PTL

\* A tab shows what its transport does (terminal-session.ts, the handler of its events).
THEOREM TabShowsTransport == Spec => []ShowsTransport
<1>1. IInv => ShowsTransport
  BY DEF IInv
<1> QED
  BY <1>1, Inductive, PTL

-----------------------------------------------------------------------------
(* Refinement of TabLife.                                                  *)

LEMMA InitLife == Init => LifeOf \in {LIFE!Made, LIFE!Hydrated(TRUE), LIFE!Hydrated(FALSE)}
<1> SUFFICES ASSUME Init PROVE LifeOf \in {LIFE!Made, LIFE!Hydrated(TRUE), LIFE!Hydrated(FALSE)}
  OBVIOUS
<1> USE TransportsAssumption DEF Init, LifeOf, Shown, Lives, Transports
<1>1. CASE tab = Shown("creating")
  <2>1. ~ \E t \in Transports : Lives(tr[t])
    BY <1>1 DEF Unopened
  <2> QED
    BY <1>1, <2>1 DEF LIFE!Made
<1>2. CASE tab = Shown("closed")
  <2>1. ~ \E t \in Transports : Lives(tr[t])
    BY <1>2 DEF Unopened
  <2> QED
    BY <1>2, <2>1 DEF LIFE!Made, LIFE!Hydrated
<1>3. CASE tab = [Shown("connecting") EXCEPT !.current = 1]
  <2>1. \E t \in Transports : Lives(tr[t])
    <3>1. 1 \in Transports
      BY <1>3
    <3>2. tr[1] = Opened(Unopened)
      BY <1>3, <3>1
    <3>3. Lives(tr[1])
      BY <3>2, UnopenedTyped, OpenedFields
    <3> QED
      BY <3>1, <3>3
  <2> QED
    BY <1>3, <2>1 DEF LIFE!Made, LIFE!Hydrated, LIFE!Opened
<1> QED
  BY <1>1, <1>2, <1>3

\* TabLife does not tell the two kinds of trying apart.
Seen(state) == IF state \in {"connecting", "reconnecting"} THEN "trying" ELSE state

LEMMA LifeTyped ==
  TypeOK => /\ LifeOf \in LIFE!Tab
            /\ LifeOf.state = Seen(tab.state) /\ LifeOf.closed = tab.closed
            /\ LifeOf.lives <=> \E t \in Transports : Lives(tr[t])
<1>1. (\E t \in Transports : Lives(tr[t])) \in BOOLEAN
  OBVIOUS
<1> QED
  BY <1>1 DEF TypeOK, LifeOf, LIFE!Tab, LIFE!States, States, Seen

LEMMA LifeTypedNext ==
  TypeOK' => /\ LifeOf' \in LIFE!Tab
             /\ LifeOf'.state = Seen(tab'.state) /\ LifeOf'.closed = tab'.closed
             /\ LifeOf'.lives <=> \E t \in Transports : Lives(tr'[t])
<1>1. (\E t \in Transports : Lives(tr'[t])) \in BOOLEAN
  OBVIOUS
<1> QED
  BY <1>1 DEF TypeOK, LifeOf, LIFE!Tab, LIFE!States, States, Seen

\* Which of a tab's own steps leads from v to w.
LEMMA WhichMove ==
  ASSUME NEW v \in LIFE!Tab, NEW w \in LIFE!Tab, v.lives
  PROVE  /\ ~v.closed /\ v.state = "trying" /\ w.state = "connected" /\ ~w.closed /\ w.lives
              => LIFE!Step(v, w)
         /\ ~v.closed /\ v.state \in {"trying", "connected"} /\ w.state = "trying" /\ ~w.closed /\ w.lives
              => LIFE!Step(v, w)
         /\ ~v.closed /\ w.state = "disconnected" /\ ~w.closed => LIFE!Step(v, w)
         /\ ~v.closed /\ w.state = "closed" /\ w.closed /\ w.lives => LIFE!Step(v, w)
         /\ w.state = v.state /\ w.closed = v.closed /\ ~w.lives => LIFE!Step(v, w)
         /\ w.state = v.state /\ w.closed = v.closed /\ w.lives => w = v
<1>1. ~v.closed /\ v.state = "trying" /\ w.state = "connected" /\ ~w.closed /\ w.lives
        => LIFE!Connects(v, w)
  BY DEF LIFE!Connects, LIFE!Tab
<1>2. ~v.closed /\ v.state \in {"trying", "connected"} /\ w.state = "trying" /\ ~w.closed /\ w.lives
        => LIFE!Retries(v, w)
  BY DEF LIFE!Retries, LIFE!Tab
<1>3. ~v.closed /\ w.state = "disconnected" /\ ~w.closed => LIFE!GivesUp(v, w)
  <2>1. /\ w.lives \in BOOLEAN
        /\ ~v.closed /\ w.state = "disconnected" /\ ~w.closed
             => w = [v EXCEPT !.state = "disconnected", !.lives = w.lives]
    BY DEF LIFE!Tab
  <2> QED
    BY <2>1 DEF LIFE!GivesUp
<1>4. ~v.closed /\ w.state = "closed" /\ w.closed /\ w.lives => LIFE!IsDismissed(v, w)
  BY DEF LIFE!IsDismissed, LIFE!Tab
<1>5. w.state = v.state /\ w.closed = v.closed /\ ~w.lives => LIFE!GoesQuiet(v, w)
  BY DEF LIFE!GoesQuiet, LIFE!Tab
<1>6. w.state = v.state /\ w.closed = v.closed /\ w.lives => w = v
  BY DEF LIFE!Tab
<1> QED
  BY <1>1, <1>2, <1>3, <1>4, <1>5, <1>6 DEF LIFE!Step, LIFE!Moves

\* What an event of the transport t, which becomes next, leaves of the tab's life.
LEMMA EventMoves ==
  ASSUME IInv, TypeOK', NEW t \in Transports, Lives(tr[t]), NEW next, Becomes(t, next)
  PROVE  /\ LifeOf \in LIFE!Tab /\ LifeOf.lives
         /\ LifeOf.state = Seen(tab.state) /\ LifeOf.closed = tab.closed
         /\ LifeOf' \in LIFE!Tab /\ (LifeOf'.lives <=> Lives(next))
         /\ LifeOf'.state = Seen(tab'.state) /\ LifeOf'.closed = tab'.closed
<1>1. t = tab.current
  BY LiveIsCurrent
<1>2. /\ tr'[t] = next
      /\ \A u \in Transports : u # t => tr'[u] = tr[u] /\ ~Lives(tr[u])
  BY <1>1 DEF Becomes, IInv, TypeOK, OneTransport
<1>3. (\E u \in Transports : Lives(tr'[u])) <=> Lives(next)
  BY <1>2 DEF Lives
<1> QED
  BY <1>3, LifeTyped, LifeTypedNext DEF IInv

LEMMA CallsMove ==
  ASSUME IInv, TypeOK', Provisioned \/ Reconnect \/ Close
  PROVE  LIFE!Step(LifeOf, LifeOf')
<1> DEFINE v == LifeOf
           w == LifeOf'
<1>v. /\ v \in LIFE!Tab /\ v.state = Seen(tab.state) /\ v.closed = tab.closed
      /\ v.lives <=> \E t \in Transports : Lives(tr[t])
  BY LifeTyped DEF IInv
<1>w. /\ w \in LIFE!Tab /\ w.state = Seen(tab'.state) /\ w.closed = tab'.closed
      /\ w.lives <=> \E t \in Transports : Lives(tr'[t])
  BY LifeTypedNext
<1> HIDE DEF v, w
<1>1. ASSUME NEW x, x \in {tab, [tab EXCEPT !.state = "connecting"]}, Open(x)
      PROVE  /\ w.lives /\ w.state = "trying" /\ ~w.closed
             /\ ~v.closed /\ x.state # "connected"
  <2>1. used + 1 \in Transports
    BY <1>1, TransportsAssumption DEF Open, IInv, TypeOK, Transports
  <2>2. tr' = [t \in Transports |-> CASE t = used + 1  -> Opened(Unopened)
                                      [] t = x.current -> Destroyed(tr[t])
                                      [] OTHER         -> tr[t]]
    BY <1>1 DEF Open
  <2>3. x.current # used + 1
    BY <1>1 DEF IInv, TypeOK, Tracked
  <2>4. tr'[used + 1] = Opened(Unopened)
    BY <2>1, <2>2, <2>3
  <2>5. Lives(tr'[used + 1])
    BY <2>4, UnopenedTyped, OpenedFields DEF Lives
  <2>6. tab'.state = "connecting" /\ tab'.closed = tab.closed /\ ~tab.closed /\ x.state # "connected"
    BY <1>1 DEF Open, CanOpen, IInv, TypeOK
  <2> QED
    BY <2>1, <2>5, <2>6, <1>v, <1>w DEF Seen
<1>2. CASE Reconnect
  <2>1. Open(tab)
    BY <1>2 DEF Reconnect
  <2>2. w.lives /\ w.state = "trying" /\ ~w.closed /\ ~v.closed /\ v.state # "connected"
    BY <1>1, <2>1, <1>v DEF Seen
  <2>3. w = [v EXCEPT !.state = "trying", !.lives = TRUE]
    BY <2>2, <1>v, <1>w DEF LIFE!Tab
  <2>4. w = LIFE!Opened(v)
    BY <2>2, <2>3 DEF LIFE!Opened
  <2> QED
    BY <2>4 DEF LIFE!Step, v, w
<1>3. CASE Provisioned
  <2> DEFINE x == [tab EXCEPT !.state = "connecting"]
             u == [v EXCEPT !.state = "trying"]
  <2>u. u \in LIFE!Tab /\ u.state = "trying" /\ u.closed = v.closed /\ u.lives = v.lives
    BY <1>v DEF LIFE!Tab, LIFE!States
  <2>1. CASE CanOpen(x)
    <3>1. Open(x)
      BY <1>3, <2>1 DEF Provisioned
    <3>2. w.lives /\ w.state = "trying" /\ ~w.closed /\ ~v.closed
      BY <1>1, <3>1
    <3> HIDE DEF u
    <3>3. w = [u EXCEPT !.state = "trying", !.lives = TRUE]
      BY <3>2, <2>u, <1>v, <1>w DEF LIFE!Tab
    <3>4. w = LIFE!Opened(u)
      BY <2>u, <3>2, <3>3 DEF LIFE!Opened
    <3>5. w = LIFE!Provisioned(v)
      BY <3>4 DEF LIFE!Provisioned, u
    <3> QED
      BY <3>5 DEF LIFE!Step, v, w
  <2>2. CASE ~CanOpen(x)
    <3>1. tab' = x /\ tr' = tr /\ tab.closed
      BY <1>3, <2>2 DEF Provisioned, CanOpen, IInv, TypeOK
    <3>2. w.state = "trying" /\ w.closed = v.closed /\ v.closed /\ (w.lives <=> v.lives)
      BY <3>1, <1>v, <1>w DEF Seen, IInv, TypeOK
    <3> HIDE DEF u
    <3>3. w = u
      <4>1. u \in LIFE!Tab /\ w \in LIFE!Tab
        BY <2>u, <1>w
      <4>2. w.state = u.state /\ (w.closed <=> u.closed) /\ (w.lives <=> u.lives)
        BY <3>2, <2>u
      <4> HIDE DEF w
      <4> QED
        BY <4>1, <4>2 DEF LIFE!Tab
    <3>4. w = LIFE!Provisioned(v)
      BY <3>2, <3>3, <2>u DEF LIFE!Provisioned, LIFE!Opened, u
    <3> QED
      BY <3>4 DEF LIFE!Step, v, w
  <2> QED
    BY <2>1, <2>2
<1>4. CASE Close
  <2>1. ASSUME NEW t \in Transports PROVE ~Lives(tr'[t])
    <3>1. tr'[t] = IF t = tab.current THEN Destroyed(tr[t]) ELSE tr[t]
      BY <1>4 DEF Close, IInv, TypeOK, Transports
    <3>2. tr[t] \in Transport
      BY DEF IInv, TypeOK
    <3> QED
      BY <3>1, <3>2, DestroyedFields DEF IInv, OneTransport, Lives
  <2>2. tab'.state = "closed" /\ tab'.closed = TRUE /\ ~tab.closed
    BY <1>4 DEF Close
  <2>3. w.state = "closed" /\ w.closed /\ ~w.lives /\ ~v.closed
    BY <2>1, <2>2, <1>v, <1>w DEF Seen
  <2>4. w = LIFE!Closed(v)
    BY <2>3, <1>w DEF LIFE!Closed, LIFE!Tab
  <2> QED
    BY <2>4 DEF LIFE!Step, v, w
<1> QED
  BY <1>2, <1>3, <1>4

LEMMA EventsMove ==
  ASSUME IInv, TypeOK', NEW t \in Transports,
         \/ SocketOpens(t) \/ Hello(t) \/ HelloUnusable(t) \/ AuthOk(t) \/ AuthFail(t)
         \/ Goodbye(t) \/ Odd(t) \/ Overflow(t) \/ SocketCloses(t) \/ RetryTimer(t)
  PROVE  LIFE!Step(LifeOf, LifeOf') \/ LifeOf' = LifeOf
<1>0. /\ Lives(tr[t])
      /\ t = tab.current /\ t # 0 /\ t \notin dropped /\ Coherent(tr[t]) /\ tr[t] \in Transport
      /\ tab.closed => tr[t].closedByUs /\ tr[t].readyState = "disconnected"
  <2>1. Lives(tr[t])
    BY DEF SocketOpens, Hello, HelloUnusable, AuthOk, AuthFail, Goodbye, Odd, Overflow, SocketCloses,
           RetryTimer, Lives
  <2> QED
    BY <2>1, LiveIsCurrent
<1>l. ASSUME NEW next, Becomes(t, next)
      PROVE  /\ LifeOf \in LIFE!Tab /\ LifeOf.lives
             /\ LifeOf.state = Seen(tab.state) /\ LifeOf.closed = tab.closed
             /\ LifeOf' \in LIFE!Tab /\ (LifeOf'.lives <=> Lives(next))
             /\ LifeOf'.state = Seen(tab'.state) /\ LifeOf'.closed = tab'.closed
  BY <1>0, <1>l, EventMoves
<1>s. ~tab.closed =>
        /\ tab.state = "connected"    <=> tr[t].readyState = "ready"
        /\ tab.state = "connecting"   <=> Undecided(tr[t]) /\ tr[t].attempts = 0 /\ ~tr[t].closedByUs
        /\ tab.state = "reconnecting" <=>
             tr[t].timer \/ (Undecided(tr[t]) /\ tr[t].attempts > 0 /\ ~tr[t].closedByUs)
  BY <1>0 DEF IInv, ShowsTransport
<1>a. tr[t].attempts = 0 \/ tr[t].attempts > 0
  BY <1>0, AttemptsAssumption DEF Transport
<1>1. CASE SocketOpens(t)
  <2>1. Becomes(t, [tr[t] EXCEPT !.ws = "open"]) /\ tab' = tab
    BY <1>1 DEF SocketOpens
  <2>2. Lives([tr[t] EXCEPT !.ws = "open"])
    BY <1>0 DEF Lives, Transport
  <2> QED
    BY <2>1, <2>2, <1>l, WhichMove
<1>2. CASE Hello(t)
  <2>1. Becomes(t, Greeted(tr[t])) /\ tab' = tab
    BY <1>2 DEF Hello
  <2>2. Lives(Greeted(tr[t]))
    BY <1>0, <1>2, GreetedFields DEF Lives, Hello
  <2> QED
    BY <2>1, <2>2, <1>l, WhichMove
<1>3. CASE HelloUnusable(t) \/ Odd(t) \/ Overflow(t)
  <2>1. Becomes(t, TornDown(tr[t])) /\ tab' = tab /\ tr[t].ws = "open"
    BY <1>3 DEF HelloUnusable, Odd, Overflow, Drops
  <2>2. ~Lives(TornDown(tr[t]))
    BY <1>0, <2>1, TornDownFields DEF Lives, Coherent
  <2> QED
    BY <2>1, <2>2, <1>l, WhichMove
<1>4. CASE AuthOk(t)
  <2>1. Becomes(t, Authorised(tr[t])) /\ tab' = Heard(tab, "ready") /\ tr[t].ws = "open"
        /\ tr[t].readyState = "authenticating" /\ ~tr[t].closedByUs
    BY <1>4 DEF AuthOk, IInv, Tracked
  <2>2. Lives(Authorised(tr[t])) /\ ~tab.closed
    BY <1>0, <2>1, AuthorisedFields DEF Lives
  <2>3. Seen(tab.state) = "trying"
    BY <2>1, <2>2, <1>a, <1>s DEF Undecided, Seen
  <2>4. Seen(tab'.state) = "connected" /\ tab'.closed = tab.closed
    BY <2>1, <2>2 DEF Heard, IInv, TypeOK, Seen
  <2> QED
    BY <2>1, <2>2, <2>3, <2>4, <1>l, WhichMove
<1>5. CASE AuthFail(t)
  <2>1. Becomes(t, Rejected(tr[t])) /\ tab' = Heard(tab, "auth_failed") /\ tr[t].ws = "open"
        /\ tr[t].readyState = "authenticating"
    BY <1>5 DEF AuthFail, IInv, Tracked
  <2>2. Lives(Rejected(tr[t])) /\ ~tab.closed
    BY <1>0, <2>1, RejectedFields DEF Lives
  <2>3. Seen(tab'.state) = "disconnected" /\ tab'.closed = tab.closed
    BY <2>1, <2>2 DEF Heard, IInv, TypeOK, Seen
  <2> QED
    BY <2>1, <2>2, <2>3, <1>l, WhichMove
<1>6. CASE Goodbye(t)
  <2>1. Becomes(t, Dismissed(tr[t])) /\ tab' = Heard(tab, "goodbye") /\ tr[t].ws = "open"
        /\ tr[t].readyState # "disconnected"
    BY <1>6 DEF Goodbye
  <2>2. Lives(Dismissed(tr[t])) /\ ~tab.closed
    BY <1>0, <2>1, DismissedFields DEF Lives
  <2>3. Seen(tab'.state) = "closed" /\ tab'.closed = TRUE
    BY <2>1, <2>2 DEF Heard, IInv, TypeOK, Seen
  <2> QED
    BY <2>1, <2>2, <2>3, <1>l, WhichMove
<1>7. CASE SocketCloses(t)
  <2>1. Becomes(t, Disconnected(tr[t])) /\ tr[t].ws # "none" /\ ~tr[t].timer
    BY <1>0, <1>7 DEF SocketCloses, Coherent
  <2>2. Lives(Disconnected(tr[t])) <=> MayRetry(tr[t])
    BY <1>0, <2>1, DisconnectedFields DEF Lives
  <2>3. CASE tab.closed
    <3>1. tab' = tab /\ ~MayRetry(tr[t])
      BY <1>0, <1>7, <2>3 DEF SocketCloses, Heard, MayRetry
    <3> QED
      BY <2>1, <2>2, <3>1, <1>l, WhichMove
  <2>4. CASE ~tab.closed /\ MayRetry(tr[t])
    <3>1. Seen(tab'.state) = "trying" /\ tab'.closed = tab.closed
      BY <1>7, <2>4 DEF SocketCloses, Heard, IInv, TypeOK, MayRetry, Seen
    <3>2. Seen(tab.state) \in {"trying", "connected"}
      BY <1>0, <1>a, <1>s, <2>1, <2>4 DEF Undecided, Transport, MayRetry, Coherent, Seen
    <3> QED
      BY <2>1, <2>2, <2>4, <3>1, <3>2, <1>l, WhichMove
  <2>5. CASE ~tab.closed /\ ~MayRetry(tr[t])
    <3>1. tab'.closed = tab.closed /\ (tab'.state = tab.state \/ tab'.state = "disconnected")
      BY <1>7, <2>5 DEF SocketCloses, Heard, IInv, TypeOK, MayRetry
    <3>2. CASE tab'.state = "disconnected"
      <4>0. Seen(tab'.state) = "disconnected"
        BY <3>2 DEF Seen
      <4> QED
        BY <2>1, <2>2, <2>5, <3>1, <4>0, <1>l, WhichMove
    <3>3. CASE tab'.state = tab.state
      <4> QED
        BY <2>1, <2>2, <2>5, <3>1, <3>3, <1>l, WhichMove
    <3> QED
      BY <3>1, <3>2, <3>3
  <2> QED
    BY <2>3, <2>4, <2>5
<1>8. CASE RetryTimer(t)
  <2>1. Becomes(t, Opened(tr[t])) /\ tr[t].timer /\ tr[t].attempts > 0 /\ ~tab.closed
    BY <1>0, <1>8 DEF RetryTimer, Coherent
  <2>2. Lives(Opened(tr[t]))
    BY <1>0, OpenedFields DEF Lives
  <2>3. tab.state = "reconnecting"
    BY <1>s, <2>1
  <2>4. tab'.state = "reconnecting" /\ tab'.closed = tab.closed
    BY <1>8, <2>1 DEF RetryTimer, Heard, IInv, TypeOK
  <2> QED
    BY <2>1, <2>2, <2>3, <2>4, <1>l, WhichMove
<1> QED
  BY <1>1, <1>2, <1>3, <1>4, <1>5, <1>6, <1>7, <1>8

LEMMA StepsMove == IInv /\ [Next]_vars => [LIFE!Step(LifeOf, LifeOf')]_LifeOf
<1> SUFFICES ASSUME IInv, [Next]_vars PROVE LIFE!Step(LifeOf, LifeOf') \/ LifeOf' = LifeOf
  OBVIOUS
<1>0. TypeOK'
  BY NextKeeps DEF IInv
<1>1. CASE UNCHANGED vars
  BY <1>1 DEF vars, LifeOf, Lives
<1>2. CASE Provisioned \/ Reconnect \/ Close
  BY <1>0, <1>2, CallsMove
<1>3. ASSUME NEW t \in Transports,
             \/ SocketOpens(t) \/ Hello(t) \/ HelloUnusable(t) \/ AuthOk(t) \/ AuthFail(t)
             \/ Goodbye(t) \/ Odd(t) \/ Overflow(t) \/ SocketCloses(t) \/ RetryTimer(t)
      PROVE  LIFE!Step(LifeOf, LifeOf') \/ LifeOf' = LifeOf
  BY <1>0, <1>3, EventsMove
<1> QED
  BY <1>1, <1>2, <1>3 DEF Next

\* A tab keeps the life TabLife promises, whatever its transports do
\* (terminal-session.ts:6-9).
THEOREM ImplementsLife == Spec => KeepsLife
  BY InitLife, Inductive, StepsMove, PTL DEF Spec, KeepsLife
=============================================================================
