----------------------------- MODULE DeviceLink -----------------------------
(***************************************************************************)
(* Device agents enrol with the relay and keep one authenticated link each *)
(* (relay/src/agent-link.ts, device-store.ts, device-manager.ts).          *)
(*                                                                         *)
(* A handler is one action.  Hashing a new secret (register) and checking  *)
(* one (verify) are awaited: DeviceRegister and DeviceAuth start them, and *)
(* Registered and Verified are what runs when they are done, whatever has  *)
(* become of the link in between.  An agent process has its own secret, so *)
(* an agent stands for its secret; like the repository's agent, it sends   *)
(* its next credentials only when the last ones were answered.             *)
(***************************************************************************)
EXTENDS Naturals

CONSTANTS
  Devices,      \* configured device ids
  Agents,       \* agent processes, each with a secret of its own
  Links,        \* connection ids of device WebSockets
  DeviceOf,     \* the device id an agent is configured with
  NoAgent,      \* secretHash is undefined
  NoLink,       \* connectionId is undefined, or no link in the map
  NoDevice,     \* a link that has not authenticated
  MaxAttempts   \* maxAuthAttempts

ASSUME LinkAssumption ==
  /\ DeviceOf \in [Agents -> Devices]
  /\ NoAgent \notin Agents
  /\ NoLink \notin Links
  /\ NoDevice \notin Devices
  /\ MaxAttempts \in Nat \ {0}

VARIABLES
  state,        \* of each link: "unused", "auth", "ready" or "closed"
  agent,        \* the process at the other end
  deviceId,     \* the device a link authenticated as
  attempts,     \* authAttempts
  pending,      \* the awaited call of a link and what a verification will find
  secretHash,   \* DeviceStore: whose secret a device is enrolled with
  dir,          \* DeviceStore online/connectionId and DeviceManager.linksByDevice
  shuttingDown

vars == <<state, agent, deviceId, attempts, pending, secretHash, dir, shuttingDown>>

Directory ==
  [online        : [Devices -> BOOLEAN],
   connectionId  : [Devices -> Links \cup {NoLink}],
   linksByDevice : [Devices -> Links \cup {NoLink}]]

TypeOK ==
  /\ state \in [Links -> {"unused", "auth", "ready", "closed"}]
  /\ agent \in [Links -> Agents \cup {NoAgent}]
  /\ deviceId \in [Links -> Devices \cup {NoDevice}]
  /\ attempts \in [Links -> 0 .. MaxAttempts]
  /\ pending \in [Links -> {"none", "register", "accept", "reject"}]
  /\ secretHash \in [Devices -> Agents \cup {NoAgent}]
  /\ dir \in Directory
  /\ shuttingDown \in BOOLEAN

EmptyDirectory ==
  [online        |-> [d \in Devices |-> FALSE],
   connectionId  |-> [d \in Devices |-> NoLink],
   linksByDevice |-> [d \in Devices |-> NoLink]]

Init ==
  /\ state = [l \in Links |-> "unused"]
  /\ agent = [l \in Links |-> NoAgent]
  /\ deviceId = [l \in Links |-> NoDevice]
  /\ attempts = [l \in Links |-> 0]
  /\ pending = [l \in Links |-> "none"]
  /\ secretHash = [d \in Devices |-> NoAgent]
  /\ dir = EmptyDirectory
  /\ shuttingDown = FALSE

----------------------------------------------------------------------------
SetOnline(g, d, l) ==
  [g EXCEPT !.online[d] = TRUE, !.connectionId[d] = l]

\* A plausible mistake: the device goes offline, whichever link it is on.
SetOfflineByDevice(g, l) ==
  [online        |-> [d \in Devices |-> g.online[d] /\ deviceId[l] # d],
   connectionId  |-> [d \in Devices |->
                        IF g.connectionId[d] = l THEN NoLink ELSE g.connectionId[d]],
   linksByDevice |-> g.linksByDevice]

\* The device is found by the connection id it is online with.
SetOffline(g, l) ==
  [online        |-> [d \in Devices |-> g.online[d] /\ g.connectionId[d] # l],
   connectionId  |-> [d \in Devices |->
                        IF g.connectionId[d] = l THEN NoLink ELSE g.connectionId[d]],
   linksByDevice |-> g.linksByDevice]

\* A link closes: the store first, then the manager's map.
LinkClosed(g, l) ==
  LET off == SetOffline(g, l)
  IN  [off EXCEPT !.linksByDevice =
         [d \in Devices |->
            IF d = deviceId[l] /\ off.linksByDevice[d] = l THEN NoLink
                                                          ELSE off.linksByDevice[d]]]

----------------------------------------------------------------------------
\* An agent's WebSocket is accepted.
LinkOpens(l, a) ==
  /\ state[l] = "unused"
  /\ ~shuttingDown
  /\ state' = [state EXCEPT ![l] = "auth"]
  /\ agent' = [agent EXCEPT ![l] = a]
  /\ UNCHANGED <<deviceId, attempts, pending, secretHash, dir, shuttingDown>>

\* The relay ends link l, or its socket ends.
Fail(l) ==
  /\ state' = [state EXCEPT ![l] = "closed"]
  /\ dir' = LinkClosed(dir, l)

\* Link l authenticates as device d: it takes the device over from the link that
\* had it, which is terminated.
Ready(l, d) ==
  LET previous == dir.linksByDevice[d]
      online   == SetOnline(dir, d, l)
      ousted   == IF previous \in Links \ {l} THEN LinkClosed(online, previous)
                                              ELSE online
  IN  /\ state' = [k \in Links |-> IF k = l THEN "ready"
                                   ELSE IF k = previous THEN "closed" ELSE state[k]]
      /\ deviceId' = [deviceId EXCEPT ![l] = d]
      /\ dir' = [ousted EXCEPT !.linksByDevice[d] = l]

Device(l) == DeviceOf[agent[l]]

\* Whether the throttles let an attempt of link l through; "limited" is the rate
\* limiter shared by all connections.
MayTry(l, limited) == ~limited /\ attempts[l] < MaxAttempts

\* device_auth.  A device that is not enrolled yet is told so and may register
\* over the same link.
DeviceAuth(l, limited) ==
  /\ state[l] = "auth" /\ pending[l] = "none"
  /\ IF MayTry(l, limited)
     THEN /\ attempts' = [attempts EXCEPT ![l] = @ + 1]
          /\ pending' = [pending EXCEPT ![l] =
                           CASE secretHash[Device(l)] = NoAgent  -> "none"
                             [] secretHash[Device(l)] = agent[l] -> "accept"
                             [] OTHER                            -> "reject"]
          /\ UNCHANGED <<state, dir>>
     ELSE Fail(l) /\ UNCHANGED <<attempts, pending>>
  /\ UNCHANGED <<agent, deviceId, secretHash, shuttingDown>>

\* device_register, with or without the enrolment token the device asks for.
DeviceRegister(l, limited, tokenOk) ==
  /\ state[l] = "auth" /\ pending[l] = "none"
  /\ IF MayTry(l, limited) /\ secretHash[Device(l)] = NoAgent /\ tokenOk
     THEN /\ attempts' = [attempts EXCEPT ![l] = @ + 1]
          /\ pending' = [pending EXCEPT ![l] = "register"]
          /\ UNCHANGED <<state, dir>>
     ELSE Fail(l) /\ UNCHANGED <<attempts, pending>>
  /\ UNCHANGED <<agent, deviceId, secretHash, shuttingDown>>

\* A plausible mistake: the link is not looked at again after the await.
SettleClosed(l, accepted) ==
  /\ IF accepted THEN Ready(l, Device(l))
     ELSE Fail(l) /\ UNCHANGED deviceId

\* What follows an await: a link closed in the meantime stays closed.
Settle(l, accepted) ==
  IF state[l] = "closed" THEN UNCHANGED <<state, deviceId, dir>>
  ELSE IF accepted THEN Ready(l, Device(l))
  ELSE Fail(l) /\ UNCHANGED deviceId

Verified(l) ==
  /\ pending[l] \in {"accept", "reject"}
  /\ pending' = [pending EXCEPT ![l] = "none"]
  /\ Settle(l, pending[l] = "accept")
  /\ UNCHANGED <<agent, attempts, secretHash, shuttingDown>>

\* The secret is stored even when the link that brought it has closed.
Registered(l) ==
  /\ pending[l] = "register"
  /\ pending' = [pending EXCEPT ![l] = "none"]
  /\ secretHash' = [secretHash EXCEPT ![Device(l)] = agent[l]]
  /\ Settle(l, TRUE)
  /\ UNCHANGED <<agent, attempts, shuttingDown>>

\* An idle timer, a protocol error, the agent's goodbye, or the end of the socket.
Close(l) ==
  /\ state[l] \in {"auth", "ready"}
  /\ Fail(l)
  /\ UNCHANGED <<agent, deviceId, attempts, pending, secretHash, shuttingDown>>

\* A plausible mistake: the first credentials clear the timer.
AuthTimeoutUntilCredentials(l) ==
  /\ state[l] = "auth" /\ attempts[l] = 0
  /\ Fail(l)
  /\ UNCHANGED <<agent, deviceId, attempts, pending, secretHash, shuttingDown>>

AuthTimeout(l) ==
  /\ state[l] = "auth"
  /\ Fail(l)
  /\ UNCHANGED <<agent, deviceId, attempts, pending, secretHash, shuttingDown>>

\* DeviceManager.close: the map is emptied and every link terminated.
Shutdown ==
  /\ ~shuttingDown
  /\ shuttingDown' = TRUE
  /\ state' = [l \in Links |-> IF state[l] = "unused" THEN "unused" ELSE "closed"]
  /\ dir' = EmptyDirectory
  /\ UNCHANGED <<agent, deviceId, attempts, pending, secretHash>>

Next ==
  \/ \E l \in Links, a \in Agents : LinkOpens(l, a)
  \/ \E l \in Links, limited \in BOOLEAN : DeviceAuth(l, limited)
  \/ \E l \in Links, limited, tokenOk \in BOOLEAN : DeviceRegister(l, limited, tokenOk)
  \/ \E l \in Links : Verified(l)
  \/ \E l \in Links : Registered(l)
  \/ \E l \in Links : Close(l)
  \/ \E l \in Links : AuthTimeout(l)
  \/ Shutdown

\* The authentication timer fires, and hashing ends.  Agents and networks owe
\* nothing.
Fairness ==
  /\ \A l \in Links : WF_vars(AuthTimeout(l))
  /\ \A l \in Links : WF_vars(Verified(l) \/ Registered(l))

Spec == Init /\ [][Next]_vars /\ Fairness

----------------------------------------------------------------------------
\* The three places that say a device is online agree, through any overlap of an
\* old link and a new one: the store has it online exactly when the manager has a
\* link for it, that link is the only one ready as the device, the store names the
\* same connection, and the device is enrolled.
OnlineIffLinked ==
  /\ \A d \in Devices :
       /\ dir.online[d] <=> dir.linksByDevice[d] \in Links
       /\ dir.connectionId[d] = dir.linksByDevice[d]
       /\ dir.online[d] => secretHash[d] # NoAgent
  /\ \A l \in Links, d \in Devices :
       dir.linksByDevice[d] = l <=> state[l] = "ready" /\ deviceId[l] = d

\* Links keep the promise of LinkPresence.
Presence == INSTANCE LinkPresence WITH
    holder <- dir.linksByDevice,
    gone   <- {l \in Links : state[l] = "closed"}

KeepsPresence == Presence!Spec

\* Every link is settled: it authenticates or it is closed.
LinkSettles == \A l \in Links : state[l] = "auth" ~> state[l] \in {"ready", "closed"}
=============================================================================
