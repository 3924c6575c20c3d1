-------------------------- MODULE AgentLinkProofs --------------------------
(***************************************************************************)
(* Both ends of a device agent's link.  At the relay (DeviceLink), the     *)
(* device directory is right for any number of devices, agents and links:  *)
(* where a device is said to be online agrees, and links keep the promise  *)
(* of LinkPresence.  At the agent (AgentClient), for any number of         *)
(* reconnects, there is one socket at a time and the agent agrees with the *)
(* relay whether the device is online, unless output met a closing socket. *)
(***************************************************************************)
EXTENDS DeviceLink, AgentClient, TLAPS

\* What the directory's invariant needs of the links themselves.
LinksInOrder ==
  \A l \in Links :
    /\ state[l] # "unused" => agent[l] \in Agents
    /\ pending[l] # "none" => state[l] \in {"auth", "closed"}
    /\ pending[l] = "accept" => secretHash[Device(l)] # NoAgent

IInv == TypeOK /\ LinksInOrder /\ OnlineIffLinked

\* Enrolled devices stay enrolled, whoever's secret they hold.
StillEnrolled == \A d \in Devices : secretHash[d] # NoAgent => secretHash'[d] # NoAgent

----------------------------------------------------------------------------
\* Closing link l turns directory g into h: it touches the devices that name the
\* link and no other.
Detached(g, l, h) ==
  /\ h \in Directory
  /\ \A d \in Devices :
       /\ h.online[d] <=> g.online[d] /\ g.connectionId[d] # l
       /\ h.connectionId[d] = IF g.connectionId[d] = l THEN NoLink
                              ELSE g.connectionId[d]
       /\ h.linksByDevice[d] = IF d = deviceId[l] /\ g.linksByDevice[d] = l
                               THEN NoLink ELSE g.linksByDevice[d]

LEMMA ClosedEffect ==
  ASSUME NEW g \in Directory, NEW l \in Links, NEW h, h = LinkClosed(g, l)
  PROVE  Detached(g, l, h)
<1>1. h = [online        |-> [d \in Devices |-> g.online[d] /\ g.connectionId[d] # l],
           connectionId  |-> [d \in Devices |-> IF g.connectionId[d] = l THEN NoLink
                                                ELSE g.connectionId[d]],
           linksByDevice |-> [d \in Devices |->
                                IF d = deviceId[l] /\ g.linksByDevice[d] = l THEN NoLink
                                ELSE g.linksByDevice[d]]]
  BY DEF LinkClosed, SetOffline
<1>2. h \in Directory
  BY <1>1 DEF Directory
<1>3. /\ h.online = [d \in Devices |-> g.online[d] /\ g.connectionId[d] # l]
      /\ h.connectionId = [d \in Devices |-> IF g.connectionId[d] = l THEN NoLink
                                              ELSE g.connectionId[d]]
      /\ h.linksByDevice = [d \in Devices |->
                               IF d = deviceId[l] /\ g.linksByDevice[d] = l THEN NoLink
                               ELSE g.linksByDevice[d]]
  BY <1>1
<1>4. \A d \in Devices : h.online[d] <=> g.online[d] /\ g.connectionId[d] # l
  BY <1>3, Zenon
<1>5. \A d \in Devices :
        h.connectionId[d] = IF g.connectionId[d] = l THEN NoLink ELSE g.connectionId[d]
  BY <1>3, Zenon
<1>6. \A d \in Devices :
        h.linksByDevice[d] = IF d = deviceId[l] /\ g.linksByDevice[d] = l THEN NoLink
                             ELSE g.linksByDevice[d]
  BY <1>3, Zenon
<1>7. QED BY <1>2, <1>4, <1>5, <1>6 DEF Detached

\* The link that closes, closes for its device only; the rest of the directory
\* stands.
LEMMA FailKeeps ==
  ASSUME IInv, NEW l \in Links, Fail(l), UNCHANGED deviceId, StillEnrolled
  PROVE  /\ dir' \in Directory /\ state' = [state EXCEPT ![l] = "closed"]
         /\ OnlineIffLinked'
         /\ dir'.linksByDevice = [d \in Devices |->
              IF dir.linksByDevice[d] = l THEN NoLink ELSE dir.linksByDevice[d]]
<1>1. /\ dir \in Directory /\ dir' = LinkClosed(dir, l)
      /\ state' = [state EXCEPT ![l] = "closed"]
  BY DEF IInv, TypeOK, Fail
<1>2. Detached(dir, l, dir')
  BY <1>1, ClosedEffect
<1>3. \A d \in Devices : dir.linksByDevice[d] = l => d = deviceId[l]
  BY DEF IInv, OnlineIffLinked
<1>4. \A d \in Devices :
        dir'.linksByDevice[d] = IF dir.linksByDevice[d] = l THEN NoLink
                                ELSE dir.linksByDevice[d]
  BY <1>2, <1>3 DEF Detached
<1>5. ASSUME NEW d \in Devices
      PROVE  /\ dir'.online[d] <=> dir'.linksByDevice[d] \in Links
             /\ dir'.connectionId[d] = dir'.linksByDevice[d]
             /\ dir'.online[d] => secretHash'[d] # NoAgent
  BY <1>2, <1>4, LinkAssumption DEF Detached, IInv, OnlineIffLinked, StillEnrolled
<1>6. ASSUME NEW k \in Links, NEW d \in Devices
      PROVE  dir'.linksByDevice[d] = k <=> state'[k] = "ready" /\ deviceId'[k] = d
  <2>1. CASE k = l
    BY <1>1, <1>4, <2>1, LinkAssumption DEF IInv, TypeOK
  <2>2. CASE k # l
    BY <1>1, <1>4, <2>2, LinkAssumption DEF IInv, TypeOK, OnlineIffLinked
  <2>3. QED BY <2>1, <2>2
<1>7. QED BY <1>1, <1>2, <1>4, <1>5, <1>6 DEF OnlineIffLinked, Detached, Directory

\* A link that authenticates takes over its device and no other.
LEMMA ReadyKeeps ==
  ASSUME IInv, NEW l \in Links, NEW d \in Devices, state[l] = "auth", Ready(l, d),
         StillEnrolled, secretHash'[d] # NoAgent
  PROVE  /\ dir' \in Directory
         /\ state' \in [Links -> {"unused", "auth", "ready", "closed"}]
         /\ deviceId' = [deviceId EXCEPT ![l] = d]
         /\ \A k \in Links : state'[k] = IF k = l THEN "ready"
                                ELSE IF k = dir.linksByDevice[d] THEN "closed" ELSE state[k]
         /\ OnlineIffLinked'
         /\ dir'.linksByDevice = [dir.linksByDevice EXCEPT ![d] = l]
         /\ \A e \in Devices : dir.linksByDevice[e] # l
<1> DEFINE previous == dir.linksByDevice[d]
<1>1. PICK online : online = SetOnline(dir, d, l)
  OBVIOUS
<1>2. /\ online \in Directory /\ dir \in Directory
      /\ online.online = [dir.online EXCEPT ![d] = TRUE]
      /\ online.connectionId = [dir.connectionId EXCEPT ![d] = l]
      /\ online.linksByDevice = dir.linksByDevice
  BY <1>1 DEF SetOnline, IInv, TypeOK, Directory
<1>3. PICK ousted : ousted = IF previous \in Links \ {l} THEN LinkClosed(online, previous)
                                                         ELSE online
  OBVIOUS
<1>4. /\ state' = [k \in Links |-> IF k = l THEN "ready"
                                   ELSE IF k = previous THEN "closed" ELSE state[k]]
      /\ deviceId' = [deviceId EXCEPT ![l] = d]
      /\ dir' = [ousted EXCEPT !.linksByDevice[d] = l]
  BY <1>1, <1>3 DEF Ready
<1>5. \A e \in Devices : dir.linksByDevice[e] # l
  BY DEF IInv, OnlineIffLinked
<1>6. \A e \in Devices \ {d} :
        previous \in Links => dir.linksByDevice[e] # previous /\ dir.connectionId[e] # previous
  BY DEF IInv, OnlineIffLinked
<1>7. /\ ousted \in Directory
      /\ ousted.online[d] = TRUE /\ ousted.connectionId[d] = l
      /\ \A e \in Devices \ {d} :
           /\ ousted.online[e] = dir.online[e]
           /\ ousted.connectionId[e] = dir.connectionId[e]
           /\ ousted.linksByDevice[e] = dir.linksByDevice[e]
  <2>1. CASE previous \in Links \ {l}
    <3>1. ousted = LinkClosed(online, previous)
      BY <1>3, <2>1
    <3>0. previous \in Links
      BY <2>1
    <3> HIDE DEF previous
    <3>2. Detached(online, previous, ousted)
      BY <1>2, <3>0, <3>1, ClosedEffect
    <3>3. online.connectionId[d] = l /\ online.online[d] = TRUE
      BY <1>2 DEF Directory
    <3>4. \A e \in Devices \ {d} : /\ online.connectionId[e] = dir.connectionId[e]
                                   /\ online.online[e] = dir.online[e]
                                   /\ online.connectionId[e] # previous
                                   /\ online.linksByDevice[e] # previous
      BY <1>2, <1>6, <2>1 DEF Directory
    <3>5. \A e \in Devices : ousted.online[e] \in BOOLEAN /\ online.online[e] \in BOOLEAN
      BY <1>2, <3>2 DEF Detached, Directory
    <3>6. QED BY ZenonT(60), <1>2, <2>1, <3>2, <3>3, <3>4, <3>5 DEF Detached
  <2>2. CASE previous \notin Links \ {l}
    BY <1>2, <1>3, <2>2 DEF Directory
  <2>3. QED BY <2>1, <2>2
<1>8. /\ dir' \in Directory
      /\ dir'.online = ousted.online /\ dir'.connectionId = ousted.connectionId
      /\ dir'.linksByDevice[d] = l
      /\ \A e \in Devices \ {d} : dir'.linksByDevice[e] = dir.linksByDevice[e]
  BY <1>4, <1>7 DEF Directory
<1>9. dir'.linksByDevice = [dir.linksByDevice EXCEPT ![d] = l]
  BY <1>2, <1>8 DEF Directory
<1>10. ASSUME NEW e \in Devices
       PROVE  /\ dir'.online[e] <=> dir'.linksByDevice[e] \in Links
              /\ dir'.connectionId[e] = dir'.linksByDevice[e]
              /\ dir'.online[e] => secretHash'[e] # NoAgent
  <2>1. CASE e = d
    BY <1>7, <1>8, <2>1
  <2>2. CASE e # d
    BY <1>7, <1>8, <2>2 DEF IInv, OnlineIffLinked, StillEnrolled
  <2>3. QED BY <2>1, <2>2
<1>11. ASSUME NEW k \in Links, NEW e \in Devices
       PROVE  dir'.linksByDevice[e] = k <=> state'[k] = "ready" /\ deviceId'[k] = e
  <2>1. dir.linksByDevice[e] = k <=> state[k] = "ready" /\ deviceId[k] = e
    BY DEF IInv, OnlineIffLinked
  <2>2. dir.linksByDevice[d] = k <=> state[k] = "ready" /\ deviceId[k] = d
    BY DEF IInv, OnlineIffLinked
  <2>3. deviceId'[k] = IF k = l THEN d ELSE deviceId[k]
    BY <1>4 DEF IInv, TypeOK
  <2>4. state'[k] = IF k = l THEN "ready" ELSE IF k = previous THEN "closed" ELSE state[k]
    BY <1>4
  <2>5. dir'.linksByDevice[e] = IF e = d THEN l ELSE dir.linksByDevice[e]
    BY <1>8
  <2>6. CASE k = l
    BY <2>3, <2>4, <2>5, <2>6, <1>5
  <2>7. CASE k # l
    BY <2>1, <2>2, <2>3, <2>4, <2>5, <2>7
  <2>8. QED BY <2>6, <2>7
<1>12. state' \in [Links -> {"unused", "auth", "ready", "closed"}]
  BY <1>4 DEF IInv, TypeOK
<1>13. QED
  BY <1>4, <1>5, <1>8, <1>9, <1>10, <1>11, <1>12 DEF OnlineIffLinked

----------------------------------------------------------------------------
States == {"unused", "auth", "ready", "closed"}

\* A step of LinkPresence, or none, as seen through the mapping.
PresenceStep == [Presence!Next]_(Presence!vars)

\* What an action may do to the links other than through its own link's field:
\* it never makes one new again, and it leaves alone those that await an answer.
SparesLinks(l) ==
  \A k \in Links : /\ state[k] # "unused" => state'[k] # "unused"
                   /\ state[k] = "unused" /\ k # l => state'[k] = "unused"
                   /\ k # l /\ state[k] \in {"auth", "closed"} => state'[k] = state[k]

\* Ending one live link is LinkPresence's Down of it.
LEMMA FailIsDown ==
  ASSUME IInv, NEW l \in Links, state[l] # "closed", Fail(l), UNCHANGED deviceId,
         StillEnrolled
  PROVE  PresenceStep
<1>1. /\ state' = [state EXCEPT ![l] = "closed"]
      /\ dir'.linksByDevice = [d \in Devices |->
           IF dir.linksByDevice[d] = l THEN NoLink ELSE dir.linksByDevice[d]]
  BY FailKeeps
<1>2. {k \in Links : state'[k] = "closed"} = {k \in Links : state[k] = "closed"} \cup {l}
  BY <1>1 DEF IInv, TypeOK
<1>3. Presence!Down({l})
  BY <1>1, <1>2 DEF Presence!Down
<1>4. QED BY <1>3 DEF PresenceStep, Presence!Next

\* Authenticating is LinkPresence's Up.
LEMMA ReadyIsUp ==
  ASSUME IInv, NEW l \in Links, NEW d \in Devices, state[l] = "auth", Ready(l, d),
         StillEnrolled, secretHash'[d] # NoAgent
  PROVE  PresenceStep
<1>1. /\ \A k \in Links : state'[k] = IF k = l THEN "ready"
                                ELSE IF k = dir.linksByDevice[d] THEN "closed" ELSE state[k]
      /\ dir'.linksByDevice = [dir.linksByDevice EXCEPT ![d] = l]
      /\ \A e \in Devices : dir.linksByDevice[e] # l
  BY ReadyKeeps
<1>2. dir.linksByDevice[d] \in Links \cup {NoLink}
  BY DEF IInv, TypeOK, Directory
<1>3. {k \in Links : state'[k] = "closed"}
        = {k \in Links : state[k] = "closed"} \cup ({dir.linksByDevice[d]} \ {NoLink})
  BY <1>1, <1>2, LinkAssumption
<1>4. Presence!Up(d, l)
  BY <1>1, <1>3 DEF Presence!Up
<1>5. QED BY <1>4 DEF PresenceStep, Presence!Next

\* When no link opens or closes as far as the directory can tell, nothing happens
\* to it.
LEMMA QuietStep ==
  ASSUME IInv, UNCHANGED <<deviceId, dir>>, StillEnrolled,
         \A k \in Links : \/ state'[k] = state[k]
                          \/ state[k] = "unused" /\ state'[k] = "auth"
  PROVE  OnlineIffLinked' /\ PresenceStep
<1>1. OnlineIffLinked'
  BY DEF IInv, OnlineIffLinked, StillEnrolled
<1>2. {k \in Links : state'[k] = "closed"} = {k \in Links : state[k] = "closed"}
  OBVIOUS
<1>3. QED BY <1>1, <1>2 DEF PresenceStep, Presence!vars

\* Ending a link, for whatever reason.
LEMMA FailStep ==
  ASSUME IInv, NEW l \in Links, state[l] \in {"auth", "ready"}, Fail(l),
         UNCHANGED deviceId, StillEnrolled
  PROVE  /\ state' \in [Links -> States] /\ dir' \in Directory
         /\ OnlineIffLinked' /\ PresenceStep /\ SparesLinks(l)
         /\ state'[l] = "closed"
<1>1. /\ dir' \in Directory /\ state' = [state EXCEPT ![l] = "closed"]
      /\ OnlineIffLinked'
  BY FailKeeps
<1>2. PresenceStep
  BY FailIsDown
<1>3. QED BY <1>1, <1>2 DEF SparesLinks, States, IInv, TypeOK

\* What follows an awaited call, whether the link is still there or not.
LEMMA SettleStep ==
  ASSUME IInv, NEW l \in Links, pending[l] # "none", NEW accepted \in BOOLEAN,
         Settle(l, accepted), StillEnrolled,
         accepted => secretHash'[Device(l)] # NoAgent
  PROVE  /\ state' \in [Links -> States] /\ dir' \in Directory
         /\ deviceId' \in [Links -> Devices \cup {NoDevice}]
         /\ OnlineIffLinked' /\ PresenceStep /\ SparesLinks(l)
<1>1. state[l] \in {"auth", "closed"} /\ Device(l) \in Devices
  BY LinkAssumption DEF IInv, LinksInOrder, Device
<1>2. CASE state[l] = "closed"
  <2>1. UNCHANGED <<state, deviceId, dir>>
    BY <1>2 DEF Settle
  <2>2. OnlineIffLinked' /\ PresenceStep
    BY <2>1, QuietStep
  <2>3. QED BY <2>1, <2>2 DEF SparesLinks, States, IInv, TypeOK
<1>3. CASE state[l] = "auth" /\ accepted
  <2>1. Ready(l, Device(l))
    BY <1>3 DEF Settle
  <2>2. PICK d \in Devices : d = Device(l)
    BY <1>1
  <2>3. Ready(l, d) /\ secretHash'[d] # NoAgent
    BY <1>3, <2>1, <2>2
  <2>4. /\ dir' \in Directory /\ state' \in [Links -> States]
        /\ deviceId' = [deviceId EXCEPT ![l] = d]
        /\ \A k \in Links : state'[k] = IF k = l THEN "ready"
                                ELSE IF k = dir.linksByDevice[d] THEN "closed" ELSE state[k]
        /\ OnlineIffLinked'
    BY <1>3, <2>3, ReadyKeeps DEF States
  <2>5. PresenceStep
    BY <1>3, <2>3, ReadyIsUp
  <2>6. \A k \in Links : k = dir.linksByDevice[d] => state[k] = "ready"
    BY DEF IInv, OnlineIffLinked
  <2>7. SparesLinks(l)
    BY <2>4, <2>6 DEF SparesLinks
  <2>8. deviceId' \in [Links -> Devices \cup {NoDevice}]
    BY <2>4 DEF IInv, TypeOK
  <2>9. QED BY <2>4, <2>5, <2>7, <2>8
<1>4. CASE state[l] = "auth" /\ ~accepted
  <2>1. Fail(l) /\ UNCHANGED deviceId
    BY <1>4 DEF Settle
  <2>2. /\ state' \in [Links -> States] /\ dir' \in Directory
        /\ OnlineIffLinked' /\ PresenceStep /\ SparesLinks(l)
    BY <1>4, <2>1, FailStep
  <2>3. QED BY <2>1, <2>2 DEF IInv, TypeOK
<1>5. QED BY <1>1, <1>2, <1>3, <1>4

----------------------------------------------------------------------------
\* The fields the awaits depend on, when an action of link l changes them for l
\* only.
LEMMA OrderKept ==
  ASSUME IInv, NEW l \in Links, SparesLinks(l), UNCHANGED agent, StillEnrolled,
         \A k \in Links \ {l} : pending'[k] = pending[k],
         state[l] # "unused",
         pending'[l] # "none" => state'[l] \in {"auth", "closed"},
         pending'[l] = "accept" => secretHash'[Device(l)] # NoAgent
  PROVE  LinksInOrder'
<1> SUFFICES ASSUME NEW k \in Links
             PROVE  /\ state'[k] # "unused" => agent'[k] \in Agents
                    /\ pending'[k] # "none" => state'[k] \in {"auth", "closed"}
                    /\ pending'[k] = "accept" => secretHash'[Device(k)'] # NoAgent
  BY DEF LinksInOrder
<1>1. Device(k)' = Device(k)
  BY DEF Device
<1>2. CASE k = l
  BY <1>1, <1>2 DEF IInv, LinksInOrder
<1>3. CASE k # l
  <2>1. state'[k] # "unused" => state[k] # "unused"
    BY <1>3 DEF SparesLinks
  <2>2. pending'[k] # "none" => state'[k] = state[k] /\ state[k] \in {"auth", "closed"}
    BY <1>3 DEF SparesLinks, IInv, LinksInOrder
  <2>3. pending[k] = "accept" => Device(k) \in Devices /\ secretHash[Device(k)] # NoAgent
    BY LinkAssumption DEF IInv, LinksInOrder, Device
  <2>4. QED BY <1>1, <1>3, <2>1, <2>2, <2>3 DEF IInv, LinksInOrder, StillEnrolled
<1>4. QED BY <1>2, <1>3

LEMMA ConnectStep ==
  ASSUME IInv, NEW l \in Links, NEW a \in Agents, LinkOpens(l, a)
  PROVE  IInv' /\ PresenceStep
<1>1. /\ state[l] = "unused" /\ state' = [state EXCEPT ![l] = "auth"]
      /\ agent' = [agent EXCEPT ![l] = a]
      /\ UNCHANGED <<deviceId, attempts, pending, secretHash, dir, shuttingDown>>
  BY DEF LinkOpens
<1>2. TypeOK'
  BY <1>1 DEF IInv, TypeOK
<1>3. OnlineIffLinked' /\ PresenceStep
  <2>1. \A k \in Links : \/ state'[k] = state[k]
                         \/ state[k] = "unused" /\ state'[k] = "auth"
    BY <1>1 DEF IInv, TypeOK
  <2>2. QED BY <1>1, <2>1, QuietStep DEF StillEnrolled
<1>4. LinksInOrder'
  <2> SUFFICES ASSUME NEW k \in Links
               PROVE  /\ state'[k] # "unused" => agent'[k] \in Agents
                      /\ pending'[k] # "none" => state'[k] \in {"auth", "closed"}
                      /\ pending'[k] = "accept" => secretHash'[Device(k)'] # NoAgent
    BY DEF LinksInOrder
  <2>1. CASE k = l
    BY <1>1, <2>1 DEF IInv, TypeOK, LinksInOrder
  <2>2. CASE k # l
    <3>1. state'[k] = state[k] /\ agent'[k] = agent[k]
      BY <1>1, <2>2 DEF IInv, TypeOK
    <3>2. Device(k)' = Device(k)
      BY <3>1 DEF Device
    <3>3. QED BY <1>1, <3>1, <3>2 DEF IInv, LinksInOrder
  <2>3. QED BY <2>1, <2>2
<1>5. QED BY <1>2, <1>3, <1>4 DEF IInv

\* A link that is failed, with nothing else changed.
LEMMA EndStep ==
  ASSUME IInv, NEW l \in Links, state[l] \in {"auth", "ready"}, Fail(l),
         UNCHANGED <<agent, deviceId, attempts, pending, secretHash, shuttingDown>>
  PROVE  IInv' /\ PresenceStep
<1>1. StillEnrolled
  BY DEF StillEnrolled
<1>2. /\ state' \in [Links -> States] /\ dir' \in Directory
      /\ OnlineIffLinked' /\ PresenceStep /\ SparesLinks(l)
      /\ state'[l] = "closed"
  BY <1>1, FailStep
<1>3. TypeOK'
  BY <1>2 DEF IInv, TypeOK, States
<1>4. LinksInOrder'
  <2>1. pending'[l] = "accept" => secretHash'[Device(l)] # NoAgent
    BY DEF IInv, LinksInOrder
  <2>2. QED BY <1>1, <1>2, <2>1, OrderKept
<1>5. QED BY <1>2, <1>3, <1>4 DEF IInv

\* A link that starts an awaited call, or answers without one.
LEMMA TryStep ==
  ASSUME IInv, NEW l \in Links, state[l] = "auth", attempts[l] < MaxAttempts,
         NEW p \in {"none", "register", "accept", "reject"},
         p = "accept" => secretHash[Device(l)] # NoAgent,
         attempts' = [attempts EXCEPT ![l] = @ + 1],
         pending' = [pending EXCEPT ![l] = p],
         UNCHANGED <<state, agent, deviceId, secretHash, dir, shuttingDown>>
  PROVE  IInv' /\ PresenceStep
<1>1. StillEnrolled
  BY DEF StillEnrolled
<1>2. attempts' \in [Links -> 0 .. MaxAttempts]
  BY LinkAssumption DEF IInv, TypeOK
<1>3. pending' \in [Links -> {"none", "register", "accept", "reject"}]
  BY DEF IInv, TypeOK
<1>4. TypeOK'
  BY <1>2, <1>3 DEF IInv, TypeOK
<1>5. OnlineIffLinked' /\ PresenceStep
  BY <1>1, QuietStep
<1>6. LinksInOrder'
  <2>1. SparesLinks(l)
    BY DEF SparesLinks
  <2>2. pending'[l] = p /\ \A k \in Links \ {l} : pending'[k] = pending[k]
    BY DEF IInv, TypeOK
  <2>3. QED BY <1>1, <2>1, <2>2, OrderKept
<1>7. QED BY <1>4, <1>5, <1>6 DEF IInv

LEMMA AuthStep ==
  ASSUME IInv, NEW l \in Links, NEW limited \in BOOLEAN, DeviceAuth(l, limited)
  PROVE  IInv' /\ PresenceStep
<1>1. /\ state[l] = "auth" /\ pending[l] = "none"
      /\ UNCHANGED <<agent, deviceId, secretHash, shuttingDown>>
  BY DEF DeviceAuth
<1>2. CASE MayTry(l, limited)
  <2>1. PICK p : p = CASE secretHash[Device(l)] = NoAgent  -> "none"
                       [] secretHash[Device(l)] = agent[l] -> "accept"
                       [] OTHER                            -> "reject"
    OBVIOUS
  <2>2. /\ attempts' = [attempts EXCEPT ![l] = @ + 1]
        /\ pending' = [pending EXCEPT ![l] = p]
        /\ UNCHANGED <<state, dir>>
    BY <1>2, <2>1 DEF DeviceAuth
  <2>3. /\ p \in {"none", "register", "accept", "reject"}
        /\ p = "accept" => secretHash[Device(l)] # NoAgent
    <3>1. agent[l] # NoAgent
      BY <1>1, LinkAssumption DEF IInv, LinksInOrder
    <3>2. CASE secretHash[Device(l)] = NoAgent
      <4>1. p = "none"
        BY <2>1, <3>1, <3>2
      <4>2. QED BY <4>1
    <3>3. CASE secretHash[Device(l)] # NoAgent
      <4>1. p = IF secretHash[Device(l)] = agent[l] THEN "accept" ELSE "reject"
        BY <2>1, <3>3
      <4>2. QED BY <3>3, <4>1
    <3>4. QED BY <3>2, <3>3
  <2>4. attempts[l] < MaxAttempts
    BY <1>2 DEF MayTry
  <2>5. QED BY <1>1, <2>2, <2>3, <2>4, TryStep
<1>3. CASE ~MayTry(l, limited)
  <2>1. Fail(l) /\ UNCHANGED <<attempts, pending>>
    BY <1>3 DEF DeviceAuth
  <2>2. QED BY <1>1, <2>1, EndStep
<1>4. QED BY <1>2, <1>3

LEMMA RegisterStep ==
  ASSUME IInv, NEW l \in Links, NEW limited \in BOOLEAN, NEW tokenOk \in BOOLEAN,
         DeviceRegister(l, limited, tokenOk)
  PROVE  IInv' /\ PresenceStep
<1> DEFINE may == MayTry(l, limited) /\ secretHash[Device(l)] = NoAgent /\ tokenOk
<1>1. /\ state[l] = "auth" /\ pending[l] = "none"
      /\ UNCHANGED <<agent, deviceId, secretHash, shuttingDown>>
  BY DEF DeviceRegister
<1>2. CASE may
  <2>1. /\ attempts' = [attempts EXCEPT ![l] = @ + 1]
        /\ pending' = [pending EXCEPT ![l] = "register"]
        /\ UNCHANGED <<state, dir>>
    BY <1>2 DEF DeviceRegister
  <2>2. attempts[l] < MaxAttempts
    BY <1>2 DEF MayTry
  <2>3. QED BY <1>1, <2>1, <2>2, TryStep
<1>3. CASE ~may
  <2>1. Fail(l) /\ UNCHANGED <<attempts, pending>>
    BY <1>3 DEF DeviceRegister
  <2>2. QED BY <1>1, <2>1, EndStep
<1>4. QED BY <1>2, <1>3

\* An awaited call ends: the secret is stored first, if there is one to store, and
\* the link follows.
LEMMA AnswerStep ==
  ASSUME IInv, NEW l \in Links, pending[l] # "none", NEW accepted \in BOOLEAN,
         pending' = [pending EXCEPT ![l] = "none"], Settle(l, accepted),
         accepted => secretHash'[Device(l)] # NoAgent, StillEnrolled,
         secretHash' \in [Devices -> Agents \cup {NoAgent}],
         UNCHANGED <<agent, attempts, shuttingDown>>
  PROVE  IInv' /\ PresenceStep
<1>1. /\ state' \in [Links -> States] /\ dir' \in Directory
      /\ deviceId' \in [Links -> Devices \cup {NoDevice}]
      /\ OnlineIffLinked' /\ PresenceStep /\ SparesLinks(l)
  BY SettleStep
<1>2. pending' \in [Links -> {"none", "register", "accept", "reject"}]
  BY DEF IInv, TypeOK
<1>3. TypeOK'
  BY <1>1, <1>2 DEF IInv, TypeOK, States
<1>4. LinksInOrder'
  <2>1. pending'[l] = "none" /\ \A k \in Links \ {l} : pending'[k] = pending[k]
    BY DEF IInv, TypeOK
  <2>2. state[l] # "unused"
    BY DEF IInv, LinksInOrder
  <2>3. QED BY <1>1, <2>1, <2>2, OrderKept
<1>5. QED BY <1>1, <1>3, <1>4 DEF IInv

LEMMA VerifiedStep ==
  ASSUME IInv, NEW l \in Links, Verified(l)
  PROVE  IInv' /\ PresenceStep
<1>1. PICK accepted \in BOOLEAN : accepted = (pending[l] = "accept")
  OBVIOUS
<1>2. /\ pending[l] # "none" /\ pending' = [pending EXCEPT ![l] = "none"]
      /\ UNCHANGED <<agent, attempts, secretHash, shuttingDown>>
  BY DEF Verified
<1>3. Settle(l, accepted)
  BY <1>1 DEF Verified
<1>4. accepted => secretHash'[Device(l)] # NoAgent
  BY <1>1, <1>2 DEF IInv, LinksInOrder
<1>5. StillEnrolled /\ secretHash' \in [Devices -> Agents \cup {NoAgent}]
  BY <1>2 DEF StillEnrolled, IInv, TypeOK
<1>6. QED BY <1>2, <1>3, <1>4, <1>5, AnswerStep

LEMMA RegisteredStep ==
  ASSUME IInv, NEW l \in Links, Registered(l)
  PROVE  IInv' /\ PresenceStep
<1>1. /\ pending[l] # "none" /\ pending' = [pending EXCEPT ![l] = "none"]
      /\ secretHash' = [secretHash EXCEPT ![Device(l)] = agent[l]]
      /\ Settle(l, TRUE)
      /\ UNCHANGED <<agent, attempts, shuttingDown>>
  BY DEF Registered
<1>2. agent[l] \in Agents /\ Device(l) \in Devices
  BY <1>1, LinkAssumption DEF IInv, LinksInOrder, Device
<1>3. /\ secretHash' \in [Devices -> Agents \cup {NoAgent}]
      /\ secretHash'[Device(l)] # NoAgent /\ StillEnrolled
  BY <1>1, <1>2, LinkAssumption DEF IInv, TypeOK, StillEnrolled
<1>4. QED BY <1>1, <1>3, AnswerStep

LEMMA ShutdownStep ==
  ASSUME IInv, Shutdown
  PROVE  IInv' /\ PresenceStep
<1>1. /\ state' = [l \in Links |-> IF state[l] = "unused" THEN "unused" ELSE "closed"]
      /\ dir' = EmptyDirectory /\ shuttingDown' = TRUE
      /\ UNCHANGED <<agent, deviceId, attempts, pending, secretHash>>
  BY DEF Shutdown
<1>2. /\ dir'.online = [d \in Devices |-> FALSE]
      /\ dir'.connectionId = [d \in Devices |-> NoLink]
      /\ dir'.linksByDevice = [d \in Devices |-> NoLink]
      /\ dir' \in Directory
  BY <1>1 DEF EmptyDirectory, Directory
<1>3. TypeOK'
  BY <1>1, <1>2 DEF IInv, TypeOK
<1>4. LinksInOrder'
  BY <1>1 DEF IInv, LinksInOrder, Device
<1>5. OnlineIffLinked'
  <2>1. ASSUME NEW d \in Devices
        PROVE  ~dir'.online[d] /\ dir'.connectionId[d] = NoLink
               /\ dir'.linksByDevice[d] = NoLink
    BY <1>2
  <2>2. \A l \in Links : state'[l] # "ready"
    BY <1>1
  <2>3. QED BY <2>1, <2>2, LinkAssumption DEF OnlineIffLinked
<1>6. PresenceStep
  <2> DEFINE live == {l \in Links : state[l] \in {"auth", "ready"}}
  <2>1. \A d \in Devices : dir.linksByDevice[d] \in live \cup {NoLink}
    <3>1. \A d \in Devices : dir.linksByDevice[d] \in Links \cup {NoLink}
      BY DEF IInv, TypeOK, Directory
    <3>2. \A d \in Devices, l \in Links : dir.linksByDevice[d] = l => state[l] = "ready"
      BY DEF IInv, OnlineIffLinked
    <3>3. QED BY <3>1, <3>2
  <2>2. {l \in Links : state'[l] = "closed"} = {l \in Links : state[l] = "closed"} \cup live
    BY <1>1 DEF IInv, TypeOK
  <2>3. dir'.linksByDevice = [d \in Devices |->
           IF dir.linksByDevice[d] \in live THEN NoLink ELSE dir.linksByDevice[d]]
    BY <1>2, <2>1
  <2>4. PICK ls \in SUBSET Links : ls = live
    OBVIOUS
  <2>5. Presence!Down(ls)
    BY <2>2, <2>3, <2>4 DEF Presence!Down
  <2>6. QED BY <2>5 DEF PresenceStep, Presence!Next
<1>7. QED BY <1>3, <1>4, <1>5, <1>6 DEF IInv

----------------------------------------------------------------------------
LEMMA InitOk == Init => IInv /\ Presence!Init
<1> SUFFICES ASSUME Init PROVE IInv /\ Presence!Init
  OBVIOUS
<1>1. /\ dir.online = [d \in Devices |-> FALSE]
      /\ dir.connectionId = [d \in Devices |-> NoLink]
      /\ dir.linksByDevice = [d \in Devices |-> NoLink]
      /\ dir \in Directory
  BY DEF Init, EmptyDirectory, Directory
<1>2. TypeOK
  <2>1. attempts \in [Links -> 0 .. MaxAttempts]
    BY LinkAssumption DEF Init
  <2>2. QED BY <1>1, <2>1 DEF Init, TypeOK
<1>3. LinksInOrder
  BY DEF Init, LinksInOrder
<1>4. OnlineIffLinked
  <2>1. ASSUME NEW d \in Devices
        PROVE  ~dir.online[d] /\ dir.connectionId[d] = NoLink
               /\ dir.linksByDevice[d] = NoLink
    BY <1>1
  <2>2. \A l \in Links : state[l] # "ready"
    BY DEF Init
  <2>3. QED BY <2>1, <2>2, LinkAssumption DEF OnlineIffLinked
<1>5. Presence!Init
  BY <1>1 DEF Init, Presence!Init
<1>6. QED BY <1>2, <1>3, <1>4, <1>5 DEF IInv

LEMMA NextStep == IInv /\ [Next]_vars => IInv' /\ PresenceStep
<1> SUFFICES ASSUME IInv, [Next]_vars PROVE IInv' /\ PresenceStep
  OBVIOUS
<1>1. ASSUME NEW l \in Links, NEW a \in Agents, LinkOpens(l, a)
      PROVE  IInv' /\ PresenceStep
  BY <1>1, ConnectStep
<1>2. ASSUME NEW l \in Links, NEW limited \in BOOLEAN, DeviceAuth(l, limited)
      PROVE  IInv' /\ PresenceStep
  BY <1>2, AuthStep
<1>3. ASSUME NEW l \in Links, NEW limited \in BOOLEAN, NEW tokenOk \in BOOLEAN,
             DeviceRegister(l, limited, tokenOk)
      PROVE  IInv' /\ PresenceStep
  BY <1>3, RegisterStep
<1>4. ASSUME NEW l \in Links, Verified(l)
      PROVE  IInv' /\ PresenceStep
  BY <1>4, VerifiedStep
<1>5. ASSUME NEW l \in Links, Registered(l)
      PROVE  IInv' /\ PresenceStep
  BY <1>5, RegisteredStep
<1>6. ASSUME NEW l \in Links, Close(l)
      PROVE  IInv' /\ PresenceStep
  BY <1>6, EndStep DEF Close
<1>7. ASSUME NEW l \in Links, AuthTimeout(l)
      PROVE  IInv' /\ PresenceStep
  BY <1>7, EndStep DEF AuthTimeout
<1>8. CASE Shutdown
  BY <1>8, ShutdownStep
<1>9. CASE UNCHANGED vars
  BY <1>9 DEF vars, IInv, TypeOK, LinksInOrder, OnlineIffLinked, Device, PresenceStep,
              Presence!vars
<1>10. QED
  BY <1>1, <1>2, <1>3, <1>4, <1>5, <1>6, <1>7, <1>8, <1>9 DEF Next

\* The invariant is inductive: it holds in every reachable state of the device
\* links (agent-link.ts, device-store.ts, device-manager.ts).
THEOREM Inductive == Spec => []IInv
<1>1. Init => IInv
  BY InitOk
<1>2. IInv /\ [Next]_vars => IInv'
  BY NextStep
<1>3. QED BY <1>1, <1>2, PTL DEF Spec

\* Links, the store and the manager's map hold values of their types, and no link
\* tries more often than maxAuthAttempts (agent-link.ts:155-173).
THEOREM TypeCorrect == Spec => []TypeOK
<1>1. IInv => TypeOK
  BY DEF IInv
<1>2. QED BY <1>1, Inductive, PTL

\* The store, the manager's map and the links agree on where each device is online
\* (device-store.ts:145-163, device-manager.ts:76-97), whatever overlaps.
THEOREM DirectoryAgrees == Spec => []OnlineIffLinked
<1>1. IInv => OnlineIffLinked
  BY DEF IInv
<1>2. QED BY <1>1, Inductive, PTL

\* Device links implement LinkPresence: authentication, throttling, enrolment and
\* shutdown come down to one holder per device, replaced or lost, and never back.
THEOREM ImplementsPresence == Spec => KeepsPresence
<1>1. Init => Presence!Init
  BY InitOk
<1>2. IInv /\ [Next]_vars => [Presence!Next]_(Presence!vars)
  BY NextStep DEF PresenceStep
<1>3. QED BY <1>1, <1>2, Inductive, PTL DEF Spec, KeepsPresence, Presence!Spec

----------------------------------------------------------------------------
\* The agent's end.


\* A reconnect is scheduled only when the last socket has ended.
ReconnectWaits ==
  Running /\ ~overlapped /\ ~stopRequested /\ timers.reconnect > 0 => LiveSocks = {}

\* A socket in use is in a stage of the handshake.
InStage == Running /\ ~overlapped /\ ws # NoSocket => stage # "closed"

\* After the relay's goodbye the client stays closed.
StopsForGood == stopRequested => Started /\ stage = "closed"

\* The relay has a link, and says something on it, only while its socket is there,
\* and says "ok" only on a link it accepted.
LinksOnSockets ==
  \A k \in Sockets :
    /\ sock[k] \in {"unused", "connecting"} => peer[k] = "none" /\ wire[k] = <<>>
    /\ peer[k] \in {"auth", "ready"} => sock[k] \in {"open", "closing"}
    /\ HasOk(k) => peer[k] \in {"ready", "closed"}

ClientIInv ==
  /\ ClientTypeOK
  /\ OneSocket /\ ReconnectWaits
  /\ InStage /\ StopsForGood /\ LinksOnSockets /\ ReadyTogether

----------------------------------------------------------------------------
\* What is read from a wire and what is said on it.

LEMMA ReadOne ==
  ASSUME NEW s \in Seq(Messages), s # <<>>
  PROVE  /\ Head(s) \in Messages /\ Tail(s) \in Seq(Messages)
         /\ \A i \in DOMAIN s : s[i] = Head(s) \/ \E j \in DOMAIN Tail(s) : Tail(s)[j] = s[i]
         /\ \A j \in DOMAIN Tail(s) : \E i \in DOMAIN s : s[i] = Tail(s)[j]
<1>1. Head(s) \in Messages /\ Tail(s) \in Seq(Messages) /\ Len(s) > 0
  OBVIOUS
<1>2. ASSUME NEW i \in DOMAIN s, i # 1
      PROVE  i - 1 \in DOMAIN Tail(s) /\ Tail(s)[i - 1] = s[i]
  BY <1>1, <1>2
<1>3. ASSUME NEW j \in DOMAIN Tail(s)
      PROVE  j + 1 \in DOMAIN s /\ s[j + 1] = Tail(s)[j]
  BY <1>1
<1>4. s[1] = Head(s)
  BY <1>1
<1>5. QED BY <1>1, <1>2, <1>3, <1>4

\* Sequence u holds what s and t hold, and nothing else.
Joins(u, s, t) ==
  /\ u \in Seq(Messages)
  /\ \A i \in DOMAIN s : \E j \in DOMAIN u : u[j] = s[i]
  /\ \A i \in DOMAIN t : \E j \in DOMAIN u : u[j] = t[i]
  /\ \A j \in DOMAIN u : \/ \E i \in DOMAIN s : u[j] = s[i]
                        \/ \E i \in DOMAIN t : u[j] = t[i]

LEMMA SayMore ==
  ASSUME NEW s \in Seq(Messages), NEW t \in Seq(Messages), NEW u, u = s \o t
  PROVE  Joins(u, s, t)
<1>1. u \in Seq(Messages) /\ Len(u) = Len(s) + Len(t)
  OBVIOUS
<1>2. \A i \in DOMAIN s : i \in DOMAIN u /\ u[i] = s[i]
  BY <1>1
<1>3. ASSUME NEW j \in DOMAIN u, j \notin DOMAIN s
      PROVE  j - Len(s) \in DOMAIN t /\ u[j] = t[j - Len(s)]
  BY <1>1, <1>3
<1>4. \A i \in DOMAIN t : Len(s) + i \in DOMAIN u /\ u[Len(s) + i] = t[i]
  BY <1>1
<1>5. QED BY <1>1, <1>2, <1>3, <1>4 DEF Joins

----------------------------------------------------------------------------
\* A new socket, when the last one has ended.
LEMMA ClientConnectStep ==
  ASSUME ClientIInv, NEW k \in Sockets, Running, Connect(k), ~stopRequested,
         ~overlapped => LiveSocks = {},
         UNCHANGED <<stopRequested, ended, terminals, overlapped, relay>>
  PROVE  ClientIInv'
<1>1. ClientTypeOK'
  BY DEF ClientIInv, ClientTypeOK, Connect, relay
<1>2. OneSocket'
  BY DEF ClientIInv, ClientTypeOK, OneSocket, Connect, LiveSocks, Running, relay
<1>3. ReconnectWaits'
  BY DEF ClientIInv, ClientTypeOK, ReconnectWaits, Connect
<1>4. InStage' /\ StopsForGood'
  BY DEF InStage, StopsForGood, Connect
<1>5. LinksOnSockets'
  BY DEF ClientIInv, ClientTypeOK, LinksOnSockets, HasOk, Connect, relay
<1>6. ReadyTogether'
  BY DEF ClientIInv, ClientTypeOK, LinksOnSockets, ReadyTogether, HasOk, Connect, relay
<1>7. QED BY <1>1, <1>2, <1>3, <1>4, <1>5, <1>6 DEF ClientIInv

LEMMA StartStep ==
  ASSUME ClientIInv, NEW k \in Sockets, Start(k)
  PROVE  ClientIInv'
<1>1. ~stopRequested /\ LiveSocks = {}
  BY DEF ClientIInv, StopsForGood, Start, Started, LiveSocks
<1>2. QED BY <1>1, ClientConnectStep DEF Start

LEMMA ReconnectStep ==
  ASSUME ClientIInv, NEW k \in Sockets, Reconnect(k)
  PROVE  ClientIInv'
<1>1. CASE stopRequested
  <2>1. /\ timers' = [timers EXCEPT !.reconnect = 0]
        /\ UNCHANGED <<ws, sock, stage, stopRequested, ended, terminals, overlapped, relay>>
    BY <1>1 DEF Reconnect
  <2>2. ClientTypeOK'
    <3>1. timers' \in [auth : BOOLEAN, idle : BOOLEAN, reconnect : 0 .. 1]
      BY <2>1, 0 \in 0 .. 1 DEF ClientIInv, ClientTypeOK
    <3>2. QED BY <2>1, <3>1 DEF ClientIInv, ClientTypeOK, relay
  <2>3. QED
    BY <1>1, <2>1, <2>2 DEF ClientIInv, OneSocket, ReconnectWaits, InStage, StopsForGood,
                            Started, LinksOnSockets, ReadyTogether, HasOk, LiveSocks,
                            Running, relay
<1>2. CASE ~stopRequested
  <2>1. ~overlapped => LiveSocks = {}
    BY <1>2 DEF ClientIInv, ReconnectWaits, Reconnect
  <2>2. QED BY <1>2, <2>1, ClientConnectStep DEF Reconnect
<1>3. QED BY <1>1, <1>2

LEMMA OpenStep ==
  ASSUME ClientIInv, NEW k \in Sockets, SocketOpen(k)
  PROVE  ClientIInv'
<1>1. ClientTypeOK'
  BY DEF ClientIInv, ClientTypeOK, SocketOpen, Sent
<1>2. LiveSocks' = LiveSocks
  BY DEF ClientIInv, ClientTypeOK, SocketOpen, LiveSocks
<1>3. OneSocket' /\ ReconnectWaits' /\ InStage' /\ StopsForGood'
  BY <1>2 DEF ClientIInv, ClientTypeOK, OneSocket, ReconnectWaits, InStage, StopsForGood,
              Started, SocketOpen, Running
<1>4. LinksOnSockets'
  BY DEF ClientIInv, ClientTypeOK, LinksOnSockets, HasOk, SocketOpen
<1>5. ReadyTogether'
  BY DEF ClientIInv, ClientTypeOK, ReadyTogether, HasOk, SocketOpen, Running
<1>6. QED BY <1>1, <1>3, <1>4, <1>5 DEF ClientIInv

LEMMA TimersSet ==
  ASSUME ClientIInv, NEW ts \in [auth : BOOLEAN, idle : BOOLEAN, reconnect : 0 .. 1]
  PROVE  /\ Scheduled(ts) \in [auth : BOOLEAN, idle : BOOLEAN, reconnect : 0 .. 1]
         /\ stopRequested => Scheduled(ts) = ts
  BY DEF Scheduled

\* The last socket ends: a reconnect is scheduled.
LEMMA ClosedStep ==
  ASSUME ClientIInv, NEW k \in Sockets, SocketClosed(k)
  PROVE  ClientIInv'
<1>1. ClientTypeOK'
  <2>1. [timers EXCEPT !.auth = FALSE, !.idle = FALSE]
          \in [auth : BOOLEAN, idle : BOOLEAN, reconnect : 0 .. 1]
    BY DEF ClientIInv, ClientTypeOK
  <2>2. timers' \in [auth : BOOLEAN, idle : BOOLEAN, reconnect : 0 .. 1]
    BY <2>1, TimersSet DEF ClientIInv, ClientTypeOK, SocketClosed, Dropped
  <2>3. QED BY <2>2 DEF ClientIInv, ClientTypeOK, SocketClosed
<1>2. LiveSocks' = LiveSocks \ {k}
  BY DEF ClientIInv, ClientTypeOK, SocketClosed, LiveSocks
<1>3. OneSocket'
  BY <1>2 DEF ClientIInv, OneSocket, SocketClosed, Running
<1>4. ReconnectWaits'
  <2>1. ~overlapped => LiveSocks' = {}
    BY <1>2 DEF ClientIInv, OneSocket, SocketClosed
  <2>2. QED BY <2>1 DEF ReconnectWaits, SocketClosed
<1>5. InStage' /\ StopsForGood'
  BY DEF ClientIInv, ClientTypeOK, InStage, StopsForGood, Started, SocketClosed
<1>6. LinksOnSockets'
  BY DEF ClientIInv, ClientTypeOK, LinksOnSockets, HasOk, SocketClosed
<1>7. ReadyTogether'
  BY SocketAssumption DEF ReadyTogether, SocketClosed
<1>8. QED BY <1>1, <1>3, <1>4, <1>5, <1>6, <1>7 DEF ClientIInv

\* A socket is closed from either side, and timers are set or cleared, while the agent
\* stays in its stage.
LEMMA ClosingStep ==
  ASSUME ClientIInv, Running, NEW k \in Sockets \cup {NoSocket},
         \/ UNCHANGED sock
         \/ /\ k \in Sockets /\ sock[k] \in {"connecting", "open"}
            /\ sock' = [sock EXCEPT ![k] = "closing"],
         timers' \in [auth : BOOLEAN, idle : BOOLEAN, reconnect : {timers.reconnect}],
         terminals' \in BOOLEAN,
         UNCHANGED <<ws, stage, stopRequested, ended, overlapped, relay>>
  PROVE  ClientIInv'
<1>1. ClientTypeOK'
  BY DEF ClientIInv, ClientTypeOK, relay
<1>2. LiveSocks' = LiveSocks
  BY DEF ClientIInv, ClientTypeOK, LiveSocks
<1>3. OneSocket' /\ ReconnectWaits' /\ InStage' /\ StopsForGood'
  BY <1>2 DEF ClientIInv, ClientTypeOK, OneSocket, ReconnectWaits, InStage, StopsForGood,
              Started, Running
<1>4. LinksOnSockets'
  BY DEF ClientIInv, ClientTypeOK, LinksOnSockets, HasOk, relay
<1>5. ReadyTogether'
  BY DEF ClientIInv, ClientTypeOK, ReadyTogether, HasOk, Running, relay
<1>6. QED BY <1>1, <1>3, <1>4, <1>5 DEF ClientIInv

LEMMA ForcedCloses ==
  ASSUME ClientIInv
  PROVE  \/ Forced = sock
         \/ /\ ws \in Sockets /\ sock[ws] \in {"connecting", "open"}
            /\ Forced = [sock EXCEPT ![ws] = "closing"]
<1>1. CASE ws \in Sockets /\ sock[ws] \in {"connecting", "open"}
  BY <1>1 DEF Forced, ClientIInv, ClientTypeOK
<1>2. CASE ~(ws \in Sockets /\ sock[ws] \in {"connecting", "open"})
  BY <1>2 DEF Forced, ClientIInv, ClientTypeOK
<1>3. QED BY <1>1, <1>2

LEMMA TimeoutStep ==
  ASSUME ClientIInv, HandshakeTimeout \/ IdleTimeout
  PROVE  ClientIInv'
<1>1. timers' \in [auth : BOOLEAN, idle : BOOLEAN, reconnect : {timers.reconnect}]
  BY DEF ClientIInv, ClientTypeOK, HandshakeTimeout, IdleTimeout
<1>2. sock' = sock \/ sock' = Forced
  BY DEF HandshakeTimeout, IdleTimeout
<1>3. /\ Running /\ terminals' \in BOOLEAN
      /\ UNCHANGED <<ws, stage, stopRequested, ended, overlapped, relay>>
  BY DEF ClientIInv, ClientTypeOK, HandshakeTimeout, IdleTimeout
<1>4. CASE sock' = sock
  BY <1>1, <1>3, <1>4, ClosingStep
<1>5. CASE sock' = Forced
  BY <1>1, <1>3, <1>5, ForcedCloses, ClosingStep DEF ClientIInv, ClientTypeOK
<1>6. QED BY <1>2, <1>4, <1>5

\* Output meets a socket that is not open.
LEMMA SendFailsStep ==
  ASSUME ClientIInv, SendFails
  PROVE  ClientIInv'
<1>1. ClientTypeOK'
  <2>1. timers' \in [auth : BOOLEAN, idle : BOOLEAN, reconnect : 0 .. 1]
    BY TimersSet DEF ClientIInv, ClientTypeOK, SendFails
  <2>2. overlapped' \in BOOLEAN
    BY DEF SendFails
  <2>3. QED BY <2>1, <2>2 DEF ClientIInv, ClientTypeOK, SendFails, relay
<1>2. OneSocket' /\ InStage' /\ StopsForGood'
  BY DEF ClientIInv, ClientTypeOK, OneSocket, InStage, StopsForGood, Started, LiveSocks,
         Running, SendFails
<1>3. ReconnectWaits'
  <2>1. ASSUME Running, ~overlapped, ~stopRequested, ws = NoSocket PROVE LiveSocks = {}
    BY <2>1, SocketAssumption DEF ClientIInv, OneSocket, LiveSocks
  <2>2. UNCHANGED <<LiveSocks, stopRequested>> /\ (overlapped' <=> overlapped \/ ws # NoSocket)
    BY DEF SendFails, LiveSocks
  <2>3. QED BY <2>1, <2>2 DEF ReconnectWaits, SendFails
<1>4. LinksOnSockets'
  BY DEF ClientIInv, LinksOnSockets, HasOk, SendFails, relay
<1>5. ReadyTogether'
  BY SocketAssumption DEF ClientIInv, ClientTypeOK, ReadyTogether, SendFails
<1>6. QED BY <1>1, <1>2, <1>3, <1>4, <1>5 DEF ClientIInv

LEMMA ClientEndStep ==
  ASSUME ClientIInv, Stop \/ Drain
  PROVE  ClientIInv'
<1>1. /\ ended' \in {"stopped", "drained"}
      /\ UNCHANGED <<ws, sock, stage, timers, stopRequested, terminals, overlapped, relay>>
  BY DEF Stop, Drain
<1>2. ClientTypeOK' /\ LinksOnSockets'
  BY <1>1 DEF ClientIInv, ClientTypeOK, LinksOnSockets, HasOk, relay
<1>3. ~Running'
  BY <1>1 DEF Running
<1>4. StopsForGood'
  BY <1>1 DEF ClientIInv, StopsForGood, Started
<1>5. QED
  BY <1>2, <1>3, <1>4 DEF ClientIInv, OneSocket, ReconnectWaits, InStage, ReadyTogether

----------------------------------------------------------------------------
\* The relay's steps leave the agent alone.
LEMMA RelayKeeps ==
  ASSUME ClientIInv, NEW k \in Sockets, UNCHANGED client,
         LinksOnSockets', ReadyTogether',
         /\ peer' \in [Sockets -> {"none", "auth", "ready", "closed"}]
         /\ owed' \in [Sockets -> Nat]
         /\ wire' \in [Sockets -> Seq(Messages)]
  PROVE  ClientIInv'
<1>1. ClientTypeOK'
  BY DEF ClientIInv, ClientTypeOK, client
<1>2. OneSocket' /\ ReconnectWaits' /\ InStage' /\ StopsForGood'
  BY DEF ClientIInv, OneSocket, ReconnectWaits, InStage, StopsForGood, Started, LiveSocks,
         Running, client
<1>3. QED BY <1>1, <1>2 DEF ClientIInv

\* What is said is on the wire, and all that was.
LEMMA SaysEffect ==
  ASSUME ClientIInv, NEW k \in Sockets, Linked(k), NEW msgs \in Seq(Messages), Says(k, msgs)
  PROVE  /\ wire' \in [Sockets -> Seq(Messages)]
         /\ \A j \in Sockets \ {k} : wire'[j] = wire[j]
         /\ HasOk(k)' <=> HasOk(k) \/ \E i \in DOMAIN msgs : msgs[i] = "ok"
<1>1. wire' = [wire EXCEPT ![k] = @ \o msgs]
  BY DEF ClientIInv, LinksOnSockets, Linked, Says
<1>2. wire[k] \in Seq(Messages) /\ wire'[k] = wire[k] \o msgs
  BY <1>1 DEF ClientIInv, ClientTypeOK
<1>3. Joins(wire'[k], wire[k], msgs)
  <2> DEFINE s == wire[k]
             u == wire'[k]
  <2>1. s \in Seq(Messages) /\ u = s \o msgs
    BY <1>2
  <2> HIDE DEF s, u
  <2>2. Joins(u, s, msgs)
    BY <2>1, SayMore
  <2>3. QED BY <2>2 DEF s, u
<1>4. wire' \in [Sockets -> Seq(Messages)] /\ \A j \in Sockets \ {k} : wire'[j] = wire[j]
  BY <1>1, <1>2, <1>3 DEF ClientIInv, ClientTypeOK, Joins
<1>5. HasOk(k)' => HasOk(k) \/ \E i \in DOMAIN msgs : msgs[i] = "ok"
  <2> SUFFICES ASSUME HasOk(k)' PROVE HasOk(k) \/ \E i \in DOMAIN msgs : msgs[i] = "ok"
    OBVIOUS
  <2>1. PICK j \in DOMAIN wire'[k] : wire'[k][j] = "ok"
    BY DEF HasOk
  <2>2. QED BY <1>3, <2>1 DEF HasOk, Joins
<1>6. HasOk(k) => HasOk(k)'
  <2> SUFFICES ASSUME HasOk(k) PROVE HasOk(k)'
    OBVIOUS
  <2>1. PICK i \in DOMAIN wire[k] : wire[k][i] = "ok"
    BY DEF HasOk
  <2>2. PICK j \in DOMAIN wire'[k] : wire'[k][j] = wire[k][i]
    BY <1>3 DEF Joins
  <2>3. QED BY <2>1, <2>2 DEF HasOk
<1>7. (\E i \in DOMAIN msgs : msgs[i] = "ok") => HasOk(k)'
  <2> SUFFICES ASSUME NEW i \in DOMAIN msgs, msgs[i] = "ok" PROVE HasOk(k)'
    OBVIOUS
  <2>1. PICK j \in DOMAIN wire'[k] : wire'[k][j] = msgs[i]
    BY <1>3 DEF Joins
  <2>2. QED BY <2>1 DEF HasOk
<1>8. QED BY <1>4, <1>5, <1>6, <1>7

\* What a step of the relay has to keep of what it says and does on one link.
LEMMA ClientAnswerStep ==
  ASSUME ClientIInv, NEW k \in Sockets, Linked(k), UNCHANGED client,
         NEW msgs \in Seq(Messages), Says(k, msgs),
         NEW p \in {"auth", "ready", "closed"}, peer' = [peer EXCEPT ![k] = p],
         owed' \in [Sockets -> Nat],
         p = "auth" => peer[k] = "auth",
         (\E i \in DOMAIN msgs : msgs[i] = "ok") => p = "ready",
         p = "ready" => peer[k] = "ready" \/ \E i \in DOMAIN msgs : msgs[i] = "ok"
  PROVE  ClientIInv'
<1>1. /\ wire' \in [Sockets -> Seq(Messages)]
      /\ \A j \in Sockets \ {k} : wire'[j] = wire[j]
      /\ HasOk(k)' <=> HasOk(k) \/ \E i \in DOMAIN msgs : msgs[i] = "ok"
  BY SaysEffect
<1>2. /\ peer' \in [Sockets -> {"none", "auth", "ready", "closed"}]
      /\ peer'[k] = p /\ \A j \in Sockets \ {k} : peer'[j] = peer[j]
  BY DEF ClientIInv, ClientTypeOK
<1>3. peer[k] \in {"auth", "ready"} /\ sock[k] \in {"open", "closing"}
  BY DEF ClientIInv, LinksOnSockets, Linked
<1>4. LinksOnSockets'
  <2>1. ASSUME NEW j \in Sockets \ {k}
        PROVE  /\ sock'[j] = sock[j] /\ peer'[j] = peer[j] /\ wire'[j] = wire[j]
               /\ HasOk(j)' <=> HasOk(j)
    BY <1>1, <1>2 DEF client, HasOk
  <2>2. /\ sock'[k] \in {"open", "closing"}
        /\ HasOk(k)' => peer'[k] \in {"ready", "closed"}
    BY <1>1, <1>2, <1>3 DEF client, ClientIInv, LinksOnSockets
  <2>3. QED BY <2>1, <2>2 DEF ClientIInv, LinksOnSockets
<1>5. ReadyTogether'
  <2>1. ASSUME NEW j \in Sockets \ {k}
        PROVE  peer'[j] = peer[j] /\ (HasOk(j)' <=> HasOk(j))
    BY <1>1, <1>2 DEF HasOk
  <2>2. ASSUME Running, ~overlapped, ws = k
        PROVE  /\ stage = "ready" => p \in {"ready", "closed"}
               /\ p = "ready" => stage = "ready" \/ HasOk(k)'
    BY <1>1, <2>2 DEF ClientIInv, ReadyTogether
  <2>3. UNCHANGED <<Running, overlapped, ws, stage, sock>>
    BY DEF client, Running
  <2>4. QED BY <1>2, <2>1, <2>2, <2>3 DEF ClientIInv, ReadyTogether
<1>6. QED BY <1>1, <1>2, <1>4, <1>5, RelayKeeps

LEMMA RelayStep ==
  ASSUME ClientIInv, NEW k \in Sockets,
         RelayAnswers(k) \/ RelayWorks(k) \/ RelayEnds(k) \/ RelayLoses(k)
  PROVE  ClientIInv'
<1> DEFINE Said(msgs, p) ==
      /\ Linked(k) /\ UNCHANGED client /\ Says(k, msgs)
      /\ peer' = [peer EXCEPT ![k] = p]
      /\ owed' \in [Sockets -> Nat]
<1>1. CASE RelayAnswers(k)
  <2>1. /\ Linked(k) /\ UNCHANGED client
        /\ \/ peer' = [peer EXCEPT ![k] = "ready"] /\ Says(k, <<"ok">>)
           \/ peer[k] = "auth" /\ Says(k, <<"notEnrolled">>) /\ UNCHANGED peer
           \/ peer' = [peer EXCEPT ![k] = "closed"] /\ Says(k, <<"err", "goodbye">>)
    BY <1>1 DEF RelayAnswers
  <2>2. owed' \in [Sockets -> Nat]
    BY <1>1 DEF RelayAnswers, ClientIInv, ClientTypeOK
  <2>3. CASE Said(<<"ok">>, "ready")
    <3>1. <<"ok">> \in Seq(Messages) /\ \E i \in DOMAIN <<"ok">> : <<"ok">>[i] = "ok"
      BY DEF Messages
    <3>2. QED BY <2>3, <3>1, ClientAnswerStep
  <2>4. CASE Said(<<"notEnrolled">>, "auth") /\ peer[k] = "auth"
    <3>1. <<"notEnrolled">> \in Seq(Messages)
          /\ \A i \in DOMAIN <<"notEnrolled">> : <<"notEnrolled">>[i] # "ok"
      BY DEF Messages
    <3>2. QED BY <2>4, <3>1, ClientAnswerStep
  <2>5. CASE Said(<<"err", "goodbye">>, "closed")
    <3>1. <<"err", "goodbye">> \in Seq(Messages)
          /\ \A i \in DOMAIN <<"err", "goodbye">> : <<"err", "goodbye">>[i] # "ok"
      BY DEF Messages
    <3>2. QED BY <2>5, <3>1, ClientAnswerStep
  <2>6. UNCHANGED peer /\ peer[k] = "auth" => peer' = [peer EXCEPT ![k] = "auth"]
    BY DEF ClientIInv, ClientTypeOK
  <2>7. QED BY <2>1, <2>2, <2>3, <2>4, <2>5, <2>6
<1>2. CASE RelayWorks(k)
  <2>1. <<"work">> \in Seq(Messages) /\ \A i \in DOMAIN <<"work">> : <<"work">>[i] # "ok"
    BY DEF Messages
  <2>2. Said(<<"work">>, "ready") /\ peer[k] = "ready"
    BY <1>2 DEF RelayWorks, ClientIInv, ClientTypeOK
  <2>3. QED BY <2>1, <2>2, ClientAnswerStep
<1>3. CASE RelayEnds(k)
  <2>1. <<"goodbye">> \in Seq(Messages) /\ \A i \in DOMAIN <<"goodbye">> : <<"goodbye">>[i] # "ok"
    BY DEF Messages
  <2>2. Said(<<"goodbye">>, "closed")
    BY <1>3 DEF RelayEnds, ClientIInv, ClientTypeOK
  <2>3. QED BY <2>1, <2>2, ClientAnswerStep
<1>4. CASE RelayLoses(k)
  <2>0. /\ \A j \in Sockets : HasOk(j)' <=> HasOk(j)
        /\ peer[k] \in {"auth", "ready"}
        /\ peer' = [peer EXCEPT ![k] = "closed"]
        /\ UNCHANGED <<sock, wire, ws, stage, ended, overlapped>>
    BY <1>4 DEF RelayLoses, Linked, HasOk, client
  <2>1. LinksOnSockets' /\ ReadyTogether'
    BY <2>0 DEF ClientIInv, ClientTypeOK, LinksOnSockets, ReadyTogether, Running
  <2>2. /\ peer' \in [Sockets -> {"none", "auth", "ready", "closed"}]
        /\ UNCHANGED <<client, owed, wire>>
    BY <1>4 DEF RelayLoses, ClientIInv, ClientTypeOK
  <2>3. QED BY <2>1, <2>2, RelayKeeps DEF ClientIInv, ClientTypeOK
<1>5. QED BY <1>1, <1>2, <1>3, <1>4

----------------------------------------------------------------------------
\* A message is read from one socket.

\* What is left to read of wire k when its first message has been read.
Read(k) ==
  /\ wire[k] # <<>> /\ wire' = [wire EXCEPT ![k] = Tail(@)]
  /\ UNCHANGED peer

\* Meanwhile sockets are left alone or closed from this side.
OnlyCloses ==
  \A j \in Sockets :
    \/ sock'[j] = sock[j]
    \/ sock[j] \in {"connecting", "open"} /\ sock'[j] = "closing"

LEMMA ReadEffect ==
  ASSUME ClientIInv, NEW k \in Sockets, Read(k), sock[k] \in {"open", "closing"}, OnlyCloses
  PROVE  /\ wire' \in [Sockets -> Seq(Messages)]
         /\ \A j \in Sockets : HasOk(j)' => HasOk(j)
         /\ \A j \in Sockets : HasOk(j) => HasOk(j)' \/ (j = k /\ Head(wire[k]) = "ok")
         /\ Head(wire[k]) = "ok" => HasOk(k)
         /\ LinksOnSockets'
<1>1. /\ wire[k] \in Seq(Messages) /\ wire'[k] = Tail(wire[k])
      /\ \A j \in Sockets \ {k} : wire'[j] = wire[j]
  BY DEF ClientIInv, ClientTypeOK, Read
<1>2. /\ Tail(wire[k]) \in Seq(Messages)
      /\ \A i \in DOMAIN wire[k] : \/ wire[k][i] = Head(wire[k])
                                   \/ \E j \in DOMAIN wire'[k] : wire'[k][j] = wire[k][i]
      /\ \A j \in DOMAIN wire'[k] : \E i \in DOMAIN wire[k] : wire[k][i] = wire'[k][j]
      /\ 1 \in DOMAIN wire[k] /\ wire[k][1] = Head(wire[k])
  <2>1. wire[k] # <<>>
    BY DEF Read
  <2>2. 1 \in DOMAIN wire[k] /\ wire[k][1] = Head(wire[k])
    BY <1>1, <2>1
  <2>3. QED BY <1>1, <2>1, <2>2, ReadOne
<1>3. wire' \in [Sockets -> Seq(Messages)]
  BY <1>2 DEF ClientIInv, ClientTypeOK, Read
<1>4. \A j \in Sockets \ {k} : HasOk(j)' <=> HasOk(j)
  BY <1>1 DEF HasOk
<1>5. HasOk(k)' => HasOk(k)
  <2> SUFFICES ASSUME HasOk(k)' PROVE HasOk(k)
    OBVIOUS
  <2>1. PICK j \in DOMAIN wire'[k] : wire'[k][j] = "ok"
    BY DEF HasOk
  <2>2. QED BY <1>2, <2>1 DEF HasOk
<1>6. HasOk(k) => HasOk(k)' \/ Head(wire[k]) = "ok"
  <2> SUFFICES ASSUME HasOk(k), Head(wire[k]) # "ok" PROVE HasOk(k)'
    OBVIOUS
  <2>1. PICK i \in DOMAIN wire[k] : wire[k][i] = "ok"
    BY DEF HasOk
  <2>2. PICK j \in DOMAIN wire'[k] : wire'[k][j] = "ok"
    BY <1>2, <2>1
  <2>3. QED BY <2>2 DEF HasOk
<1>7. Head(wire[k]) = "ok" => HasOk(k)
  BY <1>2 DEF HasOk
<1>8. LinksOnSockets'
  BY <1>1, <1>4, <1>5 DEF ClientIInv, LinksOnSockets, Read, OnlyCloses
<1>9. QED BY <1>3, <1>4, <1>5, <1>6, <1>7, <1>8

\* A socket the agent reads from is the one in use, or it was told to stop.
LEMMA ReadsCurrent ==
  ASSUME ClientIInv, NEW k \in Sockets, sock[k] \in {"open", "closing"}, Running, ~overlapped
  PROVE  ws = k \/ (ws = NoSocket /\ stage = "closed")
<1>1. k \in LiveSocks
  BY DEF LiveSocks
<1>2. ws # NoSocket => ws = k
  BY <1>1 DEF ClientIInv, OneSocket
<1>3. ws = NoSocket => stage = "closed"
  BY <1>1, SocketAssumption DEF ClientIInv, OneSocket, StopsForGood, LiveSocks
<1>4. QED BY <1>2, <1>3

LEMMA AcceptedStep ==
  ASSUME ClientIInv, NEW k \in Sockets, Running, Read(k), sock[k] \in {"open", "closing"},
         Head(wire[k]) = "ok", Accepted, UNCHANGED overlapped
  PROVE  ClientIInv'
<1>1. UNCHANGED <<ws, sock, stopRequested, ended, terminals, owed>>
  BY DEF Accepted
<1>2. /\ timers' \in [auth : BOOLEAN, idle : BOOLEAN, reconnect : 0 .. 1]
      /\ timers'.reconnect = timers.reconnect
  BY DEF ClientIInv, ClientTypeOK, Accepted
<1>3. stage' = IF stage \in {"auth", "register"} THEN "ready" ELSE stage
  BY DEF Accepted
<1>4. /\ wire' \in [Sockets -> Seq(Messages)]
      /\ \A j \in Sockets : HasOk(j) => HasOk(j)' \/ j = k
      /\ HasOk(k) /\ LinksOnSockets'
  <2>1. OnlyCloses
    BY <1>1 DEF OnlyCloses
  <2>2. QED BY <2>1, ReadEffect
<1>5. ClientTypeOK'
  BY <1>1, <1>2, <1>3, <1>4 DEF ClientIInv, ClientTypeOK, Read
<1>6. OneSocket' /\ ReconnectWaits' /\ InStage' /\ StopsForGood'
  BY <1>1, <1>2, <1>3 DEF ClientIInv, ClientTypeOK, OneSocket, ReconnectWaits, InStage,
                          StopsForGood, Started, LiveSocks, Running
<1>7. ReadyTogether'
  <2>1. ASSUME NEW j \in Sockets, Running, ~overlapped, ws = j, j # k
        PROVE  FALSE
    BY <2>1, ReadsCurrent, SocketAssumption
  <2>2. ASSUME ~overlapped, ws = k
        PROVE  /\ peer[k] \in {"ready", "closed"} /\ sock[k] # "connecting"
               /\ stage' = "ready"
    BY <1>3, <1>4, <2>2, SocketAssumption DEF ClientIInv, ClientTypeOK, LinksOnSockets,
                                              InStage
  <2>3. QED BY <1>1, <2>1, <2>2 DEF ReadyTogether, Running, Read
<1>8. QED BY <1>4, <1>5, <1>6, <1>7 DEF ClientIInv

LEMMA RefusedStep ==
  ASSUME ClientIInv, NEW k \in Sockets, Running, Read(k), sock[k] \in {"open", "closing"},
         Head(wire[k]) \in {"notEnrolled", "err"}, Refused(Head(wire[k])), UNCHANGED overlapped
  PROVE  ClientIInv'
<1>1. /\ UNCHANGED <<ws, sock, stopRequested, terminals>>
      /\ timers' \in [auth : BOOLEAN, idle : BOOLEAN, reconnect : 0 .. 1]
      /\ timers'.reconnect = timers.reconnect
  BY DEF ClientIInv, ClientTypeOK, Refused
<1>2. /\ owed' \in [Sockets -> Nat]
      /\ ended' \in {ended, "fatal"}
      /\ stage' = stage \/ (stage = "auth" /\ stage' = "register")
  BY DEF ClientIInv, ClientTypeOK, Refused, Sent
<1>3. /\ wire' \in [Sockets -> Seq(Messages)]
      /\ \A j \in Sockets : HasOk(j) => HasOk(j)'
      /\ LinksOnSockets'
  <2>1. OnlyCloses
    BY <1>1 DEF OnlyCloses
  <2>2. QED BY <2>1, ReadEffect
<1>4. ClientTypeOK'
  BY <1>1, <1>2, <1>3 DEF ClientIInv, ClientTypeOK, Read
<1>5. OneSocket' /\ ReconnectWaits' /\ InStage' /\ StopsForGood'
  BY <1>1, <1>2 DEF ClientIInv, ClientTypeOK, OneSocket, ReconnectWaits, InStage,
                    StopsForGood, Started, LiveSocks, Running
<1>6. ReadyTogether'
  BY <1>1, <1>2, <1>3 DEF ClientIInv, ClientTypeOK, ReadyTogether, Running, Read
<1>7. QED BY <1>3, <1>4, <1>5, <1>6 DEF ClientIInv

LEMMA DismissedStep ==
  ASSUME ClientIInv, NEW k \in Sockets, Running, Read(k), sock[k] \in {"open", "closing"},
         Dismissed, UNCHANGED overlapped
  PROVE  ClientIInv'
<1>1. OnlyCloses
  <2>1. sock' = Forced
    BY DEF Dismissed
  <2>2. QED BY <2>1 DEF Forced, OnlyCloses
<1>2. sock' \in [Sockets -> {"unused", "connecting", "open", "closing", "closed"}]
  BY DEF Dismissed, Forced, ClientIInv, ClientTypeOK
<1>3. LinksOnSockets' /\ wire' \in [Sockets -> Seq(Messages)]
  BY <1>1, ReadEffect
<1>4. /\ timers' \in [auth : BOOLEAN, idle : BOOLEAN, reconnect : 0 .. 1]
      /\ ws' = NoSocket /\ stage' = "closed" /\ stopRequested' = TRUE
      /\ UNCHANGED <<ended, terminals, owed>>
  BY DEF Dismissed, ClientIInv, ClientTypeOK
<1>5. ClientTypeOK'
  BY <1>2, <1>3, <1>4 DEF ClientIInv, ClientTypeOK, Read
<1>6. LiveSocks' = LiveSocks /\ Started'
  BY <1>1 DEF LiveSocks, Started, OnlyCloses
<1>7. OneSocket' /\ ReconnectWaits' /\ InStage' /\ StopsForGood'
  BY <1>4, <1>6 DEF ClientIInv, OneSocket, ReconnectWaits, InStage, StopsForGood, Running
<1>8. ReadyTogether'
  BY <1>4, SocketAssumption DEF ReadyTogether
<1>9. QED BY <1>3, <1>5, <1>7, <1>8 DEF ClientIInv

LEMMA WorkedStep ==
  ASSUME ClientIInv, NEW k \in Sockets, Running, Read(k), sock[k] \in {"open", "closing"},
         Head(wire[k]) = "work", Worked, UNCHANGED overlapped
  PROVE  ClientIInv'
<1>1. /\ UNCHANGED <<ws, sock, stage, stopRequested, ended, owed>>
      /\ terminals' \in BOOLEAN
      /\ timers' \in [auth : BOOLEAN, idle : BOOLEAN, reconnect : 0 .. 1]
      /\ timers'.reconnect = timers.reconnect
  BY DEF ClientIInv, ClientTypeOK, Worked
<1>2. /\ wire' \in [Sockets -> Seq(Messages)]
      /\ \A j \in Sockets : HasOk(j) => HasOk(j)'
      /\ LinksOnSockets'
  <2>1. OnlyCloses
    BY <1>1 DEF OnlyCloses
  <2>2. QED BY <2>1, ReadEffect
<1>3. ClientTypeOK'
  BY <1>1, <1>2 DEF ClientIInv, ClientTypeOK, Read
<1>4. OneSocket' /\ ReconnectWaits' /\ InStage' /\ StopsForGood'
  BY <1>1 DEF ClientIInv, OneSocket, ReconnectWaits, InStage, StopsForGood, Started,
              LiveSocks, Running
<1>5. ReadyTogether'
  BY <1>1, <1>2 DEF ClientIInv, ReadyTogether, Running, Read
<1>6. QED BY <1>2, <1>3, <1>4, <1>5 DEF ClientIInv

LEMMA ReceiveStep ==
  ASSUME ClientIInv, NEW k \in Sockets, Receive(k)
  PROVE  ClientIInv'
<1>1. Running /\ Read(k) /\ sock[k] \in {"open", "closing"} /\ UNCHANGED overlapped
  BY DEF Receive, Read
<1>2. Head(wire[k]) \in Messages
  BY <1>1, ReadOne DEF ClientIInv, ClientTypeOK, Read
<1>3. CASE Head(wire[k]) = "ok"
  BY <1>1, <1>3, AcceptedStep DEF Receive
<1>4. CASE Head(wire[k]) = "goodbye"
  BY <1>1, <1>4, DismissedStep DEF Receive
<1>5. CASE Head(wire[k]) = "work"
  BY <1>1, <1>5, WorkedStep DEF Receive
<1>6. CASE Head(wire[k]) \in {"notEnrolled", "err"}
  BY <1>1, <1>6, RefusedStep DEF Receive
<1>7. QED BY <1>2, <1>3, <1>4, <1>5, <1>6 DEF Messages

----------------------------------------------------------------------------
LEMMA ClientInitOk == ClientInit => ClientIInv
<1> SUFFICES ASSUME ClientInit PROVE ClientIInv
  OBVIOUS
<1>1. ClientTypeOK
  <2>1. /\ timers \in [auth : BOOLEAN, idle : BOOLEAN, reconnect : 0 .. 1]
        /\ stopRequested \in BOOLEAN /\ terminals \in BOOLEAN /\ overlapped \in BOOLEAN
    BY 0 \in 0 .. 1 DEF ClientInit
  <2>2. wire \in [Sockets -> Seq(Messages)] /\ owed \in [Sockets -> Nat]
    BY DEF ClientInit
  <2>3. QED BY <2>1, <2>2 DEF ClientInit, ClientTypeOK
<1>2. OneSocket /\ ReconnectWaits /\ InStage /\ StopsForGood
  BY DEF ClientInit, OneSocket, ReconnectWaits, InStage, StopsForGood, LiveSocks
<1>3. LinksOnSockets /\ ReadyTogether
  BY SocketAssumption DEF ClientInit, LinksOnSockets, ReadyTogether, HasOk
<1>4. QED BY <1>1, <1>2, <1>3 DEF ClientIInv

LEMMA ClientNextStep == ClientIInv /\ [ClientNext]_clientVars => ClientIInv'
<1> SUFFICES ASSUME ClientIInv, [ClientNext]_clientVars PROVE ClientIInv'
  OBVIOUS
<1>1. ASSUME NEW k \in Sockets, Start(k) \/ Reconnect(k)
      PROVE  ClientIInv'
  BY <1>1, StartStep, ReconnectStep
<1>2. ASSUME NEW k \in Sockets, SocketOpen(k) \/ SocketClosed(k) \/ Receive(k)
      PROVE  ClientIInv'
  BY <1>2, OpenStep, ClosedStep, ReceiveStep
<1>3. ASSUME NEW k \in Sockets, SocketCloses(k)
      PROVE  ClientIInv'
  <2>1. /\ Running /\ sock[k] \in {"connecting", "open"} /\ sock' = [sock EXCEPT ![k] = "closing"]
        /\ UNCHANGED <<ws, stage, timers, terminals, stopRequested, ended, overlapped, relay>>
    BY <1>3 DEF SocketCloses
  <2>2. /\ timers' \in [auth : BOOLEAN, idle : BOOLEAN, reconnect : {timers.reconnect}]
        /\ terminals' \in BOOLEAN
    BY <2>1 DEF ClientIInv, ClientTypeOK
  <2>3. QED BY <2>1, <2>2, ClosingStep
<1>4. CASE HandshakeTimeout \/ IdleTimeout
  BY <1>4, TimeoutStep
<1>5. CASE SendFails
  BY <1>5, SendFailsStep
<1>6. CASE TerminalExit
  <2>1. /\ Running /\ terminals' \in BOOLEAN
        /\ UNCHANGED <<ws, sock, stage, timers, stopRequested, ended, overlapped, relay>>
    BY <1>6 DEF TerminalExit
  <2>2. timers' \in [auth : BOOLEAN, idle : BOOLEAN, reconnect : {timers.reconnect}]
    BY <2>1 DEF ClientIInv, ClientTypeOK
  <2>3. QED BY <2>1, <2>2, ClosingStep
<1>7. CASE Stop \/ Drain
  BY <1>7, ClientEndStep
<1>8. ASSUME NEW k \in Sockets,
             RelayAnswers(k) \/ RelayWorks(k) \/ RelayEnds(k) \/ RelayLoses(k)
      PROVE  ClientIInv'
  BY <1>8, RelayStep
<1>9. CASE UNCHANGED clientVars
  BY <1>9 DEF clientVars, client, relay, ClientIInv, ClientTypeOK, OneSocket,
              ReconnectWaits, InStage, StopsForGood, Started, LinksOnSockets,
              ReadyTogether, HasOk, LiveSocks, Running
<1>10. QED
  BY <1>1, <1>2, <1>3, <1>4, <1>5, <1>6, <1>7, <1>8, <1>9 DEF ClientNext

\* The invariant is inductive: it holds in every reachable state of the agent's
\* relay client (relay-client.ts), however often it reconnects.
THEOREM ClientInductive == ClientSpec => []ClientIInv
<1>1. ClientInit => ClientIInv
  BY ClientInitOk
<1>2. ClientIInv /\ [ClientNext]_clientVars => ClientIInv'
  BY ClientNextStep
<1>3. QED BY <1>1, <1>2, PTL DEF ClientSpec

\* The client's fields hold values of their types, and no more than one reconnect
\* is scheduled at a time (relay-client.ts:188-205).
THEOREM ClientTypeCorrect == ClientSpec => []ClientTypeOK
<1>1. ClientIInv => ClientTypeOK
  BY DEF ClientIInv
<1>2. QED BY <1>1, ClientInductive, PTL

\* The agent has one socket at a time, and knows it, unless output met a socket that
\* was closing (relay-client.ts:111-186).
THEOREM SocketsInTurn == ClientSpec => []OneSocket
<1>1. ClientIInv => OneSocket
  BY DEF ClientIInv
<1>2. QED BY <1>1, ClientInductive, PTL

\* Agent and relay agree that the device is online, up to what is on the wire
\* (relay-client.ts:245-303, agent-link.ts:145-234).
THEOREM ReadyAgrees == ClientSpec => []ReadyTogether
<1>1. ClientIInv => ReadyTogether
  BY DEF ClientIInv
<1>2. QED BY <1>1, ClientInductive, PTL
=============================================================================
