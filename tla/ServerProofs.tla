---------------------------- MODULE ServerProofs ----------------------------
(***************************************************************************)
(* Proofs that the server's types hold, that sessions, terminals and       *)
(* connections match, that nothing is served after shutdown, that the      *)
(* protocol state only moves forward, and that the limiter bounds what any *)
(* interval sees, for any connections, addresses, sessions and limits.     *)
(***************************************************************************)
EXTENDS Server, TLAPS

\* What the fields of one connection have to do with each other.
Stage(k) ==
  /\ k.sock = "unused" <=> k.proto = "connecting"
  /\ k.sock = "unused" => ~k.verifying /\ ~k.authenticated
  /\ k.timer => LiveIn(k) /\ ~k.authenticated
  /\ k.proto = "authenticating" => ~k.authenticated
  /\ k.verifying => ~k.authenticated

CoreTypes ==
  /\ conn \in [Conns -> Connection]
  /\ registry \in Registry
  /\ term \subseteq Conns
  /\ server \in {"up", "stopping", "down", "crashed"}

\* The part of the inductive invariant about connections, sessions and terminals.
Core ==
  /\ CoreTypes
  /\ \A c \in Conns : Stage(conn[c])
  /\ SessionsMatch
  /\ ShutdownIsFinal

\* What a window that started at start, with count attempts, says of the times s at which
\* attempts began: those that are not among its count are no later than its start, and
\* those that are not among the limit before these a whole window earlier.
Windowed(s, start, count, limit, now) ==
  /\ start <= now /\ count <= limit
  /\ \A k \in 1..Len(s) : s[k] <= now
  /\ \A k \in 1..Len(s) : k + count <= Len(s) => s[k] <= start
  /\ \A k \in 1..Len(s) : k + count + limit <= Len(s) => s[k] + Window <= start
  /\ Spread(s, limit)

\* The record of an address, or one that would be made now.
View(ip) == IF ip \in DOMAIN limiter.ips THEN limiter.ips[ip] ELSE [start |-> clock, count |-> 0]

GaugeTypes == IsLimiter(limiter) /\ clock \in Nat /\ begun \in Begun

\* The part of the inductive invariant about the limiter.
Gauged ==
  /\ GaugeTypes
  /\ GlobalLimit > 0 => Windowed(begun.all, limiter.start, limiter.count, GlobalLimit, clock)
  /\ PerIpLimit > 0 => \A ip \in Ips :
       Windowed(begun.by[ip], View(ip).start, View(ip).count, PerIpLimit, clock)

IInv == Core /\ Gauged

-----------------------------------------------------------------------------
(* Windows                                                                 *)

\* A window that has elapsed may be renewed.
LEMMA Renews ==
  ASSUME NEW s \in Seq(Nat), NEW start \in Nat, NEW count \in Nat, NEW limit \in Nat,
         NEW now \in Nat, Windowed(s, start, count, limit, now), Elapsed(start, now)
  PROVE  Windowed(s, now, 0, limit, now)
<1>1. Window \in Nat
  BY LimiterAssumption
<1>2. Len(s) \in Nat /\ \A k \in 1..Len(s) : s[k] \in Nat
  OBVIOUS
<1>3. ASSUME NEW k \in 1..Len(s), k + 0 + limit <= Len(s)  PROVE s[k] + Window <= now
  <2>1. k + count <= Len(s)
    BY <1>2, <1>3 DEF Windowed
  <2>2. s[k] <= start
    BY <2>1 DEF Windowed
  <2> QED
    BY <2>2, <1>1, <1>2 DEF Elapsed
<1> QED
  BY <1>2, <1>3 DEF Windowed

\* An attempt in a window with room, which may begin a verification, keeps it.
LEMMA Counts ==
  ASSUME NEW s \in Seq(Nat), NEW start \in Nat, NEW count \in Nat, NEW limit \in Nat,
         NEW now \in Nat, Windowed(s, start, count, limit, now), count < limit
  PROVE  /\ Windowed(s, start, count + 1, limit, now)
         /\ Windowed(Append(s, now), start, count + 1, limit, now)
<1>1. Window \in Nat
  BY LimiterAssumption
<1>2. Len(s) \in Nat /\ \A k \in 1..Len(s) : s[k] \in Nat
  OBVIOUS
<1>3. Windowed(s, start, count + 1, limit, now)
  BY <1>2 DEF Windowed
<1> DEFINE t == Append(s, now)
<1>4. /\ Len(t) = Len(s) + 1
      /\ t[Len(s) + 1] = now
      /\ \A k \in 1..Len(s) : t[k] = s[k]
  OBVIOUS
<1> HIDE DEF t
<1>5. \A k \in 1..Len(t) : t[k] <= now
  BY <1>2, <1>4 DEF Windowed
<1>6. ASSUME NEW k \in 1..Len(t), k + (count + 1) <= Len(t)  PROVE t[k] <= start
  <2>1. k \in 1..Len(s) /\ k + count <= Len(s)
    BY <1>2, <1>4, <1>6
  <2> QED
    BY <2>1, <1>4 DEF Windowed
<1>7. ASSUME NEW k \in 1..Len(t), k + (count + 1) + limit <= Len(t)
      PROVE  t[k] + Window <= start
  <2>1. k \in 1..Len(s) /\ k + count + limit <= Len(s)
    BY <1>2, <1>4, <1>7
  <2> QED
    BY <2>1, <1>4 DEF Windowed
<1>8. ASSUME NEW i \in 1..Len(t), NEW j \in 1..Len(t), j >= i + 2 * limit
      PROVE  t[j] >= t[i] + Window
  <2>1. i \in 1..Len(s)
    BY <1>2, <1>4, <1>8
  <2>2. CASE j \in 1..Len(s)
    BY <2>1, <2>2, <1>8, <1>4 DEF Windowed, Spread
  <2>3. CASE j = Len(s) + 1
    <3>1. i + count + limit <= Len(s)
      BY <2>3, <1>8, <1>2
    <3>2. s[i] + Window <= start
      BY <3>1, <2>1 DEF Windowed
    <3> QED
      BY <3>2, <2>1, <2>3, <1>1, <1>2, <1>4 DEF Windowed
  <2> QED
    BY <2>2, <2>3, <1>2, <1>4
<1>9. Windowed(t, start, count + 1, limit, now)
  BY <1>5, <1>6, <1>7, <1>8 DEF Windowed, Spread
<1> QED
  BY <1>3, <1>9 DEF t

\* Time passes.
LEMMA Passes ==
  ASSUME NEW s \in Seq(Nat), NEW start \in Nat, NEW count \in Nat, NEW limit \in Nat,
         NEW now \in Nat, Windowed(s, start, count, limit, now)
  PROVE  Windowed(s, start, count, limit, now + 1)
<1>2. Len(s) \in Nat /\ \A k \in 1..Len(s) : s[k] \in Nat
  OBVIOUS
<1> QED
  BY <1>2 DEF Windowed

\* Where there is no record, time moves the start of the one that would be made.
LEMMA PassesFresh ==
  ASSUME NEW s \in Seq(Nat), NEW limit \in Nat, NEW now \in Nat,
         Windowed(s, now, 0, limit, now)
  PROVE  Windowed(s, now + 1, 0, limit, now + 1)
<1>1. Window \in Nat
  BY LimiterAssumption
<1>2. Len(s) \in Nat /\ \A k \in 1..Len(s) : s[k] \in Nat
  OBVIOUS
<1>3. ASSUME NEW k \in 1..Len(s)  PROVE s[k] <= now
  BY DEF Windowed
<1>4. ASSUME NEW k \in 1..Len(s), k + 0 + limit <= Len(s)  PROVE s[k] + Window <= now + 1
  <2>1. s[k] + Window <= now
    BY <1>4 DEF Windowed
  <2> QED
    BY <2>1, <1>1, <1>2
<1>5. Spread(s, limit)
  BY DEF Windowed
<1>6. \A k \in 1..Len(s) : s[k] <= now + 1
  BY <1>2, <1>3
<1> QED
  BY <1>4, <1>5, <1>6 DEF Windowed

-----------------------------------------------------------------------------
(* The limiter                                                             *)

LEMMA RenewedEffect ==
  ASSUME NEW lim, IsLimiter(lim), NEW now \in Nat
  PROVE  LET g == Renewed(lim, now)
         IN  /\ g = [start |-> g.start, count |-> g.count, ips |-> lim.ips]
             /\ \/ GlobalLimit > 0 /\ Elapsed(lim.start, now) /\ g.start = now /\ g.count = 0
                \/ g.start = lim.start /\ g.count = lim.count
<1>1. lim = [start |-> lim.start, count |-> lim.count, ips |-> lim.ips]
  BY DEF IsLimiter
<1> DEFINE a == lim.start
           b == lim.count
           d == lim.ips
<1>2. lim = [start |-> a, count |-> b, ips |-> d]
  BY <1>1
<1> HIDE DEF a, b, d
<1>3. CASE GlobalLimit > 0 /\ Elapsed(lim.start, now)
  <2>1. Renewed(lim, now) = [start |-> now, count |-> 0, ips |-> d]
    BY <1>2, <1>3 DEF Renewed
  <2> QED
    BY <2>1, <1>3, <1>2 DEF d
<1>4. CASE ~(GlobalLimit > 0 /\ Elapsed(lim.start, now))
  BY <1>1, <1>4 DEF Renewed
<1> QED
  BY <1>3, <1>4

LEMMA RecordEffect ==
  ASSUME NEW lim, IsLimiter(lim), NEW now \in Nat, NEW ip
  PROVE  /\ IpRecord(lim, ip, now) \in Count
         /\ ~Elapsed(IpRecord(lim, ip, now).start, now)
<1>1. Window \in Nat \ {0}
  BY LimiterAssumption
<1>2. CASE ip \in DOMAIN lim.ips /\ ~Elapsed(lim.ips[ip].start, now)
  BY <1>2 DEF IpRecord, IsLimiter
<1>3. CASE ~(ip \in DOMAIN lim.ips /\ ~Elapsed(lim.ips[ip].start, now))
  <2>1. IpRecord(lim, ip, now) = [start |-> now, count |-> 0]
    BY <1>3 DEF IpRecord
  <2> QED
    BY <2>1, <1>1 DEF Count, Elapsed
<1> QED
  BY <1>2, <1>3

LEMMA PutEffect ==
  ASSUME NEW ips, NEW ip, NEW rec
  PROVE  /\ DOMAIN Put(ips, ip, rec) = DOMAIN ips \cup {ip}
         /\ Put(ips, ip, rec)[ip] = rec
         /\ \A i \in DOMAIN ips : i # ip => Put(ips, ip, rec)[i] = ips[i]
         /\ Put(ips, ip, rec) = [i \in DOMAIN Put(ips, ip, rec) |-> Put(ips, ip, rec)[i]]
BY DEF Put

LEMMA CleanedEffect ==
  ASSUME NEW ips, ips = [i \in DOMAIN ips |-> ips[i]], NEW now
  PROVE  /\ DOMAIN Cleaned(ips, now) \subseteq DOMAIN ips
         /\ \A i \in DOMAIN Cleaned(ips, now) : Cleaned(ips, now)[i] = ips[i]
         /\ \A i \in DOMAIN ips \ DOMAIN Cleaned(ips, now) : Elapsed(ips[i].start, now)
         /\ Cleaned(ips, now) = [i \in DOMAIN Cleaned(ips, now) |-> Cleaned(ips, now)[i]]
BY DEF Cleaned

LEMMA TriedEffect ==
  ASSUME NEW lim, IsLimiter(lim), NEW now \in Nat, NEW ip
  PROVE  LET g   == Renewed(lim, now)
             rec == IpRecord(lim, ip, now)
             t   == Tried(lim, ip, now)
         IN  /\ t = [start |-> t.start, count |-> t.count, ips |-> t.ips]
             /\ t.start = g.start
             /\ \/ GlobalFull(lim, now) /\ t.count = g.count /\ t.ips = lim.ips
                \/ /\ ~GlobalFull(lim, now) /\ IpFull(lim, ip, now)
                   /\ t.count = g.count /\ t.ips = Put(lim.ips, ip, rec)
                \/ /\ Acquires(lim, ip, now)
                   /\ t.count = g.count + 1
                   /\ t.ips = Cleaned(IF Limited(ip)
                                      THEN Put(lim.ips, ip, [rec EXCEPT !.count = @ + 1])
                                      ELSE lim.ips, now)
<1> DEFINE g   == Renewed(lim, now)
           rec == IpRecord(lim, ip, now)
           a   == g.start
           b   == g.count
           d   == lim.ips
<1>1. g = [start |-> a, count |-> b, ips |-> d]
  BY RenewedEffect
<1> HIDE DEF a, b, d
<1>2. CASE GlobalFull(lim, now)
  <2>1. Tried(lim, ip, now) = g
    BY <1>2 DEF Tried
  <2> QED
    BY <2>1, <1>1, <1>2 DEF a, b, d
<1>3. CASE ~GlobalFull(lim, now) /\ IpFull(lim, ip, now)
  <2>1. Tried(lim, ip, now) = [g EXCEPT !.ips = Put(@, ip, rec)]
    BY <1>3 DEF Tried
  <2>2. Tried(lim, ip, now) = [start |-> a, count |-> b, ips |-> Put(d, ip, rec)]
    BY <2>1, <1>1
  <2> QED
    BY <2>2, <1>3, <1>1 DEF a, b, d
<1>4. CASE Acquires(lim, ip, now)
  <2> DEFINE new == IF Limited(ip) THEN Put(d, ip, [rec EXCEPT !.count = @ + 1]) ELSE d
  <2>1. Tried(lim, ip, now) =
          [g EXCEPT !.count = @ + 1,
                    !.ips = Cleaned(IF Limited(ip) THEN Put(@, ip, [rec EXCEPT !.count = @ + 1])
                                    ELSE @, now)]
    BY <1>4 DEF Tried, Acquires
  <2> DEFINE more == [rec EXCEPT !.count = @ + 1]
  <2> HIDE DEF more
  <2>3. Tried(lim, ip, now) =
          [g EXCEPT !.count = @ + 1,
                    !.ips = Cleaned(IF Limited(ip) THEN Put(@, ip, more) ELSE @, now)]
    BY <2>1 DEF more
  <2> HIDE DEF g
  <2>4. g.count = b /\ g.ips = d
    BY <1>1
  <2>5. Tried(lim, ip, now) =
          [g EXCEPT !.count = b + 1,
                    !.ips = Cleaned(IF Limited(ip) THEN Put(d, ip, more) ELSE d, now)]
    BY <2>3, <2>4
  <2>6. Tried(lim, ip, now) =
          [start |-> a, count |-> b + 1,
           ips |-> Cleaned(IF Limited(ip) THEN Put(d, ip, more) ELSE d, now)]
    BY <2>5, <1>1
  <2>2. Tried(lim, ip, now) = [start |-> a, count |-> b + 1, ips |-> Cleaned(new, now)]
    BY <2>6 DEF more
  <2> USE DEF g
  <2> QED
    BY <2>2, <1>4, <1>1 DEF a, b, d
<1> QED
  BY <1>2, <1>3, <1>4 DEF Acquires

\* What becomes of the record of an address.
LEMMA TriedRecords ==
  ASSUME NEW lim, IsLimiter(lim), NEW now \in Nat, NEW ip \in Ips \cup {NoIp}
  PROVE  LET rec == IpRecord(lim, ip, now)
             new == [start |-> rec.start, count |-> rec.count + 1]
             t   == Tried(lim, ip, now)
         IN  /\ IsLimiter(t)
             /\ \A i \in DOMAIN t.ips : i # ip => i \in DOMAIN lim.ips /\ t.ips[i] = lim.ips[i]
             /\ \A i \in DOMAIN lim.ips \ DOMAIN t.ips : i # ip => Elapsed(lim.ips[i].start, now)
             /\ Limited(ip) =>
                  \/ GlobalFull(lim, now) /\ t.ips = lim.ips
                  \/ /\ ~GlobalFull(lim, now) /\ IpFull(lim, ip, now)
                     /\ ip \in DOMAIN t.ips /\ t.ips[ip] = rec
                  \/ /\ Acquires(lim, ip, now)
                     /\ ip \in DOMAIN t.ips /\ t.ips[ip] = new
<1> DEFINE g   == Renewed(lim, now)
           rec == IpRecord(lim, ip, now)
           new == [start |-> rec.start, count |-> rec.count + 1]
           t   == Tried(lim, ip, now)
           f   == IF Limited(ip) THEN Put(lim.ips, ip, new) ELSE lim.ips
<1>1. rec \in Count /\ ~Elapsed(rec.start, now)
  BY RecordEffect
<1>2. /\ [rec EXCEPT !.count = @ + 1] = new
      /\ new \in Count /\ new.start = rec.start
  BY <1>1 DEF Count
<1>3. /\ g.start \in Nat /\ g.count \in Nat
  BY RenewedEffect DEF IsLimiter
<1>4. /\ lim.ips = [i \in DOMAIN lim.ips |-> lim.ips[i]] /\ DOMAIN lim.ips \subseteq Ips
      /\ \A i \in DOMAIN lim.ips : lim.ips[i] \in Count
  BY DEF IsLimiter
<1>5. Limited(ip) => ip \in Ips
  BY DEF Limited
<1>6. /\ t = [start |-> t.start, count |-> t.count, ips |-> t.ips]
      /\ t.start \in Nat /\ t.count \in Nat
  <2>1. t = [start |-> t.start, count |-> t.count, ips |-> t.ips] /\ t.start = g.start
    BY TriedEffect
  <2>2. t.count = g.count \/ t.count = g.count + 1
    BY TriedEffect
  <2> QED
    BY <2>1, <2>2, <1>3
<1>7. CASE GlobalFull(lim, now)
  <2>1. t.ips = lim.ips
    BY TriedEffect, <1>7 DEF Acquires
  <2> QED
    BY <2>1, <1>4, <1>6, <1>7 DEF IsLimiter
<1>8. CASE ~GlobalFull(lim, now) /\ IpFull(lim, ip, now)
  <2>1. t.ips = Put(lim.ips, ip, rec)
    BY TriedEffect, <1>8 DEF Acquires
  <2>2. Limited(ip)
    BY <1>8 DEF IpFull
  <2>3. /\ DOMAIN t.ips = DOMAIN lim.ips \cup {ip}
        /\ t.ips[ip] = rec
        /\ \A i \in DOMAIN lim.ips : i # ip => t.ips[i] = lim.ips[i]
        /\ t.ips = [i \in DOMAIN t.ips |-> t.ips[i]]
    BY <2>1 DEF Put
  <2>4. IsLimiter(t)
    BY <2>2, <2>3, <1>1, <1>4, <1>5, <1>6 DEF IsLimiter
  <2> QED
    BY <2>2, <2>3, <2>4, <1>8
<1>9. CASE Acquires(lim, ip, now)
  <2>1. t.ips = Cleaned(f, now)
    BY TriedEffect, <1>2, <1>9 DEF Acquires
  <2>2. /\ DOMAIN f = IF Limited(ip) THEN DOMAIN lim.ips \cup {ip} ELSE DOMAIN lim.ips
        /\ Limited(ip) => f[ip] = new
        /\ \A i \in DOMAIN lim.ips : i # ip => f[i] = lim.ips[i]
        /\ f = [i \in DOMAIN f |-> f[i]]
    BY <1>4 DEF Put
  <2>3. DOMAIN f \subseteq Ips /\ \A i \in DOMAIN f : f[i] \in Count
    <3>1. CASE Limited(ip)
      BY <3>1, <2>2, <1>2, <1>4, <1>5
    <3>2. CASE ~Limited(ip)
      BY <3>2, <1>4
    <3> QED
      BY <3>1, <3>2
  <2> HIDE DEF f
  <2>4. /\ DOMAIN t.ips \subseteq DOMAIN f
        /\ \A i \in DOMAIN t.ips : t.ips[i] = f[i]
        /\ \A i \in DOMAIN f \ DOMAIN t.ips : Elapsed(f[i].start, now)
        /\ t.ips = [i \in DOMAIN t.ips |-> t.ips[i]]
    BY <2>1, <2>2, CleanedEffect
  <2>5. IsLimiter(t)
    BY <2>3, <2>4, <1>6 DEF IsLimiter
  <2>6. Limited(ip) => ip \in DOMAIN t.ips /\ t.ips[ip] = new
    BY <2>2, <2>4, <1>1, <1>2
  <2>7. \A i \in DOMAIN t.ips : i # ip => i \in DOMAIN lim.ips /\ t.ips[i] = lim.ips[i]
    BY <2>2, <2>4
  <2>8. \A i \in DOMAIN lim.ips \ DOMAIN t.ips : i # ip => Elapsed(lim.ips[i].start, now)
    BY <2>2, <2>4
  <2> QED
    BY <2>5, <2>6, <2>7, <2>8, <1>9
<1> QED
  BY <1>7, <1>8, <1>9 DEF Acquires

LEMMA GaugedInit == Init => Gauged
<1> SUFFICES ASSUME Init  PROVE Gauged
  OBVIOUS
<1> USE LimiterAssumption
<1>1. <<>> \in Seq(Nat) /\ Len(<<>>) = 0
  OBVIOUS
<1>2. begun \in Begun
  BY <1>1 DEF Init, Begun
<1>3. IsLimiter(limiter) /\ DOMAIN limiter.ips = {}
  BY DEF Init, NoAttempts, IsLimiter
<1>4. GaugeTypes
  BY <1>2, <1>3 DEF GaugeTypes, Init
<1>5. ASSUME NEW start \in Nat, start <= clock, NEW limit \in Nat
      PROVE  Windowed(<<>>, start, 0, limit, clock)
  BY <1>1, <1>5 DEF Windowed, Spread
<1>6. /\ begun.all = <<>> /\ limiter.start = 0 /\ limiter.count = 0 /\ clock \in Nat
      /\ \A ip \in Ips : begun.by[ip] = <<>> /\ View(ip) = [start |-> clock, count |-> 0]
  BY <1>3 DEF Init, NoAttempts, View
<1> QED
  BY <1>4, <1>5, <1>6 DEF Gauged

\* Only attempts and time concern the limiter.
LEMMA GaugedStutter == Gauged /\ UNCHANGED <<limiter, clock, begun>> => Gauged'
<1> SUFFICES ASSUME Gauged, UNCHANGED <<limiter, clock, begun>>  PROVE Gauged'
  OBVIOUS
<1>1. \A ip : View(ip)' = View(ip)
  BY DEF View
<1> QED
  BY <1>1 DEF Gauged, GaugeTypes, Begun

LEMMA GaugedTick == Gauged /\ Tick => Gauged'
<1> SUFFICES ASSUME Gauged, Tick  PROVE Gauged'
  OBVIOUS
<1> USE LimiterAssumption
<1>1. clock \in Nat /\ clock' = clock + 1 /\ UNCHANGED <<limiter, begun>>
  BY DEF Tick, Gauged, GaugeTypes
<1>2. GaugeTypes /\ GaugeTypes'
  BY <1>1 DEF Gauged, GaugeTypes
<1>3. ASSUME GlobalLimit > 0
      PROVE  Windowed(begun.all, limiter.start, limiter.count, GlobalLimit, clock)'
  <2>1. Windowed(begun.all, limiter.start, limiter.count, GlobalLimit, clock + 1)
    BY <1>1, <1>2, <1>3, Passes DEF Gauged, GaugeTypes, IsLimiter, Begun
  <2> QED
    BY <2>1, <1>1
<1>4. ASSUME PerIpLimit > 0, NEW ip \in Ips
      PROVE  Windowed(begun.by[ip], View(ip).start, View(ip).count, PerIpLimit, clock)'
  <2> DEFINE s == begun.by[ip]
  <2>1. s \in Seq(Nat)
    BY <1>2 DEF GaugeTypes, Begun
  <2>2. Windowed(s, View(ip).start, View(ip).count, PerIpLimit, clock)
    BY <1>4 DEF Gauged
  <2>3. CASE ip \in DOMAIN limiter.ips
    <3>1. View(ip)' = View(ip) /\ View(ip) \in Count
      BY <2>3, <1>1, <1>2 DEF View, GaugeTypes, IsLimiter
    <3>2. Windowed(s, View(ip).start, View(ip).count, PerIpLimit, clock + 1)
      BY <3>1, <2>1, <2>2, <1>1, Passes DEF Count
    <3> QED
      BY <3>1, <3>2, <1>1
  <2>4. CASE ip \notin DOMAIN limiter.ips
    <3>1. View(ip) = [start |-> clock, count |-> 0] /\ View(ip)' = [start |-> clock + 1, count |-> 0]
      BY <2>4, <1>1 DEF View
    <3>2. Windowed(s, clock + 1, 0, PerIpLimit, clock + 1)
      BY <3>1, <2>1, <2>2, <1>1, PassesFresh
    <3> QED
      BY <3>1, <3>2, <1>1
  <2> QED
    BY <2>3, <2>4
<1> QED
  BY <1>2, <1>3, <1>4 DEF Gauged

\* An attempt, whether it is let through or refused.
LEMMA GaugedAttempt ==
  ASSUME Gauged, NEW c \in Conns, AuthRequest(c)
  PROVE  Gauged'
<1> USE LimiterAssumption, ServerAssumption
<1> DEFINE ip  == IpOf[c]
           g   == Renewed(limiter, clock)
           rec == IpRecord(limiter, ip, clock)
<1>1. /\ IsLimiter(limiter) /\ clock \in Nat /\ begun \in Begun
      /\ ip \in Ips \cup {NoIp}
      /\ limiter' = Tried(limiter, ip, clock) /\ clock' = clock
  BY DEF Gauged, GaugeTypes, AuthRequest
<1>2. /\ begun.all \in Seq(Nat)
      /\ \A i \in Ips : begun.by[i] \in Seq(Nat)
  BY <1>1 DEF Begun
\* What becomes of the history.
<1>3. /\ begun' \in Begun
      /\ \/ begun' = begun
         \/ /\ Acquires(limiter, ip, clock)
            /\ begun'.all = Append(begun.all, clock)
            /\ \A i \in Ips : begun'.by[i] = IF i = ip THEN Append(begun.by[i], clock)
                                             ELSE begun.by[i]
  <2>1. CASE begun' = begun
    BY <2>1, <1>1
  <2>2. CASE Begins(c)
    <3>1. \A i \in Ips : Append(begun.by[i], clock) \in Seq(Nat)
      BY <1>1, <1>2
    <3>2. Append(begun.all, clock) \in Seq(Nat)
      BY <1>1, <1>2
    <3> QED
      BY <3>1, <3>2, <2>2, <1>1, <1>2 DEF Begins, Begun
  <2> QED
    BY <2>1, <2>2 DEF AuthRequest, Refuses
<1>4. GaugeTypes'
  BY <1>1, <1>3, TriedRecords DEF GaugeTypes
<1>5. ASSUME GlobalLimit > 0
      PROVE  Windowed(begun.all, limiter.start, limiter.count, GlobalLimit, clock)'
  <2> DEFINE s == begun.all
  <2>1. Windowed(s, limiter.start, limiter.count, GlobalLimit, clock)
    BY <1>5 DEF Gauged
  <2>2. g.start \in Nat /\ g.count \in Nat
    BY <1>1, RenewedEffect DEF IsLimiter
  <2>3. Windowed(s, g.start, g.count, GlobalLimit, clock)
    BY SMTT(30), <2>1, <1>1, <1>2, RenewedEffect, Renews DEF IsLimiter
  <2>4. limiter'.start = g.start
    BY <1>1, TriedEffect
  <2>5. CASE limiter'.count = g.count /\ begun' = begun
    BY <2>3, <2>4, <2>5, <1>1
  <2>6. CASE limiter'.count = g.count + 1 /\ Acquires(limiter, ip, clock)
    <3>1. g.count < GlobalLimit
      BY <2>6, <2>2, <1>5 DEF Acquires, GlobalFull
    <3>2. /\ Windowed(s, g.start, g.count + 1, GlobalLimit, clock)
          /\ Windowed(Append(s, clock), g.start, g.count + 1, GlobalLimit, clock)
      BY <3>1, <2>2, <2>3, <1>1, <1>2, Counts
    <3>3. begun'.all = s \/ begun'.all = Append(s, clock)
      BY <1>3
    <3> QED
      BY <3>2, <3>3, <2>4, <2>6, <1>1
  <2>7. \/ limiter'.count = g.count /\ ~Acquires(limiter, ip, clock)
        \/ limiter'.count = g.count + 1 /\ Acquires(limiter, ip, clock)
    BY <1>1, TriedEffect DEF Acquires
  <2> QED
    BY <2>5, <2>6, <2>7, <1>3
<1>6. ASSUME PerIpLimit > 0, NEW i \in Ips
      PROVE  Windowed(begun.by[i], View(i).start, View(i).count, PerIpLimit, clock)'
  <2> DEFINE s == begun.by[i]
  <2>1. Windowed(s, View(i).start, View(i).count, PerIpLimit, clock)
    BY <1>6 DEF Gauged
  <2>2. View(i) \in Count
    BY <1>1 DEF View, Count, IsLimiter
  <2>3. Elapsed(View(i).start, clock) => Windowed(s, clock, 0, PerIpLimit, clock)
    BY <2>1, <2>2, <1>1, <1>2, Renews DEF Count
  <2>4. CASE i # ip
    <3>1. begun'.by[i] = s
      BY <2>4, <1>3
    <3>2. CASE i \in DOMAIN limiter'.ips
      <4>1. View(i)' = View(i)
        <5>1. i \in DOMAIN limiter.ips /\ limiter'.ips[i] = limiter.ips[i]
          <6> DEFINE t == Tried(limiter, ip, clock)
          <6>0. IsLimiter(limiter) /\ clock \in Nat /\ ip \in Ips \cup {NoIp}
            BY <1>1
          <6>1. \A k \in DOMAIN t.ips : k # ip => k \in DOMAIN limiter.ips /\ t.ips[k] = limiter.ips[k]
            BY ONLY <6>0, TriedRecords
          <6> HIDE DEF t
          <6>2. limiter' = t
            BY <1>1 DEF t
          <6> QED
            BY <6>1, <6>2, <3>2, <2>4
        <5> QED
          BY <5>1, <3>2 DEF View
      <4> QED
        BY <4>1, <3>1, <2>1, <1>1
    <3>3. CASE i \notin DOMAIN limiter'.ips
      <4>1. View(i)' = [start |-> clock, count |-> 0]
        BY <3>3, <1>1 DEF View
      <4>2. CASE i \in DOMAIN limiter.ips
        <5>1. Elapsed(View(i).start, clock)
          BY <4>2, <3>3, <2>4, <1>1, TriedRecords DEF View
        <5> QED
          BY <5>1, <4>1, <3>1, <2>3, <1>1
      <4>3. CASE i \notin DOMAIN limiter.ips
        <5>1. View(i) = [start |-> clock, count |-> 0]
          BY <4>3 DEF View
        <5> QED
          BY <5>1, <4>1, <3>1, <2>1, <1>1
      <4> QED
        BY <4>2, <4>3
    <3> QED
      BY <3>2, <3>3
  <2>5. CASE i = ip
    <3>1. Limited(ip)
      BY <2>5, <1>6 DEF Limited
    <3>2. rec \in Count
      BY <1>1, RecordEffect
    <3>3. Windowed(s, rec.start, rec.count, PerIpLimit, clock)
      <4>1. CASE ip \in DOMAIN limiter.ips /\ ~Elapsed(limiter.ips[ip].start, clock)
        BY <4>1, <2>1, <2>5 DEF IpRecord, View
      <4>2. CASE ip \in DOMAIN limiter.ips /\ Elapsed(limiter.ips[ip].start, clock)
        BY <4>2, <2>3, <2>5 DEF IpRecord, View
      <4>3. CASE ip \notin DOMAIN limiter.ips
        BY <4>3, <2>1, <2>5 DEF IpRecord, View
      <4> QED
        BY <4>1, <4>2, <4>3
    <3>4. CASE GlobalFull(limiter, clock) /\ limiter'.ips = limiter.ips
      <4>1. View(i)' = View(i)
        BY <3>4, <1>1 DEF View
      <4>2. begun' = begun
        BY <3>4, <1>3 DEF Acquires
      <4> QED
        BY <4>1, <4>2, <2>1, <1>1
    <3>5. CASE /\ ~GlobalFull(limiter, clock) /\ IpFull(limiter, ip, clock)
               /\ ip \in DOMAIN limiter'.ips /\ limiter'.ips[ip] = rec
      <4>1. View(i)' = rec
        BY <3>5, <2>5 DEF View
      <4>2. begun' = begun
        BY <3>5, <1>3 DEF Acquires
      <4> QED
        BY <4>1, <4>2, <3>3, <1>1
    <3>6. CASE /\ Acquires(limiter, ip, clock)
               /\ ip \in DOMAIN limiter'.ips
               /\ limiter'.ips[ip] = [start |-> rec.start, count |-> rec.count + 1]
      <4>1. View(i)' = [start |-> rec.start, count |-> rec.count + 1]
        BY <3>6, <2>5 DEF View
      <4>2. rec.count < PerIpLimit
        BY <3>6, <3>1, <3>2 DEF Acquires, IpFull, Count
      <4>3. /\ Windowed(s, rec.start, rec.count + 1, PerIpLimit, clock)
            /\ Windowed(Append(s, clock), rec.start, rec.count + 1, PerIpLimit, clock)
        BY <4>2, <3>2, <3>3, <1>1, <1>2, Counts DEF Count
      <4>4. begun'.by[i] = s \/ begun'.by[i] = Append(s, clock)
        BY <2>5, <1>3
      <4>5. /\ View(i)'.start = rec.start /\ View(i)'.count = rec.count + 1
        BY <4>1
      <4> HIDE DEF rec
      <4> QED
        BY <4>5, <4>3, <4>4, <1>1
    <3> QED
      BY <3>1, <3>4, <3>5, <3>6, <1>1, TriedRecords
  <2> QED
    BY <2>4, <2>5
<1> QED
  BY <1>4, <1>5, <1>6 DEF Gauged

-----------------------------------------------------------------------------
(* Connections                                                             *)

\* Two connections differ at most in their sockets and protocol states.
Alike(k, m) ==
  /\ m.authenticated = k.authenticated /\ m.attempts = k.attempts
  /\ m.verifying = k.verifying /\ m.timer = k.timer

LEMMA WrittenEffect ==
  ASSUME NEW k \in Connection, LiveIn(k)
  PROVE  Written(k) \in Connection /\ LiveIn(Written(k)) /\ Written(k).proto = k.proto
         /\ Alike(k, Written(k))
BY DEF Written, Connection, Socks, LiveIn, Alike

LEMMA EndedEffect ==
  ASSUME NEW k \in Connection, LiveIn(k)
  PROVE  Ended(k) \in Connection /\ LiveIn(Ended(k)) /\ Ended(k).proto = k.proto
         /\ Alike(k, Ended(k))
BY DEF Ended, Connection, Socks, LiveIn, Alike

LEMMA ClosingEffect ==
  ASSUME NEW k \in Connection, LiveIn(k)
  PROVE  LET m == [k EXCEPT !.proto = "closing"]
         IN  m \in Connection /\ LiveIn(m) /\ m.proto = "closing" /\ Alike(k, m)
BY DEF Connection, LiveIn, Alike

LEMMA FailedEffect ==
  ASSUME NEW k \in Connection, LiveIn(k)
  PROVE  Failed(k) \in Connection /\ LiveIn(Failed(k)) /\ Failed(k).proto = "closing"
         /\ Alike(k, Failed(k))
<1> DEFINE m == [k EXCEPT !.proto = "closing"]
           w == Written(m)
<1>1. m \in Connection /\ LiveIn(m) /\ m.proto = "closing" /\ Alike(k, m)
  BY ClosingEffect
<1> HIDE DEF m
<1>2. w \in Connection /\ LiveIn(w) /\ w.proto = m.proto /\ Alike(m, w)
  BY <1>1, WrittenEffect
<1> HIDE DEF w
<1>3. Ended(w) \in Connection /\ LiveIn(Ended(w)) /\ Ended(w).proto = w.proto /\ Alike(w, Ended(w))
  BY <1>2, EndedEffect
<1> QED
  BY <1>1, <1>2, <1>3 DEF Failed, m, w, Alike

\* One connection moves within its stage, or on to closing, and may lose its terminal as
\* it closes.
LEMMA Moves ==
  ASSUME Core, NEW c \in Conns, LiveIn(conn[c]),
         NEW k \in Connection, LiveIn(k), Stage(k),
         conn' = [conn EXCEPT ![c] = k],
         k.proto \in {conn[c].proto, "closing"}, k.authenticated = conn[c].authenticated,
         term' = term \/ (term' = term \ {c} /\ k.proto = "closing"),
         registry' = registry, server' = server
  PROVE  Core'
<1>1. /\ conn' \in [Conns -> Connection]
      /\ conn'[c] = k
      /\ \A d \in Conns : d # c => conn'[d] = conn[d]
  BY DEF Core, CoreTypes
<1>2. CoreTypes'
  BY <1>1 DEF Core, CoreTypes
<1>3. Live' = Live
  BY <1>1 DEF Live
<1>4. \A d \in Conns : Stage(conn'[d])
  BY <1>1 DEF Core
<1>5. SessionsMatch'
  <2>1. Paired(registry)'
    BY DEF Core, SessionsMatch, Paired, HasSession
  <2>2. ASSUME NEW d \in Conns
        PROVE  /\ HasSession(registry, d)' \/ d \in term' => d \in Live' /\ conn'[d].authenticated
               /\ d \in Live' /\ conn'[d].proto = "ready" =>
                    HasSession(registry, d)' /\ (Backend # "none" => d \in term')
    <3>1. HasSession(registry, d)' = HasSession(registry, d)
      BY DEF HasSession
    <3>2. CASE d # c
      BY <3>1, <3>2, <1>1, <1>3 DEF Core, SessionsMatch
    <3>3. CASE d = c
      <4>1. c \in Live
        BY DEF Live
      <4>2. HasSession(registry, c)' \/ c \in term' => conn'[c].authenticated
        BY <3>1, <3>3, <1>1 DEF Core, SessionsMatch
      <4>3. conn'[c].proto = "ready" => conn[c].proto = "ready" /\ term' = term
        BY <1>1
      <4> QED
        BY <4>1, <4>2, <4>3, <3>1, <3>3, <1>3 DEF Core, SessionsMatch
    <3> QED
      BY <3>2, <3>3
  <2> QED
    BY <2>1, <2>2 DEF SessionsMatch
<1>6. ShutdownIsFinal'
  BY <1>1, <1>3 DEF Core, ShutdownIsFinal, Live
<1> QED
  BY <1>2, <1>4, <1>5, <1>6 DEF Core

LEMMA CoreInit == Init => Core
<1> SUFFICES ASSUME Init  PROVE Core
  OBVIOUS
<1> USE SessionAssumption, ServerAssumption
<1>1. \A c \in Conns : conn[c] = [sock |-> "unused", proto |-> "connecting",
                               authenticated |-> FALSE, attempts |-> 0,
                               verifying |-> FALSE, timer |-> FALSE]
  BY DEF Init
<1>2. CoreTypes
  <2>1. 0 \in 0..MaxAuthAttempts
    OBVIOUS
  <2>2. conn \in [Conns -> Connection]
    BY <2>1 DEF Init, Connection, Socks
  <2>3. registry \in Registry
    BY DEF Init, Empty, Registry
  <2> QED
    BY <2>2, <2>3 DEF CoreTypes, Init
<1>3. \A c \in Conns : Stage(conn[c])
  BY <1>1 DEF Stage
<1>4. SessionsMatch
  BY <1>1 DEF SessionsMatch, Paired, HasSession, Init, Empty, Live, LiveIn
<1>5. ShutdownIsFinal
  BY DEF ShutdownIsFinal, Init
<1> QED
  BY <1>2, <1>3, <1>4, <1>5 DEF Core

LEMMA CoreStutter ==
  ASSUME Core, UNCHANGED <<conn, registry, term>>,
         server' = server \/ server' \in {"down", "crashed"}
  PROVE  Core'
<1>1. Live' = Live
  BY DEF Live
<1>2. SessionsMatch'
  BY <1>1 DEF Core, SessionsMatch, Paired, HasSession
<1>3. ShutdownIsFinal'
  BY <1>1 DEF Core, ShutdownIsFinal
<1> QED
  BY <1>1, <1>2, <1>3 DEF Core, CoreTypes

\* One step that changes one connection and nothing else.
LEMMA CoreMoves ==
  ASSUME Core, NEW c \in Conns,
         \/ AuthRequest(c) \/ Goodbye(c) \/ ProtocolError(c) \/ AuthTimeout(c)
         \/ IdleTimeout(c) \/ PeerEnds(c) \/ TerminalExits(c)
  PROVE  Core'
<1> DEFINE k == conn[c]
<1>1. k \in Connection /\ Stage(k)
  BY DEF Core, CoreTypes
<1> DEFINE shut == [k EXCEPT !.proto = "closing"]
           late == [k EXCEPT !.timer = FALSE]
<1>2. CASE AuthRequest(c)
  <2>1. LiveIn(k) /\ k.sock # "unused" /\ k.proto = "authenticating"
    BY <1>2 DEF AuthRequest, Reads, LiveIn
  <2>2. registry' = registry /\ term' = term /\ server' = server
    BY <1>2 DEF AuthRequest
  <2>3. CASE Begins(c)
    <3> DEFINE m == [k EXCEPT !.attempts = @ + 1, !.verifying = TRUE]
    <3>1. k.attempts + 1 \in 0..MaxAuthAttempts
      BY <2>3, <1>1, ServerAssumption DEF Begins, Connection
    <3>2. m \in Connection
      BY <3>1, <1>1 DEF Connection
    <3>3. LiveIn(m) /\ Stage(m) /\ m.proto = k.proto /\ m.authenticated = k.authenticated
      BY <1>1, <2>1 DEF Connection, LiveIn, Stage
    <3>4. conn' = [conn EXCEPT ![c] = m]
      BY <2>3 DEF Begins
    <3> HIDE DEF m
    <3> QED
      BY <3>2, <3>3, <3>4, <2>1, <2>2, Moves
  <2>4. CASE Refuses(c)
    <3>1. Written(k) \in Connection /\ LiveIn(Written(k)) /\ Written(k).proto = k.proto
          /\ Alike(k, Written(k))
      BY <1>1, <2>1, WrittenEffect
    <3>2. Stage(Written(k))
      BY <3>1, <1>1, <2>1 DEF Stage, Alike, LiveIn
    <3>3. conn' = [conn EXCEPT ![c] = Written(k)]
      BY <2>4 DEF Refuses
    <3> QED
      BY <3>1, <3>2, <3>3, <2>1, <2>2, Moves DEF Alike
  <2> QED
    BY <2>3, <2>4, <1>2 DEF AuthRequest
<1>3. CASE Goodbye(c)
  <2>1. LiveIn(k) /\ k.sock # "unused"
    BY <1>3 DEF Goodbye, Reads, LiveIn
  <2>2. shut \in Connection /\ LiveIn(shut) /\ shut.proto = "closing" /\ Alike(k, shut)
    BY <2>1, <1>1, ClosingEffect
  <2>3. conn' = [conn EXCEPT ![c] = Written(shut)] /\ registry' = registry /\ term' = term /\ server' = server
    BY <1>3 DEF Goodbye
  <2> HIDE DEF shut
  <2>4. Written(shut) \in Connection /\ LiveIn(Written(shut)) /\ Written(shut).proto = "closing"
        /\ Alike(shut, Written(shut))
    BY <2>2, WrittenEffect
  <2>5. Alike(k, Written(shut))
    BY <2>2, <2>4 DEF Alike
  <2>6. Stage(Written(shut))
    BY <2>1, <2>4, <2>5, <1>1 DEF Stage, Alike, LiveIn
  <2> QED
    BY <2>1, <2>3, <2>4, <2>5, <2>6, Moves DEF Alike
<1>4. CASE ProtocolError(c) \/ TerminalExits(c)
  <2>1. LiveIn(k) /\ k.sock # "unused"
    BY <1>4 DEF ProtocolError, TerminalExits, Reads, LiveIn, Core, SessionsMatch, Live
  <2>2. Failed(k) \in Connection /\ LiveIn(Failed(k)) /\ Failed(k).proto = "closing"
        /\ Alike(k, Failed(k))
    BY <2>1, <1>1, FailedEffect
  <2>3. Stage(Failed(k))
    BY <2>1, <2>2, <1>1 DEF Stage, Alike, LiveIn
  <2>4. /\ conn' = [conn EXCEPT ![c] = Failed(k)]
        /\ term' = term \/ term' = term \ {c}
        /\ registry' = registry /\ server' = server
    BY <1>4 DEF ProtocolError, TerminalExits
  <2> QED
    BY <2>1, <2>2, <2>3, <2>4, Moves DEF Alike
<1>5. CASE AuthTimeout(c)
  <2>1. k.timer /\ LiveIn(k) /\ k.sock # "unused"
    BY <1>5, <1>1 DEF AuthTimeout, Stage, LiveIn
  <2>2. /\ late \in Connection /\ LiveIn(late) /\ ~late.timer
        /\ late.authenticated = k.authenticated /\ late.verifying = k.verifying
    BY <2>1, <1>1 DEF Connection, LiveIn
  <2>3. conn' = [conn EXCEPT ![c] = Failed(late)] /\ registry' = registry /\ term' = term /\ server' = server
    BY <1>5 DEF AuthTimeout
  <2> HIDE DEF late
  <2>4. Failed(late) \in Connection /\ LiveIn(Failed(late)) /\ Failed(late).proto = "closing"
        /\ Alike(late, Failed(late))
    BY <2>2, FailedEffect
  <2>5. Stage(Failed(late))
    BY <2>1, <2>2, <2>4, <1>1 DEF Stage, Alike, LiveIn
  <2> QED
    BY <2>1, <2>2, <2>3, <2>4, <2>5, Moves DEF Alike
<1>6. CASE IdleTimeout(c)
  <2>1. LiveIn(k) /\ k.sock # "unused"
    BY <1>6 DEF IdleTimeout, LiveIn
  <2>2. shut \in Connection /\ LiveIn(shut) /\ shut.proto = "closing" /\ Alike(k, shut)
    BY <2>1, <1>1, ClosingEffect
  <2>3. conn' = [conn EXCEPT ![c] = Ended(shut)] /\ registry' = registry /\ term' = term /\ server' = server
    BY <1>6 DEF IdleTimeout
  <2> HIDE DEF shut
  <2>4. Ended(shut) \in Connection /\ LiveIn(Ended(shut)) /\ Ended(shut).proto = "closing"
        /\ Alike(shut, Ended(shut))
    BY <2>2, EndedEffect
  <2>5. Alike(k, Ended(shut))
    BY <2>2, <2>4 DEF Alike
  <2>6. Stage(Ended(shut))
    BY <2>1, <2>4, <2>5, <1>1 DEF Stage, Alike, LiveIn
  <2> QED
    BY <2>1, <2>3, <2>4, <2>5, <2>6, Moves DEF Alike
<1>7. CASE PeerEnds(c)
  <2> DEFINE m == [k EXCEPT !.sock = "finishing"]
  <2>1. LiveIn(k) /\ k.sock # "unused"
    BY <1>7 DEF PeerEnds, Reads, LiveIn
  <2>2. m \in Connection /\ LiveIn(m) /\ m.proto = k.proto /\ Alike(k, m) /\ m.sock = "finishing"
    BY <2>1, <1>1 DEF Connection, Socks, LiveIn, Alike
  <2>3. conn' = [conn EXCEPT ![c] = m] /\ registry' = registry /\ term' = term /\ server' = server
    BY <1>7 DEF PeerEnds
  <2> HIDE DEF m
  <2>4. Stage(m)
    BY <2>1, <2>2, <1>1 DEF Stage, Alike, LiveIn
  <2> QED
    BY <2>1, <2>2, <2>3, <2>4, Moves DEF Alike
<1> QED
  BY <1>2, <1>3, <1>4, <1>5, <1>6, <1>7

LEMMA CoreAccept ==
  ASSUME Core, NEW c \in Conns, Accept(c)
  PROVE  Core'
<1> DEFINE k == conn[c]
           m == [k EXCEPT !.sock = "open", !.proto = "authenticating", !.timer = TRUE]
<1>1. k \in Connection /\ Stage(k) /\ k.sock = "unused" /\ ~LiveIn(k)
  BY DEF Core, CoreTypes, Accept, LiveIn
<1>2. m \in Connection /\ LiveIn(m) /\ m.proto = "authenticating" /\ m.sock = "open"
      /\ m.authenticated = k.authenticated /\ m.verifying = k.verifying
  BY <1>1 DEF Connection, Socks, LiveIn
<1>3. /\ conn' = [conn EXCEPT ![c] = m]
      /\ UNCHANGED <<registry, term, server>> /\ server = "up"
  BY DEF Accept
<1> HIDE DEF m
<1>4. ~k.authenticated
  BY <1>1, <1>3 DEF Stage
<1> QED
  <2>1. /\ conn' \in [Conns -> Connection]
        /\ conn'[c] = m
        /\ \A d \in Conns : d # c => conn'[d] = conn[d]
    BY <1>2, <1>3 DEF Core, CoreTypes
  <2>2. Stage(m)
    BY <1>2, <1>4, <1>1 DEF Stage
  <2>3. \A d \in Conns : d # c => (d \in Live' <=> d \in Live)
    BY <2>1 DEF Live
  <2>4. ~HasSession(registry, c) /\ c \notin term
    BY <1>1 DEF Core, SessionsMatch, Live
  <2>5. SessionsMatch'
    <3>1. Paired(registry)'
      BY <1>3 DEF Core, SessionsMatch, Paired, HasSession
    <3>2. ASSUME NEW d \in Conns
          PROVE  /\ HasSession(registry, d)' \/ d \in term' => d \in Live' /\ conn'[d].authenticated
                 /\ d \in Live' /\ conn'[d].proto = "ready" =>
                      HasSession(registry, d)' /\ (Backend # "none" => d \in term')
      <4>1. HasSession(registry, d)' = HasSession(registry, d) /\ term' = term
        BY <1>3 DEF HasSession
      <4>2. CASE d = c
        BY <4>1, <4>2, <2>1, <2>4, <1>2
      <4>3. CASE d # c
        BY <4>1, <4>3, <2>1, <2>3 DEF Core, SessionsMatch
      <4> QED
        BY <4>2, <4>3
    <3> QED
      BY <3>1, <3>2 DEF SessionsMatch
  <2>6. ShutdownIsFinal'
    BY <1>3 DEF ShutdownIsFinal
  <2> QED
    BY <2>1, <2>2, <2>5, <2>6, <1>1, <1>3 DEF Core, CoreTypes

\* A connection with a fresh session, served or failed at once.
LEMMA Enters ==
  ASSUME Core, NEW c \in Conns, LiveIn(conn[c]), ~conn[c].authenticated, server # "stopping",
         NEW s \in Sessions, Fresh(registry, s), registry' = Created(registry, c, s),
         NEW k \in Connection, LiveIn(k), Stage(k), k.authenticated,
         conn' = [conn EXCEPT ![c] = k],
         term' \in {term, term \cup {c}},
         k.proto = "ready" => (Backend # "none" => c \in term'),
         server' = server
  PROVE  Core'
<1> USE SessionAssumption
<1>1. /\ conn' \in [Conns -> Connection]
      /\ conn'[c] = k
      /\ \A d \in Conns : d # c => conn'[d] = conn[d]
  BY DEF Core, CoreTypes
<1>2. /\ Live' = Live /\ c \in Live
  BY <1>1 DEF Live
<1>3. ~HasSession(registry, c)
  BY DEF Core, SessionsMatch
<1>4. registry \in Registry
  BY DEF Core, CoreTypes
<1>5. /\ registry' \in Registry
      /\ registry'.sessions = [registry.sessions EXCEPT ![s] = c]
      /\ registry'.connectionToSession = [registry.connectionToSession EXCEPT ![c] = s]
  BY <1>3, <1>4 DEF Created, Registry
<1>6. /\ registry'.sessions[s] = c /\ registry'.connectionToSession[c] = s
      /\ \A t \in Sessions : t # s => registry'.sessions[t] = registry.sessions[t]
      /\ \A d \in Conns : d # c =>
           registry'.connectionToSession[d] = registry.connectionToSession[d]
  BY <1>4, <1>5 DEF Registry
<1>7. Paired(registry)'
  <2>0. Paired(registry)
    BY DEF Core, SessionsMatch
  <2>1. ASSUME NEW t \in Sessions, registry'.sessions[t] \in Conns
        PROVE  registry'.connectionToSession[registry'.sessions[t]] = t
    <3>1. CASE t = s
      BY <3>1, <1>6
    <3>2. CASE t # s
      <4>1. registry.connectionToSession[registry.sessions[t]] = t
        BY <3>2, <2>0, <2>1, <1>6 DEF Paired
      <4>2. registry.sessions[t] # c
        BY <4>1, <1>3 DEF HasSession
      <4> QED
        BY <4>1, <4>2, <3>2, <2>1, <1>6
    <3> QED
      BY <3>1, <3>2
  <2>2. ASSUME NEW d \in Conns, HasSession(registry', d)
        PROVE  registry'.sessions[registry'.connectionToSession[d]] = d
    <3>1. CASE d = c
      BY <3>1, <1>6
    <3>2. CASE d # c
      <4>1. /\ registry.connectionToSession[d] # NoSession
            /\ registry.connectionToSession[d] \in Sessions
            /\ registry.sessions[registry.connectionToSession[d]] = d
        BY <3>2, <2>0, <2>2, <1>4, <1>6 DEF Paired, HasSession, Registry
      <4>2. registry.connectionToSession[d] # s
        BY <4>1 DEF Fresh
      <4> QED
        BY <4>1, <4>2, <3>2, <1>6
    <3> QED
      BY <3>1, <3>2
  <2> QED
    BY <2>1, <2>2 DEF Paired
<1>8. ASSUME NEW d \in Conns
      PROVE  /\ HasSession(registry, d)' \/ d \in term' => d \in Live' /\ conn'[d].authenticated
             /\ d \in Live' /\ conn'[d].proto = "ready" =>
                  HasSession(registry, d)' /\ (Backend # "none" => d \in term')
  <2>1. CASE d = c
    BY <2>1, <1>1, <1>2, <1>6 DEF HasSession
  <2>2. CASE d # c
    <3>1. HasSession(registry, d)' = HasSession(registry, d)
      BY <2>2, <1>6 DEF HasSession
    <3>2. d \in term' <=> d \in term
      BY <2>2
    <3> QED
      BY <3>1, <3>2, <2>2, <1>1, <1>2 DEF Core, SessionsMatch
  <2> QED
    BY <2>1, <2>2
<1>9. SessionsMatch'
  BY <1>7, <1>8 DEF SessionsMatch
<1>10. CoreTypes'
  BY <1>1, <1>5 DEF Core, CoreTypes
<1>11. \A d \in Conns : Stage(conn'[d])
  BY <1>1 DEF Core
<1>12. ShutdownIsFinal'
  BY DEF ShutdownIsFinal
<1> QED
  BY <1>9, <1>10, <1>11, <1>12 DEF Core

LEMMA CoreVerified ==
  ASSUME Core, NEW c \in Conns, Verified(c)
  PROVE  Core'
<1> DEFINE k == conn[c]
           done == [k EXCEPT !.verifying = FALSE]
           in == [k EXCEPT !.verifying = FALSE, !.authenticated = TRUE, !.timer = FALSE]
           ready == [in EXCEPT !.proto = "ready"]
<1>1. k \in Connection /\ Stage(k) /\ k.verifying /\ ~k.authenticated
  BY DEF Core, CoreTypes, Verified, Stage
<1>2. CASE /\ k.sock = "closed"
           /\ conn' = [conn EXCEPT ![c].verifying = FALSE]
           /\ UNCHANGED <<registry, term, server>>
  <2>1. /\ done \in Connection /\ done.sock = "closed" /\ done.proto = k.proto
        /\ done.timer = k.timer /\ done.authenticated = k.authenticated /\ ~done.verifying
    BY <1>1, <1>2 DEF Connection
  <2>2. conn' = [conn EXCEPT ![c] = done]
    BY <1>2
  <2> HIDE DEF done
  <2>3. /\ conn' \in [Conns -> Connection]
        /\ conn'[c] = done
        /\ \A d \in Conns : d # c => conn'[d] = conn[d]
    BY <2>1, <2>2 DEF Core, CoreTypes
  <2>4. Live' = Live /\ c \notin Live
    BY <2>1, <2>3, <1>2 DEF Live, LiveIn
  <2>5. Stage(done)
    BY <2>1, <1>1, <1>2 DEF Stage, LiveIn
  <2>6. SessionsMatch'
    BY <2>1, <2>3, <2>4, <1>2 DEF Core, SessionsMatch, Paired, HasSession
  <2>7. ShutdownIsFinal'
    BY <2>3, <2>4, <1>2 DEF Core, ShutdownIsFinal
  <2> QED
    BY <2>3, <2>5, <2>6, <2>7, <1>2 DEF Core, CoreTypes
<1>3. CASE Crash
  BY <1>3, CoreStutter DEF Crash
<1>4. CASE LiveIn(k) /\ ~Throws(k) /\ Succeeds(c)
  <2>1. k.proto = "authenticating" /\ c \in Live /\ server \in {"up", "stopping"}
    BY <1>4 DEF Throws, Live, Verified, Up
  <2>2. server # "stopping"
    BY <2>1 DEF Core, ShutdownIsFinal
  <2>3. /\ ready \in Connection /\ LiveIn(ready) /\ ready.proto = "ready" /\ ready.authenticated
        /\ ~ready.verifying /\ ~ready.timer
    BY <1>1, <1>4 DEF Connection, LiveIn
  <2>4. Start(c, Written(ready)) /\ server' = server
    BY <1>4 DEF Succeeds, Ready
  <2> HIDE DEF ready
  <2> DEFINE w == Written(ready)
  <2>5. /\ w \in Connection /\ LiveIn(w) /\ w.proto = "ready" /\ Alike(ready, w)
    BY <2>3, WrittenEffect
  <2> HIDE DEF w
  <2>6. /\ Failed(w) \in Connection /\ LiveIn(Failed(w)) /\ Failed(w).proto = "closing"
        /\ Alike(w, Failed(w))
    BY <2>5, FailedEffect
  <2>7. Stage(w) /\ w.authenticated /\ Stage(Failed(w)) /\ Failed(w).authenticated
    BY <2>3, <2>5, <2>6 DEF Stage, Alike, LiveIn
  <2>8. PICK s \in Sessions : Fresh(registry, s) /\ registry' = Created(registry, c, s)
    BY <1>4 DEF Succeeds
  <2>9. CASE conn' = [conn EXCEPT ![c] = w] /\ Backend # "none" /\ term' = term \cup {c}
    BY <2>9, <2>2, <2>4, <2>5, <2>7, <2>8, <1>1, <1>4, Enters
  <2>10. CASE conn' = [conn EXCEPT ![c] = Failed(w)] /\ term' = term
    BY <2>10, <2>2, <2>4, <2>6, <2>7, <2>8, <1>1, <1>4, Enters
  <2>11. CASE conn' = [conn EXCEPT ![c] = w] /\ Backend = "none" /\ term' = term
    BY <2>11, <2>2, <2>4, <2>5, <2>7, <2>8, <1>1, <1>4, Enters
  <2> QED
    BY <2>4, <2>9, <2>10, <2>11 DEF Start, w
<1>5. CASE /\ LiveIn(k) /\ ~Throws(k)
           /\ conn' = [conn EXCEPT ![c] = Written([@ EXCEPT !.verifying = FALSE])]
           /\ UNCHANGED <<registry, term, server>>
  <2>1. /\ done \in Connection /\ LiveIn(done) /\ done.proto = k.proto
        /\ done.timer = k.timer /\ done.authenticated = k.authenticated /\ ~done.verifying
    BY <1>1, <1>5 DEF Connection, LiveIn
  <2>2. conn' = [conn EXCEPT ![c] = Written(done)]
    BY <1>5
  <2> HIDE DEF done
  <2>3. /\ Written(done) \in Connection /\ LiveIn(Written(done)) /\ Written(done).proto = k.proto
        /\ Alike(done, Written(done))
    BY <2>1, WrittenEffect
  <2>4. k.sock # "unused"
    BY <1>1 DEF Stage
  <2>5. Stage(Written(done))
    BY <2>1, <2>3, <2>4, <1>1 DEF Stage, Alike, LiveIn
  <2>6. /\ term' = term /\ registry' = registry /\ server' = server
        /\ Written(done).authenticated = k.authenticated
    BY <2>1, <2>3, <1>5 DEF Alike
  <2> QED
    BY <2>2, <2>3, <2>5, <2>6, <1>5, Moves
<1> QED
  BY <1>2, <1>3, <1>4, <1>5 DEF Verified

LEMMA CoreClosed ==
  ASSUME Core, NEW c \in Conns, SocketClosed(c)
  PROVE  Core'
<1> USE SessionAssumption
<1> DEFINE k == conn[c]
           m == [k EXCEPT !.sock = "closed", !.timer = FALSE]
<1>1. k \in Connection /\ Stage(k) /\ LiveIn(k)
  BY DEF Core, CoreTypes, SocketClosed, Live
<1>2. /\ m \in Connection /\ ~LiveIn(m) /\ ~m.timer /\ m.sock = "closed"
      /\ m.proto = k.proto /\ m.authenticated = k.authenticated /\ m.verifying = k.verifying
  BY <1>1 DEF Connection, Socks, LiveIn
<1>3. /\ conn' = [conn EXCEPT ![c] = m]
      /\ term' = term \ {c}
      /\ registry' = RemovedByConnection(registry, c)
      /\ server' = server
  BY DEF SocketClosed
<1> HIDE DEF m
<1>4. /\ conn' \in [Conns -> Connection]
      /\ conn'[c] = m
      /\ \A d \in Conns : d # c => conn'[d] = conn[d]
  BY <1>2, <1>3 DEF Core, CoreTypes
<1>5. c \notin Live' /\ \A d \in Conns : d # c => (d \in Live' <=> d \in Live)
  BY <1>2, <1>4 DEF Live
<1>6. Stage(m)
  BY <1>1, <1>2 DEF Stage, LiveIn
<1>7. registry \in Registry /\ Paired(registry)
  BY DEF Core, CoreTypes, SessionsMatch
<1>8. /\ registry' \in Registry
      /\ ~HasSession(registry', c)
      /\ \A d \in Conns : d # c =>
           registry'.connectionToSession[d] = registry.connectionToSession[d]
      /\ \A t \in Sessions :
           registry'.sessions[t] = IF t = registry.connectionToSession[c] THEN NoConn
                                   ELSE registry.sessions[t]
  <2>1. CASE ~HasSession(registry, c)
    <3>1. registry' = registry
      BY <2>1, <1>3 DEF RemovedByConnection
    <3> QED
      BY <3>1, <2>1, <1>7 DEF HasSession, Registry
  <2>2. CASE HasSession(registry, c)
    <3>1. /\ registry' \in Registry
          /\ registry'.sessions =
               [registry.sessions EXCEPT ![registry.connectionToSession[c]] = NoConn]
          /\ registry'.connectionToSession = [registry.connectionToSession EXCEPT ![c] = NoSession]
      BY <2>2, <1>3, <1>7 DEF RemovedByConnection, Registry
    <3> QED
      BY <3>1, <1>7 DEF HasSession, Registry
  <2> QED
    BY <2>1, <2>2
<1>9. Paired(registry')
  <2>1. ASSUME NEW t \in Sessions, registry'.sessions[t] \in Conns
        PROVE  registry'.connectionToSession[registry'.sessions[t]] = t
    <3>1. t # registry.connectionToSession[c] /\ registry'.sessions[t] = registry.sessions[t]
      BY <2>1, <1>8
    <3>2. registry.connectionToSession[registry.sessions[t]] = t
      BY <3>1, <2>1, <1>7 DEF Paired
    <3>3. registry.sessions[t] # c
      BY <3>1, <3>2
    <3> QED
      BY <3>1, <3>2, <3>3, <2>1, <1>8
  <2>2. ASSUME NEW d \in Conns, HasSession(registry', d)
        PROVE  registry'.sessions[registry'.connectionToSession[d]] = d
    <3>1. d # c /\ registry'.connectionToSession[d] = registry.connectionToSession[d]
      BY <2>2, <1>8
    <3>2. /\ registry.connectionToSession[d] \in Sessions
          /\ registry.sessions[registry.connectionToSession[d]] = d
      BY <3>1, <2>2, <1>7 DEF Paired, HasSession, Registry
    <3>3. registry.connectionToSession[d] # registry.connectionToSession[c]
      <4>1. CASE HasSession(registry, c)
        BY <4>1, <3>1, <3>2, <1>7 DEF Paired
      <4>2. CASE ~HasSession(registry, c)
        BY <4>2, <3>2 DEF HasSession
      <4> QED
        BY <4>1, <4>2
    <3> QED
      BY <3>1, <3>2, <3>3, <1>8
  <2> QED
    BY <2>1, <2>2 DEF Paired
<1>10. ASSUME NEW d \in Conns
       PROVE  /\ HasSession(registry, d)' \/ d \in term' => d \in Live' /\ conn'[d].authenticated
              /\ d \in Live' /\ conn'[d].proto = "ready" =>
                   HasSession(registry, d)' /\ (Backend # "none" => d \in term')
  <2>1. CASE d = c
    BY <2>1, <1>3, <1>5, <1>8
  <2>2. CASE d # c
    <3>1. HasSession(registry, d)' = HasSession(registry, d)
      BY <2>2, <1>8 DEF HasSession
    <3>2. d \in term' <=> d \in term
      BY <2>2, <1>3
    <3> QED
      BY <3>1, <3>2, <2>2, <1>4, <1>5 DEF Core, SessionsMatch
  <2> QED
    BY <2>1, <2>2
<1>11. SessionsMatch'
  BY <1>9, <1>10 DEF SessionsMatch
<1>12. ShutdownIsFinal'
  <2>1. \A d \in Live' : d \in Live /\ conn'[d] = conn[d]
    BY <1>4, <1>5 DEF Live
  <2> QED
    BY <2>1, <1>3 DEF Core, ShutdownIsFinal
<1> QED
  BY <1>3, <1>4, <1>6, <1>8, <1>11, <1>12 DEF Core, CoreTypes

\* Connections in a set F of live ones fail.
LEMMA AllFail ==
  ASSUME Core, NEW F \in SUBSET Conns, F \subseteq Live,
         conn' = [d \in Conns |-> IF d \in F THEN Failed(conn[d]) ELSE conn[d]]
  PROVE  /\ conn' \in [Conns -> Connection]
         /\ \A d \in Conns : Stage(conn'[d])
         /\ Live' = Live
         /\ \A d \in Conns : conn'[d].authenticated = conn[d].authenticated
         /\ \A d \in F : conn'[d].proto = "closing"
         /\ \A d \in Conns \ F : conn'[d] = conn[d]
<1>1. ASSUME NEW d \in F
      PROVE  /\ conn'[d] \in Connection /\ LiveIn(conn'[d]) /\ Stage(conn'[d])
             /\ conn'[d].authenticated = conn[d].authenticated /\ conn'[d].proto = "closing"
  <2>1. conn[d] \in Connection /\ LiveIn(conn[d]) /\ Stage(conn[d])
    BY <1>1 DEF Core, CoreTypes, Live
  <2>2. /\ Failed(conn[d]) \in Connection /\ LiveIn(Failed(conn[d]))
        /\ Failed(conn[d]).proto = "closing" /\ Alike(conn[d], Failed(conn[d]))
    BY <2>1, FailedEffect
  <2>3. Stage(Failed(conn[d]))
    BY <2>1, <2>2 DEF Stage, Alike, LiveIn
  <2>4. conn'[d] = Failed(conn[d])
    BY <1>1
  <2> QED
    BY <2>2, <2>3, <2>4 DEF Alike
<1>2. \A d \in Conns \ F : conn'[d] = conn[d] /\ conn'[d] \in Connection /\ Stage(conn'[d])
  BY DEF Core, CoreTypes
<1>3. conn' \in [Conns -> Connection]
  BY <1>1, <1>2
<1>4. Live' = Live
  BY <1>1, <1>2 DEF Live
<1> QED
  BY <1>1, <1>2, <1>3, <1>4

LEMMA CoreExpire ==
  ASSUME Core, NEW due \in SUBSET Sessions, ExpireSessions(due)
  PROVE  Core'
<1> USE SessionAssumption
<1> DEFINE F == {d \in Conns : \E s \in due : registry.sessions[s] = d}
<1>1. registry \in Registry /\ Paired(registry)
  BY DEF Core, CoreTypes, SessionsMatch
<1>2. /\ conn' = [d \in Conns |-> IF d \in F THEN Failed(conn[d]) ELSE conn[d]]
      /\ registry' = ExpiredDue(registry, due) /\ term' = term
      /\ server = "up" /\ server' = server
  BY DEF ExpireSessions
<1>3. F \subseteq Live
  <2>1. \A d \in F : HasSession(registry, d)
    BY <1>1 DEF Paired, HasSession
  <2> QED
    BY <2>1 DEF Core, SessionsMatch
<1>4. /\ \A d \in F : ~HasSession(registry', d)
      /\ \A d \in Conns \ F : registry'.connectionToSession[d] = registry.connectionToSession[d]
      /\ \A s \in due : registry'.sessions[s] = NoConn
      /\ \A s \in Sessions \ due : registry'.sessions[s] = registry.sessions[s]
      /\ registry' \in Registry
  BY <1>1, <1>2 DEF ExpiredDue, HasSession, Registry
<1>f. \A s \in due : registry.sessions[s] \in Conns => registry.sessions[s] \in F
  OBVIOUS
<1> HIDE DEF F
<1>5. /\ conn' \in [Conns -> Connection]
      /\ \A d \in Conns : Stage(conn'[d])
      /\ Live' = Live
      /\ \A d \in Conns : conn'[d].authenticated = conn[d].authenticated
      /\ \A d \in F : conn'[d].proto = "closing"
      /\ \A d \in Conns \ F : conn'[d] = conn[d]
  <2>1. F \in SUBSET Conns
    BY <1>3 DEF Live
  <2> QED
    BY <2>1, <1>2, <1>3, AllFail
<1>6. Paired(registry')
  <2>1. ASSUME NEW t \in Sessions, registry'.sessions[t] \in Conns
        PROVE  registry'.connectionToSession[registry'.sessions[t]] = t
    <3>1. t \notin due /\ registry'.sessions[t] = registry.sessions[t]
      BY <2>1, <1>4
    <3>2. registry.connectionToSession[registry.sessions[t]] = t
      BY <3>1, <2>1, <1>1 DEF Paired
    <3>3. registry.sessions[t] \notin F
      BY <3>1, <3>2, <1>1 DEF F, Paired
    <3> QED
      BY <3>1, <3>2, <3>3, <2>1, <1>4
  <2>2. ASSUME NEW d \in Conns, HasSession(registry', d)
        PROVE  registry'.sessions[registry'.connectionToSession[d]] = d
    <3>1. d \notin F /\ registry'.connectionToSession[d] = registry.connectionToSession[d]
      BY <2>2, <1>4
    <3>2. /\ registry.connectionToSession[d] \in Sessions
          /\ registry.sessions[registry.connectionToSession[d]] = d
      BY <3>1, <2>2, <1>1 DEF Paired, HasSession, Registry
    <3>3. registry.connectionToSession[d] \notin due
      BY <3>1, <3>2, <1>f
    <3> QED
      BY <3>1, <3>2, <3>3, <1>4
  <2> QED
    BY <2>1, <2>2 DEF Paired
<1>7. ASSUME NEW d \in Conns
      PROVE  /\ HasSession(registry, d)' \/ d \in term' => d \in Live' /\ conn'[d].authenticated
             /\ d \in Live' /\ conn'[d].proto = "ready" =>
                  HasSession(registry, d)' /\ (Backend # "none" => d \in term')
  <2>1. CASE d \in F
    BY <2>1, <1>2, <1>4, <1>5 DEF Core, SessionsMatch
  <2>2. CASE d \notin F
    <3>1. HasSession(registry, d)' = HasSession(registry, d)
      BY <2>2, <1>4 DEF HasSession
    <3> QED
      BY <3>1, <2>2, <1>2, <1>5 DEF Core, SessionsMatch
  <2> QED
    BY <2>1, <2>2
<1>8. SessionsMatch'
  BY <1>6, <1>7 DEF SessionsMatch
<1>9. ShutdownIsFinal'
  BY <1>2 DEF ShutdownIsFinal
<1> QED
  BY <1>2, <1>4, <1>5, <1>8, <1>9 DEF Core, CoreTypes

LEMMA CoreClose ==
  ASSUME Core, Close
  PROVE  Core'
<1>1. /\ conn' = [d \in Conns |-> IF d \in Live THEN Failed(conn[d]) ELSE conn[d]]
      /\ registry' = registry /\ term' = {} /\ server' = "stopping"
  BY DEF Close
<1>2. /\ conn' \in [Conns -> Connection]
      /\ \A d \in Conns : Stage(conn'[d])
      /\ Live' = Live
      /\ \A d \in Conns : conn'[d].authenticated = conn[d].authenticated
      /\ \A d \in Live : conn'[d].proto = "closing"
  <2>1. Live \in SUBSET Conns
    BY DEF Live
  <2> QED
    BY <2>1, <1>1, AllFail
<1>3. SessionsMatch'
  BY <1>1, <1>2 DEF Core, SessionsMatch, Paired, HasSession
<1>4. ShutdownIsFinal'
  BY <1>1, <1>2 DEF ShutdownIsFinal
<1> QED
  BY <1>1, <1>2, <1>3, <1>4 DEF Core, CoreTypes

-----------------------------------------------------------------------------
(* Theorems                                                                *)

LEMMA CoreStep == Core /\ [Next]_vars => Core'
<1> SUFFICES ASSUME Core, [Next]_vars  PROVE Core'
  OBVIOUS
<1>1. CASE UNCHANGED vars
  BY <1>1, CoreStutter DEF vars
<1>2. ASSUME NEW c \in Conns,
             \/ AuthRequest(c) \/ Goodbye(c) \/ ProtocolError(c) \/ AuthTimeout(c)
             \/ IdleTimeout(c) \/ PeerEnds(c) \/ TerminalExits(c)
      PROVE  Core'
  BY <1>2, CoreMoves
<1>3. ASSUME NEW c \in Conns, Accept(c)  PROVE Core'
  BY <1>3, CoreAccept
<1>4. ASSUME NEW c \in Conns, Verified(c)  PROVE Core'
  BY <1>4, CoreVerified
<1>5. ASSUME NEW c \in Conns, SocketClosed(c)  PROVE Core'
  BY <1>5, CoreClosed
<1>6. ASSUME NEW due \in SUBSET Sessions, ExpireSessions(due)  PROVE Core'
  BY <1>6, CoreExpire
<1>7. CASE Close
  BY <1>7, CoreClose
<1>8. CASE Exit
  BY <1>8, CoreStutter DEF Exit
<1>9. CASE Tick
  BY <1>9, CoreStutter DEF Tick
<1> QED
  BY <1>1, <1>2, <1>3, <1>4, <1>5, <1>6, <1>7, <1>8, <1>9 DEF Next

LEMMA GaugedStep == Gauged /\ [Next]_vars => Gauged'
<1> SUFFICES ASSUME Gauged, [Next]_vars  PROVE Gauged'
  OBVIOUS
<1>1. CASE UNCHANGED <<limiter, clock, begun>>
  BY <1>1, GaugedStutter
<1>2. ASSUME NEW c \in Conns, AuthRequest(c)  PROVE Gauged'
  BY <1>2, GaugedAttempt
<1>3. CASE Tick
  BY <1>3, GaugedTick
<1>4. \/ UNCHANGED <<limiter, clock, begun>>
      \/ \E c \in Conns : AuthRequest(c)
      \/ Tick
  BY DEF Next, vars, Accept, Verified, Goodbye, ProtocolError, AuthTimeout, IdleTimeout, PeerEnds,
         SocketClosed, TerminalExits, ExpireSessions, Close, Exit
<1> QED
  BY <1>1, <1>2, <1>3, <1>4

\* How the state of one connection's protocol may change in a step.
Forward(k, m) ==
  m.proto # k.proto =>
    \/ k.proto = "connecting" /\ m.proto = "authenticating"
    \/ k.proto # "connecting" /\ m.proto = "closing"
    \/ /\ k.proto = "authenticating" /\ m.proto = "ready"
       /\ k.verifying /\ ~k.authenticated /\ m.authenticated

LEMMA OrderStep ==
  ASSUME Core, [Next]_vars, NEW c \in Conns
  PROVE  Forward(conn[c], conn'[c])
<1> DEFINE k == conn[c]
<1>0. k \in Connection /\ Stage(k) /\ conn \in [Conns -> Connection]
  BY DEF Core, CoreTypes
<1>1. ASSUME LiveIn(k), conn'[c].proto \in {k.proto, "closing"}  PROVE Forward(k, conn'[c])
  BY <1>0, <1>1 DEF Forward, Stage, LiveIn
<1>2. CASE conn'[c] = k
  BY <1>2 DEF Forward
<1>3. CASE Accept(c)
  <2>1. k.proto = "connecting" /\ conn'[c].proto = "authenticating"
    BY <1>0, <1>3 DEF Accept, Stage, Connection
  <2> QED
    BY <2>1 DEF Forward
<1>4. CASE AuthRequest(c) \/ PeerEnds(c) \/ SocketClosed(c)
  <2>1. LiveIn(k)
    BY <1>4 DEF AuthRequest, PeerEnds, SocketClosed, Reads, LiveIn, Live
  <2>2. Written(k).proto = k.proto
    BY <1>0, <2>1, WrittenEffect
  <2>3. conn'[c].proto = k.proto
    BY <1>0, <1>4, <2>2 DEF AuthRequest, Begins, Refuses, PeerEnds, SocketClosed, Connection
  <2> QED
    BY <1>1, <2>1, <2>3
<1>5. CASE Goodbye(c) \/ IdleTimeout(c)
  <2> DEFINE shut == [k EXCEPT !.proto = "closing"]
  <2>1. LiveIn(k)
    BY <1>5 DEF Goodbye, IdleTimeout, Reads, LiveIn
  <2>2. shut \in Connection /\ LiveIn(shut) /\ shut.proto = "closing"
    BY <1>0, <2>1, ClosingEffect
  <2>3. conn'[c] = Written(shut) \/ conn'[c] = Ended(shut)
    BY <1>0, <1>5 DEF Goodbye, IdleTimeout
  <2> HIDE DEF shut
  <2>4. Written(shut).proto = "closing" /\ Ended(shut).proto = "closing"
    BY <2>2, WrittenEffect, EndedEffect
  <2> QED
    BY <1>1, <2>1, <2>3, <2>4
<1>6. CASE ProtocolError(c) \/ TerminalExits(c)
  <2>1. LiveIn(k)
    BY <1>6 DEF ProtocolError, TerminalExits, Reads, LiveIn, Core, SessionsMatch, Live
  <2>2. conn'[c] = Failed(k)
    BY <1>0, <1>6 DEF ProtocolError, TerminalExits
  <2>3. conn'[c].proto = "closing"
    BY <1>0, <2>1, <2>2, FailedEffect
  <2> QED
    BY <1>1, <2>1, <2>3
<1>7. CASE AuthTimeout(c)
  <2> DEFINE late == [k EXCEPT !.timer = FALSE]
  <2>1. LiveIn(k)
    BY <1>0, <1>7 DEF AuthTimeout, Stage
  <2>2. late \in Connection /\ LiveIn(late)
    BY <1>0, <2>1 DEF Connection, LiveIn
  <2>3. conn'[c] = Failed(late)
    BY <1>0, <1>7 DEF AuthTimeout
  <2> HIDE DEF late
  <2>4. conn'[c].proto = "closing"
    BY <2>2, <2>3, FailedEffect
  <2> QED
    BY <1>1, <2>1, <2>4
<1>8. CASE Verified(c)
  <2>1. k.verifying /\ ~k.authenticated
    BY <1>0, <1>8 DEF Verified, Stage
  <2>2. CASE conn' = [conn EXCEPT ![c].verifying = FALSE]
    BY <1>0, <2>2 DEF Forward, Connection
  <2>3. CASE Crash
    BY <2>3, <1>2 DEF Crash
  <2>4. CASE LiveIn(k) /\ ~Throws(k) /\ Succeeds(c)
    <3> DEFINE in == [k EXCEPT !.verifying = FALSE, !.authenticated = TRUE, !.timer = FALSE]
               ready == [in EXCEPT !.proto = "ready"]
               w == Written(ready)
    <3>1. ready \in Connection /\ LiveIn(ready) /\ ready.proto = "ready" /\ ready.authenticated
      BY <1>0, <2>4 DEF Connection, LiveIn
    <3>2. conn' = [conn EXCEPT ![c] = w] \/ conn' = [conn EXCEPT ![c] = Failed(w)]
      BY <2>4 DEF Succeeds, Start, Ready
    <3> HIDE DEF ready
    <3>3. w \in Connection /\ LiveIn(w) /\ w.proto = "ready" /\ w.authenticated
      BY <3>1, WrittenEffect DEF Alike
    <3> HIDE DEF w
    <3>4. Failed(w).proto = "closing"
      BY <3>3, FailedEffect
    <3>5. k.proto = "authenticating"
      BY <2>4 DEF Throws
    <3> QED
      BY <1>0, <2>1, <3>2, <3>3, <3>4, <3>5 DEF Forward
  <2>5. CASE LiveIn(k) /\ conn' = [conn EXCEPT ![c] = Written([@ EXCEPT !.verifying = FALSE])]
    <3> DEFINE done == [k EXCEPT !.verifying = FALSE]
    <3>1. done \in Connection /\ LiveIn(done) /\ done.proto = k.proto
      BY <1>0, <2>5 DEF Connection, LiveIn
    <3>2. conn'[c] = Written(done)
      BY <1>0, <2>5
    <3> HIDE DEF done
    <3>3. conn'[c].proto = k.proto
      BY <3>1, <3>2, WrittenEffect
    <3> QED
      BY <1>1, <2>5, <3>3
  <2> QED
    BY <2>2, <2>3, <2>4, <2>5, <1>8 DEF Verified
<1>9. ASSUME NEW due \in SUBSET Sessions, ExpireSessions(due)  PROVE Forward(k, conn'[c])
  <2>1. CASE \E s \in due : registry.sessions[s] = c
    <3>1. LiveIn(k)
      BY <2>1, SessionAssumption DEF Core, SessionsMatch, Paired, HasSession, Live
    <3>2. conn'[c] = Failed(k)
      BY <1>9, <2>1 DEF ExpireSessions
    <3>3. conn'[c].proto = "closing"
      BY <1>0, <3>1, <3>2, FailedEffect
    <3> QED
      BY <1>1, <3>1, <3>3
  <2>2. CASE ~\E s \in due : registry.sessions[s] = c
    BY <1>2, <1>9, <2>2 DEF ExpireSessions
  <2> QED
    BY <2>1, <2>2
<1>10. CASE Close
  <2>1. CASE c \in Live
    <3>1. LiveIn(k) /\ conn'[c] = Failed(k)
      BY <1>10, <2>1 DEF Close, Live
    <3>2. conn'[c].proto = "closing"
      BY <1>0, <3>1, FailedEffect
    <3> QED
      BY <1>1, <3>1, <3>2
  <2>2. CASE c \notin Live
    BY <1>2, <1>10, <2>2 DEF Close
  <2> QED
    BY <2>1, <2>2
<1>11. CASE UNCHANGED conn
  BY <1>2, <1>11
<1>12. ASSUME NEW d \in Conns, d # c,
              \/ Accept(d) \/ AuthRequest(d) \/ Verified(d) \/ Goodbye(d) \/ ProtocolError(d)
              \/ AuthTimeout(d) \/ IdleTimeout(d) \/ PeerEnds(d) \/ SocketClosed(d)
              \/ TerminalExits(d)
       PROVE  Forward(k, conn'[c])
  <2>1. conn'[c] = k
    BY <1>0, <1>12 DEF Accept, AuthRequest, Begins, Refuses, Verified, Crash, Succeeds, Start,
       Goodbye, ProtocolError, AuthTimeout, IdleTimeout, PeerEnds, SocketClosed, TerminalExits
  <2> QED
    BY <2>1, <1>2
<1> QED
  BY <1>3, <1>4, <1>5, <1>6, <1>7, <1>8, <1>9, <1>10, <1>11, <1>12 DEF Next, vars, Exit, Tick

\* The invariant that is inductive holds in every reachable state.
THEOREM Inductive == Spec => []IInv
<1>1. Init => IInv
  BY CoreInit, GaugedInit DEF IInv
<1>2. IInv /\ [Next]_vars => IInv'
  BY CoreStep, GaugedStep DEF IInv
<1> QED
  BY <1>1, <1>2, PTL DEF Spec

\* The server's state is always well typed: no connection makes more attempts than allowed.
THEOREM TypeCorrect == Spec => []TypeOK
<1>1. IInv => TypeOK
  BY DEF IInv, Core, CoreTypes, Gauged, GaugeTypes, TypeOK
<1> QED
  BY <1>1, Inductive, PTL

\* Sessions, terminals and connections match (connection.ts:393-405, server.ts:141-151).
THEOREM SessionsMatchAlways == Spec => []SessionsMatch
<1>1. IInv => SessionsMatch
  BY DEF IInv, Core
<1> QED
  BY <1>1, Inductive, PTL

\* After close() nothing is served any more (server.ts:163-180).
THEOREM ShutdownStays == Spec => []ShutdownIsFinal
<1>1. IInv => ShutdownIsFinal
  BY DEF IInv, Core
<1> QED
  BY <1>1, Inductive, PTL

\* Any interval as long as the window sees at most twice the limit of attempts begin, of all
\* clients and of each address (rate-limit.ts:26-51).
THEOREM PressureStaysBounded == Spec => []PressureBounded
<1>1. IInv => PressureBounded
  BY DEF IInv, Gauged, Windowed, PressureBounded
<1> QED
  BY <1>1, Inductive, PTL

\* The protocol state only moves forward, and to ready only by verified credentials
\* (protocol.ts:31).
THEOREM MovesForward == Spec => ProtocolOrder
<1>1. IInv /\ [Next]_vars =>
        [\A c \in Conns : conn'[c].proto # conn[c].proto =>
           \/ conn[c].proto = "connecting" /\ conn'[c].proto = "authenticating"
           \/ conn[c].proto # "connecting" /\ conn'[c].proto = "closing"
           \/ /\ conn[c].proto = "authenticating" /\ conn'[c].proto = "ready"
              /\ conn[c].verifying /\ ~conn[c].authenticated /\ conn'[c].authenticated]_vars
  BY OrderStep DEF IInv, Forward
<1> QED
  BY <1>1, Inductive, PTL DEF Spec, ProtocolOrder
=============================================================================
