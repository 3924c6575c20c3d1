----------------------------- MODULE PageProofs -----------------------------
(***************************************************************************)
(* The page and the login behind it.  At the relay (Login), logins are     *)
(* throttled however requests overlap, and the store of HTTP sessions      *)
(* evicts the least used, for any number of addresses and any limits.  In  *)
(* the browser (WebApp), for any number of tabs, records and sign-ins, no  *)
(* two tabs are for one session, a working tab stays in sight, and polling *)
(* follows signing in and out.                                             *)
(***************************************************************************)
EXTENDS Login, WebApp, FiniteSetTheorems, WellFoundedInduction, TLAPS

\* The failed logins f of one address, of which those at s began windows: each is among
\* the first WindowMost of its window, and windows begin at least a window apart.
Windowed(f, s) ==
  /\ s \subseteq 1 .. Len(f)
  /\ \A k \in 1 .. Len(f) : f[k] <= clock
  /\ \A i, k \in 1 .. Len(f) : i <= k => f[i] <= f[k]
  /\ \A k \in 1 .. Len(f) : \E j \in s : k - WindowMost < j /\ j <= k
  /\ \A i, j \in s : i < j => f[j] - f[i] >= Window

\* What an entry e of the throttle, with p requests under way, says of them: it counts
\* those of the last window, and there is none once the last window has elapsed.
Counts(e, p, f, s) ==
  /\ p <= Overlap
  /\ e.count + p <= WindowMost
  /\ e.count > 0 => /\ e.count <= Len(f)
                    /\ Len(f) - e.count + 1 \in s
                    /\ e.windowStart = f[Len(f) - e.count + 1]
                    /\ \A j \in s : j <= Len(f) - e.count + 1
  /\ e.count = 0 => \A j \in s : clock - f[j] >= Window

Throttled ==
  \A a \in Addresses : /\ Windowed(failures[a], starts[a])
                       /\ Counts(entry[a], pending[a], failures[a], starts[a])

IInv == TypeOK /\ Throttled

-----------------------------------------------------------------------------
(* Types                                                                   *)

\* The limits of the throttle and of the store, one by one.
LEMMA Limits ==
  /\ MaxAttempts \in Nat /\ MaxAttempts > 0
  /\ Window \in Nat /\ Window > 0
  /\ MaxSessions \in Nat /\ MaxSessions > 0
  /\ EvictBatch \in Nat /\ EvictBatch > 0 /\ EvictBatch <= MaxSessions
  /\ Overlap \in Nat /\ Overlap > 0
  /\ Lock \in Nat /\ MaxClock \in Nat /\ MaxTokens \in Nat
<1>1. \A n \in {MaxAttempts, Window, MaxSessions, EvictBatch, Overlap} : n \in Nat /\ n > 0
  <2>1. \A n \in Nat \ {0} : n \in Nat /\ n > 0
    OBVIOUS
  <2>2. QED BY <2>1, LoginAssumption, Zenon
<1>2. \A n \in {Lock, MaxClock, MaxTokens} : n \in Nat
  BY LoginAssumption, Zenon
<1>3. EvictBatch <= MaxSessions
  BY LoginAssumption
<1>4. QED BY <1>1, <1>2, <1>3, Zenon

LEMMA TypesHold == TypeOK /\ [Next]_vars => TypeOK'
<1> SUFFICES ASSUME TypeOK, [Next]_vars PROVE TypeOK'
  OBVIOUS
<1> USE Limits DEF TypeOK, Entry, Tokens
<1>1. CASE UNCHANGED vars
  BY <1>1 DEF vars, http, past
<1>2. ASSUME NEW a \in Addresses, LoginRequest(a) PROVE TypeOK'
  <2>1. Tested(entry[a]) \in Entry /\ pending[a] + 1 \in 0 .. Overlap
    BY <1>2 DEF LoginRequest, Tested, NoEntry
  <2>2. entry' \in [Addresses -> Entry] /\ pending' \in [Addresses -> 0 .. Overlap]
    BY <1>2, <2>1 DEF LoginRequest
  <2> QED
    BY <1>2, <2>2 DEF LoginRequest, http, past
<1>0. ASSUME NEW a \in Addresses, Answered(a)
      PROVE  pending' \in [Addresses -> 0 .. Overlap] /\ clock' = clock
  <2>1. pending[a] - 1 \in 0 .. Overlap
    BY <1>0 DEF Answered
  <2> QED
    BY <1>0, <2>1 DEF Answered
<1>3. ASSUME NEW a \in Addresses, LoginRefused(a) PROVE TypeOK'
  BY <1>0, <1>3 DEF LoginRefused, http, past
<1>4. ASSUME NEW a \in Addresses, LoginFails(a) PROVE TypeOK'
  <2>1. Failed(entry[a]) \in Entry
    BY DEF Failed
  <2>2. failures' \in [Addresses -> Seq(Nat)] /\ starts' \in [Addresses -> SUBSET Nat]
    BY <1>4 DEF LoginFails
  <2> QED
    BY <1>0, <1>4, <2>1, <2>2 DEF LoginFails, http
<1>5. ASSUME NEW a \in Addresses, LoginSucceeds(a) PROVE TypeOK'
  <2>1. issued' = issued + 1 /\ issued' \in 0 .. MaxTokens
    BY <1>5 DEF LoginSucceeds
  <2>2. store' \subseteq 1 .. issued'
    <3>1. issued \in Nat /\ 1 .. issued \subseteq 1 .. issued + 1 /\ issued + 1 \in 1 .. issued + 1
      OBVIOUS
    <3> QED
      BY <1>5, <2>1, <3>1 DEF LoginSucceeds
  <2>3. seen' \in [Tokens -> Nat]
    BY <1>5 DEF LoginSucceeds
  <2> QED
    BY <1>0, <1>5, <2>1, <2>2, <2>3 DEF LoginSucceeds, past
<1>6. ASSUME NEW t \in store, Use(t) PROVE TypeOK'
  BY <1>6 DEF Use, past
<1>7. ASSUME NEW t \in store, Logout(t) PROVE TypeOK'
  BY <1>7 DEF Logout, past
<1>8. CASE Tick
  BY <1>8 DEF Tick, http, past
<1> QED
  BY <1>1, <1>2, <1>3, <1>4, <1>5, <1>6, <1>7, <1>8 DEF Next

-----------------------------------------------------------------------------
(* The throttle                                                            *)

\* Time only makes windows elapse.
LEMMA TimePasses ==
  ASSUME TypeOK, Throttled, clock' \in Nat, clock' >= clock,
         UNCHANGED <<entry, pending, past>>
  PROVE  Throttled'
<1> SUFFICES ASSUME NEW a \in Addresses
             PROVE  /\ Windowed(failures[a], starts[a])'
                    /\ Counts(entry[a], pending[a], failures[a], starts[a])'
  BY DEF Throttled
<1> DEFINE f == failures[a]
           s == starts[a]
<1>1. f \in Seq(Nat) /\ s \subseteq 1 .. Len(f) /\ clock \in Nat
  BY DEF TypeOK, Throttled, Windowed
<1>2. Windowed(f, s) /\ Counts(entry[a], pending[a], f, s)
  BY DEF Throttled
<1>3. Windowed(f, s)'
  BY <1>1, <1>2 DEF Windowed, past, WindowMost
<1>4. Counts(entry[a], pending[a], f, s)'
  <2>1. \A j \in s : f[j] \in Nat
    BY <1>1
  <2>2. ASSUME NEW j \in s, clock - f[j] >= Window PROVE clock' - f[j] >= Window
    <3>1. f[j] \in Nat /\ clock \in Nat /\ clock' \in Nat /\ clock' >= clock /\ Window \in Nat
      BY <1>1, <2>1, Limits
    <3> QED
      BY <2>2, <3>1
  <2> QED
    BY <1>2, <2>2 DEF Counts, past, WindowMost
<1> QED
  BY <1>3, <1>4

\* One more failed login of an address.
LEMMA FailureCounts ==
  ASSUME TypeOK, NEW a \in Addresses, LoginFails(a),
         Windowed(failures[a], starts[a]),
         Counts(entry[a], pending[a], failures[a], starts[a])
  PROVE  /\ Windowed(failures[a], starts[a])'
         /\ Counts(entry[a], pending[a], failures[a], starts[a])'
<1> DEFINE f == failures[a]
           s == starts[a]
           e == entry[a]
           n == Len(f)
           g == Append(f, clock)
<1>1. f \in Seq(Nat) /\ n \in Nat /\ clock \in Nat /\ e \in Entry /\ s \subseteq 1 .. n
      /\ pending[a] \in Nat /\ pending[a] > 0
  BY DEF TypeOK, Windowed, LoginFails, Answered
<1>2. /\ failures'[a] = g /\ pending'[a] = pending[a] - 1 /\ clock' = clock
      /\ entry'[a] = Failed(e)
      /\ starts'[a] = IF BeginsWindow(e) THEN s \cup {n + 1} ELSE s
  BY DEF LoginFails, Answered, TypeOK
<1>3. g \in Seq(Nat) /\ Len(g) = n + 1 /\ g[n + 1] = clock
      /\ \A k \in 1 .. n : g[k] = f[k] /\ f[k] \in Nat
  BY <1>1
<1>4. \A k \in 1 .. n : f[k] <= clock
  BY DEF Windowed
<1>5. WindowMost \in Nat /\ WindowMost > 0 /\ Overlap <= WindowMost
      /\ Overlap \in Nat /\ Window \in Nat /\ MaxAttempts \in Nat
  BY Limits DEF WindowMost
<1>6. CASE BeginsWindow(e)
  <2>1. \A j \in s : clock - f[j] >= Window
    <3>1. CASE e.count = 0
      BY <3>1 DEF Counts
    <3>2. CASE e.count # 0
      <4> DEFINE m == n - e.count + 1
      <4>1. e.count > 0 /\ e.count <= n /\ m \in s /\ e.windowStart = f[m] /\ \A j \in s : j <= m
        BY <1>1, <3>2 DEF Counts, Entry
      <4>2. \A j \in s : f[j] <= f[m] /\ f[j] \in Nat /\ f[m] \in Nat
        BY <1>1, <1>3, <4>1 DEF Windowed
      <4>3. clock - f[m] >= Window
        BY <1>6, <3>2, <4>1 DEF BeginsWindow, Elapsed
      <4> QED
        <5> SUFFICES ASSUME NEW j \in s PROVE clock - f[j] >= Window
          OBVIOUS
        <5>1. f[j] <= f[m] /\ f[j] \in Nat /\ f[m] \in Nat
          BY <4>2
        <5>2. clock \in Nat /\ Window \in Nat
          BY Limits DEF TypeOK
        <5> HIDE DEF f, g, m, n, s
        <5> QED
          BY <4>3, <5>1, <5>2
    <3> QED
      BY <3>1, <3>2
  <2>2. Windowed(g, s \cup {n + 1})
    <3> DEFINE z == s \cup {n + 1}
    <3>1. z \subseteq 1 .. Len(g) /\ \A k \in 1 .. Len(g) : g[k] \in Nat /\ g[k] <= clock
      BY <1>1, <1>3, <1>4
    <3>2. \A i, k \in 1 .. Len(g) : i <= k => g[i] <= g[k]
      <4> SUFFICES ASSUME NEW i \in 1 .. n + 1, NEW k \in 1 .. n + 1, i <= k
                   PROVE  g[i] <= g[k]
        BY <1>3
      <4>1. CASE k = n + 1
        BY <1>3, <3>1, <4>1
      <4>2. CASE k # n + 1
        BY <1>1, <1>3, <4>2 DEF Windowed
      <4> QED
        BY <4>1, <4>2
    <3>3. \A k \in 1 .. Len(g) : \E j \in z : k - WindowMost < j /\ j <= k
      <4> SUFFICES ASSUME NEW k \in 1 .. n + 1
                   PROVE  \E j \in z : k - WindowMost < j /\ j <= k
        BY <1>3
      <4>1. CASE k = n + 1
        BY <1>1, <1>5, <4>1
      <4>2. CASE k # n + 1
        <5>1. \E j \in s : k - WindowMost < j /\ j <= k
          <6>1. k \in 1 .. n
            BY <1>1, <4>2
          <6> QED
            BY <6>1 DEF Windowed
        <5> QED
          BY <5>1
      <4> QED
        BY <4>1, <4>2
    <3>4. \A i, j \in z : i < j => g[j] - g[i] >= Window
      <4> SUFFICES ASSUME NEW i \in z, NEW j \in z, i < j PROVE g[j] - g[i] >= Window
        OBVIOUS
      <4>1. i \in s /\ i \in 1 .. n /\ g[i] = f[i]
        BY <1>1, <1>3
      <4>2. CASE j \in s
        BY <1>1, <1>3, <4>1, <4>2 DEF Windowed
      <4>3. CASE j = n + 1
        BY <1>3, <2>1, <4>1, <4>3
      <4> QED
        BY <4>2, <4>3
    <3> QED
      BY <3>1, <3>2, <3>3, <3>4 DEF Windowed
  <2>3. Failed(e).count = 1 /\ Failed(e).windowStart = clock
    BY <1>6 DEF Failed
  <2>4. Counts(Failed(e), pending[a] - 1, g, s \cup {n + 1})
    BY <1>1, <1>3, <1>5, <2>3 DEF Counts
  <2> QED
    BY <1>2, <1>6, <2>2, <2>4 DEF Windowed, Counts, WindowMost
<1>7. CASE ~BeginsWindow(e)
  <2>1. e.count > 0 /\ e.count <= n /\ n - e.count + 1 \in s
        /\ e.windowStart = f[n - e.count + 1] /\ \A j \in s : j <= n - e.count + 1
    BY <1>1, <1>7 DEF BeginsWindow, Counts, Entry
  <2>2. Failed(e).count = e.count + 1 /\ Failed(e).windowStart = e.windowStart
    BY <1>7 DEF Failed
  <2>3. e.count + 1 + (pending[a] - 1) <= WindowMost
    BY <1>1, <1>5 DEF Counts, Entry
  <2>4. Windowed(g, s)
    <3>1. s \subseteq 1 .. Len(g) /\ \A k \in 1 .. Len(g) : g[k] \in Nat /\ g[k] <= clock
      BY <1>1, <1>3, <1>4
    <3>2. \A i, k \in 1 .. Len(g) : i <= k => g[i] <= g[k]
      <4> SUFFICES ASSUME NEW i \in 1 .. n + 1, NEW k \in 1 .. n + 1, i <= k
                   PROVE  g[i] <= g[k]
        BY <1>3
      <4>1. CASE k = n + 1
        BY <1>3, <3>1, <4>1
      <4>2. CASE k # n + 1
        BY <1>1, <1>3, <4>2 DEF Windowed
      <4> QED
        BY <4>1, <4>2
    <3>3. n + 1 - WindowMost < n - e.count + 1 /\ n - e.count + 1 <= n + 1
      <4>1. e.count \in Nat /\ pending[a] \in Nat /\ n \in Nat /\ WindowMost \in Nat
            /\ pending[a] > 0 /\ e.count + 1 + (pending[a] - 1) <= WindowMost
        BY <1>1, <1>5, <2>3 DEF Entry
      <4> HIDE DEF n, e
      <4> QED
        BY <4>1
    <3>4. \A k \in 1 .. n : \E j \in s : k - WindowMost < j /\ j <= k
      BY DEF Windowed
    <3>5. \A k \in 1 .. Len(g) : \E j \in s : k - WindowMost < j /\ j <= k
      <4> SUFFICES ASSUME NEW k \in 1 .. n + 1
                   PROVE  \E j \in s : k - WindowMost < j /\ j <= k
        BY <1>3
      <4>1. CASE k = n + 1
        <5>1. n - e.count + 1 \in s
          BY <2>1
        <5>2. k - WindowMost < n - e.count + 1 /\ n - e.count + 1 <= k
          <6>1. n \in Nat /\ e.count \in Nat /\ WindowMost \in Nat
            BY <1>1, <1>5 DEF Entry
          <6> HIDE DEF n, e
          <6> QED
            BY <3>3, <4>1, <6>1
        <5> HIDE DEF n, e, s
        <5> QED
          BY <5>1, <5>2
      <4>2. CASE k # n + 1
        <5>1. k \in 1 .. n
          BY <1>1, <4>2
        <5> QED
          BY <3>4, <5>1
      <4> QED
        BY <4>1, <4>2
    <3>6. \A i, j \in s : i < j => g[j] - g[i] >= Window
      BY <1>1, <1>3 DEF Windowed
    <3> QED
      BY <3>1, <3>2, <3>5, <3>6 DEF Windowed
  <2>5. Counts(Failed(e), pending[a] - 1, g, s)
    <3>1. e.count \in Nat /\ n + 1 - (e.count + 1) + 1 = n - e.count + 1
      BY <1>1 DEF Entry
    <3>2. n - e.count + 1 \in 1 .. n
      BY <1>1, <2>1
    <3>3. pending[a] - 1 <= Overlap
      BY <1>1, <1>5 DEF Counts
    <3>4. g[n - e.count + 1] = f[n - e.count + 1]
      BY <1>3, <3>2
    <3>5. Failed(e).count > 0 /\ Failed(e).count <= Len(g)
          /\ Len(g) - Failed(e).count + 1 = n - e.count + 1
      <4>1. Len(g) = n + 1 /\ Failed(e).count = e.count + 1 /\ e.count \in Nat /\ n \in Nat
            /\ e.count <= n
        BY <1>1, <1>3, <2>1, <2>2, <3>1
      <4> DEFINE after == Failed(e).count
                 before == e.count
                 length == Len(g)
      <4>2. after = before + 1 /\ length = n + 1 /\ before <= n /\ before \in Nat /\ n \in Nat
        BY <4>1
      <4> HIDE DEF after, before, length, g, n, e
      <4>3. after > 0 /\ after <= length /\ length - after + 1 = n - before + 1
        BY <4>2
      <4> QED
        BY <4>3 DEF after, before, length
    <3> HIDE DEF g, n, e, s
    <3> QED
      BY <2>1, <2>2, <2>3, <3>3, <3>4, <3>5 DEF Counts
  <2> QED
    BY <1>2, <1>7, <2>4, <2>5 DEF Windowed, Counts, WindowMost
<1> QED
  BY <1>6, <1>7

LEMMA ThrottleHolds == IInv /\ [Next]_vars => Throttled'
<1> SUFFICES ASSUME IInv, [Next]_vars PROVE Throttled'
  OBVIOUS
<1> USE DEF IInv
<1>0. WindowMost \in Nat /\ WindowMost = MaxAttempts - 1 + Overlap
      /\ Overlap \in Nat /\ Window \in Nat /\ MaxAttempts \in Nat
  BY Limits DEF WindowMost
<1>1. ASSUME UNCHANGED <<clock, entry, pending, past>> PROVE Throttled'
  BY <1>1 DEF Throttled, Windowed, Counts, past, WindowMost
<1>2. ASSUME NEW a \in Addresses, LoginRequest(a) PROVE Throttled'
  <2>1. UNCHANGED <<clock, failures, starts>>
    BY <1>2 DEF LoginRequest, past
  <2>2. ASSUME NEW b \in Addresses PROVE Windowed(failures[b], starts[b])'
    BY <2>1 DEF Throttled, Windowed, WindowMost
  <2>3. ASSUME NEW b \in Addresses \ {a}
        PROVE  Counts(entry[b], pending[b], failures[b], starts[b])'
    <3>1. entry'[b] = entry[b] /\ pending'[b] = pending[b]
      BY <1>2, <2>3 DEF LoginRequest, TypeOK
    <3> QED
      BY <2>1, <3>1 DEF Throttled, Counts, WindowMost
  <2>4. Counts(entry[a], pending[a], failures[a], starts[a])'
    <3> DEFINE f == failures[a]
               s == starts[a]
               e == entry[a]
    <3>1. /\ entry'[a] = Tested(e) /\ pending'[a] = pending[a] + 1
          /\ pending[a] < Overlap /\ pending[a] \in Nat /\ e \in Entry /\ clock \in Nat
          /\ f \in Seq(Nat) /\ s \subseteq 1 .. Len(f)
      BY <1>2 DEF LoginRequest, TypeOK, Throttled, Windowed
    <3>2. Counts(e, pending[a], f, s) /\ Windowed(f, s)
      BY DEF Throttled
    <3>3. CASE Tested(e) = NoEntry /\ e.count > 0 /\ Elapsed(e)
      <4> DEFINE m == Len(f) - e.count + 1
      <4>1. m \in s /\ e.windowStart = f[m] /\ \A j \in s : j <= m
        BY <3>2, <3>3 DEF Counts
      <4>2. \A j \in s : f[j] <= f[m] /\ f[j] \in Nat /\ f[m] \in Nat
        <5>1. m \in 1 .. Len(f) /\ \A j \in s : j \in 1 .. Len(f) /\ j <= m
          BY <3>1, <4>1
        <5> QED
          <6>1. \A j \in 1 .. Len(f) : f[j] \in Nat
            BY <3>1
          <6>2. \A i, k \in 1 .. Len(f) : i <= k => f[i] <= f[k]
            BY <3>2 DEF Windowed
          <6> HIDE DEF f, s, m
          <6> QED
            BY <5>1, <6>1, <6>2
      <4>3. \A j \in s : clock - f[j] >= Window
        <5>1. clock - f[m] >= Window
          BY <3>3, <4>1 DEF Elapsed
        <5> QED
          <6>1. clock \in Nat /\ Window \in Nat
            BY <1>0, <3>1
          <6> HIDE DEF f, s, m
          <6> QED
            BY <4>2, <5>1, <6>1
      <4>4. Counts(NoEntry, pending[a] + 1, f, s)
        BY <1>0, <3>1, <4>3, Limits DEF Counts, NoEntry
      <4> QED
        BY <2>1, <3>1, <3>3, <4>4 DEF Counts, WindowMost
    <3>4. CASE Tested(e) = e /\ e.count < MaxAttempts
      <4>1. Counts(e, pending[a] + 1, f, s)
        <5>1. e.count + (pending[a] + 1) <= WindowMost /\ pending[a] + 1 <= Overlap
          <6> DEFINE c == e.count
                     p == pending[a]
                     W == WindowMost
          <6>1. c \in Nat /\ c < MaxAttempts /\ p \in Nat /\ p < Overlap
            BY <3>1, <3>4 DEF Entry
          <6>2. W = MaxAttempts - 1 + Overlap /\ Overlap \in Nat /\ MaxAttempts \in Nat
            BY <1>0
          <6> HIDE DEF c, p, W
          <6>3. c + (p + 1) <= W /\ p + 1 <= Overlap
            BY <6>1, <6>2
          <6> QED
            BY <6>3 DEF c, p, W
        <5> QED
          BY <3>2, <5>1 DEF Counts
      <4> QED
        BY <2>1, <3>1, <3>4, <4>1 DEF Counts, WindowMost
    <3>5. LoginAllowed(e)
      BY <1>2 DEF LoginRequest
    <3> QED
      BY <3>1, <3>3, <3>4, <3>5, Limits DEF Tested, LoginAllowed, Entry
  <2> QED
    BY <2>2, <2>3, <2>4 DEF Throttled
<1>3. ASSUME NEW a \in Addresses, Answered(a), UNCHANGED <<entry, past>> PROVE Throttled'
  <2>1. ASSUME NEW b \in Addresses
        PROVE  pending'[b] \in Nat /\ pending'[b] <= pending[b] /\ pending[b] \in Nat
    BY <1>3 DEF Answered, TypeOK
  <2>2. ASSUME NEW b \in Addresses
        PROVE  /\ Windowed(failures[b], starts[b])'
               /\ Counts(entry[b], pending[b], failures[b], starts[b])'
    <3>1. clock' = clock /\ entry' = entry /\ failures' = failures /\ starts' = starts
      BY <1>3 DEF Answered, past
    <3>2. Windowed(failures[b], starts[b]) /\ Counts(entry[b], pending[b], failures[b], starts[b])
      BY DEF Throttled
    <3>3. pending'[b] <= Overlap /\ entry[b].count + pending'[b] <= WindowMost
      <4>1. pending[b] <= Overlap /\ entry[b].count + pending[b] <= WindowMost
            /\ entry[b].count \in Nat
        BY <3>2 DEF Counts, TypeOK, Entry
      <4> QED
        BY <1>0, <2>1, <4>1
    <3> QED
      BY <3>1, <3>2, <3>3 DEF Windowed, Counts, WindowMost
  <2> QED
    BY <2>2 DEF Throttled
<1>4. ASSUME NEW a \in Addresses, LoginFails(a) PROVE Throttled'
  <2>1. ASSUME NEW b \in Addresses \ {a}
        PROVE  /\ Windowed(failures[b], starts[b])'
               /\ Counts(entry[b], pending[b], failures[b], starts[b])'
    <3>1. /\ entry'[b] = entry[b] /\ pending'[b] = pending[b] /\ clock' = clock
          /\ failures'[b] = failures[b] /\ starts'[b] = starts[b]
      BY <1>4, <2>1 DEF LoginFails, Answered, TypeOK
    <3> QED
      BY <3>1 DEF Throttled, Windowed, Counts, WindowMost
  <2> QED
    BY <1>4, <2>1, FailureCounts DEF Throttled
<1>5. ASSUME NEW a \in Addresses, LoginRefused(a) PROVE Throttled'
  BY <1>3, <1>5 DEF LoginRefused
<1>6. ASSUME NEW a \in Addresses, LoginSucceeds(a) PROVE Throttled'
  BY <1>3, <1>6 DEF LoginSucceeds
<1>7. ASSUME NEW t \in store, Use(t) \/ Logout(t) PROVE Throttled'
  BY <1>1, <1>7 DEF Use, Logout
<1>8. CASE Tick
  BY <1>8, TimePasses DEF Tick, TypeOK
<1>9. CASE UNCHANGED vars
  BY <1>1, <1>9 DEF vars
<1> QED
  BY <1>2, <1>4, <1>5, <1>6, <1>7, <1>8, <1>9 DEF Next

\* Throttled makes TypeOK inductive no more than it has to: it holds of every reachable
\* state, and it is what AttemptsBounded follows from.
THEOREM Inductive == Spec => []IInv
<1>1. Init => IInv
  <2> SUFFICES ASSUME Init PROVE IInv
    OBVIOUS
  <2>1. TypeOK
    BY Limits DEF Init, TypeOK, Entry, NoEntry, Tokens
  <2>2. ASSUME NEW a \in Addresses
        PROVE  failures[a] = <<>> /\ starts[a] = {} /\ pending[a] = 0 /\ entry[a].count = 0
    BY DEF Init, NoEntry
  <2>3. Overlap \in Nat /\ WindowMost \in Nat
    BY Limits DEF WindowMost
  <2>4. Throttled
    BY <2>2, <2>3 DEF Throttled, Windowed, Counts
  <2> QED
    BY <2>1, <2>4 DEF IInv
<1>2. IInv /\ [Next]_vars => IInv'
  BY TypesHold, ThrottleHolds DEF IInv
<1> QED
  BY <1>1, <1>2, PTL DEF Spec

\* The variables of signing in keep their types.
THEOREM TypeCorrect == Spec => []TypeOK
<1>1. IInv => TypeOK
  BY DEF IInv
<1> QED
  BY <1>1, Inductive, PTL

\* Windows of at most WindowMost failures begin a window apart, so a failure that comes
\* twice as many (less one) after another comes after the second beginning since then.
LEMMA WindowsBound ==
  ASSUME TypeOK, NEW a \in Addresses, Windowed(failures[a], starts[a]),
         NEW i \in 1 .. Len(failures[a]), NEW k \in 1 .. Len(failures[a]),
         k - i >= 2 * WindowMost - 1
  PROVE  failures[a][k] - failures[a][i] >= Window
<1> DEFINE f == failures[a]
           s == starts[a]
           W == WindowMost
<1>1. /\ s \subseteq 1 .. Len(f)
      /\ \A m, n \in 1 .. Len(f) : m <= n => f[m] <= f[n]
      /\ \A m \in 1 .. Len(f) : \E j \in s : m - W < j /\ j <= m
      /\ \A m, n \in s : m < n => f[n] - f[m] >= Window
  BY DEF Windowed
<1>2. Len(f) \in Nat /\ \A m \in 1 .. Len(f) : f[m] \in Nat
  BY DEF TypeOK
<1>3. W \in Nat /\ W > 0 /\ Window \in Nat
  BY Limits DEF WindowMost
<1> HIDE DEF f, s, W
<1>4. i + W - 1 \in 1 .. Len(f) /\ i + W - 1 <= k - W
  <2>1. i \in Nat /\ k \in Nat /\ i >= 1 /\ k <= Len(f) /\ k - i >= 2 * W - 1
    BY <1>2 DEF f, W
  <2> QED
    BY <1>2, <1>3, <2>1
<1>5. PICK j \in s : (i + W - 1) - W < j /\ j <= i + W - 1
  BY <1>1, <1>4
<1>6. PICK l \in s : k - W < l /\ l <= k
  BY <1>1 DEF f
<1>7. j \in 1 .. Len(f) /\ l \in 1 .. Len(f) /\ i \in 1 .. Len(f) /\ k \in 1 .. Len(f)
  BY <1>1 DEF f
<1>8. i <= j /\ j < l
  BY <1>2, <1>3, <1>4, <1>5, <1>6, <1>7
<1>9. f[i] <= f[j] /\ f[l] - f[j] >= Window /\ f[l] <= f[k]
  BY <1>1, <1>6, <1>7, <1>8
<1>10. {f[i], f[j], f[l], f[k]} \subseteq Nat
  BY <1>2, <1>7
<1>11. f[k] - f[i] >= Window
  BY <1>3, <1>9, <1>10
<1> QED
  BY <1>11 DEF f

\* The failed logins of an address within less than a window are bounded, however many
\* requests overlap (api.ts:147, :176).
THEOREM AttemptsStayBounded == Spec => []AttemptsBounded
<1>1. IInv => AttemptsBounded
  <2> SUFFICES ASSUME IInv, NEW a \in Addresses, NEW i \in DOMAIN failures[a],
                      NEW k \in DOMAIN failures[a], k - i >= 2 * WindowMost - 1
               PROVE  failures[a][k] - failures[a][i] >= Window
    BY DEF AttemptsBounded
  <2>1. failures[a] \in Seq(Nat) /\ Windowed(failures[a], starts[a])
    BY DEF IInv, TypeOK, Throttled
  <2> QED
    <3>1. TypeOK /\ i \in 1 .. Len(failures[a]) /\ k \in 1 .. Len(failures[a])
      BY <2>1 DEF IInv
    <3> QED
      BY <2>1, <3>1, WindowsBound
<1> QED
  BY <1>1, Inductive, PTL

-----------------------------------------------------------------------------
(* The session store                                                       *)

LEMMA StoreFinite == TypeOK => IsFiniteSet(store) /\ Cardinality(store) \in Nat
<1> SUFFICES ASSUME TypeOK PROVE IsFiniteSet(store) /\ Cardinality(store) \in Nat
  OBVIOUS
<1>1. IsFiniteSet(1 .. issued)
  BY FS_Interval DEF TypeOK
<1>2. IsFiniteSet(store)
  BY <1>1, FS_Subset DEF TypeOK
<1> QED
  BY <1>2, FS_CardinalityType

\* What makes room was used no later than the sessions that stay and one more.
LEMMA EvictedLeastUsed ==
  ASSUME TypeOK, NEW t \in Evicted
  PROVE  Cardinality({u \in store : seen[u] >= seen[t]}) > MaxSessions - EvictBatch
<1> DEFINE A == {u \in store : Before(u, t)}
           B == {u \in store : seen[u] >= seen[t]}
<1>1. t \in store /\ ~(Cardinality(store) < MaxSessions) /\ Cardinality(A) < EvictBatch
  BY DEF Evicted
<1>2. IsFiniteSet(store) /\ Cardinality(store) \in Nat
  BY StoreFinite
<1>3. IsFiniteSet(A) /\ Cardinality(A) \in Nat
  <2>1. A \in SUBSET store
    OBVIOUS
  <2>2. IsFiniteSet(A)
    BY <1>2, <2>1, FS_Subset
  <2> QED
    BY <2>2, FS_CardinalityType
<1>4. store \ A \in SUBSET B
  <2>1. store \subseteq Tokens
    BY Limits DEF TypeOK, Tokens
  <2>2. \A u \in store : seen[u] \in Nat /\ seen[t] \in Nat
    BY <1>1, <2>1 DEF TypeOK
  <2> QED
    BY <2>2 DEF Before
<1>5. Cardinality(store \ A) = Cardinality(store) - Cardinality(A)
  <2>1. store \cap A = A
    OBVIOUS
  <2>2. Cardinality(store \ A) = Cardinality(store) - Cardinality(store \cap A)
    BY <1>2, FS_Difference
  <2> QED
    BY <2>1, <2>2
<1>6. IsFiniteSet(B) /\ Cardinality(B) \in Nat
  <2>1. B \in SUBSET store
    OBVIOUS
  <2>2. IsFiniteSet(B)
    BY <1>2, <2>1, FS_Subset
  <2> QED
    BY <2>2, FS_CardinalityType
<1>7. Cardinality(store \ A) <= Cardinality(B)
  BY <1>4, <1>6, FS_Subset
<1>8. MaxSessions \in Nat /\ EvictBatch \in Nat
  BY Limits
<1> HIDE DEF A, B
<1>9. Cardinality(B) > MaxSessions - EvictBatch
  BY <1>1, <1>2, <1>3, <1>5, <1>6, <1>7, <1>8
<1> QED
  BY <1>9 DEF B

\* Only a session's own logout, or a store that is full of sessions used as lately, ends
\* it (http-sessions.ts:70).
THEOREM ActiveStay == Spec => ActiveStaySignedIn
<1> DEFINE Kept ==
      \A t \in store \ store' :
        \/ store' = store \ {t} /\ issued' = issued
        \/ Cardinality({u \in store : seen[u] >= seen[t]}) > MaxSessions - EvictBatch
<1>1. IInv /\ [Next]_vars => [Kept]_vars
  <2> SUFFICES ASSUME IInv, [Next]_vars PROVE Kept
    OBVIOUS
  <2>1. CASE store' = store
    BY <2>1
  <2>2. ASSUME NEW a \in Addresses, LoginSucceeds(a) PROVE Kept
    <3>1. \A t \in store \ store' : t \in Evicted
      BY <2>2 DEF LoginSucceeds
    <3> QED
      BY <3>1, EvictedLeastUsed DEF IInv
  <2>3. ASSUME NEW t \in store, Logout(t) PROVE Kept
    BY <2>3 DEF Logout
  <2> QED
    BY <2>1, <2>2, <2>3 DEF Next, LoginRequest, LoginRefused, LoginFails, Use, Tick, http, vars
<1> QED
  BY <1>1, Inductive, PTL DEF Spec, ActiveStaySignedIn

LEMMA LeastElement ==
  ASSUME NEW T, T \subseteq Nat, T # {}
  PROVE  \E x \in T : \A y \in T : x <= y
<1>1. PICK x \in T : \A y \in T : <<y, x>> \notin OpToRel(<, Nat)
  BY NatLessThanWellFounded, WFMin
<1>2. \A y \in T : x <= y
  <2> SUFFICES ASSUME NEW y \in T PROVE x <= y
    OBVIOUS
  <2>1. x \in Nat /\ y \in Nat
    OBVIOUS
  <2>2. <<y, x>> \in OpToRel(<, Nat) <=> y < x
    BY <2>1 DEF OpToRel
  <2>3. ~(y < x)
    BY <1>1, <2>2, Zenon
  <2> QED
    BY <2>1, <2>3
<1> QED
  BY <1>1, <1>2

\* A store that is not empty has a session that makes room first.
LEMMA FirstToGo ==
  ASSUME TypeOK, store # {}
  PROVE  \E t \in store : \A u \in store : ~Before(u, t)
<1>1. store \subseteq Nat /\ \A t \in store : seen[t] \in Nat
  BY Limits DEF TypeOK, Tokens
<1> DEFINE times == {seen[t] : t \in store}
<1>2. PICK m \in times : \A y \in times : m <= y
  <2>1. times \subseteq Nat /\ times # {}
    BY <1>1
  <2> HIDE DEF times
  <2> QED
    BY <2>1, LeastElement
<1> DEFINE least == {t \in store : seen[t] = m}
<1>3. PICK x \in least : \A y \in least : x <= y
  <2>1. least \subseteq Nat /\ least # {}
    BY <1>1, <1>2
  <2> HIDE DEF least
  <2> QED
    BY <2>1, LeastElement
<1>4. \A u \in store : ~Before(u, x)
  <2> SUFFICES ASSUME NEW u \in store, Before(u, x) PROVE FALSE
    OBVIOUS
  <2>1. m <= seen[u] /\ seen[x] = m /\ seen[u] \in Nat /\ m \in Nat /\ u \in Nat /\ x \in Nat
    BY <1>1, <1>2, <1>3
  <2>2. seen[u] = m /\ u < x
    BY <2>1 DEF Before
  <2> QED
    BY <1>3, <2>1, <2>2
<1> QED
  BY <1>3, <1>4

\* A full store makes room before it takes another session (http-sessions.ts:70).
THEOREM StoreStaysBounded == Spec => []StoreBounded
<1>1. Init => StoreBounded
  BY FS_EmptySet, Limits DEF Init, StoreBounded
<1>2. IInv /\ StoreBounded /\ [Next]_vars => StoreBounded'
  <2> SUFFICES ASSUME IInv, StoreBounded, [Next]_vars PROVE StoreBounded'
    OBVIOUS
  <2> USE DEF StoreBounded
  <2>0. IsFiniteSet(store) /\ Cardinality(store) \in Nat /\ MaxSessions \in Nat \ {0}
        /\ EvictBatch \in Nat \ {0}
    BY StoreFinite, Limits DEF IInv
  <2>1. CASE store' = store
    BY <2>1
  <2>2. ASSUME NEW t \in store, Logout(t) PROVE StoreBounded'
    <3>1. Cardinality(store \ {t}) = Cardinality(store) - 1
      BY <2>0, FS_RemoveElement
    <3> QED
      BY <2>0, <2>2, <3>1 DEF Logout
  <2>3. ASSUME NEW a \in Addresses, LoginSucceeds(a) PROVE StoreBounded'
    <3> DEFINE Z == store \ Evicted
    <3>1. IsFiniteSet(Z) /\ Cardinality(Z) \in Nat /\ Cardinality(Z) <= Cardinality(store)
      <4>1. Z \in SUBSET store
        OBVIOUS
      <4>2. IsFiniteSet(Z) /\ Cardinality(Z) <= Cardinality(store)
        BY <2>0, <4>1, FS_Subset
      <4> QED
        BY <4>2, FS_CardinalityType
    <3>2. Cardinality(Z) < MaxSessions
      <4>1. CASE Cardinality(store) < MaxSessions
        BY <2>0, <3>1, <4>1
      <4>2. CASE ~(Cardinality(store) < MaxSessions)
        <5>1. store # {}
          BY <2>0, <4>2, FS_EmptySet
        <5>2. PICK t \in store : \A u \in store : ~Before(u, t)
          BY <5>1, FirstToGo DEF IInv
        <5>3. t \in Evicted
          <6>1. {u \in store : Before(u, t)} = {}
            BY <5>2
          <6> QED
            BY <2>0, <4>2, <6>1, FS_EmptySet DEF Evicted
        <5>4. Z \in SUBSET (store \ {t})
          BY <5>3
        <5>5. IsFiniteSet(store \ {t}) /\ Cardinality(store \ {t}) = Cardinality(store) - 1
          BY <2>0, FS_RemoveElement
        <5>6. Cardinality(Z) <= Cardinality(store \ {t})
          BY <5>4, <5>5, FS_Subset
        <5> HIDE DEF Z
        <5> QED
          BY <2>0, <3>1, <5>5, <5>6
      <4> QED
        BY <4>1, <4>2
    <3>3. store' = Z \cup {issued'}
      BY <2>3 DEF LoginSucceeds
    <3>4. Cardinality(Z \cup {issued'}) <= Cardinality(Z) + 1
      <4>1. IsFiniteSet(Z) /\ Cardinality(Z) \in Nat
        BY <3>1, FS_CardinalityType
      <4> HIDE DEF Z
      <4>2. Cardinality(Z \cup {issued'}) \in {Cardinality(Z), Cardinality(Z) + 1}
        BY <4>1, FS_AddElement
      <4> QED
        BY <4>1, <4>2
    <3> HIDE DEF Z
    <3>5. Cardinality(Z \cup {issued'}) \in Nat
      BY <3>1, FS_AddElement, FS_CardinalityType
    <3> QED
      BY <2>0, <3>1, <3>2, <3>3, <3>4, <3>5
  <2> QED
    BY <2>1, <2>2, <2>3 DEF Next, LoginRequest, LoginRefused, LoginFails, Use, Tick, http, vars
<1> QED
  BY <1>1, <1>2, Inductive, PTL DEF Spec

----------------------------------------------------------------------------
\* The page.


\* An object that was not made is as it begins.
Fresh ==
  \A o \in Objects \ used :
    ids[o] = o /\ tabs[o] = Made /\ creates[o] = NoCall /\ o \notin list

\* A tab has its temporary id or that of a record the relay has made.
OwnIds ==
  \A o \in Objects : ids[o] = o \/ (ids[o] \in Sessions /\ rec[ids[o]] # "unused")

\* A record made for a tab is for this tab only, and no other tab of the list has it.
Provided ==
  \A o \in Objects : creates[o] \in Sessions =>
    /\ rec[creates[o]] # "unused"
    /\ \A p \in Objects : creates[p] = creates[o] => p = o
    /\ o \in list => \A p \in list : ids[p] # creates[o]

\* A tab that is being created has done nothing but, perhaps, been closed.
Awaiting ==
  \A o \in Objects : creates[o] # NoCall =>
    /\ tabs[o] = Made \/ tabs[o].closed
    /\ tabs[o].closed \/ o \in list \cup replaced

\* A load that waits for the sessions, or has their list, still awaits them; what is
\* on a list exists.
Listings ==
  \A n \in Logins : answers[n] # NoCall =>
    /\ "sessions" \in loading[n]
    /\ answers[n] # Asked => \A s \in Sessions : answers[n][s] \in Known => rec[s] # "unused"

\* The page boots once, with nothing under way; one that was signed out loads nothing,
\* unless it was loading then.
Phases ==
  /\ auth = "anonymous" /\ ~crossed => ~Loading
  /\ 1 \in signing => /\ signing = {1} /\ auth = "booting" /\ ~leaving
                      /\ ~poll /\ list = {} /\ ~Loading

\* What is asked to be deleted was made.
MadeFirst == \A o \in Objects : deletes[o] # NoCall => o \in used

TabsAgree == Fresh /\ OwnIds /\ Provided /\ Awaiting /\ ListedOnce /\ NoStrays

PageIInv == PageTypeOK /\ TabsAgree /\ MadeFirst /\ Listings /\ Phases /\ PollsWhileSignedIn

-----------------------------------------------------------------------------
LEMMA InitHolds == PageInit => PageIInv
<1> SUFFICES ASSUME PageInit PROVE PageIInv
  OBVIOUS
<1> USE WebAssumption
<1>1. 1 \in Logins
  BY DEF Logins
<1>2. PageTypeOK
  BY <1>1 DEF PageInit, PageTypeOK, Made, Tab, States, Known, Logins
<1>3. TabsAgree
  BY DEF PageInit, TabsAgree, Fresh, OwnIds, Provided, Awaiting, ListedOnce, NoStrays, Made
<1>4. ~Loading /\ Listings
  BY DEF PageInit, Loading, Listings
<1>5. Phases /\ PollsWhileSignedIn
  BY <1>4 DEF PageInit, Phases, PollsWhileSignedIn
<1>6. MadeFirst
  BY DEF PageInit, MadeFirst
<1> QED
  BY <1>2, <1>3, <1>4, <1>5, <1>6 DEF PageIInv

-----------------------------------------------------------------------------
(* What happens to one tab.                                                *)

LEMMA TabsStayTyped ==
  ASSUME NEW v \in Tab
  PROVE  /\ Opened(v) \in Tab /\ Closed(v) \in Tab /\ Provisioned(v) \in Tab
         /\ Opened(v).closed = v.closed /\ Provisioned(v).closed = v.closed
         /\ Closed(v).closed
         /\ v.closed => Opened(v) = v
BY DEF Opened, Closed, Provisioned, Tab, States

LEMMA HydratedTyped == \A open \in BOOLEAN : Hydrated(open) \in Tab
BY DEF Hydrated, Opened, Made, Tab, States

\* A list that was loaded: its tabs are new, and each is for a record of its own.
LEMMA HydrateEffect ==
  ASSUME PageIInv, NEW n \in Logins, answers[n] \notin {NoCall, Asked},
         NEW make \in [{s \in Sessions : answers[n][s] \in Known} -> Objects \ used],
         \A s, u \in DOMAIN make : make[s] = make[u] => s = u,
         Hydrate(n, make)
  PROVE  /\ list' \subseteq Objects \ used
         /\ used' = used \cup list' /\ replaced' = replaced \cup list
         /\ \A o \in Objects : o \notin list' => ids'[o] = ids[o] /\ tabs'[o] = tabs[o]
         /\ \A o \in list' : /\ ids'[o] \in Sessions /\ rec[ids'[o]] # "unused"
                             /\ tabs'[o] \in Tab
         /\ \A o, p \in list' : ids'[o] = ids'[p] => o = p
         /\ ids' \in [Objects -> Objects \cup Sessions]
         /\ tabs' \in [Objects -> Tab]
<1> DEFINE shown == {s \in Sessions : answers[n][s] \in Known}
<1>1. DOMAIN make = shown /\ list' = {make[s] : s \in shown} /\ \A s \in shown : make[s] \in Objects \ used
  BY DEF Hydrate
<1>2. list' \subseteq Objects \ used /\ used' = used \cup list' /\ replaced' = replaced \cup list
  BY <1>1 DEF Hydrate
<1>3. ids' = [o \in Objects |-> IF o \in list' THEN CHOOSE s \in shown : make[s] = o ELSE ids[o]]
  BY <1>1 DEF Hydrate
<1>4. tabs' = [o \in Objects |-> IF o \in list' THEN Hydrated(answers[n][ids'[o]] = "open") ELSE tabs[o]]
  BY DEF Hydrate
<1>5. \A o \in list' : ids'[o] \in shown /\ make[ids'[o]] = o
  <2> SUFFICES ASSUME NEW o \in list' PROVE ids'[o] \in shown /\ make[ids'[o]] = o
    OBVIOUS
  <2>1. \E s \in shown : make[s] = o
    BY <1>1
  <2>2. ids'[o] = CHOOSE s \in shown : make[s] = o
    BY <1>2, <1>3
  <2> HIDE DEF shown
  <2> QED
    BY <2>1, <2>2
<1>6. \A o \in list' : ids'[o] \in Sessions /\ rec[ids'[o]] # "unused"
  BY <1>5 DEF PageIInv, Listings
<1>7. \A o \in list' : tabs'[o] \in Tab
  <2> SUFFICES ASSUME NEW o \in list' PROVE tabs'[o] \in Tab
    OBVIOUS
  <2>1. tabs'[o] = Hydrated(answers[n][ids'[o]] = "open")
    BY <1>2, <1>4
  <2>2. (answers[n][ids'[o]] = "open") \in BOOLEAN
    OBVIOUS
  <2> QED
    BY <2>1, <2>2, HydratedTyped
<1>8. \A o \in Objects : o \notin list' => ids'[o] = ids[o] /\ tabs'[o] = tabs[o]
  BY <1>3, <1>4
<1>9. ids' \in [Objects -> Objects \cup Sessions]
  <2>1. \A o \in Objects : ids'[o] \in Objects \cup Sessions
    BY <1>6, <1>8 DEF PageIInv, PageTypeOK
  <2> QED
    BY <1>3, <2>1
<1>10. tabs' \in [Objects -> Tab]
  <2>1. \A o \in Objects : tabs'[o] \in Tab
    BY <1>7, <1>8 DEF PageIInv, PageTypeOK
  <2> QED
    BY <1>4, <2>1
<1>11. \A o, p \in list' : ids'[o] = ids'[p] => o = p
  BY <1>5
<1> QED
  BY <1>2, <1>6, <1>7, <1>8, <1>9, <1>10, <1>11

-----------------------------------------------------------------------------
(* Types                                                                   *)

LEMMA PageTypesHold == PageIInv /\ [PageNext]_pageVars => PageTypeOK'
<1> SUFFICES ASSUME PageIInv, [PageNext]_pageVars PROVE PageTypeOK'
  OBVIOUS
<1> USE DEF PageIInv, PageTypeOK
<1>1. CASE UNCHANGED pageVars
  BY <1>1 DEF pageVars, page, tab, load, calls
<1>2. CASE LoginAsked \/ Refreshed \/ LogoutAsked
  <2>1. CASE LoginAsked
    BY <2>1, WebAssumption DEF LoginAsked, page, tab, calls, Logins
  <2>2. CASE Refreshed
    <3>1. devices' \in BOOLEAN /\ auth' = auth /\ poll' = poll /\ UNCHANGED <<tab, load, calls, rec, crossed>>
      BY <2>2 DEF Refreshed
    <3> QED
      BY <3>1 DEF tab, load, calls
  <2>3. CASE LogoutAsked
    <3>1. leaving' \in BOOLEAN /\ UNCHANGED <<page, tab, load, creates, deletes, rec, crossed>>
      BY <2>3 DEF LogoutAsked
    <3> QED
      BY <3>1 DEF page, tab, load
  <2> QED
    BY <1>2, <2>1, <2>2, <2>3
<1>3. CASE LogoutAnswered
  <2>1. tabs' \in [Objects -> Tab]
    BY <1>3, TabsStayTyped DEF LogoutAnswered
  <2> QED
    BY <1>3, <2>1 DEF LogoutAnswered, load, Loading
<1>4. ASSUME NEW n \in Logins, SignedIn(n) \/ NotSignedIn(n) PROVE PageTypeOK'
  BY <1>4 DEF SignedIn, NotSignedIn, tab, calls, page, Parts
<1>5. ASSUME NEW n \in Logins, NEW ok \in BOOLEAN, DevicesAnswered(n, ok) PROVE PageTypeOK'
  BY <1>5 DEF DevicesAnswered, Finished, tab, calls
<1>6. ASSUME NEW n \in Logins, SessionsHandled(n) PROVE PageTypeOK'
  BY <1>6 DEF SessionsHandled, page, tab, calls
<1>7. ASSUME NEW n \in Logins, SessionsAnswered(n) PROVE PageTypeOK'
  <2>1. PICK make \in [{s \in Sessions : answers[n][s] \in Known} -> Objects \ used] :
          /\ \A s, u \in DOMAIN make : make[s] = make[u] => s = u
          /\ Hydrate(n, make)
    BY <1>7 DEF SessionsAnswered
  <2>2. /\ list' \subseteq Objects \ used
        /\ used' = used \cup list' /\ replaced' = replaced \cup list
        /\ ids' \in [Objects -> Objects \cup Sessions] /\ tabs' \in [Objects -> Tab]
    BY <1>7, <2>1, HydrateEffect DEF SessionsAnswered
  <2> QED
    BY <1>7, <2>2 DEF SessionsAnswered, Finished, calls
<1>8. ASSUME NEW n \in Logins, SessionsFail(n) PROVE PageTypeOK'
  BY <1>8 DEF SessionsFail, Finished, tab, calls
<1>9. ASSUME NEW o \in Objects, CreateSession(o) \/ CreateFails(o) PROVE PageTypeOK'
  BY <1>9 DEF CreateSession, CreateFails, page, load
<1>10. ASSUME NEW o \in Objects, CreateAnswered(o) PROVE PageTypeOK'
  BY <1>10, TabsStayTyped DEF CreateAnswered, page, load
<1>11. ASSUME NEW o \in Objects, CloseSession(o) \/ DeleteHandled(o) PROVE PageTypeOK'
  BY <1>11 DEF CloseSession, DeleteHandled, page, tab, load, calls, Known
<1>12. ASSUME NEW o \in Objects, DeleteAnswered(o) PROVE PageTypeOK'
  BY <1>12, TabsStayTyped DEF DeleteAnswered, page, load
<1>13. ASSUME NEW o \in Objects, Reopen(o) \/ TabMoves(o) PROVE PageTypeOK'
  <2>1. tabs' \in [Objects -> Tab]
    BY <1>13, TabsStayTyped DEF Reopen, TabMoves
  <2> QED
    BY <1>13, <2>1 DEF Reopen, TabMoves, page, load, calls
<1>14. ASSUME NEW o \in Objects, NEW s \in Sessions, CreateHandled(o, s) PROVE PageTypeOK'
  BY <1>14 DEF CreateHandled, page, tab, load, Known
<1>15. ASSUME NEW s \in Sessions, RecordMoves(s) PROVE PageTypeOK'
  BY <1>15 DEF RecordMoves, page, tab, load, calls, Known
<1> QED
  BY <1>1, <1>2, <1>3, <1>4, <1>5, <1>6, <1>7, <1>8, <1>9, <1>10, <1>11, <1>12, <1>13, <1>14, <1>15
     DEF PageNext

-----------------------------------------------------------------------------
(* Tabs                                                                    *)

\* Steps of a tab that is left where it is.
LEMMA TabChanges ==
  ASSUME PageIInv, NEW o \in Objects, NEW w \in Tab,
         tabs' = [tabs EXCEPT ![o] = w], o \in used,
         tabs[o].closed => w.closed,
         creates[o] # NoCall => w.closed \/ w = tabs[o],
         w.lives /\ ~w.closed => o \in list \cup replaced,
         UNCHANGED <<list, ids, used, replaced, creates, rec>>
  PROVE  TabsAgree'
<1> USE DEF PageIInv, PageTypeOK, TabsAgree
<1>1. \A p \in Objects : tabs'[p] = IF p = o THEN w ELSE tabs[p]
  OBVIOUS
<1>2. Fresh' /\ OwnIds' /\ Provided' /\ ListedOnce'
  BY <1>1 DEF Fresh, OwnIds, Provided, ListedOnce
<1>3. Awaiting'
  BY <1>1 DEF Awaiting
<1>4. NoStrays'
  BY <1>1 DEF NoStrays
<1> QED
  BY <1>2, <1>3, <1>4

\* Records move on, but none is unmade.
LEMMA RecordsChange ==
  ASSUME PageIInv, \A s \in Sessions : rec[s] # "unused" => rec'[s] # "unused",
         UNCHANGED <<list, tabs, ids, used, replaced, creates>>
  PROVE  TabsAgree'
BY DEF PageIInv, PageTypeOK, TabsAgree, Fresh, OwnIds, Provided, Awaiting, ListedOnce,
       NoStrays

LEMMA TabsHold == PageIInv /\ [PageNext]_pageVars => TabsAgree'
<1> SUFFICES ASSUME PageIInv, [PageNext]_pageVars PROVE TabsAgree'
  OBVIOUS
<1>0. CASE UNCHANGED <<list, tabs, ids, used, replaced, creates, rec>>
  BY <1>0, RecordsChange
<1>1. CASE \/ UNCHANGED pageVars \/ LoginAsked \/ Refreshed \/ LogoutAsked
           \/ \E n \in Logins : \/ SignedIn(n) \/ NotSignedIn(n) \/ SessionsHandled(n) \/ SessionsFail(n)
                                \/ \E ok \in BOOLEAN : DevicesAnswered(n, ok)
           \/ \E o \in Objects : CloseSession(o)
  <2>1. UNCHANGED <<list, tabs, ids, used, replaced, creates, rec>>
    BY <1>1 DEF pageVars, tab, calls, LoginAsked, Refreshed, LogoutAsked, SignedIn,
                NotSignedIn, SessionsHandled, SessionsFail, DevicesAnswered, CloseSession
  <2> QED
    BY <1>0, <2>1
<1>2. CASE LogoutAnswered
  <2> USE DEF PageIInv, PageTypeOK, TabsAgree
  <2>1. /\ list' = {} /\ UNCHANGED <<ids, used, replaced, creates, rec>>
        /\ \A o \in Objects : tabs'[o] = IF o \in list THEN Closed(tabs[o]) ELSE tabs[o]
    BY <1>2 DEF LogoutAnswered
  <2>2. \A o \in list : tabs'[o].closed
    BY <2>1, TabsStayTyped
  <2>3. Fresh' /\ OwnIds' /\ Provided' /\ ListedOnce'
    BY <2>1 DEF Fresh, OwnIds, Provided, ListedOnce
  <2>4. Awaiting' /\ NoStrays'
    BY <2>1, <2>2 DEF Awaiting, NoStrays
  <2> QED
    BY <2>3, <2>4
<1>3. ASSUME NEW n \in Logins, SessionsAnswered(n) PROVE TabsAgree'
  <2>1. PICK make \in [{s \in Sessions : answers[n][s] \in Known} -> Objects \ used] :
          /\ \A s, u \in DOMAIN make : make[s] = make[u] => s = u
          /\ Hydrate(n, make)
    BY <1>3 DEF SessionsAnswered
  <2>2. /\ list' \subseteq Objects \ used
        /\ used' = used \cup list' /\ replaced' = replaced \cup list
        /\ \A o \in Objects : o \notin list' => ids'[o] = ids[o] /\ tabs'[o] = tabs[o]
        /\ \A o \in list' : ids'[o] \in Sessions /\ rec[ids'[o]] # "unused"
        /\ \A o, p \in list' : ids'[o] = ids'[p] => o = p
    BY <1>3, <2>1, HydrateEffect DEF SessionsAnswered
  <2>3. UNCHANGED <<creates, rec>>
    BY <1>3 DEF SessionsAnswered, calls
  <2> USE DEF PageIInv, PageTypeOK, TabsAgree
  <2>4. \A o \in list' : creates[o] = NoCall
    BY <2>2 DEF Fresh
  <2>5. Fresh' /\ OwnIds' /\ ListedOnce'
    BY <2>2, <2>3 DEF Fresh, OwnIds, ListedOnce
  <2>6. Provided' /\ Awaiting'
    BY <2>2, <2>3, <2>4, WebAssumption DEF Provided, Awaiting
  <2>7. NoStrays'
    BY <2>2 DEF NoStrays
  <2> QED
    BY <2>5, <2>6, <2>7
<1>4. ASSUME NEW o \in Objects, CreateSession(o) PROVE TabsAgree'
  <2> USE DEF PageIInv, PageTypeOK, TabsAgree
  <2>1. /\ list' = list \cup {o} /\ used' = used \cup {o} /\ o \notin used
        /\ \A p \in Objects : creates'[p] = IF p = o THEN Asked ELSE creates[p]
        /\ UNCHANGED <<tabs, ids, replaced, rec>>
    BY <1>4 DEF CreateSession
  <2>2. ids[o] = o /\ tabs[o] = Made
    BY <2>1 DEF Fresh
  <2>3. Fresh' /\ OwnIds' /\ Awaiting' /\ NoStrays'
    BY <2>1, <2>2 DEF Fresh, OwnIds, Awaiting, NoStrays
  <2>4. Provided'
    BY <2>1, <2>2, WebAssumption DEF Provided
  <2>5. ListedOnce'
    BY <2>1, <2>2, WebAssumption DEF ListedOnce, OwnIds
  <2> QED
    BY <2>3, <2>4, <2>5
<1>5. ASSUME NEW o \in Objects, NEW s \in Sessions, CreateHandled(o, s) PROVE TabsAgree'
  <2> USE DEF PageIInv, PageTypeOK, TabsAgree
  <2>1. /\ creates[o] = Asked /\ rec[s] = "unused"
        /\ \A p \in Objects : creates'[p] = IF p = o THEN s ELSE creates[p]
        /\ \A u \in Sessions : rec'[u] = IF u = s THEN "open" ELSE rec[u]
        /\ UNCHANGED <<list, tabs, ids, used, replaced>>
    BY <1>5 DEF CreateHandled, tab
  <2>2. \A p \in Objects : ids[p] # s /\ creates[p] # s
    BY <2>1, WebAssumption DEF OwnIds, Provided
  <2>3. Fresh' /\ OwnIds' /\ Awaiting' /\ NoStrays' /\ ListedOnce'
    BY <2>1, WebAssumption DEF Fresh, OwnIds, Awaiting, NoStrays, ListedOnce
  <2>4. Provided'
    BY <2>1, <2>2 DEF Provided
  <2> QED
    BY <2>3, <2>4
<1>6. ASSUME NEW o \in Objects, CreateAnswered(o) PROVE TabsAgree'
  <2> USE DEF PageIInv, PageTypeOK, TabsAgree
  <2>1. /\ creates[o] \in Sessions /\ creates[o] # NoCall
        /\ \A p \in Objects : /\ creates'[p] = IF p = o THEN NoCall ELSE creates[p]
                              /\ ids'[p] = IF p = o THEN creates[o] ELSE ids[p]
                              /\ tabs'[p] = IF p = o THEN Provisioned(tabs[o]) ELSE tabs[p]
        /\ UNCHANGED <<list, used, replaced, rec>>
    BY <1>6, WebAssumption DEF CreateAnswered
  <2>2. o \in used
    BY <2>1 DEF Fresh
  <2>3. tabs'[o].closed = tabs[o].closed
    BY <2>1, TabsStayTyped
  <2>4. Fresh' /\ OwnIds' /\ Awaiting'
    BY <2>1, <2>2 DEF Fresh, OwnIds, Awaiting, Provided
  <2>5. NoStrays'
    BY <2>1, <2>3 DEF NoStrays, Awaiting
  <2>6. Provided' /\ ListedOnce'
    BY <2>1, WebAssumption DEF Provided, ListedOnce
  <2> QED
    BY <2>4, <2>5, <2>6
<1>7. ASSUME NEW o \in Objects, CreateFails(o) PROVE TabsAgree'
  <2> USE DEF PageIInv, PageTypeOK, TabsAgree
  <2>1. /\ creates[o] # NoCall /\ list' = list \ {o}
        /\ \A p \in Objects : creates'[p] = IF p = o THEN NoCall ELSE creates[p]
        /\ UNCHANGED <<tabs, ids, used, replaced, rec>>
    BY <1>7 DEF CreateFails
  <2>2. ~(tabs[o].lives /\ ~tabs[o].closed)
    BY <2>1 DEF Awaiting, Made
  <2>3. Fresh' /\ OwnIds' /\ Awaiting' /\ ListedOnce'
    BY <2>1 DEF Fresh, OwnIds, Awaiting, ListedOnce
  <2>4. Provided'
    BY <2>1, WebAssumption DEF Provided
  <2>5. NoStrays'
    BY <2>1, <2>2 DEF NoStrays
  <2> QED
    BY <2>3, <2>4, <2>5
<1>8. ASSUME NEW o \in Objects, DeleteHandled(o) PROVE TabsAgree'
  BY <1>8, RecordsChange DEF DeleteHandled, tab, calls, PageIInv, PageTypeOK
<1>9. ASSUME NEW o \in Objects, DeleteAnswered(o) PROVE TabsAgree'
  <2> USE DEF PageIInv, PageTypeOK, TabsAgree
  <2>1. /\ list' = list \ {o}
        /\ \A p \in Objects : tabs'[p] = IF p = o THEN Closed(tabs[o]) ELSE tabs[p]
        /\ UNCHANGED <<ids, used, replaced, creates, rec>>
    BY <1>9 DEF DeleteAnswered
  <2>2. tabs'[o].closed
    BY <2>1, TabsStayTyped
  <2>3. OwnIds' /\ Provided' /\ ListedOnce'
    BY <2>1 DEF OwnIds, Provided, ListedOnce
  <2>4. Awaiting' /\ NoStrays'
    BY <2>1, <2>2 DEF Awaiting, NoStrays
  <2>5. o \in used
    BY <1>9 DEF DeleteAnswered, MadeFirst
  <2>6. Fresh'
    BY <2>1, <2>5 DEF Fresh
  <2> QED
    BY <2>3, <2>4, <2>6
<1>10. ASSUME NEW o \in Objects, Reopen(o) PROVE TabsAgree'
  <2>1. /\ o \in list /\ tabs[o].state # "creating" /\ tabs' = [tabs EXCEPT ![o] = Opened(tabs[o])]
        /\ UNCHANGED <<list, ids, used, replaced, creates, rec>> /\ tabs[o] \in Tab
    BY <1>10 DEF Reopen, calls, PageIInv, PageTypeOK
  <2>2. /\ Opened(tabs[o]) \in Tab /\ Opened(tabs[o]).closed = tabs[o].closed
        /\ tabs[o].closed => Opened(tabs[o]) = tabs[o]
    BY <2>1, TabsStayTyped
  <2>3. o \in used
    BY <2>1 DEF PageIInv, TabsAgree, Fresh
  <2>4. creates[o] # NoCall => tabs[o].closed
    BY <2>1 DEF PageIInv, TabsAgree, Awaiting, Made
  <2> QED
    BY <2>1, <2>2, <2>3, <2>4, TabChanges
<1>11. ASSUME NEW o \in Objects, TabMoves(o) PROVE TabsAgree'
  <2>1. PICK w \in Tab : Moves(tabs[o], w) /\ tabs' = [tabs EXCEPT ![o] = w]
    BY <1>11 DEF TabMoves
  <2>2. UNCHANGED <<list, ids, used, replaced, creates, rec>> /\ tabs[o] \in Tab
    BY <1>11 DEF TabMoves, calls, PageIInv, PageTypeOK
  <2>3. tabs[o].lives /\ (tabs[o].closed => w.closed)
    BY <2>1, <2>2 DEF Moves, Connects, Retries, GivesUp, IsDismissed, GoesQuiet, Tab
  <2>4. o \in used
    BY <2>3 DEF PageIInv, TabsAgree, Fresh, Made
  <2>5. creates[o] # NoCall => tabs[o].closed
    BY <2>3 DEF PageIInv, TabsAgree, Awaiting, Made
  <2>6. w.lives /\ ~w.closed => o \in list \cup replaced
    BY <2>3 DEF PageIInv, TabsAgree, NoStrays
  <2> QED
    BY <2>1, <2>2, <2>3, <2>4, <2>5, <2>6, TabChanges
<1>12. ASSUME NEW s \in Sessions, RecordMoves(s) PROVE TabsAgree'
  BY <1>12, RecordsChange DEF RecordMoves, tab, calls, PageIInv, PageTypeOK
<1> QED
  BY <1>1, <1>2, <1>3, <1>4, <1>5, <1>6, <1>7, <1>8, <1>9, <1>10, <1>11, <1>12 DEF PageNext

LEMMA MadeFirstHolds == PageIInv /\ [PageNext]_pageVars => MadeFirst'
<1> SUFFICES ASSUME PageIInv, [PageNext]_pageVars PROVE MadeFirst'
  OBVIOUS
<1> USE DEF PageIInv, PageTypeOK
<1>1. CASE \E o \in Objects : CloseSession(o) \/ DeleteAnswered(o)
  BY <1>1 DEF CloseSession, DeleteAnswered, tab, MadeFirst, TabsAgree, Fresh
<1>2. CASE \E n \in Logins : SessionsAnswered(n)
  BY <1>2 DEF SessionsAnswered, Hydrate, calls, MadeFirst
<1>3. CASE \/ UNCHANGED pageVars \/ LoginAsked \/ Refreshed \/ LogoutAsked \/ LogoutAnswered
           \/ \E n \in Logins : \/ SignedIn(n) \/ NotSignedIn(n) \/ SessionsHandled(n)
                                 \/ SessionsFail(n) \/ \E ok \in BOOLEAN : DevicesAnswered(n, ok)
           \/ \E o \in Objects : \/ CreateSession(o) \/ CreateAnswered(o) \/ CreateFails(o)
                                 \/ DeleteHandled(o) \/ Reopen(o) \/ TabMoves(o)
                                 \/ \E s \in Sessions : CreateHandled(o, s)
           \/ \E s \in Sessions : RecordMoves(s)
  <2>1. deletes' = deletes /\ used \subseteq used'
    BY <1>3 DEF pageVars, tab, calls, LoginAsked, Refreshed, LogoutAsked, LogoutAnswered,
                SignedIn, NotSignedIn, SessionsHandled, SessionsFail, DevicesAnswered,
                CreateSession, CreateAnswered, CreateFails, DeleteHandled, Reopen,
                TabMoves, CreateHandled, RecordMoves
  <2> QED
    BY <2>1 DEF MadeFirst
<1> QED
  BY <1>1, <1>2, <1>3 DEF PageNext

-----------------------------------------------------------------------------
(* Loads                                                                   *)

LEMMA ListingsHold == PageIInv /\ [PageNext]_pageVars => Listings'
<1> SUFFICES ASSUME PageIInv, [PageNext]_pageVars PROVE Listings'
  OBVIOUS
<1> USE DEF PageIInv, PageTypeOK
<1>1. CASE \/ UNCHANGED pageVars \/ LoginAsked \/ Refreshed \/ LogoutAsked \/ LogoutAnswered
           \/ \E n \in Logins : NotSignedIn(n)
           \/ \E o \in Objects : \/ CreateSession(o) \/ CreateAnswered(o) \/ CreateFails(o)
                                 \/ CloseSession(o) \/ DeleteHandled(o) \/ DeleteAnswered(o)
                                 \/ Reopen(o) \/ TabMoves(o)
                                 \/ \E s \in Sessions : CreateHandled(o, s)
           \/ \E s \in Sessions : RecordMoves(s)
  <2>1. UNCHANGED <<answers, loading>>
    BY <1>1 DEF pageVars, load, LoginAsked, Refreshed, LogoutAsked, LogoutAnswered,
                NotSignedIn, CreateSession, CreateAnswered, CreateFails, CloseSession,
                DeleteHandled, DeleteAnswered, Reopen, TabMoves, CreateHandled, RecordMoves
  <2>2. \A s \in Sessions : rec[s] # "unused" => rec'[s] # "unused"
    BY <1>1 DEF pageVars, LoginAsked, Refreshed, LogoutAsked, LogoutAnswered, NotSignedIn,
                CreateSession, CreateAnswered, CreateFails, CloseSession, DeleteHandled,
                DeleteAnswered, Reopen, TabMoves, CreateHandled, RecordMoves
  <2> QED
    BY <2>1, <2>2 DEF Listings
<1>2. ASSUME NEW n \in Logins, SignedIn(n) PROVE Listings'
  BY <1>2 DEF SignedIn, Listings, Parts
<1>3. ASSUME NEW n \in Logins, NEW ok \in BOOLEAN, DevicesAnswered(n, ok) PROVE Listings'
  BY <1>3 DEF DevicesAnswered, Finished, Listings
<1>4. ASSUME NEW n \in Logins, SessionsHandled(n) PROVE Listings'
  BY <1>4, WebAssumption DEF SessionsHandled, Listings, Known
<1>5. ASSUME NEW n \in Logins, SessionsAnswered(n) \/ SessionsFail(n) PROVE Listings'
  BY <1>5 DEF SessionsAnswered, SessionsFail, Finished, Listings
<1> QED
  BY <1>1, <1>2, <1>3, <1>4, <1>5 DEF PageNext

-----------------------------------------------------------------------------
(* Signing in and out                                                      *)

LEMMA PhasesHold == PageIInv /\ [PageNext]_pageVars => Phases' /\ PollsWhileSignedIn'
<1> SUFFICES ASSUME PageIInv, [PageNext]_pageVars PROVE Phases' /\ PollsWhileSignedIn'
  OBVIOUS
<1> USE DEF PageIInv, PageTypeOK, Phases, PollsWhileSignedIn
<1>1. CASE \/ UNCHANGED pageVars \/ Refreshed
           \/ \E n \in Logins : SessionsHandled(n)
           \/ \E o \in Objects : \/ CreateAnswered(o) \/ CreateFails(o)
                                 \/ CloseSession(o) \/ DeleteHandled(o) \/ DeleteAnswered(o)
                                 \/ Reopen(o) \/ TabMoves(o)
                                 \/ \E s \in Sessions : CreateHandled(o, s)
           \/ \E s \in Sessions : RecordMoves(s)
  <2>1. UNCHANGED <<auth, poll, loading, signing, leaving, crossed>> /\ list' \subseteq list
    BY <1>1 DEF pageVars, page, load, tab, calls, Refreshed, SessionsHandled,
                CreateAnswered, CreateFails, CloseSession, DeleteHandled, DeleteAnswered,
                Reopen, TabMoves, CreateHandled, RecordMoves
  <2>2. Loading' = Loading
    BY <2>1 DEF Loading
  <2> QED
    BY <2>1, <2>2
<1>2. CASE LoginAsked
  <2>1. Loading' = Loading
    BY <1>2 DEF LoginAsked, Loading
  <2>2. 1 \notin signing' 
    BY <1>2, WebAssumption DEF LoginAsked, Logins
  <2> QED
    BY <1>2, <2>1, <2>2 DEF LoginAsked, page, tab, calls
<1>3. CASE LogoutAsked
  <2>1. Loading' = Loading
    BY <1>3 DEF LogoutAsked, load, Loading
  <2> QED
    BY <1>3, <2>1 DEF LogoutAsked, page, tab, load
<1>4. CASE LogoutAnswered
  <2>1. Loading' = Loading
    BY <1>4 DEF LogoutAnswered, load, Loading
  <2> QED
    BY <1>4, <2>1 DEF LogoutAnswered, load
<1>5. ASSUME NEW n \in Logins, SignedIn(n) PROVE Phases' /\ PollsWhileSignedIn'
  <2>1. loading'[n] # {}
    BY <1>5 DEF SignedIn, Parts
  <2>2. Loading'
    BY <2>1 DEF Loading
  <2>3. auth' = "authenticated" /\ 1 \notin signing'
    BY <1>5 DEF SignedIn
  <2> QED
    BY <2>2, <2>3
<1>6. ASSUME NEW n \in Logins, NotSignedIn(n) PROVE Phases' /\ PollsWhileSignedIn'
  <2>1. Loading' = Loading
    BY <1>6 DEF NotSignedIn, Loading
  <2>2. 1 \notin signing'
    BY <1>6 DEF NotSignedIn
  <2>3. CASE n = 1
    BY <1>6, <2>1, <2>2, <2>3 DEF NotSignedIn, tab
  <2>4. CASE n # 1
    BY <1>6, <2>1, <2>2, <2>4 DEF NotSignedIn, tab
  <2> QED
    BY <2>3, <2>4
<1>7. ASSUME NEW n \in Logins, NEW part \in Parts, part \in loading[n], Finished(n, part),
             UNCHANGED <<auth, signing, leaving, crossed>>
      PROVE  Phases' /\ PollsWhileSignedIn'
  <2>1. Loading /\ (auth = "anonymous" => crossed) /\ 1 \notin signing
    BY <1>7 DEF Loading
  <2>2. poll' \/ Loading'
    BY <1>7 DEF Finished, Loading
  <2> QED
    BY <1>7, <2>1, <2>2
<1>8. ASSUME NEW n \in Logins, NEW ok \in BOOLEAN, DevicesAnswered(n, ok) PROVE Phases' /\ PollsWhileSignedIn'
  BY <1>7, <1>8 DEF DevicesAnswered, calls, Parts
<1>9. ASSUME NEW n \in Logins, SessionsAnswered(n) \/ SessionsFail(n) PROVE Phases' /\ PollsWhileSignedIn'
  <2>1. "sessions" \in loading[n]
    BY <1>9 DEF SessionsAnswered, SessionsFail, Listings
  <2> QED
    BY <1>7, <1>9, <2>1 DEF SessionsAnswered, SessionsFail, calls, Parts
<1>10. ASSUME NEW o \in Objects, CreateSession(o) PROVE Phases' /\ PollsWhileSignedIn'
  <2>1. Loading' = Loading
    BY <1>10 DEF CreateSession, load, Loading
  <2> QED
    BY <1>10, <2>1 DEF CreateSession, page, load
<1> QED
  BY <1>1, <1>2, <1>3, <1>4, <1>5, <1>6, <1>8, <1>9, <1>10 DEF PageNext

-----------------------------------------------------------------------------
LEMMA NextKeeps == PageIInv /\ [PageNext]_pageVars => PageIInv'
  BY PageTypesHold, TabsHold, MadeFirstHolds, ListingsHold, PhasesHold DEF PageIInv

\* The strengthened invariant of the page always holds.
THEOREM PageInductive == PageSpec => []PageIInv
  BY InitHolds, NextKeeps, PTL DEF PageSpec

\* The page's state is always well typed.
THEOREM PageTypeCorrect == PageSpec => []PageTypeOK
<1>1. PageIInv => PageTypeOK
  BY DEF PageIInv
<1> QED
  BY <1>1, PageInductive, PTL

\* No two tabs of the page are for one session (app-controller.ts:136, 229-234).
THEOREM SessionsListedOnce == PageSpec => []ListedOnce
<1>1. PageIInv => ListedOnce
  BY DEF PageIInv, TabsAgree
<1> QED
  BY <1>1, PageInductive, PTL

\* A tab that works is listed, or a reload of the list took its place
\* (app-controller.ts:229).
THEOREM WorkingTabsListed == PageSpec => []NoStrays
<1>1. PageIInv => NoStrays
  BY DEF PageIInv, TabsAgree
<1> QED
  BY <1>1, PageInductive, PTL

\* Polling follows signing in and out, unless a load crossed it (app-controller.ts:96-114).
THEOREM PollingFollows == PageSpec => []PollsWhileSignedIn
<1>1. PageIInv => PollsWhileSignedIn
  BY DEF PageIInv
<1> QED
  BY <1>1, PageInductive, PTL
=============================================================================
