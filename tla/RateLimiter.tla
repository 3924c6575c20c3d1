---------------------------- MODULE RateLimiter ----------------------------
(***************************************************************************)
(* The limiter of authentication attempts that all connections of a server *)
(* share (server/src/rate-limit.ts), as operators on a limiter value: the  *)
(* window and count of all attempts, and those of each client address that *)
(* has been seen lately.  A limit of 0 disables the check.                 *)
(***************************************************************************)
EXTENDS Naturals, FiniteSets

CONSTANTS
  Ips, NoIp,       \* client addresses; an address that is not known
  Window,          \* windowMs, in ticks of the clock
  GlobalLimit, PerIpLimit,
  CleanupSize      \* addresses on record from which elapsed ones are dropped

ASSUME LimiterAssumption ==
  /\ NoIp \notin Ips
  /\ Window \in Nat \ {0}
  /\ {GlobalLimit, PerIpLimit, CleanupSize} \subseteq Nat

Count == [start : Nat, count : Nat]

NoAttempts == [start |-> 0, count |-> 0, ips |-> <<>>]

IsLimiter(lim) ==
  /\ lim = [start |-> lim.start, count |-> lim.count, ips |-> lim.ips]
  /\ lim.start \in Nat /\ lim.count \in Nat
  /\ lim.ips = [ip \in DOMAIN lim.ips |-> lim.ips[ip]] /\ DOMAIN lim.ips \subseteq Ips
  /\ \A ip \in DOMAIN lim.ips : lim.ips[ip] \in Count

Elapsed(start, now) == now >= start + Window

\* The limiter as an attempt finds it at time now: with a new window if the last one
\* has elapsed.
Renewed(lim, now) ==
  IF GlobalLimit > 0 /\ Elapsed(lim.start, now)
  THEN [lim EXCEPT !.start = now, !.count = 0] ELSE lim

\* The record of an address at time now, which is a new one if there is none or its
\* window has elapsed.
IpRecord(lim, ip, now) ==
  IF ip \in DOMAIN lim.ips /\ ~Elapsed(lim.ips[ip].start, now) THEN lim.ips[ip]
  ELSE [start |-> now, count |-> 0]

GlobalFull(lim, now) == GlobalLimit > 0 /\ Renewed(lim, now).count >= GlobalLimit

Limited(ip) == ip # NoIp /\ PerIpLimit > 0

IpFull(lim, ip, now) == Limited(ip) /\ IpRecord(lim, ip, now).count >= PerIpLimit

Put(ips, ip, rec) == [i \in DOMAIN ips \cup {ip} |-> IF i = ip THEN rec ELSE ips[i]]

\* A plausible mistake: every record is dropped.
CleanedAll(ips, now) == IF Cardinality(DOMAIN ips) < CleanupSize THEN ips ELSE <<>>

Cleaned(ips, now) ==
  IF Cardinality(DOMAIN ips) < CleanupSize THEN ips
  ELSE [i \in {j \in DOMAIN ips : ~Elapsed(ips[j].start, now)} |-> ips[i]]

\* What tryAcquire answers.
Acquires(lim, ip, now) == ~GlobalFull(lim, now) /\ ~IpFull(lim, ip, now)

\* The limiter after tryAcquire, which renews windows even when it refuses.
Tried(lim, ip, now) ==
  LET g   == Renewed(lim, now)
      rec == IpRecord(lim, ip, now)
  IN  IF GlobalFull(lim, now) THEN g
      ELSE IF IpFull(lim, ip, now) THEN [g EXCEPT !.ips = Put(@, ip, rec)]
      ELSE [g EXCEPT
              !.count = @ + 1,
              !.ips = Cleaned(IF Limited(ip) THEN Put(@, ip, [rec EXCEPT !.count = @ + 1]) ELSE @,
                              now)]
=============================================================================
