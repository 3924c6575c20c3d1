-------------------------- MODULE StreamProofs --------------------------
(***************************************************************************)
(* What carries a terminal's bytes.  An authenticated client of the TCP    *)
(* server (ServerTerminal): whatever it sends, however TCP cuts it, and    *)
(* whatever the limits, its input reaches the terminal in order and a      *)
(* goodbye is the last word.  A terminal on an agent device                *)
(* (AgentStreams): for any number of sessions, whatever the marks and the  *)
(* limit of the queues, nothing is lost or repeated while a browser stays. *)
(*                                                                         *)
(* The frames of a chunk, the messages of output, the channels that are    *)
(* flushed in turn and the lengths of frames are folded by recursive       *)
(* functions: Recursion says that such a function exists, Climb follows it *)
(* from its first value to its last.                                       *)
(***************************************************************************)
EXTENDS ServerTerminal, AgentStreams, FiniteSetTheorems, SequenceTheorems,
        WellFoundedInduction, TLAPS

LEMMA LeastElement ==
  ASSUME NEW T, T \subseteq Nat, T # {}
  PROVE  \E x \in T : \A y \in T : x <= y
<1>1. PICK x \in T : \A y \in T : <<y, x>> \notin OpToRel(<, Nat)
  BY NatLessThanWellFounded, WFMin
<1>2. ASSUME NEW y \in T PROVE x <= y
  <2>1. x \in Nat /\ y \in Nat
    OBVIOUS
  <2>2. <<y, x>> \in OpToRel(<, Nat) <=> y < x
    BY <2>1 DEF OpToRel
  <2>3. ~(y < x)
    BY <1>1, <2>2, Zenon
  <2>4. QED BY <2>1, <2>3
<1>3. QED BY <1>2

\* Step by step from 0 to N.
LEMMA Climb ==
  ASSUME NEW N \in Nat, NEW P, 0 \in P, \A i \in 1 .. N : i - 1 \in P => i \in P
  PROVE  \A i \in 0 .. N : i \in P
<1> DEFINE T == {i \in 0 .. N : i \notin P}
<1>1. SUFFICES ASSUME T # {} PROVE FALSE
  OBVIOUS
<1>2. PICK i \in T : \A j \in T : i <= j
  <2>1. T \subseteq Nat
    OBVIOUS
  <2> HIDE DEF T
  <2>2. QED BY <1>1, <2>1, LeastElement
<1>3. i # 0 /\ i \in 0 .. N /\ i \notin P
  OBVIOUS
<1>4. i \in 1 .. N /\ i - 1 \in 0 .. N /\ ~(i <= i - 1)
  BY <1>3
<1>5. i - 1 \in P
  BY <1>2, <1>4
<1>6. QED BY <1>3, <1>4, <1>5

\* g solves the recursion that begins with x and goes on by step.
Solves(g, N, S, x, step) ==
  /\ g \in [0 .. N -> S]
  /\ g[0] = x
  /\ \A i \in 1 .. N : g[i] = step[i][g[i - 1]]

\* A recursion over 0 .. N has a solution.
LEMMA Recursion ==
  ASSUME NEW N \in Nat, NEW S, NEW x \in S, NEW step \in [1 .. N -> [S -> S]]
  PROVE  \E g : Solves(g, N, S, x, step)
<1> DEFINE P == {n \in 0 .. N : \E g : Solves(g, n, S, x, step)}
<1>1. 0 \in P
  <2> DEFINE g == [i \in 0 .. 0 |-> x]
  <2>1. Solves(g, 0, S, x, step)
    BY DEF Solves
  <2> HIDE DEF g
  <2>2. QED BY <2>1
<1>2. ASSUME NEW n \in 1 .. N, n - 1 \in P PROVE n \in P
  <2>1. PICK g : Solves(g, n - 1, S, x, step)
    BY <1>2
  <2> DEFINE h == [i \in 0 .. n |-> IF i = n THEN step[n][g[n - 1]] ELSE g[i]]
  <2>2. n - 1 \in 0 .. n - 1 /\ n \in 1 .. N /\ 0 \in 0 .. n - 1 /\ n # 0
    OBVIOUS
  <2>3. g[n - 1] \in S /\ step[n][g[n - 1]] \in S
    BY <2>1, <2>2 DEF Solves
  <2>4. h \in [0 .. n -> S]
    BY <2>1, <2>3 DEF Solves
  <2>5. h[0] = x
    BY <2>1, <2>2 DEF Solves
  <2>6. ASSUME NEW i \in 1 .. n PROVE h[i] = step[i][h[i - 1]]
    <3>1. h[i - 1] = g[i - 1]
      BY <2>2
    <3>2. CASE i = n
      <4>1. h[n] = step[n][g[n - 1]]
        OBVIOUS
      <4> HIDE DEF h
      <4>2. QED BY <3>1, <3>2, <4>1
    <3>3. CASE i # n
      <4>1. i \in 1 .. n - 1
        BY <3>3
      <4>2. h[i] = g[i]
        BY <4>1
      <4>3. QED BY <2>1, <3>1, <4>1, <4>2 DEF Solves
    <3>4. QED BY <3>2, <3>3
  <2> HIDE DEF h
  <2>7. Solves(h, n, S, x, step)
    BY <2>4, <2>5, <2>6 DEF Solves
  <2>8. QED BY <2>7
<1> HIDE DEF P
<1>3. \A n \in 0 .. N : n \in P
  BY <1>1, <1>2, Climb, Zenon
<1>4. N \in P
  BY <1>3
<1>5. QED BY <1>4 DEF P

Lengths == [kind : {"input", "ping", "goodbye", "odd"}, length : Nat]

LEMMA StreamBytesIs ==
  ASSUME NEW s \in Seq(Lengths)
  PROVE  StreamBytes(s) \in Nat
<1> DEFINE upTo[n \in 0 .. Len(s)] == IF n = 0 THEN 0 ELSE upTo[n - 1] + FrameBytes(s[n])
           N == Len(s)
           step == [i \in 1 .. N |-> [b \in Nat |-> b + FrameBytes(s[i])]]
<1>1. StreamBytes(s) = upTo[Len(s)]
  BY DEF StreamBytes
<1>2. upTo = CHOOSE f : f = [n \in 0 .. N |-> IF n = 0 THEN 0 ELSE f[n - 1] + FrameBytes(s[n])]
  BY DEF upTo
<1>3. N \in Nat /\ \A n \in 1 .. N : FrameBytes(s[n]) \in Nat
  <2>1. \A n \in 1 .. N : s[n] \in Lengths
    OBVIOUS
  <2>2. \A f \in Lengths : FrameBytes(f) \in Nat
    BY FramingAssumption DEF FrameBytes, Lengths
  <2>3. QED BY <2>1, <2>2
<1> HIDE DEF upTo, N
<1>4. PICK g : Solves(g, N, Nat, 0, step)
  <2>1. step \in [1 .. N -> [Nat -> Nat]]
    BY <1>3
  <2> HIDE DEF step
  <2>2. 0 \in Nat
    OBVIOUS
  <2>3. QED BY <1>3, <2>1, <2>2, Recursion, Zenon
<1>5. g = [n \in 0 .. N |-> IF n = 0 THEN 0 ELSE g[n - 1] + FrameBytes(s[n])]
  <2>1. ASSUME NEW n \in 0 .. N
        PROVE  g[n] = IF n = 0 THEN 0 ELSE g[n - 1] + FrameBytes(s[n])
    <3>1. CASE n = 0
      BY <1>4, <3>1 DEF Solves
    <3>2. CASE n # 0
      <4>1. n \in 1 .. N /\ n - 1 \in 0 .. N
        BY <1>3, <3>2
      <4>2. g[n - 1] \in Nat
        BY <1>4, <4>1 DEF Solves
      <4>3. QED BY <1>4, <3>2, <4>1, <4>2 DEF Solves
    <3>3. QED BY <3>1, <3>2
  <2>2. QED BY <1>4, <2>1 DEF Solves
<1>6. upTo = [n \in 0 .. N |-> IF n = 0 THEN 0 ELSE upTo[n - 1] + FrameBytes(s[n])]
  BY <1>2, <1>5
<1>7. \A n \in 0 .. N : upTo[n] = IF n = 0 THEN 0 ELSE upTo[n - 1] + FrameBytes(s[n])
  BY <1>6
<1> DEFINE P == {n \in 0 .. N : upTo[n] \in Nat}
<1>8. 0 \in P
  BY <1>3, <1>7
<1>9. ASSUME NEW n \in 1 .. N, n - 1 \in P PROVE n \in P
  <2>1. n \in 0 .. N /\ n # 0
    OBVIOUS
  <2>2. QED BY <1>3, <1>7, <1>9, <2>1
<1> HIDE DEF P
<1>10. \A n \in 0 .. N : n \in P
  BY <1>3, <1>8, <1>9, Climb, Zenon
<1>11. upTo[N] \in Nat
  BY <1>3, <1>10 DEF P
<1>12. QED BY <1>1, <1>11 DEF N

----------------------------------------------------------------------------
(* What is kept of a connection k, whatever is written to it, when l is    *)
(* the last thing the client received and the terminal is in phase ph.     *)

\* A connection that may have consumed any number of frames.
Loose ==
  [sock : Socks, proto : {"ready", "closing"}, paused : BOOLEAN, draining : BOOLEAN,
   out : Seq(Said), taken : Nat, rejected : BOOLEAN, typed : Seq(Nat), missed : Seq(Nat)]

Reads(k) == k.proto = "ready" /\ ~k.rejected

\* After a goodbye nothing but goodbyes, and none while the protocol is ready.
Polite(k, l) ==
  /\ \A i, j \in DOMAIN k.out : i < j /\ k.out[i].kind = "goodbye" => k.out[j].kind = "goodbye"
  /\ l = "goodbye" => \A i \in DOMAIN k.out : k.out[i].kind = "goodbye"
  /\ k.proto = "ready" => l # "goodbye" /\ \A i \in DOMAIN k.out : k.out[i].kind # "goodbye"

Rising(s) == \A i, j \in DOMAIN s : i < j => s[i] < s[j]

Members(s) == {s[i] : i \in DOMAIN s}

Inputs(n) == {i \in 1 .. n : IsInput(i)}

Ordered(k) ==
  /\ Rising(k.missed \o k.typed)
  /\ \E n \in 0 .. Len(sent) :
       Members(k.missed \o k.typed) = Inputs(n) /\ (Reads(k) => n = k.taken)

\* Nothing was consumed that ends the conversation.
Clean(k) == Reads(k) => \A i \in 1 .. k.taken : ~Rejected(sent[i]) /\ sent[i].kind # "goodbye"

Early == {"connecting", "shell"}

\* Nothing was typed before there was a shell, and a terminal that is over has ended the
\* protocol.
Shelled(k, ph) ==
  /\ ph \in Early => k.typed = <<>>
  /\ k.proto = "ready" /\ k.sock # "closed" => ph \in Early \cup {"open"}

Decoding(k, l, ph) ==
  /\ k \in Loose /\ k.taken <= Len(sent)
  /\ Polite(k, l) /\ Ordered(k) /\ Clean(k) /\ Shelled(k, ph)

IInv == TypeOK /\ ~conn.rejected /\ Decoding(conn, last, term.phase)

----------------------------------------------------------------------------
\* What may differ after a write.
SameBut(w, k) ==
  /\ w \in Loose
  /\ w.proto = k.proto /\ w.taken = k.taken /\ w.rejected = k.rejected
  /\ w.typed = k.typed /\ w.missed = k.missed
  /\ w.sock = "closed" <=> k.sock = "closed"

LEMMA WrittenIs ==
  ASSUME NEW k \in Loose, NEW m \in Said
  PROVE  /\ SameBut(Written(k, m), k)
         /\ Written(k, m).out = <<>> \/ Written(k, m).out = Append(k.out, m)
<1> DEFINE w == [k EXCEPT !.out = Append(@, m)]
           r == [k EXCEPT !.sock = IF @ = "closed" THEN @ ELSE "destroyed", !.out = <<>>]
           p == [w EXCEPT !.paused = TRUE, !.draining = TRUE]
<1>1. Append(k.out, m) \in Seq(Said) /\ <<>> \in Seq(Said) /\ k.sock \in Socks
  BY DEF Loose
<1>2. SameBut(w, k) /\ w.out = Append(k.out, m)
  BY <1>1 DEF SameBut, Loose
<1>3. SameBut(r, k) /\ r.out = <<>>
  BY <1>1 DEF SameBut, Loose, Socks
<1>4. w \in Loose
  BY <1>2 DEF SameBut
<1>5. SameBut(p, w) /\ p.out = w.out
  <2> HIDE DEF w
  <2>1. p \in Loose
    BY <1>4, Zenon DEF Loose
  <2>2. QED BY <1>4, <2>1 DEF SameBut, Loose
<1>6. SameBut(p, k) /\ p.out = Append(k.out, m)
  <2> HIDE DEF p, w
  <2>1. QED BY <1>2, <1>5 DEF SameBut
<1>7. Written(k, m) \in {r, w, p}
  <2>1. CASE k.sock # "open"
    BY <2>1, Zenon DEF Written, Refused
  <2>2. CASE k.sock = "open" /\ InFlight(w) < SocketHighWater
    BY <2>2, Zenon DEF Written
  <2>3. CASE k.sock = "open" /\ ~(InFlight(w) < SocketHighWater)
    BY <2>3, Zenon DEF Written
  <2>4. QED BY <2>1, <2>2, <2>3
<1> HIDE DEF r, w, p
<1>8. QED BY <1>2, <1>3, <1>6, <1>7

\* What one written message adds.
Adds(w, k, kind) ==
  w.out = <<>> \/ \E size \in Nat : w.out = Append(k.out, [kind |-> kind, size |-> size])

LEMMA AnsweredIs ==
  ASSUME NEW k \in Loose
  PROVE  /\ SameBut(Answered(k), k) /\ Adds(Answered(k), k, "answer")
         /\ SameBut(Farewell(k), k) /\ Adds(Farewell(k), k, "goodbye")
<1>1. [kind |-> "answer", size |-> 1] \in Said /\ [kind |-> "goodbye", size |-> 1] \in Said
  BY DEF Said
<1>2. SameBut(Answered(k), k) /\ Adds(Answered(k), k, "answer")
  BY <1>1, WrittenIs, 1 \in Nat DEF Answered, Adds
<1>3. SameBut(Farewell(k), k) /\ Adds(Farewell(k), k, "goodbye")
  BY <1>1, WrittenIs, 1 \in Nat DEF Farewell, Adds
<1>4. QED BY <1>2, <1>3

\* What a message adds is polite when it is a goodbye, or the protocol is ready.
LEMMA AddsPolitely ==
  ASSUME NEW k \in Loose, NEW w \in Loose, NEW l, NEW kind, Polite(k, l), Adds(w, k, kind),
         k.proto = "closing" => w.proto = "closing",
         kind = "goodbye" => w.proto = "closing",
         kind # "goodbye" => k.proto = "ready"
  PROVE  Polite(w, l)
<1>1. CASE w.out = <<>>
  <2>1. (k.proto = "ready" /\ w.proto = "ready") \/ w.proto = "closing"
    BY DEF Loose
  <2>2. QED BY <1>1, <2>1 DEF Polite
<1>2. CASE \E size \in Nat : w.out = Append(k.out, [kind |-> kind, size |-> size])
  <2>1. PICK size \in Nat : w.out = Append(k.out, [kind |-> kind, size |-> size])
    BY <1>2
  <2> DEFINE m == [kind |-> kind, size |-> size]
             N == Len(k.out)
  <2>2. m.kind = kind
    OBVIOUS
  <2> HIDE DEF m
  <2>3. /\ N \in Nat /\ DOMAIN k.out = 1 .. N /\ DOMAIN w.out = 1 .. N + 1
        /\ \A i \in 1 .. N : w.out[i] = k.out[i]
        /\ w.out[N + 1] = m
    BY <2>1 DEF Loose, m
  <2> HIDE DEF N
  <2>4. \A i \in DOMAIN w.out : i \in DOMAIN k.out \/ i = N + 1
    BY <2>3
  <2>5. CASE kind = "goodbye"
    <3>1. ASSUME NEW i \in DOMAIN w.out, NEW j \in DOMAIN w.out, i < j,
                 w.out[i].kind = "goodbye"
          PROVE  w.out[j].kind = "goodbye"
      <4>1. CASE j = N + 1
        BY <2>2, <2>3, <2>5, <4>1
      <4>2. CASE j \in DOMAIN k.out
        <5>1. i \in DOMAIN k.out
          BY <2>3, <3>1, <4>2
        <5>2. w.out[i] = k.out[i] /\ w.out[j] = k.out[j]
          BY <2>3, <4>2, <5>1
        <5>3. QED BY <3>1, <4>2, <5>1, <5>2 DEF Polite
      <4>3. QED BY <2>4, <4>1, <4>2
    <3>2. ASSUME l = "goodbye", NEW i \in DOMAIN w.out PROVE w.out[i].kind = "goodbye"
      <4>1. CASE i = N + 1
        BY <2>2, <2>3, <2>5, <4>1
      <4>2. CASE i \in DOMAIN k.out
        BY <2>3, <3>2, <4>2 DEF Polite
      <4>3. QED BY <2>4, <4>1, <4>2
    <3>3. QED BY <2>5, <3>1, <3>2 DEF Polite
  <2>6. CASE kind # "goodbye"
    <3>1. \A i \in DOMAIN w.out : w.out[i].kind # "goodbye"
      BY <2>2, <2>3, <2>4, <2>6 DEF Polite
    <3>2. QED BY <2>6, <3>1 DEF Polite
  <2>7. QED BY <2>5, <2>6
<1>3. QED BY <1>1, <1>2 DEF Adds

\* The protocol closes: what was handled, and what was said politely, stays.
LEMMA ClosingKeeps ==
  ASSUME NEW k, NEW w \in Loose, NEW l, NEW ph, NEW after, Decoding(k, l, ph),
         w.proto = "closing", w.taken <= Len(sent), Polite(w, l),
         w.typed = k.typed, w.missed = k.missed, after \in Early => ph \in Early
  PROVE  Decoding(w, l, after)
<1>1. Ordered(w) /\ Clean(w)
  BY DEF Decoding, Ordered, Clean, Reads
<1>2. Shelled(w, after)
  BY DEF Decoding, Shelled
<1>3. QED BY <1>1, <1>2 DEF Decoding

\* Only what waits to be taken changes.
LEMMA WaitingKeeps ==
  ASSUME NEW k, NEW w, NEW l, NEW ph, NEW heard,
         Decoding(k, l, ph), SameBut(w, k), Polite(w, heard)
  PROVE  Decoding(w, heard, ph)
<1>1. Reads(w) <=> Reads(k)
  BY DEF SameBut, Reads
<1>2. Ordered(w) /\ Clean(w)
  BY <1>1 DEF Decoding, Ordered, Clean, SameBut
<1>3. Shelled(w, ph)
  BY DEF Decoding, Shelled, SameBut
<1>4. QED BY <1>2, <1>3 DEF Decoding, SameBut

\* The connection fails: with a goodbye, and the protocol closing.
LEMMA FailedKeeps ==
  ASSUME NEW k, NEW l, NEW ph, NEW after, Decoding(k, l, ph), k.sock # "closed",
         after \in Early => ph \in Early
  PROVE  LET w == Failed([k EXCEPT !.rejected = FALSE])
         IN  w \in Loose /\ ~w.rejected /\ w.taken = k.taken /\ Decoding(w, l, after)
<1> DEFINE r == [k EXCEPT !.rejected = FALSE]
           c == [r EXCEPT !.proto = "closing"]
           f == Farewell(c)
           w == Ended(f)
<1>1. k \in Loose
  BY DEF Decoding
<1>2. r \in Loose
  BY <1>1, Zenon DEF Loose
<1>3. /\ ~r.rejected /\ r.sock = k.sock /\ r.out = k.out /\ r.taken = k.taken
      /\ r.typed = k.typed /\ r.missed = k.missed /\ r.proto = k.proto
  BY <1>1 DEF Loose
<1> HIDE DEF r
<1>4. c \in Loose
  BY <1>2, Zenon DEF Loose
<1>5. /\ ~c.rejected /\ c.sock = k.sock /\ c.out = k.out /\ c.taken = k.taken
      /\ c.typed = k.typed /\ c.missed = k.missed /\ c.proto = "closing"
  BY <1>2, <1>3 DEF Loose
<1> HIDE DEF c
<1>6. SameBut(f, c) /\ Adds(f, c, "goodbye")
  BY <1>4, AnsweredIs
<1>7. Polite(c, l)
  BY <1>5 DEF Decoding, Polite
<1>8. Polite(f, l)
  BY <1>4, <1>5, <1>6, <1>7, AddsPolitely DEF SameBut
<1> HIDE DEF f
<1>9. w \in Loose /\ w.proto = "closing" /\ w.taken = k.taken /\ ~w.rejected
  BY <1>5, <1>6 DEF Ended, SameBut, Loose, Socks
<1>10. w.typed = k.typed /\ w.missed = k.missed /\ w.out = f.out
  BY <1>5, <1>6 DEF Ended, SameBut, Loose
<1> HIDE DEF w
<1>11. Polite(w, l)
  BY <1>5, <1>6, <1>8, <1>9, <1>10 DEF Polite, SameBut
<1>12. Decoding(w, l, after)
  BY <1>9, <1>10, <1>11, ClosingKeeps DEF Decoding
<1>13. Failed(r) = w
  BY <1>3 DEF Failed, w, f, c
<1>14. QED BY <1>9, <1>12, <1>13 DEF r

\* Terminal output keeps everything but what waits to be taken.
LEMMA OutputKeeps ==
  ASSUME NEW k, NEW l, NEW ph, NEW size \in Nat, Decoding(k, l, ph)
  PROVE  SameBut(OutputSent(k, size), k) /\ Decoding(OutputSent(k, size), l, ph)
<1> DEFINE w == Written(k, [kind |-> "output", size |-> size])
<1>1. k \in Loose /\ Polite(k, l)
  BY DEF Decoding
<1>2. [kind |-> "output", size |-> size] \in Said
  BY DEF Said
<1>3. SameBut(w, k) /\ Adds(w, k, "output")
  BY <1>1, <1>2, WrittenIs DEF Adds
<1> HIDE DEF w
<1>4. CASE k.proto = "ready" /\ k.sock # "closed"
  <2>1. w \in Loose /\ w.proto = "ready" /\ k.proto = "ready"
    BY <1>3, <1>4 DEF SameBut
  <2>2. Polite(w, l)
    BY <1>1, <1>3, <2>1, AddsPolitely
  <2>3. Decoding(w, l, ph)
    BY <1>3, <2>2, WaitingKeeps
  <2>4. OutputSent(k, size) = w
    BY <1>4 DEF OutputSent, w
  <2>5. QED BY <1>3, <2>3, <2>4
<1>5. CASE ~(k.proto = "ready" /\ k.sock # "closed")
  <2>1. OutputSent(k, size) = k
    BY <1>5 DEF OutputSent
  <2>2. SameBut(k, k)
    BY <1>1 DEF SameBut
  <2>3. QED BY <2>1, <2>2
<1>6. QED BY <1>4, <1>5

----------------------------------------------------------------------------
\* The decoder is at frame j of what was sent, as long as it reads.
Reached(k, j) ==
  /\ k \in Loose /\ k.sock # "closed" /\ k.taken <= j
  /\ Reads(k) => k.taken = j

\* The frame is consumed and answered, and the connection may close.
LEMMA SpokenFrame ==
  ASSUME NEW k, NEW l, NEW ph, NEW j \in Nat, j + 1 <= Len(sent), NEW w, NEW c,
         Decoding(k, l, ph), Reached(k, j), Reads(k),
         ~Rejected(sent[j + 1]), sent[j + 1].kind \in {"ping", "goodbye"},
         c \in Loose, SameBut(w, c), Polite(w, l),
         c.taken = k.taken + 1, c.rejected = k.rejected, c.sock = k.sock,
         c.typed = k.typed, c.missed = k.missed,
         c.proto = IF sent[j + 1].kind = "ping" THEN "ready" ELSE "closing"
  PROVE  Decoding(w, l, ph) /\ Reached(w, j + 1)
<1>1. /\ k \in Loose /\ k.taken = j /\ ~k.rejected /\ k.proto = "ready" /\ k.sock # "closed"
      /\ w \in Loose /\ w.taken = j + 1 /\ ~w.rejected /\ w.sock # "closed"
      /\ w.typed = k.typed /\ w.missed = k.missed /\ w.proto = c.proto
  BY DEF Reached, Reads, SameBut
<1>2. Reached(w, j + 1)
  BY <1>1 DEF Reached
<1>3. Shelled(w, ph)
  BY <1>1 DEF Decoding, Shelled
<1>4. CASE sent[j + 1].kind = "goodbye"
  <2>1. w.proto = "closing"
    BY <1>1, <1>4
  <2>2. QED BY <1>1, <1>2, <2>1, ClosingKeeps
<1>5. CASE sent[j + 1].kind = "ping"
  <2>1. ~IsInput(j + 1)
    BY <1>5 DEF IsInput
  <2>2. Inputs(j + 1) = Inputs(j)
    BY <2>1 DEF Inputs
  <2>3. PICK n \in 0 .. Len(sent) :
           Members(k.missed \o k.typed) = Inputs(n) /\ (Reads(k) => n = k.taken)
    BY DEF Decoding, Ordered
  <2>4. n = j
    BY <1>1, <2>3
  <2>5. Members(w.missed \o w.typed) = Inputs(j + 1)
    BY <1>1, <2>2, <2>3, <2>4
  <2>6. j + 1 \in 0 .. Len(sent)
    OBVIOUS
  <2>7. Ordered(w)
    BY <1>1, <2>5, <2>6 DEF Decoding, Ordered
  <2>8. Clean(w)
    <3>1. \A i \in 1 .. j : ~Rejected(sent[i]) /\ sent[i].kind # "goodbye"
      BY <1>1 DEF Decoding, Clean, Reads
    <3>2. \A i \in 1 .. j + 1 : i \in 1 .. j \/ i = j + 1
      OBVIOUS
    <3>3. QED BY <1>1, <1>5, <3>1, <3>2 DEF Clean
  <2>9. QED BY <1>1, <1>2, <1>3, <2>7, <2>8 DEF Decoding
<1>6. QED BY <1>4, <1>5

LEMMA AppendedLast ==
  ASSUME NEW a \in Seq(Nat), NEW b \in Seq(Nat), NEW x \in Nat
  PROVE  a \o Append(b, x) = Append(a \o b, x)
<1> DEFINE u == a \o b
           v == Append(b, x)
<1>1. u \in Seq(Nat) /\ Len(u) = Len(a) + Len(b) /\ v \in Seq(Nat) /\ Len(v) = Len(b) + 1
  OBVIOUS
<1>2. a \o v \in Seq(Nat) /\ Append(u, x) \in Seq(Nat)
  <2> HIDE DEF u, v
  <2>1. QED BY <1>1
<1>3. Len(a \o v) = Len(u) + 1 /\ Len(Append(u, x)) = Len(u) + 1
  <2> HIDE DEF u, v
  <2>1. Len(a \o v) = Len(a) + Len(v)
    BY <1>1, ConcatProperties
  <2>2. Len(Append(u, x)) = Len(u) + 1
    BY <1>1, AppendProperties
  <2>3. Len(a) \in Nat /\ Len(b) \in Nat
    OBVIOUS
  <2>4. QED BY <1>1, <2>1, <2>2, <2>3
<1>4. ASSUME NEW i \in 1 .. Len(u) + 1 PROVE (a \o v)[i] = Append(u, x)[i]
  OBVIOUS
<1>5. QED BY <1>2, <1>3, <1>4, SeqEqual

\* The frame is input, and is handled after all that was.
LEMMA InputFrame ==
  ASSUME NEW k, NEW l, NEW j \in Nat, j + 1 <= Len(sent), NEW c,
         sent \in Seq(Lengths), Decoding(k, l, term.phase), Reached(k, j), Reads(k),
         ~Rejected(sent[j + 1]), sent[j + 1].kind = "input",
         c \in Loose, c.taken = k.taken + 1, c.rejected = k.rejected, c.sock = k.sock,
         c.typed = k.typed, c.missed = k.missed, c.proto = k.proto, c.out = k.out
  PROVE  Decoding(InputHandled(c), l, term.phase) /\ Reached(InputHandled(c), j + 1)
<1> DEFINE w == InputHandled(c)
           old == k.missed \o k.typed
           new == w.missed \o w.typed
<1>1. k \in Loose /\ k.taken = j /\ ~k.rejected /\ k.proto = "ready" /\ k.sock # "closed"
  BY DEF Reached, Reads
<1>2. /\ w \in Loose /\ w.taken = j + 1 /\ ~w.rejected /\ w.sock = k.sock
      /\ w.proto = k.proto /\ w.out = k.out
  <2>1. /\ Append(c.typed, c.taken) \in Seq(Nat) /\ Append(c.missed, c.taken) \in Seq(Nat)
        /\ c.rejected = FALSE
    BY <1>1 DEF Loose
  <2>2. w \in Loose
    BY <2>1 DEF InputHandled, Loose
  <2>3. /\ w.taken = c.taken /\ w.rejected = c.rejected /\ w.sock = c.sock
        /\ w.proto = c.proto /\ w.out = c.out
    BY DEF InputHandled, Loose
  <2>4. QED BY <1>1, <2>1, <2>2, <2>3
<1>3. Reached(w, j + 1)
  BY <1>1, <1>2 DEF Reached
<1>4. Polite(w, l)
  BY <1>2 DEF Decoding, Polite
<1>5. term.phase \in Early \cup {"open"} /\ (term.phase \in Early => k.typed = <<>>)
  BY <1>1 DEF Decoding, Shelled
<1>6. Shelled(w, term.phase)
  <2>1. ASSUME term.phase \in Early PROVE w.typed = <<>>
    BY <1>5, <2>1 DEF InputHandled, Loose, Early
  <2>2. QED BY <1>5, <2>1 DEF Shelled
<1>7. new = Append(old, j + 1)
  <2>1. k.missed \in Seq(Nat) /\ k.typed \in Seq(Nat) /\ j + 1 \in Nat
    BY <1>1 DEF Loose
  <2>2. CASE term.phase = "open"
    <3>1. w.missed = k.missed /\ w.typed = Append(k.typed, j + 1)
      BY <1>1, <2>2 DEF InputHandled, Loose
    <3>2. QED BY <2>1, <3>1, AppendedLast
  <2>3. CASE term.phase \in Early
    <3>1. w.missed = Append(k.missed, j + 1) /\ w.typed = <<>> /\ k.typed = <<>>
      BY <1>1, <1>5, <2>3 DEF InputHandled, Loose, Early
    <3>2. new = Append(k.missed, j + 1) /\ old = k.missed
      BY <2>1, <3>1, ConcatEmptySeq, AppendProperties
    <3>3. QED BY <3>2
  <2>4. QED BY <1>5, <2>2, <2>3
<1>8. old \in Seq(Nat)
  BY <1>1 DEF Loose
<1> DEFINE N == Len(old)
<1>9. /\ N \in Nat /\ DOMAIN old = 1 .. N /\ DOMAIN new = 1 .. N + 1
      /\ \A i \in 1 .. N : new[i] = old[i]
      /\ new[N + 1] = j + 1
  <2> HIDE DEF new, old
  <2>1. QED BY <1>7, <1>8
<1> HIDE DEF w, old, new, N
<1>10. PICK n \in 0 .. Len(sent) : Members(old) = Inputs(n) /\ (Reads(k) => n = k.taken)
  BY DEF Decoding, Ordered, old
<1>11. n = j /\ Members(old) = Inputs(j)
  BY <1>1, <1>10
<1>12. \A i \in 1 .. j : ~Rejected(sent[i]) /\ sent[i].kind # "goodbye"
  BY <1>1 DEF Decoding, Clean, Reads
<1>13. \A i \in 1 .. j + 1 : ~Rejected(sent[i]) /\ sent[i].kind # "goodbye"
  <2>1. \A i \in 1 .. j + 1 : i \in 1 .. j \/ i = j + 1
    OBVIOUS
  <2>2. QED BY <1>12, <2>1
<1>14. Inputs(j + 1) = Inputs(j) \cup {j + 1}
  <2>1. IsInput(j + 1)
    BY <1>13 DEF IsInput
  <2>2. QED BY <2>1 DEF Inputs
<1>15. Members(new) = Members(old) \cup {j + 1}
  <2>1. \A i \in 1 .. N + 1 : i \in 1 .. N \/ i = N + 1
    BY <1>9
  <2>2. QED BY <1>9, <2>1 DEF Members
<1>16. \A i \in 1 .. N : old[i] < j + 1
  <2>1. ASSUME NEW i \in 1 .. N PROVE old[i] \in Inputs(j)
    BY <1>9, <1>11 DEF Members
  <2>2. QED BY <2>1 DEF Inputs
<1>17. Rising(new)
  <2>1. ASSUME NEW a \in 1 .. N + 1, NEW b \in 1 .. N + 1, a < b PROVE new[a] < new[b]
    <3>1. a \in 1 .. N
      BY <1>9, <2>1
    <3>2. CASE b = N + 1
      BY <1>9, <1>16, <3>1, <3>2
    <3>3. CASE b # N + 1
      <4>1. b \in 1 .. N
        BY <1>9, <3>3
      <4>2. old[a] < old[b]
        BY <1>9, <2>1, <3>1, <4>1 DEF Decoding, Ordered, Rising, old
      <4>3. QED BY <1>9, <3>1, <4>1, <4>2
    <3>4. QED BY <3>2, <3>3
  <2>2. QED BY <1>9, <2>1 DEF Rising
<1>18. j + 1 \in 0 .. Len(sent) /\ Members(new) = Inputs(j + 1)
  BY <1>11, <1>14, <1>15
<1>19. Ordered(w)
  BY <1>2, <1>17, <1>18 DEF Ordered, new
<1>20. Clean(w)
  BY <1>2, <1>13 DEF Clean
<1>21. Decoding(w, l, term.phase)
  BY <1>2, <1>4, <1>6, <1>19, <1>20 DEF Decoding
<1>22. QED BY <1>3, <1>21 DEF w

LEMMA HandledKeeps ==
  ASSUME NEW k, NEW l, NEW j \in Nat, j + 1 <= Len(sent),
         sent \in Seq(Lengths), Decoding(k, l, term.phase), Reached(k, j)
  PROVE  /\ Decoding(Handled(k, sent[j + 1]), l, term.phase)
         /\ Reached(Handled(k, sent[j + 1]), j + 1)
<1> DEFINE f == sent[j + 1]
           h == Handled(k, f)
           c == [k EXCEPT !.taken = IF Consumed(f) THEN @ + 1 ELSE @]
<1>1. k \in Loose /\ k.taken \in Nat /\ f \in Lengths
  BY DEF Decoding, Loose
<1>2. /\ c \in Loose /\ c.taken = (IF Consumed(f) THEN k.taken + 1 ELSE k.taken)
      /\ c.rejected = k.rejected /\ c.sock = k.sock /\ c.typed = k.typed
      /\ c.missed = k.missed /\ c.proto = k.proto /\ c.out = k.out
  <2> DEFINE n == IF Consumed(f) THEN k.taken + 1 ELSE k.taken
  <2>1. n \in Nat
    BY <1>1
  <2>2. c = [k EXCEPT !.taken = n]
    OBVIOUS
  <2> HIDE DEF n, c
  <2>3. /\ c \in Loose /\ c.taken = n /\ c.rejected = k.rejected /\ c.sock = k.sock
        /\ c.typed = k.typed /\ c.missed = k.missed /\ c.proto = k.proto /\ c.out = k.out
    BY <1>1, <2>1, <2>2 DEF Loose
  <2>4. QED BY <2>3 DEF n
<1> HIDE DEF c, f
<1>3. CASE k.rejected
  <2>1. h = k
    BY <1>3 DEF Handled
  <2>2. Reached(k, j + 1)
    BY <1>1, <1>3 DEF Reached, Reads
  <2>3. QED BY <2>1, <2>2 DEF f
<1>4. CASE ~k.rejected /\ (Rejected(f) \/ k.proto = "closing")
  <2> DEFINE r == [c EXCEPT !.rejected = TRUE]
  <2>1. r \in Loose
    BY <1>2, Zenon DEF Loose
  <2>2. /\ r.taken = c.taken /\ r.rejected /\ r.sock = k.sock /\ r.typed = k.typed
        /\ r.missed = k.missed /\ r.proto = k.proto /\ r.out = k.out
    BY <1>2 DEF Loose
  <2> HIDE DEF r
  <2>3. h = r
    BY <1>4 DEF Handled, r, c
  <2>4. Ordered(r) /\ Clean(r)
    BY <2>2 DEF Decoding, Ordered, Clean, Reads
  <2>5. Polite(r, l) /\ Shelled(r, term.phase)
    BY <2>2 DEF Decoding, Polite, Shelled
  <2>6. r.taken <= j + 1
    BY <1>1, <1>2, <2>2 DEF Reached
  <2>7. r.taken \in Nat
    BY <2>1 DEF Loose
  <2>8. r.taken <= Len(sent)
    BY <2>6, <2>7
  <2>9. Reached(r, j + 1)
    BY <2>1, <2>2, <2>6 DEF Reached, Reads
  <2>10. QED BY <2>1, <2>3, <2>4, <2>5, <2>8, <2>9 DEF Decoding, f
<1>5. CASE ~k.rejected /\ ~Rejected(f) /\ k.proto = "ready"
  <2>1. Reads(k) /\ Consumed(f) /\ k.proto = "ready"
    BY <1>1, <1>5, FramingAssumption DEF Reads, Consumed, Rejected, Fits, Lengths
  <2>2. c.taken = k.taken + 1 /\ Polite(c, l)
    BY <1>2, <2>1 DEF Decoding, Polite
  <2>3. f.kind \in {"input", "ping", "goodbye"}
    BY <1>1, <1>5 DEF Lengths, Rejected
  <2>4. CASE f.kind = "ping"
    <3>1. h = Answered(c)
      BY <1>5, <2>4 DEF Handled, c
    <3>2. SameBut(Answered(c), c) /\ Adds(Answered(c), c, "answer")
      BY <1>2, AnsweredIs
    <3>3. Polite(Answered(c), l)
      BY <1>2, <2>1, <2>2, <3>2, AddsPolitely DEF SameBut
    <3>4. QED BY <1>2, <1>5, <2>1, <2>2, <2>4, <3>1, <3>2, <3>3, SpokenFrame DEF f
  <2>5. CASE f.kind = "goodbye"
    <3> DEFINE e == [c EXCEPT !.proto = "closing"]
    <3>1. e \in Loose
      BY <1>2, Zenon DEF Loose
    <3>2. /\ e.taken = k.taken + 1 /\ e.rejected = k.rejected /\ e.sock = k.sock
          /\ e.typed = k.typed /\ e.missed = k.missed /\ e.proto = "closing" /\ e.out = c.out
      BY <1>2, <2>2 DEF Loose
    <3> HIDE DEF e
    <3>3. h = Farewell(e)
      BY <1>5, <2>5 DEF Handled, c, e
    <3>4. SameBut(Farewell(e), e) /\ Adds(Farewell(e), e, "goodbye")
      BY <3>1, AnsweredIs
    <3>5. Polite(e, l)
      BY <2>2, <3>2 DEF Polite
    <3>6. Polite(Farewell(e), l)
      BY <3>1, <3>2, <3>4, <3>5, AddsPolitely DEF SameBut
    <3>7. QED BY <1>5, <2>1, <2>5, <3>1, <3>2, <3>3, <3>4, <3>6, SpokenFrame DEF f
  <2>6. CASE f.kind = "input"
    <3>1. h = InputHandled(c)
      BY <1>5, <2>6 DEF Handled, c
    <3>2. QED BY <1>2, <1>5, <2>1, <2>2, <2>6, <3>1, InputFrame DEF f
  <2>7. QED BY <2>3, <2>4, <2>5, <2>6
<1>6. QED BY <1>1, <1>3, <1>4, <1>5 DEF Loose

----------------------------------------------------------------------------
(* The frames of a chunk, and the messages of output, one after the other. *)

LEMMA HandledLoose ==
  ASSUME NEW k \in Loose, NEW f \in Lengths
  PROVE  Handled(k, f) \in Loose
<1> DEFINE c == [k EXCEPT !.taken = IF Consumed(f) THEN @ + 1 ELSE @]
<1>1. c \in Loose
  <2> DEFINE n == IF Consumed(f) THEN k.taken + 1 ELSE k.taken
  <2>1. n \in Nat /\ c = [k EXCEPT !.taken = n]
    BY DEF Loose
  <2> HIDE DEF n, c
  <2>2. QED BY <2>1 DEF Loose
<1> HIDE DEF c
<1> DEFINE r == [c EXCEPT !.rejected = TRUE]
           e == [c EXCEPT !.proto = "closing"]
<1>2. r \in Loose
  BY <1>1, Zenon DEF Loose
<1>3. e \in Loose
  BY <1>1, Zenon DEF Loose
<1>4. Answered(c) \in Loose /\ Farewell(e) \in Loose
  BY <1>1, <1>3, AnsweredIs DEF SameBut
<1>5. InputHandled(c) \in Loose
  <2>1. Append(c.typed, c.taken) \in Seq(Nat) /\ Append(c.missed, c.taken) \in Seq(Nat)
    BY <1>1 DEF Loose
  <2>2. QED BY <1>1, <2>1 DEF InputHandled, Loose
<1> HIDE DEF r, e
<1>6. CASE k.rejected
  BY <1>6 DEF Handled
<1>7. CASE ~k.rejected /\ (Rejected(f) \/ k.proto = "closing")
  <2>1. Handled(k, f) = r
    BY <1>7 DEF Handled, r, c
  <2>2. QED BY <1>2, <2>1
<1>8. CASE ~k.rejected /\ ~Rejected(f) /\ k.proto = "ready"
  <2>1. f.kind \in {"input", "ping", "goodbye"}
    BY <1>8 DEF Lengths, Rejected
  <2>2. Handled(k, f) \in {Answered(c), Farewell(e), InputHandled(c)}
    BY <1>8, <2>1 DEF Handled, c, e
  <2>3. QED BY <1>4, <1>5, <2>2
<1>9. QED BY <1>6, <1>7, <1>8 DEF Loose

\* AllHandled is its recursion.
LEMMA AllHandledIs ==
  ASSUME NEW k \in Loose, NEW fs \in Seq(Lengths)
  PROVE  \E after : /\ after[0] = k
                    /\ \A i \in 1 .. Len(fs) : after[i] = Handled(after[i - 1], fs[i])
                    /\ AllHandled(k, fs) = after[Len(fs)]
<1> DEFINE after[i \in 0 .. Len(fs)] == IF i = 0 THEN k ELSE Handled(after[i - 1], fs[i])
           N == Len(fs)
           step == [i \in 1 .. N |-> [c \in Loose |-> Handled(c, fs[i])]]
<1>1. AllHandled(k, fs) = after[Len(fs)]
  BY DEF AllHandled
<1>2. after = CHOOSE f : f = [i \in 0 .. N |-> IF i = 0 THEN k ELSE Handled(f[i - 1], fs[i])]
  BY DEF after
<1>3. N \in Nat /\ \A i \in 1 .. N : fs[i] \in Lengths
  OBVIOUS
<1> HIDE DEF after, N
<1>4. PICK g : Solves(g, N, Loose, k, step)
  <2>1. step \in [1 .. N -> [Loose -> Loose]]
    BY <1>3, HandledLoose
  <2> HIDE DEF step
  <2>2. QED BY <1>3, <2>1, Recursion, Zenon
<1>5. g = [i \in 0 .. N |-> IF i = 0 THEN k ELSE Handled(g[i - 1], fs[i])]
  <2>1. ASSUME NEW i \in 0 .. N
        PROVE  g[i] = IF i = 0 THEN k ELSE Handled(g[i - 1], fs[i])
    <3>1. CASE i = 0
      BY <1>4, <3>1 DEF Solves
    <3>2. CASE i # 0
      <4>1. i \in 1 .. N /\ i - 1 \in 0 .. N
        BY <1>3, <3>2
      <4>2. g[i - 1] \in Loose
        BY <1>4, <4>1 DEF Solves
      <4>3. QED BY <1>4, <3>2, <4>1, <4>2 DEF Solves
    <3>3. QED BY <3>1, <3>2
  <2>2. QED BY <1>4, <2>1 DEF Solves
<1>6. after = [i \in 0 .. N |-> IF i = 0 THEN k ELSE Handled(after[i - 1], fs[i])]
  BY <1>2, <1>5
<1>7. after[0] = k
  BY <1>3, <1>6
<1>8. ASSUME NEW i \in 1 .. N PROVE after[i] = Handled(after[i - 1], fs[i])
  <2>1. i \in 0 .. N /\ i # 0
    OBVIOUS
  <2>2. QED BY <1>6, <2>1
<1>9. QED BY <1>1, <1>7, <1>8 DEF N

\* The frames after those taken are handled in turn.
LEMMA AllHandledKeeps ==
  ASSUME NEW k, NEW l, NEW fs \in Seq(Lengths), sent \in Seq(Lengths),
         Decoding(k, l, term.phase), Reached(k, k.taken),
         k.taken + Len(fs) <= Len(sent),
         \A i \in 1 .. Len(fs) : fs[i] = sent[k.taken + i]
  PROVE  /\ Decoding(AllHandled(k, fs), l, term.phase)
         /\ Reached(AllHandled(k, fs), k.taken + Len(fs))
<1> DEFINE N == Len(fs)
           t == k.taken
<1>1. k \in Loose /\ t \in Nat /\ N \in Nat
  BY DEF Reached, Loose
<1>2. PICK after : /\ after[0] = k
                   /\ \A i \in 1 .. N : after[i] = Handled(after[i - 1], fs[i])
                   /\ AllHandled(k, fs) = after[N]
  BY <1>1, AllHandledIs
<1> HIDE DEF N, t
<1> DEFINE P == {i \in 0 .. N : Decoding(after[i], l, term.phase) /\ Reached(after[i], t + i)}
<1>3. 0 \in P
  <2>1. 0 \in 0 .. N /\ t + 0 = t
    BY <1>1
  <2>2. QED BY <1>2, <2>1 DEF t
<1>4. ASSUME NEW i \in 1 .. N, i - 1 \in P PROVE i \in P
  <2> DEFINE j == t + (i - 1)
  <2>1. j \in Nat /\ j + 1 = t + i /\ i \in 0 .. N /\ j + 1 <= Len(sent)
    BY <1>1 DEF N, t
  <2>2. Decoding(after[i - 1], l, term.phase) /\ Reached(after[i - 1], j)
    BY <1>4
  <2>3. after[i] = Handled(after[i - 1], sent[j + 1])
    BY <1>2, <2>1 DEF N, t
  <2> HIDE DEF j
  <2>4. /\ Decoding(Handled(after[i - 1], sent[j + 1]), l, term.phase)
        /\ Reached(Handled(after[i - 1], sent[j + 1]), j + 1)
    BY <2>1, <2>2, HandledKeeps
  <2>5. QED BY <2>1, <2>3, <2>4
<1> HIDE DEF P
<1>5. \A i \in 0 .. N : i \in P
  BY <1>1, <1>3, <1>4, Climb, Zenon
<1>6. N \in P
  BY <1>1, <1>5
<1>7. QED BY <1>2, <1>6 DEF P, N, t

LEMMA AllSentIs ==
  ASSUME NEW k \in Loose, NEW sizes \in Seq(Nat),
         \A c \in Loose, n \in Nat : OutputSent(c, n) \in Loose
  PROVE  \E after : /\ after[0] = k
                    /\ \A i \in 1 .. Len(sizes) : after[i] = OutputSent(after[i - 1], sizes[i])
                    /\ AllSent(k, sizes) = after[Len(sizes)]
<1> DEFINE after[i \in 0 .. Len(sizes)] == IF i = 0 THEN k ELSE OutputSent(after[i - 1], sizes[i])
           N == Len(sizes)
           step == [i \in 1 .. N |-> [c \in Loose |-> OutputSent(c, sizes[i])]]
<1>1. AllSent(k, sizes) = after[Len(sizes)]
  BY DEF AllSent
<1>2. after = CHOOSE f : f = [i \in 0 .. N |->
                                IF i = 0 THEN k ELSE OutputSent(f[i - 1], sizes[i])]
  BY DEF after
<1>3. N \in Nat /\ \A i \in 1 .. N : sizes[i] \in Nat
  OBVIOUS
<1> HIDE DEF after, N
<1>4. PICK g : Solves(g, N, Loose, k, step)
  <2>1. step \in [1 .. N -> [Loose -> Loose]]
    BY <1>3
  <2> HIDE DEF step
  <2>2. QED BY <1>3, <2>1, Recursion, Zenon
<1>5. g = [i \in 0 .. N |-> IF i = 0 THEN k ELSE OutputSent(g[i - 1], sizes[i])]
  <2>1. ASSUME NEW i \in 0 .. N
        PROVE  g[i] = IF i = 0 THEN k ELSE OutputSent(g[i - 1], sizes[i])
    <3>1. CASE i = 0
      BY <1>4, <3>1 DEF Solves
    <3>2. CASE i # 0
      <4>1. i \in 1 .. N /\ i - 1 \in 0 .. N
        BY <1>3, <3>2
      <4>2. g[i - 1] \in Loose
        BY <1>4, <4>1 DEF Solves
      <4>3. QED BY <1>4, <3>2, <4>1, <4>2 DEF Solves
    <3>3. QED BY <3>1, <3>2
  <2>2. QED BY <1>4, <2>1 DEF Solves
<1>6. after = [i \in 0 .. N |-> IF i = 0 THEN k ELSE OutputSent(after[i - 1], sizes[i])]
  BY <1>2, <1>5
<1>7. after[0] = k
  BY <1>3, <1>6
<1>8. ASSUME NEW i \in 1 .. N PROVE after[i] = OutputSent(after[i - 1], sizes[i])
  <2>1. i \in 0 .. N /\ i # 0
    OBVIOUS
  <2>2. QED BY <1>6, <2>1
<1>9. QED BY <1>1, <1>7, <1>8 DEF N

\* Output, in however many messages, keeps everything but what waits to be taken.
LEMMA AllSentKeeps ==
  ASSUME NEW k, NEW l, NEW ph, NEW sizes \in Seq(Nat), Decoding(k, l, ph)
  PROVE  SameBut(AllSent(k, sizes), k) /\ Decoding(AllSent(k, sizes), l, ph)
<1> DEFINE N == Len(sizes)
<1>1. k \in Loose /\ N \in Nat
  BY DEF Decoding
<1>2. \A c \in Loose, n \in Nat : OutputSent(c, n) \in Loose
  <2> TAKE c \in Loose, n \in Nat
  <2>1. [kind |-> "output", size |-> n] \in Said
    BY DEF Said
  <2>2. Written(c, [kind |-> "output", size |-> n]) \in Loose
    BY <2>1, WrittenIs DEF SameBut
  <2>3. QED BY <2>2 DEF OutputSent
<1>3. PICK after : /\ after[0] = k
                   /\ \A i \in 1 .. N : after[i] = OutputSent(after[i - 1], sizes[i])
                   /\ AllSent(k, sizes) = after[N]
  BY <1>1, <1>2, AllSentIs
<1>4. \A i \in 1 .. N : sizes[i] \in Nat
  OBVIOUS
<1> HIDE DEF N
<1> DEFINE P == {i \in 0 .. N : SameBut(after[i], k) /\ Decoding(after[i], l, ph)}
<1>5. 0 \in P
  <2>1. SameBut(k, k) /\ 0 \in 0 .. N
    BY <1>1 DEF SameBut
  <2>2. QED BY <1>3, <2>1
<1>6. ASSUME NEW i \in 1 .. N, i - 1 \in P PROVE i \in P
  <2>1. i \in 0 .. N
    OBVIOUS
  <2>2. SameBut(after[i - 1], k) /\ Decoding(after[i - 1], l, ph)
    BY <1>6
  <2>3. SameBut(after[i], after[i - 1]) /\ Decoding(after[i], l, ph)
    BY <1>3, <1>4, <2>2, OutputKeeps
  <2>4. SameBut(after[i], k)
    BY <2>2, <2>3 DEF SameBut
  <2>5. QED BY <2>1, <2>3, <2>4
<1> HIDE DEF P
<1>7. \A i \in 0 .. N : i \in P
  BY <1>1, <1>5, <1>6, Climb, Zenon
<1>8. N \in P
  BY <1>1, <1>7
<1>9. QED BY <1>3, <1>8 DEF P

\* No more frames are decoded than there are.
LEMMA DecodableIs ==
  ASSUME NEW stream \in Seq(Lengths), NEW buffered
  PROVE  Decodable(stream, buffered) \in 0 .. Len(stream)
<1> DEFINE D == {i \in DOMAIN stream :
                   StreamBytes(SubSeq(stream, 1, i - 1)) + Needed(stream[i]) <= buffered}
<1>1. Len(stream) \in Nat /\ D \subseteq 1 .. Len(stream)
  OBVIOUS
<1>2. Decodable(stream, buffered) = Cardinality(D)
  BY DEF Decodable
<1> HIDE DEF D
<1>3. IsFiniteSet(1 .. Len(stream)) /\ Cardinality(1 .. Len(stream)) = Len(stream)
  <2> DEFINE n == Len(stream)
  <2>1. n \in Nat /\ n - 1 + 1 = n
    BY <1>1
  <2> HIDE DEF n
  <2>2. IsFiniteSet(1 .. n) /\ Cardinality(1 .. n) = IF 1 > n THEN 0 ELSE n - 1 + 1
    BY <2>1, FS_Interval
  <2>3. Cardinality(1 .. n) = n
    BY <2>1, <2>2
  <2>4. QED BY <2>2, <2>3 DEF n
<1>4. IsFiniteSet(D) /\ Cardinality(D) <= Len(stream)
  BY <1>1, <1>3, FS_Subset
<1>5. Cardinality(D) \in Nat
  BY <1>4, FS_CardinalityType
<1>6. QED BY <1>1, <1>2, <1>4, <1>5

\* The messages that a piece of output makes.
LEMMA PiecesIs ==
  ASSUME NEW n \in 1 .. 2 * ChunkLen
  PROVE  LET pieces == (n + ChunkLen - 1) \div ChunkLen
         IN  /\ pieces \in Nat
             /\ [i \in 1 .. pieces |-> IF i < pieces THEN ChunkLen
                                       ELSE n - (pieces - 1) * ChunkLen] \in Seq(Nat)
<1> DEFINE pieces == (n + ChunkLen - 1) \div ChunkLen
           rest == n - (pieces - 1) * ChunkLen
<1>1. ChunkLen \in Nat /\ ChunkLen > 0 /\ n \in Nat /\ n > 0
  BY TerminalAssumption
<1>2. pieces \in Nat
  BY <1>1
<1>3. pieces * ChunkLen <= n + ChunkLen - 1
  BY <1>1
<1>4. (pieces - 1) * ChunkLen = pieces * ChunkLen - ChunkLen
  BY <1>1, <1>2
<1>5. rest \in Nat
  BY <1>1, <1>2, <1>3, <1>4
<1> HIDE DEF pieces, rest
<1>6. [i \in 1 .. pieces |-> IF i < pieces THEN ChunkLen ELSE rest] \in Seq(Nat)
  BY <1>1, <1>2, <1>5
<1>7. QED BY <1>2, <1>6 DEF pieces, rest

----------------------------------------------------------------------------
(* The specification.                                                      *)

LEMMA FramesAreLengths == ASSUME NEW s \in Seq(Frames) PROVE s \in Seq(Lengths)
<1>1. Frames \subseteq Lengths
  BY TerminalAssumption, Zenon DEF Lengths
<1>2. \A i \in 1 .. Len(s) : s[i] \in Lengths
  BY <1>1
<1>3. QED BY <1>2

LEMMA ConnectionIs ==
  /\ \A k \in Loose : k.taken <= MaxFrames => k \in Connection
  /\ \A k \in Connection : k \in Loose
<1>1. MaxFrames \in Nat
  BY TerminalAssumption
<1>2. ASSUME NEW k \in Loose, k.taken <= MaxFrames PROVE k \in Connection
  <2>1. k.taken \in 0 .. MaxFrames
    BY <1>1, <1>2 DEF Loose
  <2>2. QED BY <2>1 DEF Loose, Connection
<1>3. ASSUME NEW k \in Connection PROVE k \in Loose
  BY <1>1, <1>3 DEF Loose, Connection
<1>4. QED BY <1>2, <1>3

LEMMA StartsRight == ASSUME Init PROVE IInv
<1>1. sent \in Seq(Frames) /\ Len(sent) <= MaxFrames /\ Len(sent) \in Nat
  <2>1. PICK n \in 0 .. MaxFrames : sent \in [1 .. n -> Frames]
    BY DEF Init
  <2>2. n \in Nat /\ n <= MaxFrames
    BY TerminalAssumption
  <2>3. sent \in Seq(Frames) /\ Len(sent) = n
    BY <2>1, <2>2
  <2>4. QED BY <2>2, <2>3
<1>2. StreamBytes(sent) \in Nat
  <2>1. sent \in Seq(Lengths)
    BY <1>1, FramesAreLengths
  <2>2. QED BY <2>1, StreamBytesIs
<1>3. /\ conn.sock = "open" /\ conn.proto = "ready" /\ conn.paused = FALSE
      /\ conn.draining = FALSE /\ conn.out = <<>> /\ conn.taken = 0 /\ conn.rejected = FALSE
      /\ conn.typed = <<>> /\ conn.missed = <<>>
  BY DEF Init
<1>4. <<>> \in Seq(Said) /\ <<>> \in Seq(Nat)
  OBVIOUS
<1>5. conn \in Loose
  <2> DEFINE c(p, d, r) == [sock |-> "open", proto |-> "ready", paused |-> p, draining |-> d,
                            out |-> <<>>, taken |-> 0, rejected |-> r, typed |-> <<>>,
                            missed |-> <<>>]
  <2>1. \A p, d, r \in BOOLEAN : c(p, d, r) \in Loose
    BY <1>4 DEF Loose, Socks
  <2>2. conn = c(FALSE, FALSE, FALSE)
    BY DEF Init
  <2> HIDE DEF c
  <2>3. QED BY <2>1, <2>2
<1>6. TypeOK
  <2>1. conn \in Connection
    BY <1>3, <1>5, ConnectionIs, TerminalAssumption
  <2>2. term \in Terminal
    <3>1. \A b \in BOOLEAN : /\ [phase |-> "connecting", speaks |-> b] \in Terminal
                              /\ [phase |-> "open", speaks |-> b] \in Terminal
      BY DEF Terminal
    <3>2. QED BY <3>1, Zenon DEF Init, Begun
  <2>3. fed \in 0 .. StreamBytes(sent) /\ spoken \in 0 .. MaxOutput
    <3>1. fed = 0 /\ spoken = 0
      BY DEF Init
    <3>2. QED BY <1>2, <3>1, TerminalAssumption
  <2>4. fin \in BOOLEAN
    BY DEF Init
  <2>5. last \in {"nothing", "output", "answer", "goodbye"}
    BY DEF Init
  <2>6. QED BY <1>1, <2>1, <2>2, <2>3, <2>4, <2>5 DEF TypeOK
<1>7. Polite(conn, last)
  BY <1>3 DEF Polite, Init
<1>8. Ordered(conn)
  <2>1. conn.missed \o conn.typed = <<>>
    BY <1>3
  <2>2. Rising(<<>>) /\ Members(<<>>) = Inputs(0) /\ 0 \in 0 .. Len(sent)
    BY <1>1 DEF Rising, Members, Inputs
  <2>3. QED BY <1>3, <2>1, <2>2 DEF Ordered
<1>9. Clean(conn)
  BY <1>3 DEF Clean
<1>10. Shelled(conn, term.phase)
  BY <1>3 DEF Shelled, Init, Begun, Early
<1>11. QED BY <1>1, <1>3, <1>5, <1>6, <1>7, <1>8, <1>9, <1>10 DEF IInv, Decoding

\* What a step has to keep.
LEMMA Carries ==
  ASSUME IInv, sent' = sent, ~conn'.rejected, Decoding(conn', last', term'.phase),
         fed' \in 0 .. StreamBytes(sent), fin' \in BOOLEAN,
         last' \in {"nothing", "output", "answer", "goodbye"},
         term' \in Terminal, spoken' \in 0 .. MaxOutput
  PROVE  IInv'
<1>1. sent \in Seq(Frames) /\ Len(sent) <= MaxFrames /\ Len(sent) \in Nat
  BY DEF IInv, TypeOK
<1>2. conn' \in Connection
  <2>1. conn' \in Loose /\ conn'.taken <= Len(sent) /\ conn'.taken \in Nat
    BY DEF Decoding, Loose
  <2>2. conn'.taken <= MaxFrames
    BY <1>1, <2>1, TerminalAssumption
  <2>3. QED BY <2>1, <2>2, ConnectionIs
<1>3. TypeOK'
  BY <1>1, <1>2 DEF TypeOK
<1>4. Decoding(conn, last, term.phase)'
  <2>1. Ordered(conn)' <=> Ordered(conn')
    BY DEF Ordered, Inputs, IsInput
  <2>2. Clean(conn)' <=> Clean(conn')
    BY DEF Clean
  <2>3. QED BY <2>1, <2>2 DEF Decoding
<1>5. QED BY <1>3, <1>4 DEF IInv

\* A step of the terminal alone.
LEMMA PhaseKeeps ==
  ASSUME NEW k, NEW l, NEW ph, NEW after, Decoding(k, l, ph), Shelled(k, after)
  PROVE  Decoding(k, l, after)
BY DEF Decoding

LEMMA TypeFacts ==
  ASSUME IInv
  PROVE  /\ conn \in Loose /\ conn.rejected = FALSE /\ Decoding(conn, last, term.phase)
         /\ sent \in Seq(Lengths) /\ fed \in 0 .. StreamBytes(sent) /\ StreamBytes(sent) \in Nat
         /\ fin \in BOOLEAN /\ last \in {"nothing", "output", "answer", "goodbye"}
         /\ term \in Terminal /\ spoken \in 0 .. MaxOutput
<1>1. conn \in Loose /\ Decoding(conn, last, term.phase)
  BY DEF IInv, Decoding
<1>2. conn.rejected = FALSE
  BY <1>1 DEF IInv, Loose
<1>3. sent \in Seq(Lengths)
  BY FramesAreLengths DEF IInv, TypeOK
<1>4. StreamBytes(sent) \in Nat
  BY <1>3, StreamBytesIs
<1>5. QED BY <1>1, <1>2, <1>3, <1>4 DEF IInv, TypeOK

LEMMA ClientTakesKeeps == ASSUME IInv, ClientTakes PROVE IInv'
<1> DEFINE drained == conn.draining /\ Len(conn.out) = 1 /\ conn.sock = "open"
           N == Len(conn.out)
<1>1. /\ conn \in Loose /\ Decoding(conn, last, term.phase) /\ conn.out # <<>>
      /\ conn.out \in Seq(Said) /\ conn.paused \in BOOLEAN /\ conn.draining \in BOOLEAN
  BY TypeFacts DEF ClientTakes, Loose
<1>2. conn' = [conn EXCEPT !.out = Tail(@), !.paused = @ /\ ~drained, !.draining = @ /\ ~drained]
  BY DEF ClientTakes
<1>3. drained \in BOOLEAN /\ Tail(conn.out) \in Seq(Said)
  BY <1>1
<1> HIDE DEF drained
<1>4. conn' \in Loose /\ conn'.out = Tail(conn.out)
  <2>1. (conn.paused /\ ~drained) \in BOOLEAN /\ (conn.draining /\ ~drained) \in BOOLEAN
    OBVIOUS
  <2> DEFINE p == conn.paused /\ ~drained
             d == conn.draining /\ ~drained
             o == Tail(conn.out)
  <2>2. conn' = [conn EXCEPT !.out = o, !.paused = p, !.draining = d]
    BY <1>2
  <2> HIDE DEF p, d, o
  <2>3. p \in BOOLEAN /\ d \in BOOLEAN /\ o \in Seq(Said)
    BY <1>3, <2>1 DEF p, d, o
  <2>4. conn' \in Loose
    BY <1>1, <2>2, <2>3, Zenon DEF Loose
  <2>5. conn'.out = o
    BY <1>1, <2>2 DEF Loose
  <2>6. QED BY <2>4, <2>5 DEF o
<1>5. SameBut(conn', conn)
  BY <1>1, <1>2, <1>4 DEF SameBut, Loose
<1>6. /\ N \in Nat /\ N > 0 /\ DOMAIN conn.out = 1 .. N /\ DOMAIN conn'.out = 1 .. N - 1
      /\ Head(conn.out) = conn.out[1]
      /\ \A i \in 1 .. N - 1 : i + 1 \in 1 .. N /\ conn'.out[i] = conn.out[i + 1]
  BY <1>1, <1>4
<1>7. last' = conn.out[1].kind
  BY <1>6 DEF ClientTakes
<1> HIDE DEF N
<1>8. Polite(conn', last')
  <2>1. ASSUME NEW i \in 1 .. N - 1, NEW j \in 1 .. N - 1, i < j, conn'.out[i].kind = "goodbye"
        PROVE  conn'.out[j].kind = "goodbye"
    <3>1. i + 1 \in 1 .. N /\ j + 1 \in 1 .. N /\ i + 1 < j + 1
      BY <1>6, <2>1
    <3>2. QED BY <1>1, <1>6, <2>1, <3>1 DEF Decoding, Polite
  <2>2. ASSUME last' = "goodbye", NEW i \in 1 .. N - 1 PROVE conn'.out[i].kind = "goodbye"
    <3>1. 1 \in 1 .. N /\ i + 1 \in 1 .. N /\ 1 < i + 1
      BY <1>6
    <3>2. QED BY <1>1, <1>6, <1>7, <2>2, <3>1 DEF Decoding, Polite
  <2>3. ASSUME conn'.proto = "ready"
        PROVE  last' # "goodbye" /\ \A i \in 1 .. N - 1 : conn'.out[i].kind # "goodbye"
    <3>1. \A i \in 1 .. N : conn.out[i].kind # "goodbye"
      BY <1>1, <1>5, <1>6, <2>3 DEF Decoding, Polite, SameBut
    <3>2. 1 \in 1 .. N
      BY <1>6
    <3>3. QED BY <1>6, <1>7, <3>1, <3>2
  <2>4. QED BY <1>6, <2>1, <2>2, <2>3 DEF Polite
<1>9. Decoding(conn', last', term.phase)
  BY <1>1, <1>5, <1>8, WaitingKeeps
<1>10. last' \in {"nothing", "output", "answer", "goodbye"}
  <2>1. conn.out[1] \in Said
    BY <1>1, <1>6
  <2>2. QED BY <1>7, <2>1 DEF Said
<1>11. ~conn'.rejected
  BY <1>5, TypeFacts DEF SameBut
<1>12. QED
  <2>1. UNCHANGED <<sent, fed, fin, term, spoken>>
    BY DEF ClientTakes
  <2>2. QED BY <1>9, <1>10, <1>11, <2>1, TypeFacts, Carries

LEMMA ArrivalKeeps == ASSUME IInv, NEW n \in 1 .. StreamBytes(sent), Arrives(n) PROVE IInv'
<1> DEFINE t        == conn.taken
           stream   == SubSeq(sent, t + 1, Len(sent))
           buffered == fed + n - StreamBytes(SubSeq(sent, 1, t))
           d        == Decodable(stream, buffered)
           fs       == SubSeq(stream, 1, d)
           k        == AllHandled(conn, fs)
<1>1. /\ conn \in Loose /\ Decoding(conn, last, term.phase) /\ sent \in Seq(Lengths)
      /\ t \in Nat /\ t <= Len(sent) /\ conn.sock # "closed"
  BY TypeFacts DEF Decoding, Loose, Arrives
<1>2. stream \in Seq(Lengths) /\ Len(stream) = Len(sent) - t
      /\ \A i \in 1 .. Len(stream) : stream[i] = sent[t + i]
  <2>1. Len(sent) \in Nat /\ t + 1 \in Nat
    BY <1>1
  <2>2. stream \in Seq(Lengths) /\ Len(stream) = Len(sent) - (t + 1) + 1
    BY <1>1, <2>1, SubSeqProperties
  <2>3. Len(stream) = Len(sent) - t
    BY <1>1, <2>1, <2>2
  <2>4. \A i \in 1 .. Len(stream) : stream[i] = sent[t + i]
    <3> SUFFICES ASSUME NEW i \in 1 .. Len(stream) PROVE stream[i] = sent[t + i]
      OBVIOUS
    <3>1. i \in Nat /\ i >= 1 /\ t + i <= Len(sent) /\ t + i >= t + 1
      BY <1>1, <2>1, <2>3
    <3>2. stream = SubSeq(sent, t + 1, Len(sent))
      OBVIOUS
    <3> HIDE DEF stream, t
    <3>3. i \in 1 .. Len(sent) - (t + 1) + 1
      BY <1>1, <2>1, <3>1
    <3>4. stream[i] = sent[(t + 1) + i - 1]
      BY <1>1, <2>1, <3>2, <3>3
    <3>5. (t + 1) + i - 1 = t + i
      BY <1>1, <3>1
    <3>6. QED BY <3>4, <3>5
  <2>5. QED BY <2>2, <2>3, <2>4
<1> HIDE DEF stream, buffered, t
<1>3. d \in 0 .. Len(stream)
  BY <1>2, DecodableIs
<1> HIDE DEF d
<1>4. fs \in Seq(Lengths) /\ Len(fs) = d /\ \A i \in 1 .. d : fs[i] = stream[i]
  BY <1>2, <1>3
<1> HIDE DEF fs
<1>5. \A i \in 1 .. Len(fs) : fs[i] = sent[t + i]
  BY <1>2, <1>3, <1>4
<1>6. t + Len(fs) <= Len(sent)
  BY <1>1, <1>2, <1>3, <1>4
<1>7. Reached(conn, t)
  BY <1>1 DEF Reached, t
<1>8. Decoding(k, last, term.phase) /\ Reached(k, t + Len(fs))
  BY <1>1, <1>4, <1>5, <1>6, <1>7, AllHandledKeeps DEF t
<1> HIDE DEF k
<1>9. conn' = IF k.rejected THEN Failed([k EXCEPT !.rejected = FALSE]) ELSE k
  BY DEF Arrives, k, fs, d, buffered, stream, t
<1>10. k.sock # "closed"
  BY <1>8 DEF Reached
<1>11. ~conn'.rejected /\ Decoding(conn', last, term.phase)
  <2>1. CASE k.rejected
    BY <1>8, <1>9, <1>10, <2>1, FailedKeeps
  <2>2. CASE ~k.rejected
    BY <1>8, <1>9, <2>2
  <2>3. QED BY <2>1, <2>2
<1>12. fed' \in 0 .. StreamBytes(sent)
  <2>1. fed' = fed + n /\ fed + n <= StreamBytes(sent)
    BY DEF Arrives
  <2>2. QED BY <2>1, TypeFacts
<1>13. UNCHANGED <<sent, fin, last, term, spoken>>
  BY DEF Arrives
<1>14. QED BY <1>11, <1>12, <1>13, TypeFacts, Carries

LEMMA SpeaksKeeps == ASSUME IInv, NEW n \in 1 .. 2 * ChunkLen, Speaks(n) PROVE IInv'
<1> DEFINE pieces == (n + ChunkLen - 1) \div ChunkLen
           sizes  == [i \in 1 .. pieces |-> IF i < pieces THEN ChunkLen
                                            ELSE n - (pieces - 1) * ChunkLen]
<1>1. pieces \in Nat /\ sizes \in Seq(Nat)
  BY PiecesIs
<1>2. /\ spoken + pieces <= MaxOutput /\ spoken' = spoken + pieces /\ conn' = AllSent(conn, sizes)
      /\ UNCHANGED <<sent, fed, fin, last, term>>
  BY DEF Speaks
<1> HIDE DEF pieces, sizes
<1>3. SameBut(conn', conn) /\ Decoding(conn', last, term.phase)
  BY <1>1, <1>2, TypeFacts, AllSentKeeps
<1>4. ~conn'.rejected
  BY <1>3, TypeFacts DEF SameBut
<1>5. spoken' \in 0 .. MaxOutput
  BY <1>1, <1>2, TypeFacts, TerminalAssumption
<1>6. QED BY <1>2, <1>3, <1>4, <1>5, TypeFacts, Carries

\* The socket closes, and the terminal is disposed of.
LEMMA ClosedKeeps == ASSUME IInv, Closed PROVE IInv'
<1>1. /\ conn \in Loose /\ Decoding(conn, last, term.phase) /\ conn.rejected = FALSE
      /\ term \in Terminal
  BY TypeFacts
<1>2. /\ conn' = [conn EXCEPT !.sock = "closed", !.out = <<>>] /\ term' = Disposed(term)
      /\ UNCHANGED <<sent, fed, fin, last, spoken>>
  BY DEF Closed
<1>3. conn' \in Loose
  <2>1. "closed" \in Socks /\ <<>> \in Seq(Said)
    BY DEF Socks
  <2>2. QED BY <1>1, <1>2, <2>1, Zenon DEF Loose
<1>4. /\ conn'.sock = "closed" /\ conn'.out = <<>> /\ conn'.proto = conn.proto
      /\ conn'.taken = conn.taken /\ conn'.rejected = conn.rejected
      /\ conn'.typed = conn.typed /\ conn'.missed = conn.missed
  BY <1>1, <1>2 DEF Loose
<1>5. term' \in Terminal /\ term'.phase \in {"over", "disposed"}
  BY <1>1, <1>2 DEF Disposed, Terminal
<1>6. Polite(conn', last) /\ Ordered(conn') /\ Clean(conn')
  <2>1. Polite(conn', last)
    BY <1>1, <1>4 DEF Decoding, Polite
  <2>2. Ordered(conn') /\ Clean(conn')
    BY <1>1, <1>4 DEF Decoding, Ordered, Clean, Reads
  <2>3. QED BY <2>1, <2>2
<1>7. Shelled(conn', term'.phase)
  BY <1>4, <1>5 DEF Shelled, Early
<1>8. Decoding(conn', last, term'.phase)
  BY <1>1, <1>3, <1>4, <1>6, <1>7 DEF Decoding
<1>9. QED BY <1>1, <1>2, <1>4, <1>5, <1>8, TypeFacts, Carries

LEMMA ExitsKeeps == ASSUME IInv, Exits PROVE IInv'
<1>1. /\ conn \in Loose /\ Decoding(conn, last, term.phase) /\ conn.rejected = FALSE
      /\ term \in Terminal
  BY TypeFacts
<1>2. /\ conn' = Failed(conn) /\ term' = [term EXCEPT !.phase = "over"]
      /\ UNCHANGED <<sent, fed, fin, last, spoken>>
  BY DEF Exits
<1>3. term' \in Terminal /\ term'.phase = "over" /\ "over" \notin Early
  BY <1>1, <1>2 DEF Terminal, Early
<1>4. ~conn'.rejected /\ Decoding(conn', last, "over")
  <2>1. CASE conn.sock = "closed"
    <3>1. conn' = conn
      BY <1>2, <2>1 DEF Failed
    <3>2. Shelled(conn, "over")
      BY <1>3, <2>1 DEF Shelled
    <3>3. QED BY <1>1, <3>1, <3>2, PhaseKeeps
  <2>2. CASE conn.sock # "closed"
    <3>1. [conn EXCEPT !.rejected = FALSE] = conn
      BY <1>1, Zenon DEF Loose
    <3>2. QED BY <1>1, <1>2, <1>3, <2>2, <3>1, FailedKeeps
  <2>3. QED BY <2>1, <2>2
<1>5. QED BY <1>2, <1>3, <1>4, TypeFacts, Carries

LEMMA IdleTimeoutKeeps == ASSUME IInv, IdleTimeout PROVE IInv'
<1> DEFINE c == [conn EXCEPT !.proto = "closing"]
<1>1. conn \in Loose /\ Decoding(conn, last, term.phase) /\ conn.rejected = FALSE
  BY TypeFacts
<1>2. conn' = Ended(c) /\ UNCHANGED <<sent, fed, fin, last, term, spoken>>
  BY DEF IdleTimeout
<1>3. c \in Loose
  BY <1>1, Zenon DEF Loose
<1>4. /\ c.proto = "closing" /\ c.out = conn.out /\ c.taken = conn.taken
      /\ c.rejected = conn.rejected /\ c.typed = conn.typed /\ c.missed = conn.missed
  BY <1>1 DEF Loose
<1> HIDE DEF c
<1>5. conn' \in Loose
  BY <1>2, <1>3 DEF Ended, Loose, Socks
<1>6. /\ conn'.proto = "closing" /\ conn'.out = conn.out /\ conn'.taken = conn.taken
      /\ conn'.rejected = conn.rejected /\ conn'.typed = conn.typed
      /\ conn'.missed = conn.missed
  BY <1>2, <1>3, <1>4 DEF Ended, Loose
<1>7. Polite(conn', last)
  BY <1>1, <1>6 DEF Decoding, Polite
<1>8. conn'.taken <= Len(sent)
  BY <1>1, <1>6 DEF Decoding
<1>9. Decoding(conn', last, term.phase)
  BY <1>1, <1>5, <1>6, <1>7, <1>8, ClosingKeeps
<1>10. QED BY <1>1, <1>2, <1>6, <1>9, TypeFacts, Carries

LEMMA PeerEndsKeeps == ASSUME IInv, PeerEnds PROVE IInv'
<1>1. conn \in Loose /\ Decoding(conn, last, term.phase) /\ conn.rejected = FALSE
  BY TypeFacts
<1>2. /\ conn' = [conn EXCEPT !.sock = "finishing"] /\ conn.sock \in {"open", "ended"}
      /\ UNCHANGED <<sent, fed, fin, last, term, spoken>>
  BY DEF PeerEnds
<1>3. SameBut(conn', conn) /\ conn'.out = conn.out
  BY <1>1, <1>2 DEF SameBut, Loose, Socks
<1>4. Polite(conn', last)
  BY <1>1, <1>3 DEF Decoding, Polite, SameBut
<1>5. Decoding(conn', last, term.phase)
  BY <1>1, <1>3, <1>4, WaitingKeeps
<1>6. QED BY <1>1, <1>2, <1>3, <1>5, TypeFacts, Carries DEF SameBut

\* A step of the terminal towards its shell, or its silence.
LEMMA TerminalKeeps ==
  ASSUME IInv, SshReady \/ ShellOpens \/ FallsSilent
  PROVE  IInv'
<1>1. /\ conn \in Loose /\ Decoding(conn, last, term.phase) /\ conn.rejected = FALSE
      /\ term \in Terminal
  BY TypeFacts
<1>2. UNCHANGED <<sent, fed, fin, conn, last, spoken>>
  BY DEF SshReady, ShellOpens, FallsSilent
<1>3. term' \in Terminal /\ Shelled(conn, term'.phase)
  <2>1. CASE SshReady
    <3>1. term' \in Terminal /\ term.phase = "connecting" /\ term'.phase = "shell"
      BY <1>1, <2>1 DEF SshReady, Terminal
    <3>2. QED BY <1>1, <3>1 DEF Decoding, Shelled, Early
  <2>2. CASE ShellOpens
    <3>1. term' = [phase |-> "open", speaks |-> TRUE]
      BY <2>2 DEF ShellOpens
    <3>2. \A b \in BOOLEAN : [phase |-> "open", speaks |-> b] \in Terminal
      BY DEF Terminal
    <3>3. term' \in Terminal
      BY <3>1, <3>2, Zenon
    <3>4. term'.phase = "open"
      BY <3>1
    <3>5. QED BY <3>3, <3>4 DEF Shelled, Early
  <2>3. CASE FallsSilent
    <3>1. term' = [term EXCEPT !.speaks = FALSE]
      BY <2>3 DEF FallsSilent
    <3>2. term' \in Terminal
      BY <1>1, <3>1, Zenon DEF Terminal
    <3>3. term'.phase = term.phase
      BY <1>1, <3>1 DEF Terminal
    <3>4. QED BY <1>1, <3>2, <3>3 DEF Decoding
  <2>4. QED BY <2>1, <2>2, <2>3
<1>4. Decoding(conn, last, term'.phase)
  BY <1>1, <1>3, PhaseKeeps
<1>5. QED BY <1>1, <1>2, <1>3, <1>4, TypeFacts, Carries

LEMMA StepsKeep == ASSUME IInv, [Next]_vars PROVE IInv'
<1>1. CASE UNCHANGED vars
  <2>1. conn' = conn /\ sent' = sent /\ last' = last /\ term' = term
    BY <1>1 DEF vars
  <2>2. QED BY <1>1, <2>1, TypeFacts, Carries DEF vars
<1>2. CASE ClientEnds
  <2>1. fin' = TRUE /\ UNCHANGED <<sent, fed, conn, last, term, spoken>>
    BY <1>2 DEF ClientEnds
  <2>2. QED BY <2>1, TypeFacts, Carries
<1>3. CASE Arrival
  BY <1>3, ArrivalKeeps DEF Arrival
<1>4. CASE PeerEnds
  BY <1>4, PeerEndsKeeps
<1>5. CASE ClientTakes
  BY <1>5, ClientTakesKeeps
<1>6. CASE IdleTimeout
  BY <1>6, IdleTimeoutKeeps
<1>7. CASE SocketCloses \/ SocketFails
  BY <1>7, ClosedKeeps DEF SocketCloses, SocketFails
<1>8. CASE SshReady \/ ShellOpens \/ FallsSilent
  BY <1>8, TerminalKeeps
<1>9. CASE Exits
  BY <1>9, ExitsKeeps
<1>10. CASE \E n \in 1 .. 2 * ChunkLen : Speaks(n)
  BY <1>10, SpeaksKeeps
<1>11. QED
  BY <1>1, <1>2, <1>3, <1>4, <1>5, <1>6, <1>7, <1>8, <1>9, <1>10 DEF Next

\* The strengthened invariant holds in every reachable state: for any frames the client may
\* send, however TCP cuts them, and for any limits of the socket and sizes of output.
THEOREM Inductive == Spec => []IInv
<1>1. Init => IInv
  BY StartsRight
<1>2. IInv /\ [Next]_vars => IInv'
  BY StepsKeep
<1>3. QED BY <1>1, <1>2, PTL DEF Spec

\* The state is always well typed; the decoder never consumes more frames than were sent.
THEOREM TypeCorrect == Spec => [](TypeOK /\ conn.taken <= Len(sent))
<1>1. IInv => TypeOK /\ conn.taken <= Len(sent)
  BY DEF IInv, Decoding
<1>2. QED BY <1>1, Inductive, PTL

\* Input reaches the terminal once and in the order it was sent, none is passed over while
\* the connection is ready, and none is taken from what follows a bad frame or a goodbye
\* (connection.ts:189-214).
THEOREM InputsInOrder == Spec => []InputInOrder
<1>1. IInv => InputInOrder
  <2> SUFFICES ASSUME IInv PROVE InputInOrder
    OBVIOUS
  <2>1. Ordered(conn) /\ ~conn.rejected
    BY DEF IInv, Decoding
  <2>2. QED BY <2>1 DEF InputInOrder, Ordered, Rising, Members, Inputs, Reads
<1>2. QED BY <1>1, Inductive, PTL

\* A goodbye is the last word: neither output of a terminal that still has some, nor an
\* answer, follows it (ssh-backend.ts:164).
THEOREM GoodbyesLast == Spec => []GoodbyeIsLast
<1>1. IInv => GoodbyeIsLast
  <2> SUFFICES ASSUME IInv PROVE GoodbyeIsLast
    OBVIOUS
  <2> DEFINE kinds == [i \in DOMAIN conn.out |-> conn.out[i].kind]
             said  == <<last>> \o kinds
             N     == Len(conn.out)
             Word  == {"nothing", "output", "answer", "goodbye"}
  <2>1. /\ Polite(conn, last) /\ conn.out \in Seq(Said) /\ last \in Word
        /\ N \in Nat /\ DOMAIN conn.out = 1 .. N
    BY TypeFacts DEF Decoding, Loose
  <2>2. \A i \in 1 .. N : conn.out[i].kind \in Word
    <3>1. \A i \in 1 .. N : conn.out[i] \in Said
      BY <2>1
    <3>2. \A m \in Said : m.kind \in Word
      BY DEF Said
    <3>3. QED BY <3>1, <3>2
  <2>3. kinds \in Seq(Word) /\ Len(kinds) = N /\ <<last>> \in Seq(Word)
    <3>1. kinds = [i \in 1 .. N |-> conn.out[i].kind]
      BY <2>1
    <3> HIDE DEF Word, N
    <3>2. QED BY <2>1, <2>2, <3>1
  <2> HIDE DEF kinds, N, Word
  <2>4. /\ DOMAIN said = 1 .. N + 1 /\ said[1] = last
        /\ \A i \in 2 .. N + 1 : said[i] = kinds[i - 1]
    BY <2>1, <2>3
  <2>5. \A i \in 1 .. N : kinds[i] = conn.out[i].kind
    BY <2>1 DEF kinds
  <2> HIDE DEF said
  <2>6. ASSUME NEW i \in 1 .. N + 1, NEW j \in 1 .. N + 1, i < j, said[i] = "goodbye"
        PROVE  said[j] = "goodbye"
    <3>1. j \in 2 .. N + 1 /\ j - 1 \in 1 .. N /\ said[j] = conn.out[j - 1].kind
      BY <2>1, <2>4, <2>5, <2>6
    <3>2. CASE i = 1
      BY <2>1, <2>4, <2>6, <3>1, <3>2 DEF Polite
    <3>3. CASE i # 1
      <4>1. i \in 2 .. N + 1 /\ i - 1 \in 1 .. N /\ said[i] = conn.out[i - 1].kind /\ i - 1 < j - 1
        BY <2>1, <2>4, <2>5, <2>6, <3>3
      <4>2. QED BY <2>1, <2>6, <3>1, <4>1 DEF Polite
    <3>4. QED BY <3>2, <3>3
  <2>7. QED BY <2>4, <2>6 DEF GoodbyeIsLast, said, kinds
<1>2. QED BY <1>1, Inductive, PTL

----------------------------------------------------------------------------
(* How often a message is in a sequence.                                   *)

LEMMA TimesIs == ASSUME NEW id, NEW q \in Seq(Nat) PROVE Times(id, q) \in Nat
<1> DEFINE H == {i \in DOMAIN q : q[i] = id}
<1>1. H \subseteq 1 .. Len(q) /\ Len(q) \in Nat
  OBVIOUS
<1> HIDE DEF H
<1>2. IsFiniteSet(H)
  <2>1. IsFiniteSet(1 .. Len(q))
    BY <1>1, FS_Interval
  <2>2. QED BY <1>1, <2>1, FS_Subset
<1>3. Cardinality(H) \in Nat
  BY <1>2, FS_CardinalityType
<1>4. QED BY <1>3 DEF Times, H

LEMMA TimesConcat ==
  ASSUME NEW id, NEW a \in Seq(Nat), NEW b \in Seq(Nat)
  PROVE  Times(id, a \o b) = Times(id, a) + Times(id, b)
<1> DEFINE c == a \o b
           A == {i \in DOMAIN a : a[i] = id}
           B == {i \in DOMAIN b : b[i] = id}
           C == {i \in DOMAIN c : c[i] = id}
           N == Len(a)
           M == Len(b)
           S == C \ A
           f == [i \in B |-> i + N]
<1>1. /\ N \in Nat /\ M \in Nat /\ DOMAIN a = 1 .. N /\ DOMAIN b = 1 .. M
      /\ DOMAIN c = 1 .. N + M
      /\ \A i \in 1 .. N + M : c[i] = IF i <= N THEN a[i] ELSE b[i - N]
  BY ConcatProperties
<1> HIDE DEF c, N, M
<1>2. A \subseteq 1 .. N /\ B \subseteq 1 .. M /\ C \subseteq 1 .. N + M
  BY <1>1
<1>3. A \subseteq C
  BY <1>1
<1>4. S = {i \in 1 .. N + M : i > N /\ b[i - N] = id}
  BY <1>1
<1>5. f \in Bijection(B, S)
  <2>1. ASSUME NEW i \in B PROVE i + N \in S
    BY <1>1, <1>4
  <2>2. ASSUME NEW j \in S PROVE \E i \in B : i + N = j
    <3>1. j - N \in B /\ (j - N) + N = j
      BY <1>1, <1>4
    <3>2. QED BY <3>1
  <2>3. ASSUME NEW i \in B, NEW j \in B, i + N = j + N PROVE i = j
    BY <1>1, <1>2, <2>3
  <2> HIDE DEF B, S
  <2>4. QED BY <2>1, <2>2, <2>3 DEF Bijection, Injection, Surjection, IsInjective
<1> HIDE DEF A, B, C, f
<1>6. IsFiniteSet(A) /\ IsFiniteSet(B) /\ IsFiniteSet(C)
  <2>1. IsFiniteSet(1 .. N) /\ IsFiniteSet(1 .. M) /\ IsFiniteSet(1 .. N + M)
    BY <1>1, FS_Interval
  <2>2. QED BY <1>2, <2>1, FS_Subset
<1>7. IsFiniteSet(S) /\ Cardinality(S) = Cardinality(B)
  <2>1. ExistsBijection(B, S)
    BY <1>5 DEF ExistsBijection
  <2>2. QED BY <1>6, <2>1, FS_Bijection
<1>8. Cardinality(A \cup S) = Cardinality(A) + Cardinality(S) - Cardinality(A \cap S)
  BY <1>6, <1>7, FS_Union
<1>9. A \cup S = C /\ A \cap S = {}
  BY <1>3
<1>10. Cardinality(A \cap S) = 0
  BY <1>9, FS_EmptySet
<1>11. Cardinality(A) \in Nat /\ Cardinality(B) \in Nat
  BY <1>6, FS_CardinalityType
<1>12. Cardinality(C) = Cardinality(A) + Cardinality(B)
  <2>1. Cardinality(A \cup S) = Cardinality(C)
    BY <1>9
  <2> HIDE DEF S
  <2>2. QED BY <1>7, <1>8, <1>10, <1>11, <2>1
<1>13. QED BY <1>12 DEF Times, A, B, C, c

LEMMA TimesOne ==
  ASSUME NEW id, NEW x \in Nat
  PROVE  Times(id, <<x>>) = IF x = id THEN 1 ELSE 0
<1>1. CASE x = id
  <2>1. {i \in DOMAIN <<x>> : <<x>>[i] = id} = {1}
    BY <1>1
  <2>2. Cardinality({1}) = 1
    BY FS_Singleton
  <2>3. QED BY <1>1, <2>1, <2>2 DEF Times
<1>2. CASE x # id
  <2>1. {i \in DOMAIN <<x>> : <<x>>[i] = id} = {}
    BY <1>2
  <2>2. QED BY <1>2, <2>1, FS_EmptySet DEF Times
<1>3. QED BY <1>1, <1>2

LEMMA TimesNone ==
  ASSUME NEW id, NEW q \in Seq(Nat), \A i \in DOMAIN q : q[i] # id
  PROVE  Times(id, q) = 0
<1>1. {i \in DOMAIN q : q[i] = id} = {}
  OBVIOUS
<1>2. QED BY <1>1, FS_EmptySet DEF Times

----------------------------------------------------------------------------
(* How often a message is in a queue or a socket.                          *)

Count(id, q) == Times(id, Ids(q))

LEMMA IdsIs ==
  ASSUME NEW q \in Seq(Chunk)
  PROVE  /\ Ids(q) \in Seq(Nat) /\ Len(Ids(q)) = Len(q)
         /\ \A i \in 1 .. Len(q) : Ids(q)[i] = q[i].id
<1>1. \A i \in 1 .. Len(q) : q[i].id \in Nat
  <2>1. \A i \in 1 .. Len(q) : q[i] \in Chunk
    OBVIOUS
  <2>2. \A m \in Chunk : m.id \in Nat
    BY DEF Chunk
  <2>3. QED BY <2>1, <2>2
<1>2. Ids(q) = [i \in 1 .. Len(q) |-> q[i].id] /\ Len(q) \in Nat
  BY DEF Ids
<1>3. QED BY <1>1, <1>2

LEMMA CountIs == ASSUME NEW id, NEW q \in Seq(Chunk) PROVE Count(id, q) \in Nat
BY IdsIs, TimesIs DEF Count

LEMMA CountConcat ==
  ASSUME NEW id, NEW a \in Seq(Chunk), NEW b \in Seq(Chunk)
  PROVE  Count(id, a \o b) = Count(id, a) + Count(id, b)
<1> DEFINE c == a \o b
           x == Ids(a)
           y == Ids(b)
           z == Ids(c)
<1>1. c \in Seq(Chunk) /\ Len(c) = Len(a) + Len(b) /\ Len(a) \in Nat /\ Len(b) \in Nat
  OBVIOUS
<1>2. \A i \in 1 .. Len(a) + Len(b) : c[i] = IF i <= Len(a) THEN a[i] ELSE b[i - Len(a)]
  BY ConcatProperties
<1> HIDE DEF c
<1>3. /\ x \in Seq(Nat) /\ Len(x) = Len(a) /\ \A i \in 1 .. Len(a) : x[i] = a[i].id
      /\ y \in Seq(Nat) /\ Len(y) = Len(b) /\ \A i \in 1 .. Len(b) : y[i] = b[i].id
      /\ z \in Seq(Nat) /\ Len(z) = Len(c) /\ \A i \in 1 .. Len(c) : z[i] = c[i].id
  BY <1>1, IdsIs
<1> HIDE DEF x, y, z
<1>4. /\ x \o y \in Seq(Nat) /\ Len(x \o y) = Len(c)
      /\ \A i \in 1 .. Len(c) : (x \o y)[i] = IF i <= Len(a) THEN x[i] ELSE y[i - Len(a)]
  <2>1. /\ x \o y \in Seq(Nat) /\ Len(x \o y) = Len(x) + Len(y)
        /\ \A i \in 1 .. Len(x) + Len(y) :
             (x \o y)[i] = IF i <= Len(x) THEN x[i] ELSE y[i - Len(x)]
    <3>1. x \in Seq(Nat) /\ y \in Seq(Nat)
      BY <1>3
    <3>2. QED BY <3>1, ConcatProperties, Zenon
  <2>2. Len(x) + Len(y) = Len(c)
    BY <1>1, <1>3
  <2>3. QED BY <1>3, <2>1, <2>2
<1>5. ASSUME NEW i \in 1 .. Len(c) PROVE z[i] = (x \o y)[i]
  <2>1. CASE i <= Len(a)
    <3>1. i \in 1 .. Len(a) /\ i \in 1 .. Len(a) + Len(b)
      BY <1>1, <2>1
    <3>2. c[i] = a[i] /\ (x \o y)[i] = x[i] /\ z[i] = c[i].id /\ x[i] = a[i].id
      BY <1>2, <1>3, <1>4, <2>1, <3>1
    <3>3. QED BY <3>2
  <2>2. CASE ~(i <= Len(a))
    <3>1. i - Len(a) \in 1 .. Len(b)
      BY <1>1, <2>2
    <3>2. QED BY <1>1, <1>2, <1>3, <1>4, <2>2, <3>1
  <2>3. QED BY <2>1, <2>2
<1>6. z = x \o y
  BY <1>3, <1>4, <1>5, SeqEqual
<1>7. Times(id, x \o y) = Times(id, x) + Times(id, y)
  BY <1>3, TimesConcat
<1>8. QED BY <1>6, <1>7 DEF Count, x, y, z, c

LEMMA CountOne ==
  ASSUME NEW id, NEW m \in Chunk
  PROVE  Count(id, <<m>>) = IF m.id = id THEN 1 ELSE 0
<1>1. Ids(<<m>>) = <<m.id>> /\ m.id \in Nat
  BY DEF Ids, Chunk
<1>2. QED BY <1>1, TimesOne DEF Count

LEMMA CountNone ==
  ASSUME NEW id, NEW q \in Seq(Chunk), \A m \in ToSet(q) : m.id # id
  PROVE  Count(id, q) = 0
<1>1. \A i \in DOMAIN Ids(q) : Ids(q)[i] # id
  BY DEF Ids, ToSet
<1>2. QED BY <1>1, IdsIs, TimesNone DEF Count

LEMMA CountAppend ==
  ASSUME NEW q \in Seq(Chunk), NEW m \in Chunk
  PROVE  /\ Append(q, m) \in Seq(Chunk)
         /\ ToSet(Append(q, m)) = ToSet(q) \cup {m}
         /\ \A id : Count(id, Append(q, m)) = Count(id, q) + (IF m.id = id THEN 1 ELSE 0)
<1>1. Append(q, m) = q \o <<m>> /\ <<m>> \in Seq(Chunk) /\ Append(q, m) \in Seq(Chunk)
  BY AppendIsConcat
<1>2. ASSUME NEW id
      PROVE  Count(id, Append(q, m)) = Count(id, q) + (IF m.id = id THEN 1 ELSE 0)
  <2>1. Count(id, q \o <<m>>) = Count(id, q) + Count(id, <<m>>)
    BY <1>1, CountConcat
  <2>2. QED BY <1>1, <2>1, CountOne
<1>3. ToSet(Append(q, m)) = ToSet(q) \cup {m}
  <2> DEFINE a == Append(q, m)
             N == Len(q)
  <2>1. /\ N \in Nat /\ DOMAIN q = 1 .. N /\ DOMAIN a = 1 .. N + 1 /\ a[N + 1] = m
        /\ \A i \in 1 .. N : a[i] = q[i]
    BY AppendProperties
  <2>2. \A i \in 1 .. N + 1 : i \in 1 .. N \/ i = N + 1
    BY <2>1
  <2> HIDE DEF a, N
  <2>3. ToSet(a) = ToSet(q) \cup {m}
    BY <2>1, <2>2 DEF ToSet
  <2>4. QED BY <2>3 DEF a
<1>4. QED BY <1>1, <1>2, <1>3

LEMMA CountTail ==
  ASSUME NEW q \in Seq(Chunk), q # <<>>
  PROVE  /\ Head(q) \in Chunk /\ Tail(q) \in Seq(Chunk)
         /\ ToSet(q) = ToSet(Tail(q)) \cup {Head(q)}
         /\ \A id : Count(id, q) = Count(id, Tail(q)) + (IF Head(q).id = id THEN 1 ELSE 0)
<1> DEFINE h == Head(q)
           t == Tail(q)
           N == Len(t)
<1>1. /\ h \in Chunk /\ t \in Seq(Chunk) /\ N \in Nat /\ Len(q) = N + 1 /\ h = q[1]
      /\ \A i \in 1 .. N : t[i] = q[i + 1]
  BY HeadTailProperties
<1>2. DOMAIN t = 1 .. N /\ DOMAIN q = 1 .. N + 1
  BY <1>1
<1> HIDE DEF h, t, N
<1>3. /\ <<h>> \in Seq(Chunk) /\ Len(<<h>>) = 1 /\ <<h>>[1] = h
  BY <1>1
<1>4. /\ <<h>> \o t \in Seq(Chunk) /\ Len(<<h>> \o t) = Len(q)
      /\ \A i \in 1 .. N + 1 : (<<h>> \o t)[i] = IF i <= 1 THEN <<h>>[i] ELSE t[i - 1]
  <2>1. Len(t) = N
    BY DEF N
  <2>2. QED BY <1>1, <1>3, <2>1, ConcatProperties
<1>5. \A i \in 1 .. N + 1 : i = 1 \/ (i - 1 \in 1 .. N /\ (i - 1) + 1 = i)
  BY <1>1
<1>6. ASSUME NEW i \in 1 .. Len(q) PROVE (<<h>> \o t)[i] = q[i]
  BY <1>1, <1>3, <1>4, <1>5
<1>7. <<h>> \o t = q
  BY <1>4, <1>6, SeqEqual
<1>8. ASSUME NEW id PROVE Count(id, q) = Count(id, t) + (IF h.id = id THEN 1 ELSE 0)
  <2>1. Count(id, <<h>> \o t) = Count(id, <<h>>) + Count(id, t)
    BY <1>1, <1>3, CountConcat
  <2>2. Count(id, t) \in Nat /\ Count(id, <<h>>) = IF h.id = id THEN 1 ELSE 0
    BY <1>1, CountIs, CountOne
  <2>3. Count(id, q) = Count(id, <<h>>) + Count(id, t)
    BY <1>7, <2>1
  <2>4. QED BY <2>2, <2>3
<1>9. ToSet(q) = ToSet(t) \cup {h}
  <2>1. \A i \in 1 .. N : i + 1 \in 1 .. N + 1
    BY <1>1
  <2>2. 1 \in 1 .. N + 1
    BY <1>1
  <2>3. ToSet(q) \subseteq ToSet(t) \cup {h}
    <3>1. ASSUME NEW i \in 1 .. N + 1 PROVE q[i] \in ToSet(t) \cup {h}
      <4>1. CASE i = 1
        BY <1>1, <4>1
      <4>2. CASE i - 1 \in 1 .. N /\ (i - 1) + 1 = i
        <5>1. q[i] = t[i - 1]
          BY <1>1, <4>2
        <5>2. QED BY <1>2, <4>2, <5>1 DEF ToSet
      <4>3. QED BY <1>5, <4>1, <4>2
    <3>2. QED BY <1>2, <3>1 DEF ToSet
  <2>4. ToSet(t) \cup {h} \subseteq ToSet(q)
    BY <1>1, <1>2, <2>1, <2>2 DEF ToSet
  <2>5. QED BY <2>3, <2>4
<1>10. QED BY <1>1, <1>8, <1>9 DEF h, t

----------------------------------------------------------------------------
(* A flush moves the front of the queue to the end of the socket.          *)

LEMMA RoomIs ==
  ASSUME NEW socket, NEW q \in Seq(Chunk), NEW mark
  PROVE  Room(socket, q, mark) \in 0 .. Len(q)
<1> DEFINE Fills(k) == k < Len(q) => ~Takes(socket \o SubSeq(q, 1, k), q[k + 1], mark)
           T == {k \in 0 .. Len(q) : Fills(k)}
           Right(k) == /\ \A j \in 1 .. k : Takes(socket \o SubSeq(q, 1, j - 1), q[j], mark)
                       /\ Fills(k)
<1>1. Len(q) \in Nat
  OBVIOUS
<1>2. Len(q) \in T
  BY <1>1
<1>3. PICK k \in T : \A j \in T : k <= j
  <2>1. T \subseteq Nat
    BY <1>1
  <2> HIDE DEF T
  <2>2. QED BY <1>2, <2>1, LeastElement
<1>4. ASSUME NEW j \in 1 .. k PROVE Takes(socket \o SubSeq(q, 1, j - 1), q[j], mark)
  <2> DEFINE l == j - 1
  <2>1. l \in 0 .. Len(q) /\ ~(k <= l) /\ l < Len(q) /\ l + 1 = j
    BY <1>1
  <2> HIDE DEF l
  <2>2. ~Fills(l)
    BY <1>3, <2>1
  <2>3. Takes(socket \o SubSeq(q, 1, l), q[l + 1], mark)
    BY <2>2
  <2>4. QED BY <2>1, <2>3 DEF l
<1>5. k \in 0 .. Len(q) /\ Right(k)
  BY <1>3, <1>4
<1>6. Room(socket, q, mark) = CHOOSE i \in 0 .. Len(q) : Right(i)
  BY DEF Room
<1> HIDE DEF Right
<1>7. QED BY <1>5, <1>6

LEMMA FlushedIs ==
  ASSUME NEW socket \in Seq(Chunk), NEW q \in Seq(Chunk), NEW mark
  PROVE  LET f == Flushed(socket, q, mark)
         IN  /\ f.socket \in Seq(Chunk) /\ f.queue \in Seq(Chunk)
             /\ ToSet(f.socket) \subseteq ToSet(socket) \cup ToSet(q)
             /\ ToSet(f.queue) \subseteq ToSet(q)
             /\ \A id : Count(id, f.socket) + Count(id, f.queue)
                          = Count(id, socket) + Count(id, q)
<1> DEFINE f == Flushed(socket, q, mark)
           k == Room(socket, q, mark)
           a == SubSeq(q, 1, k)
           b == SubSeq(q, k + 1, Len(q))
           N == Len(q)
<1>1. k \in 0 .. N /\ N \in Nat
  BY RoomIs
<1>2. f.socket = socket \o a /\ f.queue = b
  BY DEF Flushed
<1> HIDE DEF f, k
<1>3. /\ a \in Seq(Chunk) /\ Len(a) = k /\ \A i \in 1 .. k : a[i] = q[i]
  BY <1>1
<1>4. /\ b \in Seq(Chunk) /\ Len(b) = N - k /\ \A i \in 1 .. N - k : b[i] = q[k + i]
  BY <1>1
<1> HIDE DEF a, b, N
<1>5. /\ a \o b \in Seq(Chunk) /\ Len(a \o b) = N
      /\ \A i \in 1 .. N : (a \o b)[i] = IF i <= k THEN a[i] ELSE b[i - k]
  <2>1. a \in Seq(Chunk) /\ b \in Seq(Chunk)
    BY <1>3, <1>4
  <2>2. /\ a \o b \in Seq(Chunk) /\ Len(a \o b) = Len(a) + Len(b)
        /\ \A i \in 1 .. Len(a) + Len(b) :
             (a \o b)[i] = IF i <= Len(a) THEN a[i] ELSE b[i - Len(a)]
    BY <2>1, ConcatProperties, Zenon
  <2>3. Len(a) + Len(b) = N
    BY <1>1, <1>3, <1>4
  <2>4. QED BY <1>3, <2>2, <2>3
<1>6. ASSUME NEW i \in 1 .. N PROVE (a \o b)[i] = q[i]
  <2>1. CASE i <= k
    BY <1>1, <1>3, <1>5, <2>1
  <2>2. CASE ~(i <= k)
    <3>1. i - k \in 1 .. N - k /\ k + (i - k) = i
      BY <1>1, <2>2
    <3>2. QED BY <1>4, <1>5, <2>2, <3>1
  <2>3. QED BY <2>1, <2>2
<1>7. a \o b = q
  <2>1. Len(q) = N
    BY DEF N
  <2>2. QED BY <1>5, <1>6, <2>1, SeqEqual
<1>8. ToSet(a) \subseteq ToSet(q) /\ ToSet(b) \subseteq ToSet(q)
  <2>1. DOMAIN q = 1 .. N /\ DOMAIN a = 1 .. k /\ DOMAIN b = 1 .. N - k
    BY <1>3, <1>4 DEF N
  <2>2. \A i \in 1 .. k : i \in 1 .. N
    BY <1>1
  <2>3. \A i \in 1 .. N - k : k + i \in 1 .. N
    BY <1>1
  <2>4. ToSet(a) \subseteq ToSet(q)
    BY <1>3, <2>1, <2>2 DEF ToSet
  <2>5. ToSet(b) \subseteq ToSet(q)
    BY <1>4, <2>1, <2>3 DEF ToSet
  <2>6. QED BY <2>4, <2>5
<1>9. socket \o a \in Seq(Chunk) /\ ToSet(socket \o a) \subseteq ToSet(socket) \cup ToSet(a)
  <2> DEFINE c == socket \o a
             M == Len(socket)
  <2>1. a \in Seq(Chunk)
    BY <1>3
  <2>2. /\ c \in Seq(Chunk) /\ Len(c) = M + Len(a)
        /\ \A i \in 1 .. M + Len(a) : c[i] = IF i <= M THEN socket[i] ELSE a[i - M]
    BY <2>1, ConcatProperties, Zenon
  <2>3. M \in Nat /\ DOMAIN socket = 1 .. M /\ DOMAIN a = 1 .. Len(a) /\ Len(a) \in Nat
    BY <2>1
  <2> HIDE DEF c, M
  <2>4. DOMAIN c = 1 .. M + Len(a)
    BY <2>2, <2>3
  <2>5. ASSUME NEW i \in 1 .. M + Len(a) PROVE c[i] \in ToSet(socket) \cup ToSet(a)
    <3>1. CASE i <= M
      <4>1. c[i] = socket[i] /\ i \in DOMAIN socket
        BY <2>2, <2>3, <3>1
      <4>2. QED BY <4>1 DEF ToSet
    <3>2. CASE ~(i <= M)
      <4>1. c[i] = a[i - M] /\ i - M \in DOMAIN a
        BY <2>2, <2>3, <3>2
      <4>2. QED BY <4>1 DEF ToSet
    <3>3. QED BY <3>1, <3>2
  <2>6. ToSet(c) \subseteq ToSet(socket) \cup ToSet(a)
    BY <2>4, <2>5 DEF ToSet
  <2>7. QED BY <2>2, <2>6 DEF c
<1>10. ASSUME NEW id
       PROVE  Count(id, socket \o a) + Count(id, b) = Count(id, socket) + Count(id, q)
  <2>1. Count(id, socket \o a) = Count(id, socket) + Count(id, a)
    BY <1>3, CountConcat
  <2>2. Count(id, a \o b) = Count(id, a) + Count(id, b)
    BY <1>3, <1>4, CountConcat
  <2>3. Count(id, q) = Count(id, a) + Count(id, b)
    BY <1>7, <2>2
  <2>4. Count(id, socket) \in Nat /\ Count(id, a) \in Nat /\ Count(id, b) \in Nat
    BY <1>3, <1>4, CountIs
  <2>5. QED BY <2>1, <2>3, <2>4
<1>11. /\ f.socket \in Seq(Chunk) /\ f.queue \in Seq(Chunk)
       /\ ToSet(f.socket) \subseteq ToSet(socket) \cup ToSet(q)
       /\ ToSet(f.queue) \subseteq ToSet(q)
  BY <1>2, <1>4, <1>8, <1>9
<1>12. \A id : Count(id, f.socket) + Count(id, f.queue) = Count(id, socket) + Count(id, q)
  BY <1>2, <1>10
<1>13. QED BY <1>11, <1>12 DEF f

LEMMA TimesAppend ==
  ASSUME NEW q \in Seq(Nat), NEW x \in Nat
  PROVE  /\ Append(q, x) \in Seq(Nat)
         /\ ToSet(Append(q, x)) = ToSet(q) \cup {x}
         /\ \A id : Times(id, Append(q, x)) = Times(id, q) + (IF x = id THEN 1 ELSE 0)
<1>1. Append(q, x) = q \o <<x>> /\ <<x>> \in Seq(Nat) /\ Append(q, x) \in Seq(Nat)
  BY AppendIsConcat
<1>2. ASSUME NEW id
      PROVE  Times(id, Append(q, x)) = Times(id, q) + (IF x = id THEN 1 ELSE 0)
  <2>1. Times(id, q \o <<x>>) = Times(id, q) + Times(id, <<x>>)
    BY <1>1, TimesConcat
  <2>2. QED BY <1>1, <2>1, TimesOne
<1>3. ToSet(Append(q, x)) = ToSet(q) \cup {x}
  <2> DEFINE a == Append(q, x)
             N == Len(q)
  <2>1. /\ N \in Nat /\ DOMAIN q = 1 .. N /\ DOMAIN a = 1 .. N + 1 /\ a[N + 1] = x
        /\ \A i \in 1 .. N : a[i] = q[i]
    BY AppendProperties
  <2>2. \A i \in 1 .. N + 1 : i \in 1 .. N \/ i = N + 1
    BY <2>1
  <2> HIDE DEF a, N
  <2>3. ToSet(a) = ToSet(q) \cup {x}
    BY <2>1, <2>2 DEF ToSet
  <2>4. QED BY <2>3 DEF a
<1>4. QED BY <1>1, <1>2, <1>3

LEMMA EmptyIs ==
  /\ ToSet(<<>>) = {} /\ <<>> \in Seq(Nat) /\ <<>> \in Seq(Chunk)
  /\ \A id : Times(id, <<>>) = 0 /\ Count(id, <<>>) = 0
<1>1. ToSet(<<>>) = {} /\ <<>> \in Seq(Nat) /\ <<>> \in Seq(Chunk)
  BY DEF ToSet
<1>2. ASSUME NEW id PROVE Times(id, <<>>) = 0 /\ Count(id, <<>>) = 0
  <2>1. \A x \in ToSet(<<>>) : x.id # id
    BY <1>1
  <2>2. Count(id, <<>>) = 0
    BY <1>1, <2>1, CountNone
  <2>3. Times(id, <<>>) = 0
    <3>1. \A i \in DOMAIN <<>> : <<>>[i] # id
      OBVIOUS
    <3>2. QED BY <1>1, <3>1, TimesNone
  <2>4. QED BY <2>2, <2>3
<1>3. QED BY <1>1, <1>2

LEMMA ElementsIs ==
  /\ \A q \in Seq(Chunk) : ToSet(q) \subseteq Chunk
  /\ \A q \in Seq(Nat) : ToSet(q) \subseteq Nat
  /\ \A m \in Chunk : m.id \in Nat /\ m.session \in Sessions
<1>1. ASSUME NEW T, NEW q \in Seq(T) PROVE ToSet(q) \subseteq T
  <2>1. \A i \in DOMAIN q : q[i] \in T
    OBVIOUS
  <2>2. QED BY <2>1 DEF ToSet
<1>2. \A m \in Chunk : m.id \in Nat /\ m.session \in Sessions
  BY DEF Chunk
<1>3. QED BY <1>1, <1>2

\* The messages of a queue, or the identities, are those of the first n.
Below(q, n) == \A m \in ToSet(q) : m.id <= n
UpTo(q, n)  == \A id \in ToSet(q) : id <= n

----------------------------------------------------------------------------
(* The output of one session s, n messages made: what is pending at the    *)
(* agent (p), in the link's socket (u), queued at the relay (o), in the    *)
(* half's socket (f), and of what its terminal has sent (told) what the    *)
(* browser has got (got).                                                  *)

OutputWhole(s, n, p, u, o, f, told, got) ==
  /\ Below(p, n) /\ Below(u, n) /\ Below(o, n) /\ Below(f, n)
  /\ UpTo(told, n) /\ UpTo(got, n)
  /\ \A m \in ToSet(p) \cup ToSet(u) : m.id \in ToSet(told) => m.session = s
  /\ \A id \in ToSet(told) :
       Count(id, p) + Count(id, u) + Count(id, o) + Count(id, f) + Times(id, got) = 1

\* Queues and sockets hold messages, and identities are numbers.
OutputTyped(p, u, o, f, told, got) ==
  /\ p \in Seq(Chunk) /\ u \in Seq(Chunk) /\ o \in Seq(Chunk) /\ f \in Seq(Chunk)
  /\ told \in Seq(Nat) /\ got \in Seq(Nat)

LEMMA OutputUntold ==
  ASSUME NEW s, NEW n, NEW p, NEW u, Below(p, n), Below(u, n)
  PROVE  OutputWhole(s, n, p, u, <<>>, <<>>, <<>>, <<>>)
BY EmptyIs DEF OutputWhole, Below, UpTo

LEMMA OutputLater ==
  ASSUME NEW s, NEW n \in Nat, NEW l \in Nat, n <= l, NEW p, NEW u, NEW o, NEW f, NEW told, NEW got,
         OutputTyped(p, u, o, f, told, got),
         OutputWhole(s, n, p, u, o, f, told, got)
  PROVE  OutputWhole(s, l, p, u, o, f, told, got)
<1>1. ASSUME NEW q \in {p, u, o, f} PROVE Below(q, l)
  <2>1. \A m \in ToSet(q) : m.id \in Nat
    BY ElementsIs DEF OutputTyped
  <2>2. QED BY <2>1 DEF Below, OutputWhole
<1>2. ASSUME NEW q \in {told, got} PROVE UpTo(q, l)
  <2>1. \A m \in ToSet(q) : m \in Nat
    BY ElementsIs DEF OutputTyped
  <2>2. QED BY <2>1 DEF UpTo, OutputWhole
<1>3. QED BY <1>1, <1>2 DEF OutputWhole

\* A message is sent: it goes to the socket or is pending, and counts for its session
\* if that one is watched.
LEMMA OutputSends ==
  ASSUME NEW s, NEW n \in Nat, NEW p, NEW u, NEW o, NEW f, NEW told, NEW got,
         OutputTyped(p, u, o, f, told, got),
         OutputWhole(s, n, p, u, o, f, told, got),
         NEW m \in Chunk, m.id = n + 1,
         NEW q, NEW v, (q = Append(p, m) /\ v = u) \/ (q = p /\ v = Append(u, m)),
         NEW tell, tell = told \/ (m.session = s /\ tell = Append(told, m.id))
  PROVE  OutputWhole(s, n + 1, q, v, o, f, tell, got)
<1> USE DEF OutputTyped
<1>1. \A x \in ToSet(p) \cup ToSet(u) \cup ToSet(o) \cup ToSet(f) : x.id \in Nat /\ x.id <= n
  BY ElementsIs DEF OutputWhole, Below
<1>2. \A id \in ToSet(told) \cup ToSet(got) : id \in Nat /\ id <= n
  BY ElementsIs DEF OutputWhole, UpTo
<1>3. /\ ToSet(q) \cup ToSet(v) = ToSet(p) \cup ToSet(u) \cup {m}
      /\ q \in Seq(Chunk) /\ v \in Seq(Chunk)
  <2>1. /\ Append(p, m) \in Seq(Chunk) /\ ToSet(Append(p, m)) = ToSet(p) \cup {m}
        /\ Append(u, m) \in Seq(Chunk) /\ ToSet(Append(u, m)) = ToSet(u) \cup {m}
    BY CountAppend
  <2>2. QED BY <2>1
<1>4. ToSet(tell) = ToSet(told) \/ (m.session = s /\ ToSet(tell) = ToSet(told) \cup {n + 1})
  <2>1. ToSet(Append(told, m.id)) = ToSet(told) \cup {m.id}
    BY TimesAppend
  <2>2. QED BY <2>1
<1>5. Below(q, n + 1) /\ Below(v, n + 1) /\ Below(o, n + 1) /\ Below(f, n + 1)
  <2>1. ASSUME NEW x \in ToSet(q) \cup ToSet(v) \cup ToSet(o) \cup ToSet(f)
        PROVE  x.id <= n + 1
    <3>1. x = m \/ x \in ToSet(p) \cup ToSet(u) \cup ToSet(o) \cup ToSet(f)
      BY <1>3, <2>1
    <3>2. m.id <= n + 1
      OBVIOUS
    <3>3. CASE x # m
      <4>1. x.id \in Nat /\ x.id <= n
        BY <1>1, <3>1, <3>3
      <4>2. QED BY <4>1
    <3>4. QED BY <3>2, <3>3
  <2>2. QED BY <2>1 DEF Below
<1>6. UpTo(tell, n + 1) /\ UpTo(got, n + 1)
  <2>1. ASSUME NEW id \in ToSet(tell) \cup ToSet(got) PROVE id <= n + 1
    <3>1. id \in ToSet(told) \cup ToSet(got) \/ id = n + 1
      <4>1. CASE id \in ToSet(got)
        BY <4>1
      <4>2. CASE id \in ToSet(tell)
        <5>1. CASE ToSet(tell) = ToSet(told)
          BY <4>2, <5>1
        <5>2. CASE ToSet(tell) = ToSet(told) \cup {n + 1}
          <6>1. id \in ToSet(told) \cup {n + 1}
            BY <4>2, <5>2
          <6>2. QED BY <6>1
        <5>3. QED BY <1>4, <5>1, <5>2
      <4>3. QED BY <2>1, <4>1, <4>2
    <3>2. CASE id \in ToSet(told) \cup ToSet(got)
      <4>1. id \in Nat /\ id <= n
        BY <1>2, <3>2
      <4>2. QED BY <4>1
    <3>3. QED BY <3>1, <3>2
  <2>2. QED BY <2>1 DEF UpTo
<1>7. ASSUME NEW x \in ToSet(q) \cup ToSet(v), x.id \in ToSet(tell) PROVE x.session = s
  <2>1. CASE x = m
    <3>1. x.id \notin ToSet(told)
      BY <1>2, <2>1
    <3>2. QED BY <1>4, <1>7, <2>1, <3>1
  <2>2. CASE x # m
    <3>1. x \in ToSet(p) \cup ToSet(u)
      BY <1>3, <1>7, <2>2
    <3>2. x.id \in ToSet(told)
      BY <1>1, <1>4, <1>7, <3>1
    <3>3. QED BY <3>1, <3>2 DEF OutputWhole
  <2>3. QED BY <2>1, <2>2
<1>8. ASSUME NEW id PROVE Count(id, q) + Count(id, v) = Count(id, p) + Count(id, u) + (IF n + 1 = id THEN 1 ELSE 0)
  <2> DEFINE one == IF m.id = id THEN 1 ELSE 0
  <2>1. Count(id, p) \in Nat /\ Count(id, u) \in Nat /\ one \in Nat
    BY CountIs
  <2>2. Count(id, Append(p, m)) = Count(id, p) + one /\ Count(id, Append(u, m)) = Count(id, u) + one
    BY CountAppend
  <2>3. one = IF n + 1 = id THEN 1 ELSE 0
    OBVIOUS
  <2> HIDE DEF one
  <2>4. Count(id, q) + Count(id, v) = Count(id, p) + Count(id, u) + one
    <3>1. CASE q = Append(p, m) /\ v = u
      BY <2>1, <2>2, <3>1
    <3>2. CASE q = p /\ v = Append(u, m)
      BY <2>1, <2>2, <3>2
    <3>3. QED BY <3>1, <3>2
  <2>5. QED BY <2>3, <2>4
<1>9. ASSUME NEW id \in ToSet(tell)
      PROVE  Count(id, q) + Count(id, v) + Count(id, o) + Count(id, f) + Times(id, got) = 1
  <2>1. /\ Count(id, p) \in Nat /\ Count(id, u) \in Nat /\ Count(id, o) \in Nat
        /\ Count(id, f) \in Nat /\ Times(id, got) \in Nat
        /\ Count(id, q) \in Nat /\ Count(id, v) \in Nat
    <3>1. q \in Seq(Chunk) /\ v \in Seq(Chunk)
      BY CountAppend
    <3>2. QED BY <3>1, CountIs, TimesIs
  <2>2. CASE id \in ToSet(told)
    <3>1. Count(id, p) + Count(id, u) + Count(id, o) + Count(id, f) + Times(id, got) = 1
      BY <2>2 DEF OutputWhole
    <3>2. id # n + 1
      BY <1>2, <2>2
    <3>3. QED BY <1>8, <2>1, <3>1, <3>2
  <2>3. CASE id = n + 1
    <3>1. /\ Count(id, p) = 0 /\ Count(id, u) = 0 /\ Count(id, o) = 0 /\ Count(id, f) = 0
      <4>1. ASSUME NEW r \in {p, u, o, f} PROVE Count(id, r) = 0
        <5>1. r \in Seq(Chunk)
          OBVIOUS
        <5>2. \A x \in ToSet(r) : x.id # id
          BY <1>1, <2>3
        <5>3. QED BY <5>1, <5>2, CountNone
      <4>2. QED BY <4>1
    <3>2. Times(id, got) = 0
      <4>1. \A i \in DOMAIN got : got[i] \in ToSet(got)
        BY DEF ToSet
      <4>2. \A x \in ToSet(got) : x # id
        BY <1>2, <2>3
      <4>3. QED BY <4>1, <4>2, TimesNone
    <3>3. QED BY <1>8, <2>1, <2>3, <3>1, <3>2
  <2>4. QED BY <1>4, <2>2, <2>3
<1>10. QED BY <1>5, <1>6, <1>7, <1>9 DEF OutputWhole

\* What is pending is flushed into the socket.
LEMMA OutputFlushed ==
  ASSUME NEW s, NEW n \in Nat, NEW p, NEW u, NEW o, NEW f, NEW told, NEW got,
         OutputTyped(p, u, o, f, told, got),
         OutputWhole(s, n, p, u, o, f, told, got),
         NEW q \in Seq(Chunk), NEW v \in Seq(Chunk),
         ToSet(q) \cup ToSet(v) \subseteq ToSet(p) \cup ToSet(u),
         \A id : Count(id, v) + Count(id, q) = Count(id, u) + Count(id, p)
  PROVE  OutputWhole(s, n, q, v, o, f, told, got)
<1> USE DEF OutputTyped
<1>1. Below(q, n) /\ Below(v, n)
  BY DEF OutputWhole, Below
<1>2. ASSUME NEW id \in ToSet(told)
      PROVE  Count(id, q) + Count(id, v) + Count(id, o) + Count(id, f) + Times(id, got) = 1
  <2>1. /\ Count(id, p) \in Nat /\ Count(id, u) \in Nat /\ Count(id, o) \in Nat
        /\ Count(id, f) \in Nat /\ Times(id, got) \in Nat
        /\ Count(id, q) \in Nat /\ Count(id, v) \in Nat
    BY CountIs, TimesIs
  <2>2. Count(id, p) + Count(id, u) + Count(id, o) + Count(id, f) + Times(id, got) = 1
    BY DEF OutputWhole
  <2>3. QED BY <2>1, <2>2
<1>3. QED BY <1>1, <1>2 DEF OutputWhole

\* The relay gets a message that is not the session's, or goes on to its queue or its half.
LEMMA OutputReceived ==
  ASSUME NEW s, NEW n \in Nat, NEW p, NEW u, NEW o, NEW f, NEW told, NEW got,
         OutputTyped(p, u, o, f, told, got),
         OutputWhole(s, n, p, u, o, f, told, got),
         u # <<>>,
         NEW q, NEW g,
         \/ (Head(u).session # s \/ told = <<>>) /\ q = o /\ g = f
         \/ q = Append(o, Head(u)) /\ g = f
         \/ q = o /\ g = Append(f, Head(u))
  PROVE  OutputWhole(s, n, p, Tail(u), q, g, told, got)
<1> USE DEF OutputTyped
<1> DEFINE m == Head(u)
           v == Tail(u)
<1>1. m \in Chunk /\ v \in Seq(Chunk) /\ ToSet(u) = ToSet(v) \cup {m}
  BY CountTail
<1>2. \A id : Count(id, u) = Count(id, v) + (IF m.id = id THEN 1 ELSE 0)
  BY CountTail
<1> HIDE DEF m, v
<1>3. /\ ToSet(q) \cup ToSet(g) \subseteq ToSet(o) \cup ToSet(f) \cup {m}
      /\ q \in Seq(Chunk) /\ g \in Seq(Chunk)
  <2>1. /\ Append(o, m) \in Seq(Chunk) /\ ToSet(Append(o, m)) = ToSet(o) \cup {m}
        /\ Append(f, m) \in Seq(Chunk) /\ ToSet(Append(f, m)) = ToSet(f) \cup {m}
    BY <1>1, CountAppend
  <2>2. QED BY <2>1 DEF m
<1>4. Below(v, n) /\ Below(q, n) /\ Below(g, n)
  BY <1>1, <1>3 DEF OutputWhole, Below
<1>5. ASSUME NEW id \in ToSet(told)
      PROVE  Count(id, p) + Count(id, v) + Count(id, q) + Count(id, g) + Times(id, got) = 1
  <2>1. /\ Count(id, p) \in Nat /\ Count(id, u) \in Nat /\ Count(id, o) \in Nat
        /\ Count(id, f) \in Nat /\ Times(id, got) \in Nat
        /\ Count(id, q) \in Nat /\ Count(id, v) \in Nat /\ Count(id, g) \in Nat
    BY <1>1, <1>3, CountIs, TimesIs
  <2>2. Count(id, p) + Count(id, u) + Count(id, o) + Count(id, f) + Times(id, got) = 1
    BY DEF OutputWhole
  <2>3. CASE (m.session # s \/ told = <<>>) /\ q = o /\ g = f
    <3>1. m.id # id
      BY <1>1, <2>3, EmptyIs DEF OutputWhole
    <3>2. Count(id, u) = Count(id, v)
      BY <1>2, <2>1, <3>1
    <3>3. QED BY <2>2, <2>3, <3>2
  <2>4. CASE (q = Append(o, m) /\ g = f) \/ (q = o /\ g = Append(f, m))
    <3> DEFINE one == IF m.id = id THEN 1 ELSE 0
    <3>1. Count(id, u) = Count(id, v) + one /\ one \in Nat
      BY <1>2
    <3>2. Count(id, Append(o, m)) = Count(id, o) + one /\ Count(id, Append(f, m)) = Count(id, f) + one
      BY <1>1, CountAppend
    <3> HIDE DEF one
    <3>3. Count(id, q) + Count(id, g) = Count(id, o) + Count(id, f) + one
      <4>1. CASE q = Append(o, m) /\ g = f
        BY <2>1, <3>1, <3>2, <4>1
      <4>2. CASE q = o /\ g = Append(f, m)
        BY <2>1, <3>1, <3>2, <4>2
      <4>3. QED BY <2>4, <4>1, <4>2
    <3> DEFINE a == Count(id, p)
               b == Count(id, u)
               c == Count(id, o)
               d == Count(id, f)
               e == Times(id, got)
               x == Count(id, v)
               y == Count(id, q)
               z == Count(id, g)
    <3>4. /\ a \in Nat /\ b \in Nat /\ c \in Nat /\ d \in Nat /\ e \in Nat
          /\ x \in Nat /\ y \in Nat /\ z \in Nat
          /\ a + b + c + d + e = 1 /\ b = x + one /\ y + z = c + d + one
      BY <2>1, <2>2, <3>1, <3>3
    <3> HIDE DEF a, b, c, d, e, x, y, z
    <3>5. a + x + y + z + e = 1
      BY <3>1, <3>4
    <3>6. QED BY <3>5 DEF a, e, x, y, z
  <2>5. QED
    <3>1. CASE (Head(u).session # s \/ told = <<>>) /\ q = o /\ g = f
      BY <2>3, <3>1 DEF m
    <3>2. CASE (q = Append(o, Head(u)) /\ g = f) \/ (q = o /\ g = Append(f, Head(u)))
      BY <2>4, <3>2, Zenon DEF m
    <3>3. QED BY <3>1, <3>2
<1>6. QED BY <1>1, <1>4, <1>5 DEF OutputWhole, m, v

\* The browser gets a message, and its half may let the session flush.
LEMMA OutputShown ==
  ASSUME NEW s, NEW n \in Nat, NEW p, NEW u, NEW o, NEW f, NEW told, NEW got,
         OutputTyped(p, u, o, f, told, got),
         OutputWhole(s, n, p, u, o, f, told, got),
         f # <<>>,
         NEW q \in Seq(Chunk), NEW g \in Seq(Chunk),
         ToSet(q) \cup ToSet(g) \subseteq ToSet(o) \cup ToSet(Tail(f)),
         \A id : Count(id, g) + Count(id, q) = Count(id, Tail(f)) + Count(id, o)
  PROVE  OutputWhole(s, n, p, u, q, g, told, Append(got, Head(f).id))
<1> USE DEF OutputTyped
<1> DEFINE m == Head(f)
           t == Tail(f)
           have == Append(got, m.id)
<1>1. m \in Chunk /\ t \in Seq(Chunk) /\ ToSet(f) = ToSet(t) \cup {m}
  BY CountTail
<1>2. \A id : Count(id, f) = Count(id, t) + (IF m.id = id THEN 1 ELSE 0)
  BY CountTail
<1> HIDE DEF m, t
<1>3. m.id \in Nat /\ m.id <= n
  BY <1>1, ElementsIs DEF OutputWhole, Below
<1>4. have \in Seq(Nat) /\ ToSet(have) = ToSet(got) \cup {m.id}
  BY <1>3, TimesAppend
<1>5. \A id : Times(id, have) = Times(id, got) + (IF m.id = id THEN 1 ELSE 0)
  BY <1>3, TimesAppend
<1> HIDE DEF have
<1>6. Below(q, n) /\ Below(g, n) /\ UpTo(have, n)
  BY <1>1, <1>3, <1>4 DEF OutputWhole, Below, UpTo, t
<1>7. ASSUME NEW id \in ToSet(told)
      PROVE  Count(id, p) + Count(id, u) + Count(id, q) + Count(id, g) + Times(id, have) = 1
  <2>1. /\ Count(id, p) \in Nat /\ Count(id, u) \in Nat /\ Count(id, o) \in Nat
        /\ Count(id, f) \in Nat /\ Times(id, got) \in Nat
        /\ Count(id, q) \in Nat /\ Count(id, t) \in Nat /\ Count(id, g) \in Nat
    BY <1>1, CountIs, TimesIs
  <2>2. Count(id, p) + Count(id, u) + Count(id, o) + Count(id, f) + Times(id, got) = 1
    BY DEF OutputWhole
  <2>3. Count(id, g) + Count(id, q) = Count(id, t) + Count(id, o)
    BY DEF t
  <2> DEFINE one == IF m.id = id THEN 1 ELSE 0
  <2>4. Count(id, f) = Count(id, t) + one /\ Times(id, have) = Times(id, got) + one /\ one \in Nat
    BY <1>2, <1>5
  <2> HIDE DEF one
  <2> DEFINE a == Count(id, p)
             b == Count(id, u)
             c == Count(id, o)
             d == Count(id, f)
             e == Times(id, got)
             x == Count(id, t)
             y == Count(id, q)
             z == Count(id, g)
             w == Times(id, have)
  <2>5. /\ a \in Nat /\ b \in Nat /\ c \in Nat /\ d \in Nat /\ e \in Nat
        /\ x \in Nat /\ y \in Nat /\ z \in Nat
        /\ a + b + c + d + e = 1 /\ d = x + one /\ z + y = x + c /\ w = e + one
    BY <2>1, <2>2, <2>3, <2>4
  <2> HIDE DEF a, b, c, d, e, x, y, z, w
  <2>6. a + b + y + z + w = 1
    BY <2>4, <2>5
  <2>7. QED BY <2>6 DEF a, b, w, y, z
<1>8. QED BY <1>6, <1>7 DEF OutputWhole, have, m

----------------------------------------------------------------------------
(* The input of one session s, n messages made: what is queued at the      *)
(* relay for each session (ins), in the link's socket (d), and of what its *)
(* browser has sent (told) what its terminal has got (got).                *)

InputWhole(s, n, ins, d, told, got) ==
  /\ Below(d, n) /\ UpTo(told, n) /\ UpTo(got, n)
  /\ \A t \in Sessions :
       /\ Below(ins[t], n)
       /\ \A m \in ToSet(ins[t]) : m.session = t /\ (m.id \in ToSet(told) => t = s)
  /\ \A m \in ToSet(d) : m.id \in ToSet(told) => m.session = s
  /\ \A id \in ToSet(told) : Count(id, ins[s]) + Count(id, d) + Times(id, got) = 1

InputTyped(ins, d, told, got) ==
  /\ ins \in [Sessions -> Seq(Chunk)] /\ d \in Seq(Chunk)
  /\ told \in Seq(Nat) /\ got \in Seq(Nat)

\* Queues of other sessions are forgotten, or the session is.
LEMMA InputForgotten ==
  ASSUME NEW s \in Sessions, NEW n \in Nat, NEW ins, NEW d, NEW told, NEW got,
         InputWhole(s, n, ins, d, told, got),
         NEW kept, \A t \in Sessions : kept[t] = ins[t] \/ kept[t] = <<>>,
         NEW e, ToSet(e) \subseteq ToSet(d),
         NEW tell, NEW have,
         \/ tell = <<>> /\ have = <<>>
         \/ tell = told /\ have = got /\ kept[s] = ins[s] /\ e = d
  PROVE  InputWhole(s, n, kept, e, tell, have)
<1>1. ToSet(<<>>) = {}
  BY EmptyIs
<1>2. ToSet(tell) \subseteq ToSet(told) /\ ToSet(have) \subseteq ToSet(got)
  BY <1>1
<1>3. \A t \in Sessions : ToSet(kept[t]) \subseteq ToSet(ins[t])
  BY <1>1
<1>4. Below(e, n) /\ UpTo(tell, n) /\ UpTo(have, n)
  BY <1>2 DEF InputWhole, Below, UpTo
<1>5. ASSUME NEW t \in Sessions
      PROVE  /\ Below(kept[t], n)
             /\ \A m \in ToSet(kept[t]) : m.session = t /\ (m.id \in ToSet(tell) => t = s)
  BY <1>2, <1>3 DEF InputWhole, Below
<1>6. \A m \in ToSet(e) : m.id \in ToSet(tell) => m.session = s
  BY <1>2 DEF InputWhole
<1>7. \A id \in ToSet(tell) : Count(id, kept[s]) + Count(id, e) + Times(id, have) = 1
  BY <1>1 DEF InputWhole
<1>8. QED BY <1>4, <1>5, <1>6, <1>7 DEF InputWhole

LEMMA InputLater ==
  ASSUME NEW s, NEW n \in Nat, NEW l \in Nat, n <= l, NEW ins, NEW d, NEW told, NEW got,
         InputTyped(ins, d, told, got), InputWhole(s, n, ins, d, told, got)
  PROVE  InputWhole(s, l, ins, d, told, got)
<1>1. ASSUME NEW q \in Seq(Chunk), Below(q, n) PROVE Below(q, l)
  <2>1. \A m \in ToSet(q) : m.id \in Nat
    BY ElementsIs
  <2>2. QED BY <1>1, <2>1 DEF Below
<1>2. ASSUME NEW q \in Seq(Nat), UpTo(q, n) PROVE UpTo(q, l)
  <2>1. \A m \in ToSet(q) : m \in Nat
    BY ElementsIs
  <2>2. QED BY <1>2, <2>1 DEF UpTo
<1>3. QED BY <1>1, <1>2 DEF InputWhole, InputTyped

\* An input goes to the link's socket, or is queued.
Entered(ins, d, m, kept, e) ==
  \/ kept = ins /\ e = Append(d, m)
  \/ /\ \A t \in Sessions : kept[t] = IF t = m.session THEN Append(ins[t], m) ELSE ins[t]
     /\ e = d

LEMMA InputEntered ==
  ASSUME NEW s \in Sessions, NEW n \in Nat, NEW ins, NEW d, NEW told, NEW got,
         InputTyped(ins, d, told, got), InputWhole(s, n, ins, d, told, got),
         NEW m \in Chunk, m.id = n + 1,
         NEW kept, NEW e,
         Entered(ins, d, m, kept, e),
         NEW tell, tell = IF m.session = s THEN Append(told, m.id) ELSE told
  PROVE  InputWhole(s, n + 1, kept, e, tell, got)
<1> DEFINE c == m.session
<1>0. /\ d \in Seq(Chunk) /\ told \in Seq(Nat) /\ got \in Seq(Nat) /\ c \in Sessions
      /\ \A t \in Sessions : ins[t] \in Seq(Chunk)
  BY ElementsIs DEF InputTyped
<1>1. /\ \A x \in ToSet(d) : x.id \in Nat /\ x.id <= n
      /\ \A t \in Sessions : \A x \in ToSet(ins[t]) : x.id \in Nat /\ x.id <= n
      /\ \A id \in ToSet(told) \cup ToSet(got) : id \in Nat /\ id <= n
  BY <1>0, ElementsIs DEF InputWhole, Below, UpTo
<1>2. \A t \in Sessions : kept[t] = ins[t] \/ (t = c /\ kept[t] = Append(ins[t], m))
  BY DEF Entered
<1>3. (kept = ins /\ e = Append(d, m)) \/ (kept[c] = Append(ins[c], m) /\ e = d)
  BY <1>0 DEF Entered
<1>4. /\ ToSet(e) \subseteq ToSet(d) \cup {m}
      /\ \A t \in Sessions : ToSet(kept[t]) \subseteq ToSet(ins[t]) \cup (IF t = c THEN {m} ELSE {})
  <2>1. /\ ToSet(Append(d, m)) = ToSet(d) \cup {m}
        /\ \A t \in Sessions : ToSet(Append(ins[t], m)) = ToSet(ins[t]) \cup {m}
    BY <1>0, CountAppend
  <2>2. ToSet(e) \subseteq ToSet(d) \cup {m}
    BY <1>3, <2>1
  <2>3. \A t \in Sessions : ToSet(kept[t]) \subseteq ToSet(ins[t]) \cup (IF t = c THEN {m} ELSE {})
    BY <1>2, <2>1
  <2>4. QED BY <2>2, <2>3
<1>5. ToSet(tell) = ToSet(told) \/ (c = s /\ ToSet(tell) = ToSet(told) \cup {n + 1})
  <2>1. ToSet(Append(told, m.id)) = ToSet(told) \cup {m.id}
    BY <1>0, TimesAppend
  <2>2. QED BY <2>1
<1>6. Below(e, n + 1) /\ UpTo(tell, n + 1) /\ UpTo(got, n + 1)
  <2>1. \A x \in ToSet(e) : x.id <= n + 1
    BY <1>1, <1>4
  <2>2. \A id \in ToSet(tell) \cup ToSet(got) : id <= n + 1
    BY <1>1, <1>5
  <2>3. QED BY <2>1, <2>2 DEF Below, UpTo
<1> HIDE DEF c
<1>7. ASSUME NEW t \in Sessions, NEW x \in ToSet(kept[t])
      PROVE  x.id <= n + 1 /\ x.session = t /\ (x.id \in ToSet(tell) => t = s)
  <2>1. CASE x \in ToSet(ins[t])
    <3>1. x.id \in Nat /\ x.id <= n /\ x.session = t /\ (x.id \in ToSet(told) => t = s)
      BY <1>1, <2>1 DEF InputWhole
    <3>2. x.id \in ToSet(tell) => x.id \in ToSet(told)
      BY <1>5, <3>1
    <3>3. QED BY <3>1, <3>2
  <2>2. CASE x = m /\ t = c
    <3>1. x.id = n + 1 /\ x.session = t
      BY <2>2 DEF c
    <3>2. n + 1 \notin ToSet(told)
      BY <1>1
    <3>3. QED BY <1>5, <2>2, <3>1, <3>2
  <2>3. QED BY <1>4, <1>7, <2>1, <2>2
<1>8. ASSUME NEW x \in ToSet(e), x.id \in ToSet(tell) PROVE x.session = s
  <2>1. CASE x \in ToSet(d)
    <3>1. x.id \in ToSet(told)
      BY <1>1, <1>5, <1>8, <2>1
    <3>2. QED BY <2>1, <3>1 DEF InputWhole
  <2>2. CASE x = m
    <3>1. n + 1 \notin ToSet(told)
      BY <1>1
    <3>2. QED BY <1>5, <1>8, <2>2, <3>1 DEF c
  <2>3. QED BY <1>4, <2>1, <2>2
<1>9. ASSUME NEW id \in ToSet(tell)
      PROVE  Count(id, kept[s]) + Count(id, e) + Times(id, got) = 1
  <2> DEFINE a == Count(id, ins[s])
             b == Count(id, d)
             g == Times(id, got)
             x == Count(id, kept[s])
             y == Count(id, e)
             one == IF m.id = id THEN 1 ELSE 0
  <2>1. a \in Nat /\ b \in Nat /\ g \in Nat
    BY <1>0, CountIs, TimesIs
  <2>2. /\ Count(id, Append(ins[s], m)) = a + one /\ Count(id, Append(d, m)) = b + one
    BY <1>0, CountAppend
  <2>3. c = s => x + y = a + b + one
    <3>1. CASE kept = ins /\ e = Append(d, m)
      <4>1. x = a /\ y = b + one
        BY <2>2, <3>1
      <4>2. QED BY <2>1, <4>1
    <3>2. CASE kept[c] = Append(ins[c], m) /\ e = d
      <4>1. c = s => x = a + one /\ y = b
        BY <2>2, <3>2
      <4>2. QED BY <2>1, <4>1
    <3>3. QED BY <1>3, <3>1, <3>2
  <2>4. c # s => x = a /\ (y = b \/ y = b + one)
    BY <1>2, <1>3, <2>2
  <2>5. CASE id \in ToSet(told)
    <3>1. a + b + g = 1
      BY <2>5 DEF InputWhole
    <3>2. id # n + 1
      BY <1>1, <2>5
    <3>3. one = 0
      BY <3>2
    <3> HIDE DEF a, b, g, x, y, one
    <3>4. x + y + g = 1
      BY <2>1, <2>3, <2>4, <3>1, <3>3
    <3>5. QED BY <3>4 DEF x, y, g
  <2>6. CASE id = n + 1 /\ c = s
    <3>1. a = 0 /\ b = 0
      <4>1. \A z \in ToSet(ins[s]) : z.id # id
        BY <1>1, <2>6
      <4>2. \A z \in ToSet(d) : z.id # id
        BY <1>1, <2>6
      <4>3. QED BY <1>0, <4>1, <4>2, CountNone
    <3>2. g = 0
      <4>1. \A i \in DOMAIN got : got[i] \in ToSet(got)
        BY DEF ToSet
      <4>2. \A z \in ToSet(got) : z # id
        BY <1>1, <2>6
      <4>3. QED BY <1>0, <4>1, <4>2, TimesNone
    <3>3. one = 1
      BY <2>6
    <3> HIDE DEF a, b, g, x, y, one
    <3>4. x + y + g = 1
      BY <2>3, <2>6, <3>1, <3>2, <3>3
    <3>5. QED BY <3>4 DEF x, y, g
  <2>7. QED
    <3>1. id \in ToSet(told) \/ (id = n + 1 /\ c = s)
      BY <1>5, <1>9
    <3>2. QED BY <2>5, <2>6, <3>1
<1>10. QED BY <1>6, <1>7, <1>8, <1>9 DEF InputWhole, Below

\* The terminal gets an input: the session's own, or none that its browser has sent.
LEMMA InputGot ==
  ASSUME NEW s \in Sessions, NEW n \in Nat, NEW ins, NEW d, NEW told, NEW got,
         InputTyped(ins, d, told, got), InputWhole(s, n, ins, d, told, got),
         d # <<>>,
         NEW have,
         \/ Head(d).session = s /\ have = Append(got, Head(d).id)
         \/ Head(d).session # s /\ have = got
         \/ told = <<>> /\ have = got
  PROVE  InputWhole(s, n, ins, Tail(d), told, have)
<1> DEFINE m == Head(d)
           e == Tail(d)
           more == Append(got, m.id)
<1>0. /\ d \in Seq(Chunk) /\ told \in Seq(Nat) /\ got \in Seq(Nat) /\ ins[s] \in Seq(Chunk)
  BY DEF InputTyped
<1>1. /\ m \in Chunk /\ e \in Seq(Chunk) /\ ToSet(d) = ToSet(e) \cup {m}
      /\ \A id : Count(id, d) = Count(id, e) + (IF m.id = id THEN 1 ELSE 0)
  BY <1>0, CountTail
<1>2. \/ m.session = s /\ have = more
      \/ m.session # s /\ have = got
      \/ told = <<>> /\ have = got
  BY Zenon
<1> HIDE DEF m, e
<1>3. m.id \in Nat /\ m.id <= n
  BY <1>1, ElementsIs DEF InputWhole, Below
<1>4. /\ ToSet(more) = ToSet(got) \cup {m.id}
      /\ \A id : Times(id, more) = Times(id, got) + (IF m.id = id THEN 1 ELSE 0)
  BY <1>0, <1>3, TimesAppend
<1> HIDE DEF more
<1>5. Below(e, n) /\ UpTo(have, n)
  <2>1. Below(e, n)
    BY <1>1 DEF InputWhole, Below
  <2>2. UpTo(got, n) /\ UpTo(more, n)
    BY <1>3, <1>4 DEF InputWhole, UpTo
  <2>3. QED BY <1>2, <2>1, <2>2
<1>6. ASSUME NEW id \in ToSet(told)
      PROVE  Count(id, ins[s]) + Count(id, e) + Times(id, have) = 1
  <2> DEFINE a == Count(id, ins[s])
             b == Count(id, d)
             g == Times(id, got)
             y == Count(id, e)
             z == Times(id, have)
             one == IF m.id = id THEN 1 ELSE 0
  <2>1. a \in Nat /\ b \in Nat /\ g \in Nat /\ y \in Nat /\ one \in Nat
    BY <1>0, <1>1, CountIs, TimesIs
  <2>2. a + b + g = 1
    BY DEF InputWhole
  <2>3. b = y + one
    BY <1>1
  <2>4. told # <<>>
    BY EmptyIs
  <2>5. z = g + one
    <3>1. CASE m.session = s /\ have = more
      BY <1>4, <3>1
    <3>2. CASE m.session # s /\ have = got
      <4>1. m.id # id
        BY <1>1, <3>2 DEF InputWhole
      <4>2. QED BY <2>1, <3>2, <4>1
    <3>3. QED BY <1>2, <2>4, <3>1, <3>2
  <2> HIDE DEF a, b, g, y, z, one
  <2>6. a + y + z = 1
    BY <2>1, <2>2, <2>3, <2>5
  <2>7. QED BY <2>6 DEF a, y, z
<1>7. \A x \in ToSet(e) : x.id \in ToSet(told) => x.session = s
  BY <1>1 DEF InputWhole
<1>8. QED BY <1>5, <1>6, <1>7 DEF InputWhole, e

\* The queue of channel c is flushed into the link's socket.
LEMMA InputFlushed ==
  ASSUME NEW s \in Sessions, NEW n \in Nat, NEW ins, NEW d, NEW told, NEW got,
         InputTyped(ins, d, told, got), InputWhole(s, n, ins, d, told, got),
         NEW c \in Sessions, NEW q \in Seq(Chunk), NEW e \in Seq(Chunk),
         ToSet(e) \subseteq ToSet(d) \cup ToSet(ins[c]), ToSet(q) \subseteq ToSet(ins[c]),
         \A id : Count(id, e) + Count(id, q) = Count(id, d) + Count(id, ins[c])
  PROVE  InputWhole(s, n, [ins EXCEPT ![c] = q], e, told, got)
<1> DEFINE kept == [ins EXCEPT ![c] = q]
<1>0. /\ d \in Seq(Chunk) /\ told \in Seq(Nat) /\ got \in Seq(Nat)
      /\ \A t \in Sessions : ins[t] \in Seq(Chunk)
  BY DEF InputTyped
<1>1. \A t \in Sessions : kept[t] = IF t = c THEN q ELSE ins[t]
  BY DEF InputTyped
<1> HIDE DEF kept
<1>2. Below(e, n)
  BY DEF InputWhole, Below
<1>3. ASSUME NEW t \in Sessions
      PROVE  /\ Below(kept[t], n)
             /\ \A m \in ToSet(kept[t]) : m.session = t /\ (m.id \in ToSet(told) => t = s)
  <2>1. ToSet(kept[t]) \subseteq ToSet(ins[t])
    BY <1>1
  <2>2. QED BY <2>1 DEF InputWhole, Below
<1>4. \A m \in ToSet(e) : m.id \in ToSet(told) => m.session = s
  BY DEF InputWhole
<1>5. ASSUME NEW id \in ToSet(told)
      PROVE  Count(id, kept[s]) + Count(id, e) + Times(id, got) = 1
  <2> DEFINE a == Count(id, ins[s])
             b == Count(id, d)
             g == Times(id, got)
             x == Count(id, kept[s])
             y == Count(id, e)
             l == Count(id, ins[c])
             r == Count(id, q)
  <2>1. a \in Nat /\ b \in Nat /\ g \in Nat /\ y \in Nat /\ l \in Nat /\ r \in Nat
    BY <1>0, CountIs, TimesIs
  <2>2. a + b + g = 1
    BY DEF InputWhole
  <2>3. y + r = b + l
    OBVIOUS
  <2>4. c = s => x = r /\ l = a
    BY <1>1
  <2>5. c # s => x = a /\ l = 0 /\ r = 0
    <3>1. SUFFICES ASSUME c # s PROVE x = a /\ l = 0 /\ r = 0
      BY Zenon
    <3>2. x = a
      BY <1>1, <3>1
    <3>3. \A m \in ToSet(ins[c]) : m.id # id
      BY <3>1 DEF InputWhole
    <3>4. l = 0 /\ r = 0
      BY <1>0, <3>3, CountNone
    <3>5. QED BY <3>2, <3>4
  <2> HIDE DEF a, b, g, x, y, l, r
  <2>6. x + y + g = 1
    BY <2>1, <2>2, <2>3, <2>4, <2>5
  <2>7. QED BY <2>6 DEF x, y, g
<1>6. QED BY <1>2, <1>3, <1>4, <1>5 DEF InputWhole, kept

----------------------------------------------------------------------------
(* What the recursive functions return.                                    *)

LEMMA WithoutIs ==
  ASSUME NEW q \in Seq(Sessions), NEW ss
  PROVE  Without(q, ss) \in Seq(Sessions)
<1> DEFINE kept[i \in 0 .. Len(q)] == IF i = 0 THEN <<>>
                                      ELSE IF q[i] \in ss THEN kept[i - 1]
                                      ELSE Append(kept[i - 1], q[i])
           N == Len(q)
           step == [i \in 1 .. N |->
                     [x \in Seq(Sessions) |-> IF q[i] \in ss THEN x ELSE Append(x, q[i])]]
<1>1. Without(q, ss) = kept[Len(q)]
  BY DEF Without
<1>2. kept = CHOOSE f : f = [i \in 0 .. N |-> IF i = 0 THEN <<>>
                                              ELSE IF q[i] \in ss THEN f[i - 1]
                                              ELSE Append(f[i - 1], q[i])]
  BY DEF kept
<1>3. N \in Nat /\ \A i \in 1 .. N : q[i] \in Sessions
  OBVIOUS
<1> HIDE DEF kept, N
<1>4. PICK g : Solves(g, N, Seq(Sessions), <<>>, step)
  <2>1. step \in [1 .. N -> [Seq(Sessions) -> Seq(Sessions)]]
    <3>1. ASSUME NEW i \in 1 .. N, NEW x \in Seq(Sessions)
          PROVE  (IF q[i] \in ss THEN x ELSE Append(x, q[i])) \in Seq(Sessions)
      BY <1>3
    <3>2. QED BY <3>1
  <2>2. <<>> \in Seq(Sessions)
    OBVIOUS
  <2> HIDE DEF step
  <2>3. QED BY <1>3, <2>1, <2>2, Recursion, Zenon
<1>5. g = [i \in 0 .. N |-> IF i = 0 THEN <<>>
                            ELSE IF q[i] \in ss THEN g[i - 1] ELSE Append(g[i - 1], q[i])]
  <2>1. ASSUME NEW i \in 0 .. N
        PROVE  g[i] = IF i = 0 THEN <<>>
                      ELSE IF q[i] \in ss THEN g[i - 1] ELSE Append(g[i - 1], q[i])
    <3>1. CASE i = 0
      BY <1>4, <3>1 DEF Solves
    <3>2. CASE i # 0
      <4>1. i \in 1 .. N /\ i - 1 \in 0 .. N
        BY <1>3, <3>2
      <4>2. g[i - 1] \in Seq(Sessions)
        BY <1>4, <4>1 DEF Solves
      <4>3. step[i][g[i - 1]] = IF q[i] \in ss THEN g[i - 1] ELSE Append(g[i - 1], q[i])
        BY <4>1, <4>2
      <4> HIDE DEF step
      <4>4. g[i] = step[i][g[i - 1]]
        BY <1>4, <4>1 DEF Solves
      <4>5. QED BY <3>2, <4>3, <4>4
    <3>3. QED BY <3>1, <3>2
  <2>2. QED BY <1>4, <2>1 DEF Solves
<1>6. kept = [i \in 0 .. N |-> IF i = 0 THEN <<>>
                               ELSE IF q[i] \in ss THEN kept[i - 1]
                               ELSE Append(kept[i - 1], q[i])]
  BY <1>2, <1>5
<1> DEFINE P == {i \in 0 .. N : kept[i] \in Seq(Sessions)}
<1>7. 0 \in P
  <2>1. kept[0] = <<>>
    BY <1>3, <1>6
  <2>2. <<>> \in Seq(Sessions)
    OBVIOUS
  <2>3. kept[0] \in Seq(Sessions)
    BY <2>1, <2>2, Zenon
  <2>4. QED BY <1>3, <2>3
<1>8. ASSUME NEW i \in 1 .. N, i - 1 \in P PROVE i \in P
  <2>1. i \in 0 .. N /\ i # 0
    OBVIOUS
  <2>2. kept[i] = IF q[i] \in ss THEN kept[i - 1] ELSE Append(kept[i - 1], q[i])
    BY <1>6, <2>1
  <2>3. kept[i - 1] \in Seq(Sessions) /\ q[i] \in Sessions
    BY <1>3, <1>8
  <2>4. kept[i] \in Seq(Sessions)
    BY <2>2, <2>3
  <2>5. QED BY <2>1, <2>4
<1> HIDE DEF P
<1>9. \A i \in 0 .. N : i \in P
  BY <1>3, <1>7, <1>8, Climb, Zenon
<1>10. N \in P
  BY <1>3, <1>9
<1>11. QED BY <1>1, <1>10 DEF P, N

\* The link's socket and the queues of its channels.
Queues == [down : Seq(Chunk), inputs : [Sessions -> Seq(Chunk)]]

LEMMA ChannelFlushedIs ==
  ASSUME NEW a \in Queues, NEW s \in Sessions
  PROVE  ChannelFlushed(a, s) \in Queues
<1> DEFINE f == Flushed(a.down, a.inputs[s], HighWater)
<1>1. a.down \in Seq(Chunk) /\ a.inputs \in [Sessions -> Seq(Chunk)]
  BY DEF Queues
<1>2. f.socket \in Seq(Chunk) /\ f.queue \in Seq(Chunk)
  BY <1>1, FlushedIs
<1>3. ChannelFlushed(a, s) = [down |-> f.socket, inputs |-> [a.inputs EXCEPT ![s] = f.queue]]
  BY DEF ChannelFlushed
<1> HIDE DEF f
<1>4. QED BY <1>1, <1>2, <1>3 DEF Queues

LEMMA AllFlushedIs ==
  ASSUME NEW a \in Queues, NEW ss \in Seq(Sessions)
  PROVE  \E after : /\ after[0] = a
                    /\ \A i \in 1 .. Len(ss) : after[i] = ChannelFlushed(after[i - 1], ss[i])
                    /\ AllFlushed(a, ss) = after[Len(ss)]
<1> DEFINE after[i \in 0 .. Len(ss)] == IF i = 0 THEN a ELSE ChannelFlushed(after[i - 1], ss[i])
           N == Len(ss)
           step == [i \in 1 .. N |-> [b \in Queues |-> ChannelFlushed(b, ss[i])]]
<1>1. AllFlushed(a, ss) = after[Len(ss)]
  BY DEF AllFlushed
<1>2. after = CHOOSE f : f = [i \in 0 .. N |-> IF i = 0 THEN a ELSE ChannelFlushed(f[i - 1], ss[i])]
  BY DEF after
<1>3. N \in Nat /\ \A i \in 1 .. N : ss[i] \in Sessions
  OBVIOUS
<1> HIDE DEF after, N
<1>4. PICK g : Solves(g, N, Queues, a, step)
  <2>1. step \in [1 .. N -> [Queues -> Queues]]
    BY <1>3, ChannelFlushedIs
  <2> HIDE DEF step
  <2>2. QED BY <1>3, <2>1, Recursion, Zenon
<1>5. g = [i \in 0 .. N |-> IF i = 0 THEN a ELSE ChannelFlushed(g[i - 1], ss[i])]
  <2>1. ASSUME NEW i \in 0 .. N
        PROVE  g[i] = IF i = 0 THEN a ELSE ChannelFlushed(g[i - 1], ss[i])
    <3>1. CASE i = 0
      BY <1>4, <3>1 DEF Solves
    <3>2. CASE i # 0
      <4>1. i \in 1 .. N /\ i - 1 \in 0 .. N
        BY <1>3, <3>2
      <4>2. g[i - 1] \in Queues
        BY <1>4, <4>1 DEF Solves
      <4>3. QED BY <1>4, <3>2, <4>1, <4>2 DEF Solves
    <3>3. QED BY <3>1, <3>2
  <2>2. QED BY <1>4, <2>1 DEF Solves
<1>6. after = [i \in 0 .. N |-> IF i = 0 THEN a ELSE ChannelFlushed(after[i - 1], ss[i])]
  BY <1>2, <1>5
<1>7. after[0] = a
  BY <1>3, <1>6
<1>8. ASSUME NEW i \in 1 .. N PROVE after[i] = ChannelFlushed(after[i - 1], ss[i])
  <2>1. i \in 0 .. N /\ i # 0
    OBVIOUS
  <2>2. QED BY <1>6, <2>1
<1>9. QED BY <1>1, <1>7, <1>8 DEF N

\* What each session's input is made of, when n messages are made.
InputsWhole(n, a, told, got) ==
  \A s \in Sessions : InputWhole(s, n, a.inputs, a.down, told[s], got[s])

LEMMA ChannelFlushedKeeps ==
  ASSUME NEW n \in Nat, NEW a \in Queues, NEW c \in Sessions,
         NEW told \in [Sessions -> Seq(Nat)], NEW got \in [Sessions -> Seq(Nat)],
         InputsWhole(n, a, told, got)
  PROVE  InputsWhole(n, ChannelFlushed(a, c), told, got)
<1> DEFINE f == Flushed(a.down, a.inputs[c], HighWater)
           d == a.down
           ins == a.inputs
           q == f.queue
           e == f.socket
<1>1. d \in Seq(Chunk) /\ ins \in [Sessions -> Seq(Chunk)] /\ ins[c] \in Seq(Chunk)
  BY DEF Queues
<1>2. /\ e \in Seq(Chunk) /\ q \in Seq(Chunk)
      /\ ToSet(e) \subseteq ToSet(d) \cup ToSet(ins[c]) /\ ToSet(q) \subseteq ToSet(ins[c])
      /\ \A id : Count(id, e) + Count(id, q) = Count(id, d) + Count(id, ins[c])
  BY <1>1, FlushedIs
<1>3. /\ ChannelFlushed(a, c).down = e
      /\ ChannelFlushed(a, c).inputs = [ins EXCEPT ![c] = q]
  BY DEF ChannelFlushed
<1> HIDE DEF f, e, q
<1>4. ASSUME NEW s \in Sessions
      PROVE  InputWhole(s, n, [ins EXCEPT ![c] = q], e, told[s], got[s])
  <2>1. InputWhole(s, n, ins, d, told[s], got[s])
    BY DEF InputsWhole
  <2>2. InputTyped(ins, d, told[s], got[s])
    BY <1>1 DEF InputTyped
  <2> HIDE DEF d, ins
  <2>3. QED BY <1>2, <2>1, <2>2, InputFlushed
<1>5. QED BY <1>3, <1>4 DEF InputsWhole

LEMMA AllFlushedKeeps ==
  ASSUME NEW n \in Nat, NEW a \in Queues, NEW ss \in Seq(Sessions),
         NEW told \in [Sessions -> Seq(Nat)], NEW got \in [Sessions -> Seq(Nat)],
         InputsWhole(n, a, told, got)
  PROVE  AllFlushed(a, ss) \in Queues /\ InputsWhole(n, AllFlushed(a, ss), told, got)
<1> DEFINE N == Len(ss)
<1>1. N \in Nat /\ \A i \in 1 .. N : ss[i] \in Sessions
  OBVIOUS
<1>2. PICK after : /\ after[0] = a
                   /\ \A i \in 1 .. N : after[i] = ChannelFlushed(after[i - 1], ss[i])
                   /\ AllFlushed(a, ss) = after[N]
  BY AllFlushedIs
<1> HIDE DEF N
<1> DEFINE P == {i \in 0 .. N : after[i] \in Queues /\ InputsWhole(n, after[i], told, got)}
<1>3. 0 \in P
  BY <1>1, <1>2
<1>4. ASSUME NEW i \in 1 .. N, i - 1 \in P PROVE i \in P
  <2>1. i \in 0 .. N /\ ss[i] \in Sessions
    BY <1>1
  <2>2. after[i - 1] \in Queues /\ InputsWhole(n, after[i - 1], told, got)
    BY <1>4
  <2>3. after[i] = ChannelFlushed(after[i - 1], ss[i])
    BY <1>2
  <2>4. after[i] \in Queues
    BY <2>1, <2>2, <2>3, ChannelFlushedIs
  <2>5. InputsWhole(n, after[i], told, got)
    BY <2>1, <2>2, <2>3, ChannelFlushedKeeps
  <2>6. QED BY <2>1, <2>4, <2>5
<1> HIDE DEF P
<1>5. \A i \in 0 .. N : i \in P
  BY <1>1, <1>3, <1>4, Climb, Zenon
<1>6. N \in P
  BY <1>1, <1>5
<1>7. QED BY <1>2, <1>6 DEF P

----------------------------------------------------------------------------
(* The invariant: types, nothing told of a session that is not open, and   *)
(* both ways of each session whole.                                        *)

Idle == \A s \in Sessions : s \notin open => since[s] = NoTrace

Whole(s) ==
  /\ OutputWhole(s, made, pending, up, outputs[s], flight[s], since[s].output, shown[s].output)
  /\ InputWhole(s, made, inputs, down, since[s].input, shown[s].input)

StreamsInv == StreamsTypeOK /\ Idle /\ \A s \in Sessions : Whole(s)

LEMMA BoundTyped == MaxMade \in Nat
<1>1. {MaxQueued, MaxQueuedBytes, MaxMade, MaxLinks} \subseteq Nat
  BY StreamAssumption, Zenon
<1>2. QED BY <1>1, Zenon

LEMMA QueuesTyped ==
  ASSUME StreamsTypeOK
  PROVE  made \in Nat /\ pending \in Seq(Chunk) /\ up \in Seq(Chunk) /\ down \in Seq(Chunk)
<1>1. MaxMade \in Nat
  BY BoundTyped
<1>2. made \in 0 .. MaxMade
  BY DEF StreamsTypeOK
<1>3. made \in Nat
  BY <1>1, <1>2
<1>4. QED BY <1>3 DEF StreamsTypeOK

LEMMA InvTyped ==
  ASSUME StreamsTypeOK, NEW s \in Sessions
  PROVE  /\ OutputTyped(pending, up, outputs[s], flight[s], since[s].output, shown[s].output)
         /\ InputTyped(inputs, down, since[s].input, shown[s].input)
         /\ made \in Nat
<1>1. since[s] \in [output : Seq(Nat), input : Seq(Nat)] /\ shown[s] \in [output : Seq(Nat), input : Seq(Nat)]
  BY DEF StreamsTypeOK
<1>2. /\ since[s].output \in Seq(Nat) /\ since[s].input \in Seq(Nat)
      /\ shown[s].output \in Seq(Nat) /\ shown[s].input \in Seq(Nat)
  BY <1>1
<1>3. outputs[s] \in Seq(Chunk) /\ flight[s] \in Seq(Chunk)
  BY DEF StreamsTypeOK
<1>4. made \in Nat
  BY QueuesTyped
<1>5. QED BY <1>2, <1>3, <1>4 DEF StreamsTypeOK, OutputTyped, InputTyped

LEMMA NoTraceIs ==
  NoTrace \in [output : Seq(Nat), input : Seq(Nat)] /\ NoTrace.output = <<>> /\ NoTrace.input = <<>>
<1>1. <<>> \in Seq(Nat)
  OBVIOUS
<1>2. QED BY <1>1 DEF NoTrace

LEMMA StreamsInitInv == StreamsInit => StreamsInv
<1> SUFFICES ASSUME StreamsInit PROVE StreamsInv
  OBVIOUS
<1> USE DEF StreamsInit
<1>1. <<>> \in Seq(Chunk) /\ <<>> \in Seq(Sessions) /\ \A s \in Sessions : Nothing[s] = <<>>
  BY EmptyIs DEF Nothing
<1>2. Nothing \in [Sessions -> Seq(Chunk)]
  BY <1>1 DEF Nothing
<1>3. [s \in Sessions |-> NoTrace] \in [Sessions -> [output : Seq(Nat), input : Seq(Nat)]]
  BY NoTraceIs
<1>4. 0 \in 0 .. MaxMade /\ 0 \in Nat
  BY BoundTyped
<1>5. StreamsTypeOK
  BY <1>1, <1>2, <1>3, <1>4 DEF StreamsTypeOK
<1>6. Idle
  BY DEF Idle
<1>7. ASSUME NEW s \in Sessions PROVE Whole(s)
  <2>1. ToSet(<<>>) = {}
    BY EmptyIs
  <2>2. since[s].output = <<>> /\ since[s].input = <<>> /\ shown[s].output = <<>> /\ shown[s].input = <<>>
    BY NoTraceIs
  <2>3. OutputWhole(s, made, pending, up, <<>>, <<>>, <<>>, <<>>)
    BY <2>1, OutputUntold DEF Below
  <2>4. OutputWhole(s, made, pending, up, outputs[s], flight[s], since[s].output, shown[s].output)
    BY <1>1, <2>2, <2>3
  <2>5. \A t \in Sessions : inputs[t] = <<>>
    BY <1>1
  <2>6. InputWhole(s, made, inputs, down, since[s].input, shown[s].input)
    BY <2>1, <2>2, <2>5 DEF InputWhole, Below, UpTo
  <2>7. QED BY <2>4, <2>6 DEF Whole
<1>8. QED BY <1>5, <1>6, <1>7 DEF StreamsInv

\* What the relay forgets of sessions ss is gone, and the rest is as before.
LEMMA ForgottenIs ==
  ASSUME StreamsTypeOK, NEW ss \in SUBSET Sessions, Forgotten(ss)
  PROVE  /\ open' \subseteq Sessions /\ open' = open \ ss
         /\ outputs' \in [Sessions -> Seq(Chunk)] /\ flight' \in [Sessions -> Seq(Chunk)]
         /\ inputs' \in [Sessions -> Seq(Chunk)] /\ pressured' \in [Sessions -> BOOLEAN]
         /\ paused' \in Seq(Sessions)
         /\ since' \in [Sessions -> [output : Seq(Nat), input : Seq(Nat)]]
         /\ shown' \in [Sessions -> [output : Seq(Nat), input : Seq(Nat)]]
         /\ \A s \in ss : /\ outputs'[s] = <<>> /\ flight'[s] = <<>> /\ inputs'[s] = <<>>
                          /\ since'[s] = NoTrace /\ shown'[s] = NoTrace
         /\ \A s \in Sessions \ ss :
              /\ outputs'[s] = outputs[s] /\ flight'[s] = flight[s] /\ inputs'[s] = inputs[s]
              /\ since'[s] = since[s] /\ shown'[s] = shown[s]
<1> USE DEF Forgotten
<1>1. <<>> \in Seq(Chunk)
  OBVIOUS
<1>2. NoTrace \in [output : Seq(Nat), input : Seq(Nat)]
  BY NoTraceIs
<1>3. outputs' \in [Sessions -> Seq(Chunk)] /\ flight' \in [Sessions -> Seq(Chunk)]
  BY <1>1 DEF StreamsTypeOK
<1>4. inputs' \in [Sessions -> Seq(Chunk)] /\ pressured' \in [Sessions -> BOOLEAN]
  BY <1>1 DEF StreamsTypeOK
<1>5. since' \in [Sessions -> [output : Seq(Nat), input : Seq(Nat)]]
  BY <1>2 DEF StreamsTypeOK
<1>6. shown' \in [Sessions -> [output : Seq(Nat), input : Seq(Nat)]]
  BY <1>2 DEF StreamsTypeOK
<1>7. paused' \in Seq(Sessions)
  <2>1. paused \in Seq(Sessions) /\ paused' = Without(paused, ss)
    BY DEF StreamsTypeOK
  <2>2. QED BY <2>1, WithoutIs
<1>8. open' \subseteq Sessions /\ open' = open \ ss
  BY DEF StreamsTypeOK
<1>9. \A s \in ss : /\ outputs'[s] = <<>> /\ flight'[s] = <<>> /\ inputs'[s] = <<>>
                    /\ since'[s] = NoTrace /\ shown'[s] = NoTrace
  OBVIOUS
<1>10. \A s \in Sessions \ ss :
         /\ outputs'[s] = outputs[s] /\ flight'[s] = flight[s] /\ inputs'[s] = inputs[s]
         /\ since'[s] = since[s] /\ shown'[s] = shown[s]
  OBVIOUS
<1>11. QED BY <1>3, <1>4, <1>5, <1>6, <1>7, <1>8, <1>9, <1>10

\* It leaves every session whole, while the link loses what it holds or stays as it is.
LEMMA ForgottenKeeps ==
  ASSUME StreamsInv, NEW ss \in SUBSET Sessions, Forgotten(ss),
         NEW p, ToSet(p) \subseteq ToSet(pending), NEW u, ToSet(u) \subseteq ToSet(up),
         NEW d, ToSet(d) \subseteq ToSet(down),
         \A s \in Sessions \ ss :
           /\ OutputWhole(s, made, p, u, outputs[s], flight[s], since[s].output, shown[s].output)
           /\ d = down
  PROVE  /\ Idle'
         /\ \A s \in Sessions :
              /\ OutputWhole(s, made, p, u, outputs'[s], flight'[s], since'[s].output, shown'[s].output)
              /\ InputWhole(s, made, inputs', d, since'[s].input, shown'[s].input)
<1>1. StreamsTypeOK /\ Idle /\ \A s \in Sessions : Whole(s)
  BY DEF StreamsInv
<1>2. /\ open' = open \ ss
      /\ \A s \in ss : /\ outputs'[s] = <<>> /\ flight'[s] = <<>> /\ inputs'[s] = <<>>
                       /\ since'[s] = NoTrace /\ shown'[s] = NoTrace
      /\ \A s \in Sessions \ ss :
           /\ outputs'[s] = outputs[s] /\ flight'[s] = flight[s] /\ inputs'[s] = inputs[s]
           /\ since'[s] = since[s] /\ shown'[s] = shown[s]
  BY <1>1, ForgottenIs
<1>3. Idle'
  BY <1>1, <1>2 DEF Idle
<1>4. ASSUME NEW s \in Sessions
      PROVE  OutputWhole(s, made, p, u, outputs'[s], flight'[s], since'[s].output, shown'[s].output)
  <2>1. CASE s \in ss
    <3>1. Below(p, made) /\ Below(u, made)
      BY <1>1 DEF Whole, OutputWhole, Below
    <3>2. OutputWhole(s, made, p, u, <<>>, <<>>, <<>>, <<>>)
      BY <3>1, OutputUntold
    <3>3. since'[s].output = <<>> /\ shown'[s].output = <<>>
      BY <1>2, <2>1, NoTraceIs
    <3>4. QED BY <1>2, <2>1, <3>2, <3>3
  <2>2. CASE s \notin ss
    BY <1>2, <2>2
  <2>3. QED BY <2>1, <2>2
<1>5. ASSUME NEW s \in Sessions
      PROVE  InputWhole(s, made, inputs', d, since'[s].input, shown'[s].input)
  <2> DEFINE told == since[s].input
             got == shown[s].input
             tell == since'[s].input
             have == shown'[s].input
             kept == inputs'
  <2>1. InputWhole(s, made, inputs, down, told, got)
    BY <1>1 DEF Whole
  <2>2. \A t \in Sessions : kept[t] = inputs[t] \/ kept[t] = <<>>
    BY <1>2
  <2>3. \/ tell = <<>> /\ have = <<>>
        \/ tell = told /\ have = got /\ kept[s] = inputs[s] /\ d = down
    BY <1>2, NoTraceIs
  <2>4. made \in Nat
    BY <1>1, InvTyped
  <2> HIDE DEF told, got, tell, have, kept
  <2>5. InputWhole(s, made, kept, d, tell, have)
    BY <2>1, <2>2, <2>3, <2>4, InputForgotten
  <2>6. QED BY <2>5 DEF kept, tell, have
<1>6. QED BY <1>3, <1>4, <1>5

\* One more identity is noted of a session.
LEMMA NoteMore ==
  ASSUME NEW h \in [Sessions -> [output : Seq(Nat), input : Seq(Nat)]],
         NEW s \in Sessions, NEW x \in Nat
  PROVE  /\ [h EXCEPT ![s].input = Append(@, x)]
              \in [Sessions -> [output : Seq(Nat), input : Seq(Nat)]]
         /\ [h EXCEPT ![s].output = Append(@, x)]
              \in [Sessions -> [output : Seq(Nat), input : Seq(Nat)]]
<1> DEFINE r == h[s]
           i == [r EXCEPT !.input = Append(@, x)]
           o == [r EXCEPT !.output = Append(@, x)]
<1>1. r \in [output : Seq(Nat), input : Seq(Nat)]
  OBVIOUS
<1>2. Append(r.input, x) \in Seq(Nat) /\ Append(r.output, x) \in Seq(Nat)
  BY <1>1
<1>3. r.output \in Seq(Nat) /\ r.input \in Seq(Nat)
  BY <1>1
<1>4. i \in [output : Seq(Nat), input : Seq(Nat)] /\ o \in [output : Seq(Nat), input : Seq(Nat)]
  <2> HIDE DEF r
  <2>1. i \in [output : Seq(Nat), input : Seq(Nat)]
    BY <1>1, <1>2, <1>3
  <2>2. o \in [output : Seq(Nat), input : Seq(Nat)]
    BY <1>1, <1>2, <1>3
  <2>3. QED BY <2>1, <2>2
<1>5. /\ [h EXCEPT ![s].input = Append(@, x)] = [h EXCEPT ![s] = i]
      /\ [h EXCEPT ![s].output = Append(@, x)] = [h EXCEPT ![s] = o]
  OBVIOUS
<1> HIDE DEF i, o
<1>6. QED BY <1>4, <1>5

----------------------------------------------------------------------------
(* Every action keeps the invariant.                                       *)

LEMMA AttachKeeps ==
  ASSUME StreamsInv, NEW s \in Sessions, Attach(s)
  PROVE  StreamsInv'
<1> USE DEF Attach, agent, relay, history
<1>1. StreamsTypeOK'
  BY DEF StreamsInv, StreamsTypeOK
<1>2. Idle'
  BY DEF StreamsInv, Idle
<1>3. \A t \in Sessions : Whole(t)'
  BY DEF StreamsInv, Whole
<1>4. QED BY <1>1, <1>2, <1>3 DEF StreamsInv

LEMMA LinkReadyKeeps ==
  ASSUME StreamsInv, LinkReady
  PROVE  StreamsInv'
<1> USE DEF LinkReady, agent, relay, history
<1>1. StreamsTypeOK'
  BY DEF StreamsInv, StreamsTypeOK
<1>2. Idle'
  BY DEF StreamsInv, Idle
<1>3. \A t \in Sessions : Whole(t)'
  BY DEF StreamsInv, Whole
<1>4. QED BY <1>1, <1>2, <1>3 DEF StreamsInv

LEMMA DetachKeeps ==
  ASSUME StreamsInv, NEW s \in Sessions, Detach(s)
  PROVE  StreamsInv'
<1>1. Forgotten({s}) /\ {s} \in SUBSET Sessions /\ StreamsTypeOK
  BY DEF Detach, StreamsInv
<1>2. UNCHANGED <<links, ready, agent, down, made, left>> /\ terminals' \subseteq Sessions
  BY <1>1 DEF Detach, StreamsTypeOK
<1>3. StreamsTypeOK'
  BY <1>1, <1>2, ForgottenIs DEF StreamsTypeOK, agent
<1>4. \A t \in Sessions \ {s} :
        OutputWhole(t, made, pending, up, outputs[t], flight[t], since[t].output, shown[t].output)
  BY DEF StreamsInv, Whole
<1>5. /\ Idle'
      /\ \A t \in Sessions :
           /\ OutputWhole(t, made, pending, up, outputs'[t], flight'[t], since'[t].output, shown'[t].output)
           /\ InputWhole(t, made, inputs', down, since'[t].input, shown'[t].input)
  BY <1>1, <1>4, ForgottenKeeps
<1>6. \A t \in Sessions : Whole(t)'
  BY <1>2, <1>5 DEF Whole, agent
<1>7. QED BY <1>3, <1>5, <1>6 DEF StreamsInv

LEMMA LinkLostKeeps ==
  ASSUME StreamsInv, LinkLost
  PROVE  StreamsInv'
<1>1. Forgotten(Sessions) /\ Sessions \in SUBSET Sessions /\ StreamsTypeOK
  BY DEF LinkLost, StreamsInv
<1>2. /\ UNCHANGED <<links, terminals, pending, made>>
      /\ ready' = FALSE /\ polling' = FALSE /\ up' = <<>> /\ down' = <<>>
      /\ left' = left \cup {pending[i].id : i \in DOMAIN pending}
  BY DEF LinkLost
<1>3. ToSet(<<>>) = {} /\ <<>> \in Seq(Chunk)
  BY EmptyIs
<1>4. StreamsTypeOK'
  <2>1. left' \subseteq Nat
    <3>1. \A i \in DOMAIN pending : pending[i] \in Chunk
      BY <1>1 DEF StreamsTypeOK
    <3>2. \A i \in DOMAIN pending : pending[i].id \in Nat
      BY <3>1, ElementsIs
    <3>3. QED BY <1>1, <1>2, <3>2 DEF StreamsTypeOK
  <2>2. QED BY <1>1, <1>2, <1>3, <2>1, ForgottenIs DEF StreamsTypeOK
<1>5. /\ Idle'
      /\ \A t \in Sessions :
           /\ OutputWhole(t, made, pending, <<>>, outputs'[t], flight'[t], since'[t].output, shown'[t].output)
           /\ InputWhole(t, made, inputs', <<>>, since'[t].input, shown'[t].input)
  BY <1>1, <1>3, ForgottenKeeps
<1>6. \A t \in Sessions : Whole(t)'
  BY <1>2, <1>5 DEF Whole
<1>7. QED BY <1>4, <1>5, <1>6 DEF StreamsInv

LEMMA PollKeeps ==
  ASSUME StreamsInv, Poll
  PROVE  StreamsInv'
<1> DEFINE f == Flushed(up, pending, AgentLowWater)
           v == f.socket
           q == f.queue
<1>1. StreamsTypeOK /\ pending \in Seq(Chunk) /\ up \in Seq(Chunk)
  BY DEF StreamsInv, StreamsTypeOK
<1>2. /\ v \in Seq(Chunk) /\ q \in Seq(Chunk)
      /\ ToSet(v) \subseteq ToSet(up) \cup ToSet(pending) /\ ToSet(q) \subseteq ToSet(pending)
      /\ \A id : Count(id, v) + Count(id, q) = Count(id, up) + Count(id, pending)
  BY <1>1, FlushedIs
<1>3. /\ up' = v /\ pending' = q /\ polling' = (q # <<>>)
      /\ left' = left \cap {q[i].id : i \in DOMAIN q}
      /\ UNCHANGED <<links, ready, open, terminals, relay, made, since, shown>>
  BY DEF Poll
<1> HIDE DEF f, v, q
<1>4. StreamsTypeOK'
  BY <1>1, <1>2, <1>3 DEF StreamsTypeOK, relay
<1>5. Idle'
  BY <1>3 DEF StreamsInv, Idle
<1>6. ASSUME NEW s \in Sessions PROVE Whole(s)'
  <2>1. OutputWhole(s, made, pending, up, outputs[s], flight[s], since[s].output, shown[s].output)
    BY DEF StreamsInv, Whole
  <2>2. /\ OutputTyped(pending, up, outputs[s], flight[s], since[s].output, shown[s].output)
        /\ made \in Nat
    BY <1>1, InvTyped
  <2>3. OutputWhole(s, made, q, v, outputs[s], flight[s], since[s].output, shown[s].output)
    BY <1>2, <2>1, <2>2, OutputFlushed
  <2>4. InputWhole(s, made, inputs, down, since[s].input, shown[s].input)
    BY DEF StreamsInv, Whole
  <2>5. QED BY <1>3, <2>3, <2>4 DEF Whole, relay
<1>7. QED BY <1>4, <1>5, <1>6 DEF StreamsInv

LEMMA DrainKeeps ==
  ASSUME StreamsInv, Drain
  PROVE  StreamsInv'
<1> DEFINE a == [down |-> down, inputs |-> inputs]
           all == AllFlushed(a, paused)
           empty == {s \in Sessions : all.inputs[s] = <<>>}
           told == [s \in Sessions |-> since[s].input]
           got == [s \in Sessions |-> shown[s].input]
<1>1. StreamsTypeOK /\ made \in Nat
  BY QueuesTyped DEF StreamsInv
<1>2. a \in Queues /\ paused \in Seq(Sessions)
  BY <1>1 DEF Queues, StreamsTypeOK
<1>3. told \in [Sessions -> Seq(Nat)] /\ got \in [Sessions -> Seq(Nat)]
  BY <1>1, InvTyped DEF InputTyped
<1>4. InputsWhole(made, a, told, got)
  BY DEF InputsWhole, StreamsInv, Whole
<1>5. /\ down' = all.down /\ inputs' = all.inputs /\ paused' = Without(paused, empty)
      /\ UNCHANGED <<links, ready, open, terminals, agent, outputs, pressured, flight, history>>
  BY DEF Drain
<1>6. \A s \in Sessions : told[s] = since[s].input /\ got[s] = shown[s].input
  OBVIOUS
<1> HIDE DEF a, all, empty, told, got
<1>7. all \in Queues /\ InputsWhole(made, all, told, got)
  BY <1>1, <1>2, <1>3, <1>4, AllFlushedKeeps DEF all
<1>8. all.down \in Seq(Chunk) /\ all.inputs \in [Sessions -> Seq(Chunk)]
  BY <1>7 DEF Queues
<1>9. paused' \in Seq(Sessions)
  BY <1>2, <1>5, WithoutIs
<1>10. StreamsTypeOK'
  BY <1>1, <1>5, <1>8, <1>9 DEF StreamsTypeOK, agent, history
<1>11. Idle'
  BY <1>5 DEF StreamsInv, Idle, history
<1>12. ASSUME NEW s \in Sessions PROVE Whole(s)'
  <2>1. InputWhole(s, made, all.inputs, all.down, since[s].input, shown[s].input)
    BY <1>6, <1>7 DEF InputsWhole
  <2>2. OutputWhole(s, made, pending, up, outputs[s], flight[s], since[s].output, shown[s].output)
    BY DEF StreamsInv, Whole
  <2>3. QED BY <1>5, <2>1, <2>2 DEF Whole, agent, history
<1>13. QED BY <1>10, <1>11, <1>12 DEF StreamsInv

LEMMA TypedKeeps ==
  ASSUME StreamsInv, Typed
  PROVE  StreamsInv'
<1> DEFINE m == Head(down)
           s == m.session
<1>1. StreamsTypeOK /\ down \in Seq(Chunk) /\ down # <<>>
  BY DEF StreamsInv, StreamsTypeOK, Typed
<1>2. m \in Chunk /\ Tail(down) \in Seq(Chunk)
  BY <1>1, CountTail
<1>3. m.id \in Nat /\ s \in Sessions
  BY <1>2, ElementsIs
<1>4. /\ down' = Tail(down)
      /\ shown' = IF s \in open THEN [shown EXCEPT ![s].input = Append(@, m.id)] ELSE shown
      /\ UNCHANGED <<links, ready, open, terminals, agent, outputs, pressured, flight, inputs,
                     paused, made, since, left>>
  BY DEF Typed
<1> HIDE DEF m, s
<1>5. \A t \in Sessions : shown[t] \in [output : Seq(Nat), input : Seq(Nat)]
  BY <1>1 DEF StreamsTypeOK
<1>6. \A t \in Sessions : shown'[t].output = shown[t].output
  BY <1>1, <1>3, <1>4, <1>5 DEF StreamsTypeOK
<1>7. \A t \in Sessions :
        shown'[t].input = IF t = s /\ s \in open THEN Append(shown[t].input, m.id) ELSE shown[t].input
  BY <1>1, <1>3, <1>4, <1>5 DEF StreamsTypeOK
<1>8. shown' \in [Sessions -> [output : Seq(Nat), input : Seq(Nat)]]
  <2>1. shown \in [Sessions -> [output : Seq(Nat), input : Seq(Nat)]]
    BY <1>1 DEF StreamsTypeOK
  <2>2. QED BY <1>3, <1>4, <2>1, NoteMore
<1>9. StreamsTypeOK'
  BY <1>1, <1>2, <1>4, <1>8 DEF StreamsTypeOK, agent
<1>10. Idle'
  BY <1>4 DEF StreamsInv, Idle
<1>11. ASSUME NEW t \in Sessions PROVE Whole(t)'
  <2> DEFINE told == since[t].input
             got == shown[t].input
             have == shown'[t].input
  <2>1. InputWhole(t, made, inputs, down, told, got)
    BY DEF StreamsInv, Whole
  <2>2. InputTyped(inputs, down, told, got) /\ made \in Nat
    BY <1>1, InvTyped
  <2>3. t \notin open => told = <<>>
    BY NoTraceIs DEF StreamsInv, Idle
  <2>4. \/ m.session = t /\ have = Append(got, m.id)
        \/ m.session # t /\ have = got
        \/ told = <<>> /\ have = got
    <3>1. CASE t = s /\ s \in open
      BY <1>7, <3>1 DEF s
    <3>2. CASE t = s /\ s \notin open
      BY <1>7, <2>3, <3>2
    <3>3. CASE t # s
      BY <1>7, <3>3 DEF s
    <3>4. QED BY <3>1, <3>2, <3>3
  <2> HIDE DEF told, got, have
  <2>5. InputWhole(t, made, inputs, Tail(down), told, have)
    BY <1>1, <2>1, <2>2, <2>4, InputGot DEF m
  <2>6. OutputWhole(t, made, pending, up, outputs[t], flight[t], since[t].output, shown[t].output)
    BY DEF StreamsInv, Whole
  <2>7. InputWhole(t, made, inputs, Tail(down), since[t].input, shown'[t].input)
    BY <2>5 DEF told, have
  <2>8. QED BY <1>4, <1>6, <2>6, <2>7 DEF Whole, agent
<1>12. QED BY <1>9, <1>10, <1>11 DEF StreamsInv

LEMMA ShownKeeps ==
  ASSUME StreamsInv, NEW s \in Sessions, Shown(s)
  PROVE  StreamsInv'
<1> DEFINE rest == Tail(flight[s])
           f == Flushed(rest, outputs[s], HighWater)
           m == Head(flight[s])
<1>1. StreamsTypeOK /\ flight[s] \in Seq(Chunk) /\ outputs[s] \in Seq(Chunk) /\ flight[s] # <<>>
  BY DEF StreamsInv, StreamsTypeOK, Shown
<1>2. m \in Chunk /\ rest \in Seq(Chunk)
  BY <1>1, CountTail
<1>3. m.id \in Nat
  BY <1>2, ElementsIs
<1> HIDE DEF rest
<1>4. /\ f.socket \in Seq(Chunk) /\ f.queue \in Seq(Chunk)
      /\ ToSet(f.socket) \subseteq ToSet(rest) \cup ToSet(outputs[s])
      /\ ToSet(f.queue) \subseteq ToSet(outputs[s])
      /\ \A id : Count(id, f.socket) + Count(id, f.queue) = Count(id, rest) + Count(id, outputs[s])
  BY <1>1, <1>2, FlushedIs
<1>5. /\ shown' = [shown EXCEPT ![s].output = Append(@, m.id)]
      /\ UNCHANGED <<links, ready, open, terminals, agent, inputs, paused, down, made, since, left>>
      /\ \/ /\ flight' = [flight EXCEPT ![s] = f.socket]
            /\ outputs' = [outputs EXCEPT ![s] = f.queue]
            /\ pressured' = [pressured EXCEPT ![s] = Released(f.queue)]
         \/ /\ flight' = [flight EXCEPT ![s] = rest]
            /\ UNCHANGED <<outputs, pressured>>
  BY DEF Shown, rest
<1>6. Released(f.queue) \in BOOLEAN
  BY DEF Released
<1> HIDE DEF f, m, rest
<1>7. PICK g \in Seq(Chunk), q \in Seq(Chunk) :
        /\ flight' = [flight EXCEPT ![s] = g] /\ outputs' = [outputs EXCEPT ![s] = q]
        /\ ToSet(q) \cup ToSet(g) \subseteq ToSet(outputs[s]) \cup ToSet(rest)
        /\ \A id : Count(id, g) + Count(id, q) = Count(id, rest) + Count(id, outputs[s])
  <2>1. CASE flight' = [flight EXCEPT ![s] = f.socket] /\ outputs' = [outputs EXCEPT ![s] = f.queue]
    <3> DEFINE x == f.socket
               y == f.queue
    <3>1. /\ x \in Seq(Chunk) /\ y \in Seq(Chunk)
          /\ flight' = [flight EXCEPT ![s] = x] /\ outputs' = [outputs EXCEPT ![s] = y]
          /\ ToSet(y) \cup ToSet(x) \subseteq ToSet(outputs[s]) \cup ToSet(rest)
          /\ \A id : Count(id, x) + Count(id, y) = Count(id, rest) + Count(id, outputs[s])
      BY <1>4, <2>1
    <3> HIDE DEF x, y
    <3>2. QED BY <3>1
  <2>2. CASE flight' = [flight EXCEPT ![s] = rest] /\ outputs' = outputs
    <3> DEFINE y == outputs[s]
    <3>1. outputs' = [outputs EXCEPT ![s] = y]
      BY <1>1, <2>2 DEF StreamsTypeOK
    <3>2. y \in Seq(Chunk)
      BY <1>1
    <3>3. ToSet(y) \cup ToSet(rest) \subseteq ToSet(y) \cup ToSet(rest)
      OBVIOUS
    <3>4. \A id : Count(id, rest) + Count(id, y) = Count(id, rest) + Count(id, y)
      OBVIOUS
    <3>5. QED BY <1>2, <2>2, <3>1, <3>2, <3>3, <3>4 DEF y
  <2>3. QED BY <1>5, <2>1, <2>2
<1>8. shown' \in [Sessions -> [output : Seq(Nat), input : Seq(Nat)]]
  <2>1. shown \in [Sessions -> [output : Seq(Nat), input : Seq(Nat)]]
    BY <1>1 DEF StreamsTypeOK
  <2>2. QED BY <1>3, <1>5, <2>1, NoteMore
<1>9. pressured' \in [Sessions -> BOOLEAN]
  BY <1>1, <1>5, <1>6 DEF StreamsTypeOK
<1>10. flight' \in [Sessions -> Seq(Chunk)] /\ outputs' \in [Sessions -> Seq(Chunk)]
  BY <1>1, <1>7 DEF StreamsTypeOK
<1>11. StreamsTypeOK'
  BY <1>1, <1>5, <1>8, <1>9, <1>10 DEF StreamsTypeOK, agent
<1>12. Idle'
  BY <1>5 DEF StreamsInv, Idle
<1>13. \A t \in Sessions : shown[t] \in [output : Seq(Nat), input : Seq(Nat)]
  BY <1>1 DEF StreamsTypeOK
<1>14. \A t \in Sessions : shown'[t].input = shown[t].input
  BY <1>1, <1>3, <1>5, <1>13 DEF StreamsTypeOK
<1>15. /\ shown'[s].output = Append(shown[s].output, m.id)
       /\ \A t \in Sessions \ {s} : shown'[t].output = shown[t].output
  BY <1>1, <1>3, <1>5, <1>13 DEF StreamsTypeOK
<1>16. /\ flight'[s] = g /\ outputs'[s] = q
       /\ \A t \in Sessions \ {s} : flight'[t] = flight[t] /\ outputs'[t] = outputs[t]
  BY <1>1, <1>7 DEF StreamsTypeOK
<1>17. ASSUME NEW t \in Sessions PROVE Whole(t)'
  <2>1. OutputWhole(t, made, pending, up, outputs[t], flight[t], since[t].output, shown[t].output)
    BY DEF StreamsInv, Whole
  <2>2. InputWhole(t, made, inputs, down, since[t].input, shown[t].input)
    BY DEF StreamsInv, Whole
  <2>3. OutputWhole(t, made, pending, up, outputs'[t], flight'[t], since[t].output, shown'[t].output)
    <3>1. CASE t = s
      <4>1. /\ OutputTyped(pending, up, outputs[s], flight[s], since[s].output, shown[s].output)
            /\ made \in Nat
        BY <1>1, InvTyped
      <4>2. OutputWhole(s, made, pending, up, q, g, since[s].output, Append(shown[s].output, m.id))
        BY <1>1, <1>7, <2>1, <3>1, <4>1, OutputShown DEF rest, m
      <4>3. QED BY <1>15, <1>16, <3>1, <4>2
    <3>2. CASE t # s
      BY <1>15, <1>16, <2>1, <3>2
    <3>3. QED BY <3>1, <3>2
  <2>4. QED BY <1>5, <1>14, <2>2, <2>3 DEF Whole, agent
<1>18. QED BY <1>11, <1>12, <1>17 DEF StreamsInv

LEMMA ReceiveKeeps ==
  ASSUME StreamsInv, Receive
  PROVE  StreamsInv'
<1> DEFINE m == Head(up)
           s == m.session
           v == Tail(up)
<1>1. /\ StreamsTypeOK /\ up \in Seq(Chunk) /\ up # <<>>
      /\ \A t \in Sessions : Whole(t)
  BY DEF StreamsInv, StreamsTypeOK, Receive
<1>2. m \in Chunk /\ v \in Seq(Chunk) /\ ToSet(up) = ToSet(v) \cup {m}
  BY <1>1, CountTail
<1>3. s \in Sessions /\ {s} \in SUBSET Sessions
  BY <1>2, ElementsIs
<1>4. up' = v /\ UNCHANGED <<links, ready, terminals, pending, polling, down, made, left>>
  BY DEF Receive
<1>5. ASSUME NEW t \in Sessions, NEW q, NEW g,
             \/ (s # t \/ since[t].output = <<>>) /\ q = outputs[t] /\ g = flight[t]
             \/ q = Append(outputs[t], m) /\ g = flight[t]
             \/ q = outputs[t] /\ g = Append(flight[t], m)
      PROVE  OutputWhole(t, made, pending, v, q, g, since[t].output, shown[t].output)
  <2>1. /\ OutputTyped(pending, up, outputs[t], flight[t], since[t].output, shown[t].output)
        /\ made \in Nat
    BY <1>1, InvTyped
  <2>2. OutputWhole(t, made, pending, up, outputs[t], flight[t], since[t].output, shown[t].output)
    BY <1>1 DEF Whole
  <2>3. QED BY <1>1, <1>5, <2>1, <2>2, OutputReceived
<1> HIDE DEF m, s, v
<1>6. CASE Forgotten({s})
  <2>1. StreamsTypeOK'
    <3>1. /\ open' \subseteq Sessions /\ paused' \in Seq(Sessions)
          /\ outputs' \in [Sessions -> Seq(Chunk)] /\ flight' \in [Sessions -> Seq(Chunk)]
          /\ inputs' \in [Sessions -> Seq(Chunk)] /\ pressured' \in [Sessions -> BOOLEAN]
          /\ since' \in [Sessions -> [output : Seq(Nat), input : Seq(Nat)]]
          /\ shown' \in [Sessions -> [output : Seq(Nat), input : Seq(Nat)]]
      BY <1>1, <1>3, <1>6, ForgottenIs
    <3>2. QED BY <1>1, <1>2, <1>4, <3>1 DEF StreamsTypeOK
  <2>2. \A t \in Sessions \ {s} :
          OutputWhole(t, made, pending, v, outputs[t], flight[t], since[t].output, shown[t].output)
    BY <1>5
  <2>3. /\ Idle'
        /\ \A t \in Sessions :
             /\ OutputWhole(t, made, pending, v, outputs'[t], flight'[t], since'[t].output, shown'[t].output)
             /\ InputWhole(t, made, inputs', down, since'[t].input, shown'[t].input)
    <3>1. ToSet(v) \subseteq ToSet(up)
      BY <1>2
    <3>2. QED BY <1>3, <1>6, <2>2, <3>1, ForgottenKeeps
  <2>4. \A t \in Sessions : Whole(t)'
    BY <1>4, <2>3 DEF Whole
  <2>5. QED BY <2>1, <2>3, <2>4 DEF StreamsInv
<1> DEFINE Kept ==
             /\ UNCHANGED <<open, inputs, paused, since, shown>>
             /\ \/ /\ s \in open
                   /\ flight' = [flight EXCEPT ![s] = Append(@, m)]
                   /\ UNCHANGED <<outputs, pressured>>
                \/ /\ s \in open
                   /\ outputs' = [outputs EXCEPT ![s] = Append(@, m)]
                   /\ pressured' = [pressured EXCEPT ![s] = TRUE]
                   /\ UNCHANGED flight
                \/ s \notin open /\ UNCHANGED <<outputs, pressured, flight>>
<1>7. CASE Kept
  <2>1. flight' \in [Sessions -> Seq(Chunk)] /\ outputs' \in [Sessions -> Seq(Chunk)]
    <3>1. flight[s] \in Seq(Chunk) /\ outputs[s] \in Seq(Chunk)
      BY <1>1, <1>3 DEF StreamsTypeOK
    <3>2. Append(flight[s], m) \in Seq(Chunk) /\ Append(outputs[s], m) \in Seq(Chunk)
      BY <1>2, <3>1, CountAppend
    <3>3. QED BY <1>1, <1>3, <1>7, <3>2 DEF StreamsTypeOK
  <2>2. pressured' \in [Sessions -> BOOLEAN]
    BY <1>1, <1>7 DEF StreamsTypeOK
  <2>3. StreamsTypeOK'
    BY <1>1, <1>2, <1>4, <1>7, <2>1, <2>2 DEF StreamsTypeOK
  <2>4. Idle'
    BY <1>7 DEF StreamsInv, Idle
  <2>5. ASSUME NEW t \in Sessions
        PROVE  OutputWhole(t, made, pending, v, outputs'[t], flight'[t], since[t].output, shown[t].output)
    <3>1. CASE t # s
      <4>1. outputs'[t] = outputs[t] /\ flight'[t] = flight[t]
        BY <1>1, <1>3, <1>7, <3>1 DEF StreamsTypeOK
      <4>2. QED BY <1>5, <3>1, <4>1
    <3>2. CASE t = s /\ s \in open
      <4>1. \/ outputs'[t] = Append(outputs[t], m) /\ flight'[t] = flight[t]
            \/ outputs'[t] = outputs[t] /\ flight'[t] = Append(flight[t], m)
        BY <1>1, <1>3, <1>7, <3>2 DEF StreamsTypeOK
      <4>2. QED BY <1>5, <4>1
    <3>3. CASE t = s /\ s \notin open
      <4>1. since[t].output = <<>>
        BY <3>3, NoTraceIs DEF StreamsInv, Idle
      <4>2. outputs'[t] = outputs[t] /\ flight'[t] = flight[t]
        BY <1>7, <3>3
      <4>3. QED BY <1>5, <4>1, <4>2
    <3>4. QED BY <3>1, <3>2, <3>3
  <2>6. \A t \in Sessions :
          InputWhole(t, made, inputs, down, since[t].input, shown[t].input)
    BY <1>1 DEF Whole
  <2>7. \A t \in Sessions : Whole(t)'
    BY <1>4, <1>7, <2>5, <2>6 DEF Whole
  <2>8. QED BY <2>3, <2>4, <2>7 DEF StreamsInv
<1>8. Kept \/ Forgotten({s})
  <2>1. \/ s \in open /\ Deliver(m)
        \/ s \in open /\ Forgotten({s})
        \/ /\ s \notin open
           /\ UNCHANGED <<open, outputs, pressured, flight, inputs, paused, since, shown>>
    BY DEF Receive, s, m
  <2>2. Deliver(m) => s \notin open \/ Kept \/ Forgotten({s})
    BY DEF Deliver, s
  <2>3. QED BY <2>1, <2>2
<1>9. QED BY <1>6, <1>7, <1>8

LEMMA SendKeeps ==
  ASSUME StreamsInv, NEW s \in Sessions, NEW size \in Sizes, NEW exit \in BOOLEAN,
         Send(s, size, exit)
  PROVE  StreamsInv'
<1> DEFINE m == [id |-> made + 1, session |-> s, size |-> size, exit |-> exit]
<1>1. /\ StreamsTypeOK /\ Idle /\ \A t \in Sessions : Whole(t)
      /\ made \in Nat /\ pending \in Seq(Chunk) /\ up \in Seq(Chunk)
  BY QueuesTyped DEF StreamsInv
<1>2. m \in Chunk /\ m.id = made + 1 /\ m.session = s
  BY <1>1 DEF Chunk
<1>3. /\ made' = made + 1 /\ made < MaxMade
      /\ since' = IF s \in open THEN [since EXCEPT ![s].output = Append(@, m.id)] ELSE since
      /\ terminals' = IF exit THEN terminals \ {s} ELSE terminals
      /\ \/ up' = Append(up, m) /\ UNCHANGED <<pending, polling>>
         \/ pending' = Append(pending, m) /\ polling' = TRUE /\ UNCHANGED up
      /\ UNCHANGED <<links, ready, open, relay, shown, left>>
  BY DEF Send
<1> HIDE DEF m
<1>4. m.id \in Nat
  BY <1>1, <1>2
<1>5. pending' \in Seq(Chunk) /\ up' \in Seq(Chunk) /\ polling' \in BOOLEAN
  <2>1. Append(pending, m) \in Seq(Chunk) /\ Append(up, m) \in Seq(Chunk)
    BY <1>1, <1>2, CountAppend
  <2>2. QED BY <1>1, <1>3, <2>1 DEF StreamsTypeOK
<1>6. since' \in [Sessions -> [output : Seq(Nat), input : Seq(Nat)]]
  <2>1. since \in [Sessions -> [output : Seq(Nat), input : Seq(Nat)]]
    BY <1>1 DEF StreamsTypeOK
  <2>2. QED BY <1>3, <1>4, <2>1, NoteMore
<1>7. made' \in 0 .. MaxMade
  BY <1>1, <1>3, BoundTyped
<1>8. terminals' \subseteq Sessions
  BY <1>1, <1>3 DEF StreamsTypeOK
<1>9. StreamsTypeOK'
  BY <1>1, <1>3, <1>5, <1>6, <1>7, <1>8 DEF StreamsTypeOK, relay
<1>10. \A t \in Sessions : since[t] \in [output : Seq(Nat), input : Seq(Nat)]
  BY <1>1 DEF StreamsTypeOK
<1>11. \A t \in Sessions \ {s} : since'[t] = since[t]
  BY <1>1, <1>3 DEF StreamsTypeOK
<1>12. /\ s \notin open => since'[s] = since[s]
       /\ s \in open => since'[s].output = Append(since[s].output, m.id)
       /\ since'[s].input = since[s].input
  BY <1>1, <1>3, <1>10 DEF StreamsTypeOK
<1>13. Idle'
  <2>1. \A t \in Sessions : t \notin open => since'[t] = NoTrace
    BY <1>1, <1>11, <1>12 DEF Idle
  <2>2. QED BY <1>3, <2>1 DEF Idle
<1>14. ASSUME NEW t \in Sessions PROVE Whole(t)'
  <2> DEFINE told == since[t].output
             tell == since'[t].output
             v == up'
             q == pending'
  <2>1. OutputWhole(t, made, pending, up, outputs[t], flight[t], told, shown[t].output)
    BY <1>1 DEF Whole
  <2>2. /\ OutputTyped(pending, up, outputs[t], flight[t], told, shown[t].output)
        /\ InputTyped(inputs, down, since[t].input, shown[t].input)
    BY <1>1, InvTyped
  <2>3. tell = told \/ (m.session = t /\ tell = Append(told, m.id))
    <3>1. CASE t = s
      BY <1>2, <1>12, <3>1
    <3>2. CASE t # s
      BY <1>11, <3>2
    <3>3. QED BY <3>1, <3>2
  <2>4. (q = Append(pending, m) /\ v = up) \/ (q = pending /\ v = Append(up, m))
    BY <1>3
  <2> HIDE DEF told, tell, v, q
  <2>5. OutputWhole(t, made + 1, q, v, outputs[t], flight[t], tell, shown[t].output)
    BY <1>1, <1>2, <2>1, <2>2, <2>3, <2>4, OutputSends
  <2>6. InputWhole(t, made + 1, inputs, down, since[t].input, shown[t].input)
    <3>1. InputWhole(t, made, inputs, down, since[t].input, shown[t].input)
      BY <1>1 DEF Whole
    <3>2. made + 1 \in Nat /\ made <= made + 1
      BY <1>1
    <3>3. QED BY <1>1, <2>2, <3>1, <3>2, InputLater
  <2>7. since'[t].input = since[t].input
    BY <1>11, <1>12
  <2>8. QED BY <1>3, <2>5, <2>6, <2>7 DEF Whole, relay, tell, v, q
<1>15. QED BY <1>9, <1>13, <1>14 DEF StreamsInv

LEMMA InputKeeps ==
  ASSUME StreamsInv, NEW s \in Sessions, NEW size \in Sizes, Input(s, size)
  PROVE  StreamsInv'
<1> DEFINE m == [id |-> made + 1, session |-> s, size |-> size, exit |-> FALSE]
           Enters == since' = [since EXCEPT ![s].input = Append(@, m.id)]
           Kept == \/ /\ down' = Append(down, m)
                      /\ UNCHANGED <<inputs, paused>>
                   \/ /\ inputs' = [inputs EXCEPT ![s] = Append(@, m)]
                      /\ paused' = IF s \in ToSet(paused) THEN paused ELSE Append(paused, s)
                      /\ UNCHANGED down
<1>1. /\ StreamsTypeOK /\ Idle /\ \A t \in Sessions : Whole(t)
      /\ made \in Nat /\ down \in Seq(Chunk) /\ {s} \in SUBSET Sessions
  <2>1. {s} \in SUBSET Sessions
    OBVIOUS
  <2>2. StreamsTypeOK /\ Idle /\ \A t \in Sessions : Whole(t)
    BY DEF StreamsInv
  <2>3. made \in Nat /\ down \in Seq(Chunk)
    BY <2>2, InvTyped DEF InputTyped
  <2>4. QED BY <2>1, <2>2, <2>3, Zenon
<1>2. m \in Chunk /\ m.id = made + 1 /\ m.session = s
  <2>1. FALSE \in BOOLEAN
    OBVIOUS
  <2>2. QED BY <1>1, <2>1 DEF Chunk
<1>3. made' = made + 1 /\ made < MaxMade /\ s \in open
      /\ UNCHANGED <<links, ready, terminals, agent, left>>
  BY DEF Input
<1>4. \/ Kept /\ Enters /\ UNCHANGED <<open, outputs, pressured, flight, shown>>
      \/ Forgotten({s}) /\ UNCHANGED down
  BY DEF Input
<1> HIDE DEF m
<1>5. m.id \in Nat /\ made' \in 0 .. MaxMade /\ made + 1 \in Nat /\ made <= made + 1
  BY <1>1, <1>2, <1>3, BoundTyped
<1>6. CASE Kept /\ Enters /\ UNCHANGED <<open, outputs, pressured, flight, shown>>
  <2>1. /\ inputs[s] \in Seq(Chunk) /\ inputs \in [Sessions -> Seq(Chunk)]
        /\ paused \in Seq(Sessions)
    BY <1>1 DEF StreamsTypeOK
  <2>2. Append(down, m) \in Seq(Chunk) /\ Append(inputs[s], m) \in Seq(Chunk)
    BY <1>1, <1>2, <2>1, CountAppend
  <2>3. down' \in Seq(Chunk) /\ inputs' \in [Sessions -> Seq(Chunk)]
    BY <1>1, <1>6, <2>1, <2>2
  <2>4. paused' \in Seq(Sessions)
    <3>1. Append(paused, s) \in Seq(Sessions)
      BY <2>1
    <3>2. QED BY <1>6, <2>1, <3>1
  <2>5. since' \in [Sessions -> [output : Seq(Nat), input : Seq(Nat)]]
    <3>1. since \in [Sessions -> [output : Seq(Nat), input : Seq(Nat)]]
      BY <1>1 DEF StreamsTypeOK
    <3>2. QED BY <1>5, <1>6, <3>1, NoteMore
  <2>6. StreamsTypeOK'
    BY <1>1, <1>3, <1>5, <1>6, <2>3, <2>4, <2>5 DEF StreamsTypeOK, agent
  <2>7. \A t \in Sessions : since[t] \in [output : Seq(Nat), input : Seq(Nat)]
    BY <1>1 DEF StreamsTypeOK
  <2>8. \A t \in Sessions \ {s} : since'[t] = since[t]
    BY <1>1, <1>6 DEF StreamsTypeOK
  <2>9. since'[s].input = Append(since[s].input, m.id) /\ since'[s].output = since[s].output
    BY <1>1, <1>6, <2>7 DEF StreamsTypeOK
  <2>10. Idle'
    <3>1. \A t \in Sessions : t \notin open => since'[t] = NoTrace
      BY <1>1, <1>3, <2>8 DEF Idle
    <3>2. QED BY <1>6, <3>1 DEF Idle
  <2>11. ASSUME NEW t \in Sessions PROVE Whole(t)'
    <3> DEFINE told == since[t].input
               tell == since'[t].input
               kept == inputs'
               e == down'
    <3>1. InputWhole(t, made, inputs, down, told, shown[t].input)
      BY <1>1 DEF Whole
    <3>2. /\ OutputTyped(pending, up, outputs[t], flight[t], since[t].output, shown[t].output)
          /\ InputTyped(inputs, down, told, shown[t].input)
      BY <1>1, InvTyped
    <3>3. tell = IF m.session = t THEN Append(told, m.id) ELSE told
      BY <1>2, <2>8, <2>9
    <3>4. Entered(inputs, down, m, kept, e)
      BY <1>2, <1>6, <2>1 DEF Entered
    <3> HIDE DEF told, tell, kept, e
    <3>5. InputWhole(t, made + 1, kept, e, tell, shown[t].input)
      BY <1>1, <1>2, <3>1, <3>2, <3>3, <3>4, InputEntered
    <3>6. OutputWhole(t, made + 1, pending, up, outputs[t], flight[t], since[t].output, shown[t].output)
      <4>1. OutputWhole(t, made, pending, up, outputs[t], flight[t], since[t].output, shown[t].output)
        BY <1>1 DEF Whole
      <4>2. QED BY <1>1, <1>5, <3>2, <4>1, OutputLater
    <3>7. since'[t].output = since[t].output
      BY <2>8, <2>9
    <3>8. QED BY <1>3, <1>6, <3>5, <3>6, <3>7 DEF Whole, agent, tell, kept, e
  <2>12. QED BY <2>6, <2>10, <2>11 DEF StreamsInv
<1>7. CASE Forgotten({s}) /\ UNCHANGED down
  <2>1. /\ open' \subseteq Sessions /\ paused' \in Seq(Sessions)
        /\ outputs' \in [Sessions -> Seq(Chunk)] /\ flight' \in [Sessions -> Seq(Chunk)]
        /\ inputs' \in [Sessions -> Seq(Chunk)] /\ pressured' \in [Sessions -> BOOLEAN]
        /\ since' \in [Sessions -> [output : Seq(Nat), input : Seq(Nat)]]
        /\ shown' \in [Sessions -> [output : Seq(Nat), input : Seq(Nat)]]
    BY <1>1, <1>7, ForgottenIs
  <2>2. StreamsTypeOK'
    BY <1>1, <1>3, <1>5, <1>7, <2>1 DEF StreamsTypeOK, agent
  <2>3. \A t \in Sessions \ {s} :
          OutputWhole(t, made, pending, up, outputs[t], flight[t], since[t].output, shown[t].output)
    BY <1>1 DEF Whole
  <2>4. /\ Idle'
        /\ \A t \in Sessions :
             /\ OutputWhole(t, made, pending, up, outputs'[t], flight'[t], since'[t].output, shown'[t].output)
             /\ InputWhole(t, made, inputs', down, since'[t].input, shown'[t].input)
    BY <1>1, <1>7, <2>3, ForgottenKeeps
  <2>5. ASSUME NEW t \in Sessions PROVE Whole(t)'
    <3> DEFINE o == outputs'[t]
               f == flight'[t]
               ins == inputs'
               outTold == since'[t].output
               outGot == shown'[t].output
               inTold == since'[t].input
               inGot == shown'[t].input
    <3>1. since'[t] \in [output : Seq(Nat), input : Seq(Nat)] /\ shown'[t] \in [output : Seq(Nat), input : Seq(Nat)]
      BY <2>1
    <3>2. outTold \in Seq(Nat) /\ outGot \in Seq(Nat) /\ inTold \in Seq(Nat) /\ inGot \in Seq(Nat)
      BY <3>1
    <3>3. OutputTyped(pending, up, o, f, outTold, outGot) /\ InputTyped(ins, down, inTold, inGot)
      BY <1>1, <2>1, <3>2 DEF StreamsTypeOK, OutputTyped, InputTyped
    <3>4. /\ OutputWhole(t, made, pending, up, o, f, outTold, outGot)
          /\ InputWhole(t, made, ins, down, inTold, inGot)
      BY <2>4
    <3> HIDE DEF o, f, ins, outTold, outGot, inTold, inGot
    <3>5. OutputWhole(t, made + 1, pending, up, o, f, outTold, outGot)
      BY <1>1, <1>5, <3>3, <3>4, OutputLater
    <3>6. InputWhole(t, made + 1, ins, down, inTold, inGot)
      BY <1>1, <1>5, <3>3, <3>4, InputLater
    <3>7. QED BY <1>3, <1>7, <3>5, <3>6 DEF Whole, agent, o, f, ins, outTold, outGot, inTold, inGot
  <2>6. QED BY <2>2, <2>4, <2>5 DEF StreamsInv
<1>8. QED BY <1>4, <1>6, <1>7

----------------------------------------------------------------------------

\* The strengthened invariant holds of every reachable state.
THEOREM StreamsInductive == StreamsSpec => []StreamsInv
<1>1. StreamsInv /\ [StreamsNext]_streamVars => StreamsInv'
  <2> SUFFICES ASSUME StreamsInv, [StreamsNext]_streamVars PROVE StreamsInv'
    OBVIOUS
  <2>1. ASSUME NEW s \in Sessions, Attach(s) PROVE StreamsInv'
    BY <2>1, AttachKeeps
  <2>2. ASSUME NEW s \in Sessions, Detach(s) PROVE StreamsInv'
    BY <2>2, DetachKeeps
  <2>3. ASSUME NEW s \in Sessions, Shown(s) PROVE StreamsInv'
    BY <2>3, ShownKeeps
  <2>4. ASSUME NEW s \in Sessions, NEW size \in Sizes, Input(s, size) PROVE StreamsInv'
    BY <2>4, InputKeeps
  <2>5. ASSUME NEW s \in Sessions, NEW size \in Sizes, NEW exit \in BOOLEAN, Send(s, size, exit)
        PROVE  StreamsInv'
    BY <2>5, SendKeeps
  <2>6. CASE LinkLost
    BY <2>6, LinkLostKeeps
  <2>7. CASE LinkReady
    BY <2>7, LinkReadyKeeps
  <2>8. CASE Poll
    BY <2>8, PollKeeps
  <2>9. CASE Receive
    BY <2>9, ReceiveKeeps
  <2>10. CASE Drain
    BY <2>10, DrainKeeps
  <2>11. CASE Typed
    BY <2>11, TypedKeeps
  <2>12. CASE UNCHANGED streamVars
    <3> USE <2>12 DEF streamVars, agent, relay, history
    <3>1. StreamsTypeOK'
      BY DEF StreamsInv, StreamsTypeOK
    <3>2. Idle'
      BY DEF StreamsInv, Idle
    <3>3. \A t \in Sessions : Whole(t)'
      BY DEF StreamsInv, Whole
    <3>4. QED BY <3>1, <3>2, <3>3 DEF StreamsInv
  <2>13. QED
    BY <2>1, <2>2, <2>3, <2>4, <2>5, <2>6, <2>7, <2>8, <2>9, <2>10, <2>11, <2>12 DEF StreamsNext
<1>2. QED BY <1>1, StreamsInitInv, PTL DEF StreamsSpec

\* What is queued and on its way is always messages of known sessions (the state is well typed).
THEOREM StreamsTypeCorrect == StreamsSpec => []StreamsTypeOK
<1>1. StreamsInv => StreamsTypeOK
  BY DEF StreamsInv
<1>2. QED BY <1>1, StreamsInductive, PTL

\* The places where a message may be, counted one after the other.
LEMMA TripIs ==
  ASSUME StreamsTypeOK, NEW s \in Sessions, NEW id
  PROVE  /\ Times(id, OutputTrip(s)) =
              Count(id, pending) + Count(id, up) + Count(id, outputs[s]) + Count(id, flight[s])
                + Times(id, shown[s].output)
         /\ Times(id, InputTrip(s)) =
              Count(id, inputs[s]) + Count(id, down) + Times(id, shown[s].input)
<1> DEFINE p == Ids(pending)
           u == Ids(up)
           o == Ids(outputs[s])
           f == Ids(flight[s])
           g == shown[s].output
           i == Ids(inputs[s])
           d == Ids(down)
           h == shown[s].input
<1>1. /\ OutputTyped(pending, up, outputs[s], flight[s], since[s].output, shown[s].output)
      /\ InputTyped(inputs, down, since[s].input, shown[s].input)
  BY InvTyped
<1>2. /\ p \in Seq(Nat) /\ u \in Seq(Nat) /\ o \in Seq(Nat) /\ f \in Seq(Nat) /\ g \in Seq(Nat)
      /\ i \in Seq(Nat) /\ d \in Seq(Nat) /\ h \in Seq(Nat)
  BY <1>1, IdsIs DEF OutputTyped, InputTyped
<1>3. OutputTrip(s) = p \o u \o o \o f \o g /\ InputTrip(s) = i \o d \o h
  BY DEF OutputTrip, InputTrip
<1> HIDE DEF p, u, o, f, g, i, d, h
<1> DEFINE two == p \o u
           three == two \o o
           four == three \o f
           back == i \o d
<1>4. two \in Seq(Nat) /\ Times(id, two) = Times(id, p) + Times(id, u)
  BY <1>2, TimesConcat
<1>5. back \in Seq(Nat) /\ Times(id, back) = Times(id, i) + Times(id, d)
  BY <1>2, TimesConcat
<1> HIDE DEF two, back
<1>6. three \in Seq(Nat) /\ Times(id, three) = Times(id, two) + Times(id, o)
  BY <1>2, <1>4, TimesConcat
<1> HIDE DEF three
<1>7. four \in Seq(Nat) /\ Times(id, four) = Times(id, three) + Times(id, f)
  BY <1>2, <1>6, TimesConcat
<1> HIDE DEF four
<1>8. Times(id, four \o g) = Times(id, four) + Times(id, g)
  BY <1>2, <1>7, TimesConcat
<1>9. Times(id, back \o h) = Times(id, back) + Times(id, h)
  BY <1>2, <1>5, TimesConcat
<1>10. /\ Times(id, four \o g)
             = Times(id, p) + Times(id, u) + Times(id, o) + Times(id, f) + Times(id, g)
       /\ Times(id, back \o h) = Times(id, i) + Times(id, d) + Times(id, h)
  BY <1>4, <1>5, <1>6, <1>7, <1>8, <1>9
<1>11. /\ Times(id, OutputTrip(s))
             = Times(id, p) + Times(id, u) + Times(id, o) + Times(id, f) + Times(id, g)
       /\ Times(id, InputTrip(s)) = Times(id, i) + Times(id, d) + Times(id, h)
  BY <1>3, <1>10 DEF two, three, four, back
<1>12. QED BY <1>11 DEF p, u, o, f, g, i, d, h, Count

\* Whatever the sizes, the marks and the limit of the queues, no flush, refusal or callback
\* loses or repeats what goes between a terminal and the browser that stays with it.
THEOREM StreamsConserved == StreamsSpec => []Conserved
<1>1. ASSUME StreamsInv PROVE Conserved
  <2>1. ASSUME NEW s \in open
        PROVE  /\ \A i \in DOMAIN since[s].output : Times(since[s].output[i], OutputTrip(s)) = 1
               /\ \A i \in DOMAIN since[s].input : Times(since[s].input[i], InputTrip(s)) = 1
    <3>1. s \in Sessions /\ StreamsTypeOK /\ Whole(s)
      BY <1>1 DEF StreamsInv, StreamsTypeOK
    <3>2. ASSUME NEW i \in DOMAIN since[s].output
          PROVE  Times(since[s].output[i], OutputTrip(s)) = 1
      <4> DEFINE id == since[s].output[i]
      <4>1. id \in ToSet(since[s].output)
        BY DEF ToSet
      <4> HIDE DEF id
      <4>2. Times(id, OutputTrip(s)) = 1
        BY <3>1, <4>1, TripIs DEF Whole, OutputWhole
      <4>3. QED BY <4>2 DEF id
    <3>3. ASSUME NEW i \in DOMAIN since[s].input
          PROVE  Times(since[s].input[i], InputTrip(s)) = 1
      <4> DEFINE id == since[s].input[i]
      <4>1. id \in ToSet(since[s].input)
        BY DEF ToSet
      <4> HIDE DEF id
      <4>2. Times(id, InputTrip(s)) = 1
        BY <3>1, <4>1, TripIs DEF Whole, InputWhole
      <4>3. QED BY <4>2 DEF id
    <3>4. QED BY <3>2, <3>3
  <2>2. QED BY <2>1 DEF Conserved
<1>2. QED BY <1>1, StreamsInductive, PTL
=============================================================================
