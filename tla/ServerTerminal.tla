--------------------------- MODULE ServerTerminal ---------------------------
(***************************************************************************)
(* What an authenticated client of the TCP server and its terminal say to  *)
(* each other (server/src/connection.ts, protocol.ts, and the terminal     *)
(* backends pty.ts and ssh-backend.ts): the client's bytes arrive in       *)
(* chunks and are decoded into messages, input goes to the terminal, the   *)
(* terminal's output and the answers go to the socket, which is full at    *)
(* times, and any side may end.  It begins where Server's Start ends.      *)
(*                                                                         *)
(* A ping stands for every message that only gets an answer (echoed data   *)
(* too).  Left out: resizing, keys and credentials of SSH.                 *)
(***************************************************************************)
EXTENDS Framing

CONSTANTS
  Frames,           \* frames the client may send
  SocketHighWater,  \* of the socket: write() answers false from here on
  ChunkLen,         \* longest output in one message
  MaxFrames, MaxOutput   \* frames of the client and messages of output, bounds

ASSUME TerminalAssumption ==
  /\ Frames \subseteq [kind : {"input", "ping", "goodbye", "odd"}, length : Nat]
  /\ {SocketHighWater, ChunkLen} \subseteq Nat \ {0}
  /\ {MaxFrames, MaxOutput} \subseteq Nat

VARIABLES
  sent,    \* the frames the client sends, sooner or later
  fed,     \* bytes of them the decoder was fed
  fin,     \* the client has ended its side
  conn,    \* the connection
  last,    \* history: what the last message was that the client received
  term,    \* the terminal
  spoken   \* messages of output the terminal has made

vars == <<sent, fed, fin, conn, last, term, spoken>>

Said == [kind : {"output", "answer", "goodbye"}, size : Nat]

\* A socket: open; ended by the server; finishing, with both sides ended; destroyed by
\* an error; closed.
Socks == {"open", "ended", "finishing", "destroyed", "closed"}

Connection ==
  [sock : Socks, proto : {"ready", "closing"},
   paused : BOOLEAN,         \* reading is paused
   draining : BOOLEAN,       \* write() has answered false: a drain will resume reading
   out : Seq(Said),          \* written and not taken by the client
   taken : 0 .. MaxFrames,   \* frames the decoder has consumed
   rejected : BOOLEAN,       \* a frame was rejected, in the chunk that is handled
   typed : Seq(Nat),         \* frames whose input was written to the terminal
   missed : Seq(Nat)]        \* and those that came before the shell was open

\* A terminal: the phases of an SSH session before its shell is open, where a PTY begins;
\* over, when it has ended by itself; disposed.  What remains of either may go on speaking.
Terminal ==
  [phase : {"connecting", "shell", "open", "over", "disposed"}, speaks : BOOLEAN]

TypeOK ==
  /\ sent \in Seq(Frames) /\ Len(sent) <= MaxFrames
  /\ fed \in 0 .. StreamBytes(sent)
  /\ fin \in BOOLEAN
  /\ conn \in Connection
  /\ last \in {"nothing", "output", "answer", "goodbye"}
  /\ term \in Terminal
  /\ spoken \in 0 .. MaxOutput

\* An SSH session begins without a shell, a PTY with one.
Begun == {[phase |-> "connecting", speaks |-> FALSE], [phase |-> "open", speaks |-> TRUE]}

Init ==
  /\ sent \in UNION {[1 .. n -> Frames] : n \in 0 .. MaxFrames}
  /\ fed = 0 /\ fin = FALSE /\ last = "nothing" /\ spoken = 0
  /\ conn = [sock |-> "open", proto |-> "ready", paused |-> FALSE, draining |-> FALSE,
             out |-> <<>>, taken |-> 0, rejected |-> FALSE, typed |-> <<>>, missed |-> <<>>]
  /\ term \in Begun

----------------------------------------------------------------------------
(* The connection k after each of these.                                   *)

InFlight(k) ==
  LET upTo[n \in 0 .. Len(k.out)] == IF n = 0 THEN 0 ELSE upTo[n - 1] + k.out[n].size
  IN  upTo[Len(k.out)]

\* A write on a socket that has ended is an error that destroys it, with what it holds.
Refused(k) == [k EXCEPT !.sock = IF @ = "closed" THEN @ ELSE "destroyed", !.out = <<>>]

\* A plausible mistake: reading is paused when anything waits to be taken.
WrittenPausing(k, m) ==
  LET w == [k EXCEPT !.out = Append(@, m)]
  IN  IF k.sock # "open" THEN Refused(k)
      ELSE [w EXCEPT !.paused = TRUE, !.draining = InFlight(w) >= SocketHighWater]

\* sendSafe.
Written(k, m) ==
  LET w == [k EXCEPT !.out = Append(@, m)]
  IN  IF k.sock # "open" THEN Refused(k)
      ELSE IF InFlight(w) < SocketHighWater THEN w
      ELSE [w EXCEPT !.paused = TRUE, !.draining = TRUE]

Answered(k) == Written(k, [kind |-> "answer", size |-> 1])

Farewell(k) == Written(k, [kind |-> "goodbye", size |-> 1])

Ended(k) == [k EXCEPT !.sock = IF @ = "open" THEN "ended" ELSE @]

\* A plausible mistake: the protocol stays ready.
FailedReady(k) == IF k.sock = "closed" THEN k ELSE Ended(Farewell(k))

Failed(k) == IF k.sock = "closed" THEN k ELSE Ended(Farewell([k EXCEPT !.proto = "closing"]))

----------------------------------------------------------------------------
(* The client                                                              *)

ClientEnds ==
  /\ ~fin
  /\ fin' = TRUE
  /\ UNCHANGED <<sent, fed, conn, last, term, spoken>>

\* Input goes to the terminal, which ignores it before its shell is open.
InputHandled(k) ==
  IF term.phase = "open" THEN [k EXCEPT !.typed = Append(@, k.taken)]
  ELSE [k EXCEPT !.missed = Append(@, k.taken)]

\* The frame is handled by the protocol, unless one before it was rejected.
Handled(k, f) ==
  LET c == [k EXCEPT !.taken = IF Consumed(f) THEN @ + 1 ELSE @]
  IN  CASE k.rejected -> k
        [] ~k.rejected /\ (Rejected(f) \/ k.proto = "closing") -> [c EXCEPT !.rejected = TRUE]
        [] ~k.rejected /\ ~Rejected(f) /\ k.proto = "ready" ->
             CASE f.kind = "ping" -> Answered(c)
               [] f.kind = "goodbye" -> Farewell([c EXCEPT !.proto = "closing"])
               [] f.kind = "input" -> InputHandled(c)

\* ... and the frames fs one after the other.
AllHandled(k, fs) ==
  LET after[i \in 0 .. Len(fs)] == IF i = 0 THEN k ELSE Handled(after[i - 1], fs[i])
  IN  after[Len(fs)]

\* onData: a chunk of n bytes.  Every frame that is complete is handled, also after one of
\* them paused reading.
Arrives(n) ==
  LET stream   == SubSeq(sent, conn.taken + 1, Len(sent))
      buffered == fed + n - StreamBytes(SubSeq(sent, 1, conn.taken))
      k        == AllHandled(conn, SubSeq(stream, 1, Decodable(stream, buffered)))
  IN  /\ conn.sock \in {"open", "ended"} /\ ~conn.paused
      /\ fed + n <= StreamBytes(sent)
      /\ fed' = fed + n
      /\ conn' = IF k.rejected THEN Failed([k EXCEPT !.rejected = FALSE]) ELSE k
      /\ UNCHANGED <<sent, fin, last, term, spoken>>

Arrival == \E n \in 1 .. StreamBytes(sent) : Arrives(n)

\* A plausible mistake: the client's end is only noted.
PeerEndsNoted ==
  /\ fin /\ fed = StreamBytes(sent)
  /\ conn.sock \in {"open", "ended"}
  /\ conn' = [conn EXCEPT !.proto = "closing"]
  /\ UNCHANGED <<sent, fed, fin, last, term, spoken>>

\* The client's end is seen when everything before it was read, paused or not: onEnd.
PeerEnds ==
  /\ fin /\ fed = StreamBytes(sent)
  /\ conn.sock \in {"open", "ended"}
  /\ conn' = [conn EXCEPT !.sock = "finishing"]
  /\ UNCHANGED <<sent, fed, fin, last, term, spoken>>

\* The client takes a message.  The last one brings the drain event, unless the socket has
\* ended.
ClientTakes ==
  /\ conn.out # <<>>
  /\ last' = Head(conn.out).kind
  /\ LET drained == conn.draining /\ Len(conn.out) = 1 /\ conn.sock = "open"
     IN  conn' = [conn EXCEPT !.out = Tail(@),
                              !.paused = @ /\ ~drained, !.draining = @ /\ ~drained]
  /\ UNCHANGED <<sent, fed, fin, term, spoken>>

\* onIdleTimeout.
IdleTimeout ==
  /\ conn.sock \notin {"destroyed", "closed"}
  /\ conn' = Ended([conn EXCEPT !.proto = "closing"])
  /\ UNCHANGED <<sent, fed, fin, last, term, spoken>>

\* A terminal that is over reports nothing any more, nor does one that is disposed of.
Disposed(t) == IF t.phase = "over" THEN t ELSE [t EXCEPT !.phase = "disposed"]

\* onClose, which disposes of the terminal: after both ends, or an error.
Closed ==
  /\ conn' = [conn EXCEPT !.sock = "closed", !.out = <<>>]
  /\ term' = Disposed(term)
  /\ UNCHANGED <<sent, fed, fin, last, spoken>>

SocketCloses ==
  /\ conn.sock = "destroyed" \/ (conn.sock = "finishing" /\ conn.out = <<>>)
  /\ Closed

SocketFails == conn.sock # "closed" /\ Closed

----------------------------------------------------------------------------
(* The terminal                                                            *)

\* The SSH client is ready, and asks for a shell.
SshReady ==
  /\ term.phase = "connecting"
  /\ term' = [term EXCEPT !.phase = "shell"]
  /\ UNCHANGED <<sent, fed, fin, conn, last, spoken>>

ShellOpens ==
  /\ term.phase = "shell"
  /\ term' = [phase |-> "open", speaks |-> TRUE]
  /\ UNCHANGED <<sent, fed, fin, conn, last, spoken>>

\* The shell exits or cannot be opened, SSH fails or closes: reported once.
Exits ==
  /\ term.phase \in {"connecting", "shell", "open"}
  /\ term' = [term EXCEPT !.phase = "over"]
  /\ conn' = Failed(conn)
  /\ UNCHANGED <<sent, fed, fin, last, spoken>>

\* A plausible mistake: output is sent in any state of the protocol.
OutputSentAlways(k, size) == Written(k, [kind |-> "output", size |-> size])

\* terminalOutput.
OutputSent(k, size) ==
  IF k.proto = "ready" /\ k.sock # "closed" THEN Written(k, [kind |-> "output", size |-> size])
  ELSE k

AllSent(k, sizes) ==
  LET after[i \in 0 .. Len(sizes)] == IF i = 0 THEN k ELSE OutputSent(after[i - 1], sizes[i])
  IN  after[Len(sizes)]

\* n bytes of output, in messages of at most ChunkLen.
Speaks(n) ==
  LET pieces == (n + ChunkLen - 1) \div ChunkLen
      sizes  == [i \in 1 .. pieces |-> IF i < pieces THEN ChunkLen
                                       ELSE n - (pieces - 1) * ChunkLen]
  IN  /\ term.speaks
      /\ spoken + pieces <= MaxOutput
      /\ spoken' = spoken + pieces
      /\ conn' = AllSent(conn, sizes)
      /\ UNCHANGED <<sent, fed, fin, last, term>>

\* Its stream ends.
FallsSilent ==
  /\ term.speaks /\ term.phase \in {"over", "disposed"}
  /\ term' = [term EXCEPT !.speaks = FALSE]
  /\ UNCHANGED <<sent, fed, fin, conn, last, spoken>>

Next ==
  \/ ClientEnds \/ Arrival \/ PeerEnds \/ ClientTakes
  \/ IdleTimeout \/ SocketCloses \/ SocketFails
  \/ SshReady \/ ShellOpens \/ Exits \/ FallsSilent
  \/ \E n \in 1 .. 2 * ChunkLen : Speaks(n)

\* A client that reads, and a network that delivers; everything else is the server's own.
Fairness == WF_vars(Arrival) /\ WF_vars(PeerEnds) /\ WF_vars(ClientTakes) /\ WF_vars(SocketCloses)

Spec == Init /\ [][Next]_vars /\ Fairness

----------------------------------------------------------------------------
\* Frames with input, none of which follows one that ends the conversation.
IsInput(i) ==
  /\ sent[i].kind = "input"
  /\ \A j \in 1 .. i : ~Rejected(sent[j]) /\ sent[j].kind # "goodbye"

\* However TCP cuts the stream, each input the client sent is handled once, in the order
\* it was sent, and what is handled first may come too early for a shell, but nothing
\* after that: none is passed over while the connection is ready, and none is taken from
\* what follows a bad frame or a goodbye, which the decoder may have buffered already
\* (connection.ts:189-214).
InputInOrder ==
  LET handled == conn.missed \o conn.typed
  IN  /\ \A i, j \in DOMAIN handled : i < j => handled[i] < handled[j]
      /\ \E n \in 0 .. Len(sent) :
           /\ {handled[i] : i \in DOMAIN handled} = {i \in 1 .. n : IsInput(i)}
           /\ conn.proto = "ready" => n = conn.taken

\* A goodbye is the last word, up to another one: neither the output of a terminal that is
\* over or disposed and still has some (ssh-backend.ts:164), nor an answer follows it.
GoodbyeIsLast ==
  LET said == <<last>> \o [i \in DOMAIN conn.out |-> conn.out[i].kind]
  IN  \A i, j \in DOMAIN said : i < j /\ said[i] = "goodbye" => said[j] = "goodbye"

\* A client that reads what it is sent is read from again: reading is paused for a full
\* socket only until the drain, unless the connection ends first (connection.ts:364-379).
PausesEnd == conn.paused ~> ~conn.paused \/ conn.sock # "open"

\* The connection was ended while reading was paused: the drain that would resume it does
\* not come any more, and the client's end stays behind bytes that are not read.
Stuck == conn.sock = "ended" /\ conn.paused /\ fed < StreamBytes(sent)

\* When the client has ended its side the connection closes and its terminal is disposed
\* of, whatever is on the way, unless it is stuck (connection.ts:388-405).
GoneIsReleased ==
  fin ~> (conn.sock = "closed" /\ term.phase \in {"over", "disposed"}) \/ Stuck
=============================================================================
