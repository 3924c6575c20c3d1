------------------------------ MODULE TabLife ------------------------------
(***************************************************************************)
(* What a terminal tab of the web client promises, as operators on the     *)
(* state of a tab: what each call does to it, and the ways it may change   *)
(* by itself.  WebTerminal, the tab with its transports, implements it;    *)
(* WebApp uses it for each of its tabs.                                    *)
(*                                                                         *)
(* A tab "lives" while it has a socket or a timer that opens the next one. *)
(* It may stop living without its state saying so: its transport has torn  *)
(* itself down (transport.ts:273-277, 294-298, 345-353).  "trying" is      *)
(* "connecting" or "reconnecting".                                         *)
(***************************************************************************)

States == {"creating", "trying", "connected", "disconnected", "closed"}

Tab == [state : States, closed : BOOLEAN, lives : BOOLEAN]

Made == [state |-> "creating", closed |-> FALSE, lives |-> FALSE]

\* open(), and reconnect().
Opened(v) ==
  IF v.closed \/ v.state = "connected" THEN v
  ELSE [v EXCEPT !.state = "trying", !.lives = TRUE]

\* A tab for a record of the relay: one that is closed there is only shown.
Hydrated(open) ==
  IF open THEN Opened([Made EXCEPT !.state = "disconnected"])
  ELSE [Made EXCEPT !.state = "closed"]

\* The relay has answered create(): even a tab closed meanwhile shows it is trying.
Provisioned(v) == Opened([v EXCEPT !.state = "trying"])

Closed(v) == IF v.closed THEN v ELSE [state |-> "closed", closed |-> TRUE, lives |-> FALSE]

\* The tab's own steps, taken only while it lives.
Connects(v, w) ==
  /\ ~v.closed /\ v.state = "trying"
  /\ w = [v EXCEPT !.state = "connected"]
Retries(v, w) ==
  /\ ~v.closed /\ v.state \in {"trying", "connected"}
  /\ w = [v EXCEPT !.state = "trying"]
GivesUp(v, w) ==
  /\ ~v.closed
  /\ \E socket \in BOOLEAN : w = [v EXCEPT !.state = "disconnected", !.lives = socket]
IsDismissed(v, w) ==
  /\ ~v.closed
  /\ w = [v EXCEPT !.state = "closed", !.closed = TRUE]
GoesQuiet(v, w) == w = [v EXCEPT !.lives = FALSE]

Moves(v, w) ==
  /\ v.lives
  /\ Connects(v, w) \/ Retries(v, w) \/ GivesUp(v, w) \/ IsDismissed(v, w) \/ GoesQuiet(v, w)

\* Whatever happens to a tab.
Step(v, w) == Moves(v, w) \/ w \in {Opened(v), Provisioned(v), Closed(v)}
=============================================================================
