-------------------------- MODULE MCServerTerminal --------------------------
(***************************************************************************)
(* ServerTerminal with three frames of the client, short or too long, cut  *)
(* anywhere, and two messages of output, over a socket that two messages   *)
(* fill.                                                                   *)
(***************************************************************************)
EXTENDS ServerTerminal

MCFrames ==
  [kind : {"input", "goodbye", "odd"}, length : {1}]
    \cup {[kind |-> "ping", length |-> 1], [kind |-> "input", length |-> 2]}
=============================================================================
