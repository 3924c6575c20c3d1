------------------------------ MODULE Framing ------------------------------
(***************************************************************************)
(* Frames of the TCP protocol and their decoder                            *)
(* (shared/protocol/framing.ts), as operators.  A frame is a header that   *)
(* gives the length of the payload, and the payload; TCP cuts the stream   *)
(* of frames anywhere.  A decoder is the number of bytes fed to it and of  *)
(* frames it has consumed of the stream that was sent.                     *)
(*                                                                         *)
(* A payload is a kind: what its JSON says, "odd" when it is not JSON, not *)
(* a message, or not one of a client.                                      *)
(***************************************************************************)
EXTENDS Naturals, FiniteSets, Sequences

CONSTANTS
  Header,        \* HEADER_SIZE
  MaxFrameSize   \* the longest payload that is accepted

ASSUME FramingAssumption == {Header, MaxFrameSize} \subseteq Nat \ {0}

FrameBytes(f) == Header + f.length

StreamBytes(stream) ==
  LET upTo[n \in 0 .. Len(stream)] == IF n = 0 THEN 0 ELSE upTo[n - 1] + FrameBytes(stream[n])
  IN  upTo[Len(stream)]

Fits(f) == f.length \in 1 .. MaxFrameSize

\* read() decides on a frame once this much of it is there.
Needed(f) == IF Fits(f) THEN FrameBytes(f) ELSE Header

\* A header that says zero is consumed, one that says too much is not.
Consumed(f) == f.length <= MaxFrameSize

Rejected(f) == ~Fits(f) \/ f.kind = "odd"

\* How many frames of the stream read() decides on, when so many bytes are buffered.
Decodable(stream, buffered) ==
  Cardinality({i \in DOMAIN stream :
                 StreamBytes(SubSeq(stream, 1, i - 1)) + Needed(stream[i]) <= buffered})
=============================================================================
