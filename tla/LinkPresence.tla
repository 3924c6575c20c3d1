---------------------------- MODULE LinkPresence ----------------------------
(***************************************************************************)
(* What the rest of the relay may rely on about device links, whatever     *)
(* enrolment and authentication do: a device is reached over at most one   *)
(* link, a newer link replaces the older one and ends it, and a link that  *)
(* is gone never serves its device again.                                  *)
(***************************************************************************)
CONSTANTS Devices, Links, NoLink

VARIABLES
  holder,  \* the link a device is reached over
  gone     \* links that are over

vars == <<holder, gone>>

Init ==
  /\ holder = [d \in Devices |-> NoLink]
  /\ gone = {}

\* Link l becomes the one device d is reached over.
Up(d, l) ==
  /\ l \notin gone
  /\ \A e \in Devices : holder[e] # l
  /\ holder' = [holder EXCEPT ![d] = l]
  /\ gone' = gone \cup ({holder[d]} \ {NoLink})

\* Links ls end, and devices reached over one of them go offline.
Down(ls) ==
  /\ ls \cap gone = {}
  /\ holder' = [d \in Devices |-> IF holder[d] \in ls THEN NoLink ELSE holder[d]]
  /\ gone' = gone \cup ls

Next ==
  \/ \E d \in Devices, l \in Links : Up(d, l)
  \/ \E ls \in SUBSET Links : Down(ls)

Spec == Init /\ [][Next]_vars
=============================================================================
