-------------------------- MODULE MCDeviceSessions --------------------------
EXTENDS DeviceSessions, TLC

CONSTANTS s1, c1, c2, c3, l1, l2

MCSessions == {s1}
MCHalves   == {c1, c2, c3}
MCLinks    == {l1, l2}

\* Ids are random and compared for equality only.
MCSymmetry == Permutations(MCHalves) \cup Permutations(MCLinks)
=============================================================================
