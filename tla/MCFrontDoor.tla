---------------------------- MODULE MCFrontDoor ----------------------------
EXTENDS FrontDoor

CONSTANTS s1, s2, c1, c2, c3

MCSessions == {s1, s2}
MCHalves   == {c1, c2, c3}
MCSolo     == {s1}
=============================================================================
