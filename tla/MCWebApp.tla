------------------------------ MODULE MCWebApp ------------------------------
EXTENDS WebApp, TLC

CONSTANTS o1, o2, s1

MCObjects  == {o1, o2}
MCSessions == {s1}
Alike      == Permutations(MCObjects)
=============================================================================
