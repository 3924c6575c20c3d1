------------------------------- MODULE MCLogin -------------------------------
EXTENDS Login

CONSTANT a1

OneAddress == {a1}
=============================================================================
