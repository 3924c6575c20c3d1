------------------------------ MODULE MCServer ------------------------------
EXTENDS Server

CONSTANTS c1, c2, c3, i1, s1, s2

MCConns    == {c1, c2, c3}
MCIps      == {i1}
MCSessions == {s1, s2}
\* Two clients share an address; that of the third cannot be told.
MCIpOf     == [c \in MCConns |-> IF c = c3 THEN NoIp ELSE i1]
=============================================================================
