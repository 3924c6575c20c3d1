---------------------------- MODULE MCDeviceLink ----------------------------
EXTENDS DeviceLink

CONSTANTS d1, d2, a1, a2, a3, l1, l2, l3

MCDevices  == {d1, d2}
MCAgents   == {a1, a2, a3}
MCLinks    == {l1, l2, l3}
\* Two agents claim d1; d2 has an agent of its own.
MCDeviceOf == [a \in MCAgents |-> IF a = a3 THEN d2 ELSE d1]
=============================================================================
