--------------------------- MODULE MCAgentClient ---------------------------
EXTENDS AgentClient

CONSTANTS k1, k2, k3

MCSockets == {k1, k2, k3}
=============================================================================
