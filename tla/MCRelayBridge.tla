--------------------------- MODULE MCRelayBridge ---------------------------
\* Instances of RelayBridge for TLC.
EXTENDS RelayBridge

\* The last message in each direction is a large one.
LastUp   == {NUp}
LastDown == {NDown}
=============================================================================
