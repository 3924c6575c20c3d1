--------------------------- MODULE MCWebTerminal ---------------------------
EXTENDS WebTerminal
=============================================================================
