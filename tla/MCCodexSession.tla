--------------------------- MODULE MCCodexSession ---------------------------
EXTENDS CodexSession
CONSTANTS s1, s2
MCSubs == {s1, s2}
=============================================================================
