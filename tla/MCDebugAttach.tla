--------------------------- MODULE MCDebugAttach ---------------------------
EXTENDS DebugAttach
CONSTANTS r1, r2
=============================================================================
