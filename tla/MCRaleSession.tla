--------------------------- MODULE MCRaleSession ---------------------------
EXTENDS RaleSession
=============================================================================
