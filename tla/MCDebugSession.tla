-------------------------- MODULE MCDebugSession --------------------------
EXTENDS DebugSession, TLC
CONSTANTS c1, c2, h1, h2, l1
MCSymmetry == Permutations({c1, c2}) \cup Permutations({h1, h2})
=============================================================================
