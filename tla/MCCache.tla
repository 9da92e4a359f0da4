------------------------------ MODULE MCCache -------------------------------
EXTENDS Cache
MCPBA == 0 .. 2
CONSTANTS a, b
MCData == {a, b}
MCOneDatum == {a}
=============================================================================
