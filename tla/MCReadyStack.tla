---------------------------- MODULE MCReadyStack ----------------------------
EXTENDS ReadyStack, TLC

CONSTANTS t1, t2, t3, v1, v2

Perms == Permutations({t1, t2, t3}) \cup Permutations({v1, v2})
=============================================================================
