--------------------------- MODULE MCModuleTable ----------------------------
EXTENDS ModuleTable, TLC

CONSTANTS t1, t2, A, B, C, D

\* A imports B and C, B imports C; D imports B and itself.
MCImports ==
    [m \in Modules |-> CASE m = A -> <<B, C>> [] m = B -> <<C>> [] m = C -> <<>> [] m = D -> <<B, D>>]

\* A and B import each other.
MCCycle == [m \in Modules |-> IF m = A THEN <<B>> ELSE <<A>>]
=============================================================================
