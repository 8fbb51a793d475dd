---------------------------- MODULE MCWorkerPool ----------------------------
EXTENDS WorkerPool

CONSTANTS k1, k2

\* The I/O of k1 is answered by k2 (a client and a server on one pool).
MCNeeds == [k \in Tasks |-> IF k = k1 THEN k2 ELSE NoTask]
=============================================================================
