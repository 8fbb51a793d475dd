-------------------------- MODULE MCActorScheduler --------------------------
EXTENDS ActorScheduler, TLC

CONSTANTS a1, a2, w1, w2, c1, m1, m2, m3, f1, f2

\* m1 is an ask answered through f1; the others are tells; f2 belongs to a client.
MCReplyTo == [m \in Msgs |-> IF m = m1 /\ f1 \in Futures THEN f1 ELSE NoFuture]

Perms == Permutations({a1, a2}) \cup Permutations({w1, w2})
=============================================================================
