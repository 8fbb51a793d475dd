----------------------------- MODULE MCFutures ------------------------------
EXTENDS Futures, TLC

CONSTANTS t1, t2, f1, f2, f3, k1, k2, k3

\* f2 == f1.recover(...) and f3 == f1.flatMap(_ => f2): f1 has two
\* continuations, k1 and k3, and k2 is the forward of the flatMap k1.
MCKind == k1 :> "flatMap" @@ k2 :> "forward" @@ k3 :> "recover"
MCSource == k1 :> f1 @@ k2 :> f2 @@ k3 :> f1
MCDerived == k1 :> f3 @@ k2 :> f3 @@ k3 :> f2
MCForward == k1 :> k2 @@ k2 :> NoCont @@ k3 :> NoCont

\* The body of the flatMap may await its source, which is settled then.
MCAwaits == [k \in Conts |-> IF k = k1 THEN {f1} ELSE {}]

\* Two callbacks on f1, the first of which awaits f2.
UserKind == [k \in Conts |-> "user"]
UserSource == [k \in Conts |-> f1]
UserDerived == [k \in Conts |-> NoFuture]
UserAwaits == [k \in Conts |-> IF k = k1 THEN {f2} ELSE {}]
UserForward == [k \in Conts |-> NoCont]

\* Two threads race to complete f1.
MCAttempts == [f \in Roots |-> IF f = f1 THEN 2 ELSE 1]
=============================================================================
