------------------------------ MODULE Promise -------------------------------
(***************************************************************************)
(* What a future promises (src/runtime/Futures.h, src/runtime/             *)
(* ActorPrimitives.cpp): it takes one outcome, for ever; a continuation    *)
(* registered on it runs at most once, and only after the outcome is       *)
(* there.                                                                  *)
(***************************************************************************)
EXTENDS Integers

CONSTANTS
    Futures, Conts, Outcomes,
    Source,     \* Source[k]: the future k is registered on
    NoOutcome

VARIABLES
    outcome,    \* outcome[f]: NoOutcome, or what f was completed with
    registered, \* continuations handed to onComplete
    ran         \* ran[k]: times k was run

vars == <<outcome, registered, ran>>

Init ==
    /\ outcome = [f \in Futures |-> NoOutcome]
    /\ registered = {}
    /\ ran = [k \in Conts |-> 0]

Settle(f, o) ==
    /\ outcome[f] = NoOutcome
    /\ outcome' = [outcome EXCEPT ![f] = o]
    /\ UNCHANGED <<registered, ran>>

Register(k) ==
    /\ k \notin registered
    /\ registered' = registered \cup {k}
    /\ UNCHANGED <<outcome, ran>>

Run(k) ==
    /\ k \in registered
    /\ ran[k] = 0
    /\ outcome[Source[k]] # NoOutcome
    /\ ran' = [ran EXCEPT ![k] = 1]
    /\ UNCHANGED <<outcome, registered>>

Next ==
    \/ \E f \in Futures, o \in Outcomes : Settle(f, o)
    \/ \E k \in Conts : Register(k) \/ Run(k)

Spec == Init /\ [][Next]_vars
=============================================================================
