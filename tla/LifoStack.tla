----------------------------- MODULE LifoStack ------------------------------
(***************************************************************************)
(* What a ready stack promises: pushes and pops that take effect at once,  *)
(* last in first out, every pushed value returned by at most one pop.      *)
(***************************************************************************)
EXTENDS Integers, Sequences

CONSTANTS Threads, Values, NoValue

VARIABLES
    stack,     \* the values on the stack; the top is the last element
    holding    \* holding[t]: the value t has popped and not yet returned

vars == <<stack, holding>>

Init ==
    /\ stack = <<>>
    /\ holding = [t \in Threads |-> NoValue]

Push(v) ==
    /\ stack' = Append(stack, v)
    /\ UNCHANGED holding

Pop(t) ==
    /\ stack # <<>>
    /\ holding[t] = NoValue
    /\ holding' = [holding EXCEPT ![t] = stack[Len(stack)]]
    /\ stack' = SubSeq(stack, 1, Len(stack) - 1)

Return(t) ==
    /\ holding[t] # NoValue
    /\ holding' = [holding EXCEPT ![t] = NoValue]
    /\ UNCHANGED stack

Next ==
    \/ \E v \in Values : Push(v)
    \/ \E t \in Threads : Pop(t) \/ Return(t)

Spec == Init /\ [][Next]_vars

=============================================================================
