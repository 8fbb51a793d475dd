--------------------------- MODULE ActorContract ----------------------------
(***************************************************************************)
(* What an actor promises the code that sends to it: per priority band its *)
(* messages are handled in the order they were sent, each once, and one at *)
(* a time.  Bands are independent: nothing is promised between them beyond *)
(* this, because the band scan of a turn is not atomic.                    *)
(***************************************************************************)
EXTENDS Sequences

CONSTANTS Actors, Bands, Msgs, NoMsg

VARIABLES
    queue,   \* queue[a][b]: messages sent to a in band b, not yet begun
    busy     \* busy[a]: the message a is handling, or NoMsg

vars == <<queue, busy>>

Init ==
    /\ queue = [a \in Actors |-> [b \in Bands |-> <<>>]]
    /\ busy = [a \in Actors |-> NoMsg]

Send(a, b, m) ==
    /\ queue' = [queue EXCEPT ![a][b] = Append(@, m)]
    /\ UNCHANGED busy

Begin(a, b) ==
    /\ busy[a] = NoMsg
    /\ queue[a][b] # <<>>
    /\ busy' = [busy EXCEPT ![a] = Head(queue[a][b])]
    /\ queue' = [queue EXCEPT ![a][b] = Tail(@)]

Finish(a) ==
    /\ busy[a] # NoMsg
    /\ busy' = [busy EXCEPT ![a] = NoMsg]
    /\ UNCHANGED queue

Next ==
    \E a \in Actors :
        \/ \E b \in Bands, m \in Msgs : Send(a, b, m)
        \/ \E b \in Bands : Begin(a, b)
        \/ Finish(a)

Spec == Init /\ [][Next]_vars

=============================================================================
