------------------------ MODULE ActorContractProofs -------------------------
(***************************************************************************)
(* The actor scheduler implements the contract of ActorContract, for any   *)
(* number of actors, workers, clients, messages and futures.               *)
(***************************************************************************)
EXTENDS ActorSchedulerWakeups

\* The labels at which a handler is under way; elsewhere no message is in hand.
Handling == {"run", "send_claim", "send_enqueue"} \cup Awaiting
InHand == \A t \in Threads : msg[t] # NoMsg => t \in Workers /\ pc[t] \in Handling

\* Busy, of any holders c, messages in hand g and suspended messages m.
BusyValue(c, g, m, a) ==
    IF m[a] # NoMsg THEN m[a]
    ELSE IF \E t \in Threads : c[t] = a
    THEN g[CHOOSE t \in Threads : c[t] = a]
    ELSE NoMsg

\* The leftovers of the last takeAll, then the mailbox.
Join(p, q) == p \o q

\* The mapped state.
Queues == [a \in Actors |-> [b \in Bands |-> Queue(a, b)]]
Busies == [a \in Actors |-> Busy(a)]

-----------------------------------------------------------------------------
(* Sequences.                                                              *)

\* A message pushed into the mailbox comes last in the queue.
LEMMA QueueSent ==
    ASSUME NEW S, NEW p \in Seq(S), NEW q \in Seq(S), NEW m \in S
    PROVE  Join(p, Append(q, m)) = Append(Join(p, q), m)
  BY DEF Join

\* The leftovers of the last takeAll come first.
LEMMA QueueTaken ==
    ASSUME NEW S, NEW p \in Seq(S), NEW q \in Seq(S), p # <<>>
    PROVE  /\ Join(p, q) # <<>>
           /\ Head(Join(p, q)) = Head(p)
           /\ Tail(Join(p, q)) = Join(Tail(p), q)
  BY DEF Join

\* A queue with an empty half is its other half.
LEMMA QueueHalf ==
    ASSUME NEW S, NEW q \in Seq(S)
    PROVE  Join(<<>>, q) = q /\ Join(q, <<>>) = q
  BY DEF Join

\* A queue is a sequence of messages.
LEMMA QueueType ==
    ASSUME NEW S, NEW p \in Seq(S), NEW q \in Seq(S)
    PROVE  Join(p, q) \in Seq(S)
  BY DEF Join

-----------------------------------------------------------------------------
(* The message in hand.                                                    *)

\* Every step keeps a message in hand only while its handler is under way.
LEMMA InHandStep ==
    ASSUME IInv, InHand, Next
    PROVE  InHand'
  <1>a. TypeOK /\ Control /\ InHand
    BY DEF IInv
  <1>t. pc \in [Threads -> Labels] /\ msg \in [Threads -> Msgs \cup {NoMsg}]
    BY <1>a DEF TypeOK
  <1>w. \A u \in Threads : pc[u] \in WorkerLabels => u \in Workers
    BY <1>a, Located
  <1> USE DEF Goto, actorVars, futureVars, turnVars, callVars, InHand, Handling, Awaiting
  <1>1. ASSUME NEW t \in Threads, SendClaim(t) PROVE InHand'
    BY <1>a, <1>t, <1>1 DEF SendClaim, Caller
  <1>2. ASSUME NEW t \in Threads, SendEnqueue(t) PROVE InHand'
    BY <1>a, <1>t, <1>2 DEF SendEnqueue, Caller
  <1>3. ASSUME NEW t \in Threads, Dequeue(t) PROVE InHand'
    BY <1>a, <1>t, <1>3 DEF Dequeue
  <1>4. ASSUME NEW t \in Threads, DequeueEmpty(t) PROVE InHand'
    BY <1>a, <1>t, <1>4 DEF DequeueEmpty
  <1>5. ASSUME NEW t \in Threads, StartTurn(t) PROVE InHand'
    BY <1>a, <1>t, <1>5 DEF StartTurn
  <1>6. ASSUME NEW t \in Threads, StayParked(t) PROVE InHand'
    BY <1>a, <1>t, <1>6 DEF StayParked
  <1>7. ASSUME NEW t \in Threads, ResumeTurn(t) PROVE InHand'
    BY <1>a, <1>t, <1>w, <1>7 DEF ResumeTurn, WorkerLabels
  <1>8. ASSUME NEW t \in Threads, TakeMessage(t) PROVE InHand'
    BY <1>a, <1>t, <1>w, <1>8 DEF TakeMessage, WorkerLabels
  <1>9. ASSUME NEW t \in Threads, NextBand(t) PROVE InHand'
    BY <1>a, <1>t, <1>9 DEF NextBand
  <1>10. ASSUME NEW t \in Threads, TurnOver(t) PROVE InHand'
    BY <1>a, <1>t, <1>10 DEF TurnOver
  <1>11. ASSUME NEW t \in Threads, FinishSuspended(t) PROVE InHand'
    BY <1>a, <1>t, <1>11 DEF FinishSuspended
  <1>12. ASSUME NEW t \in Threads, CountSuspended(t) PROVE InHand'
    BY <1>a, <1>t, <1>12 DEF CountSuspended
  <1>13. ASSUME NEW t \in Threads, FinishLoad(t) PROVE InHand'
    BY <1>a, <1>t, <1>13 DEF FinishLoad
  <1>14. ASSUME NEW t \in Threads, FinishCheck(t) PROVE InHand'
    BY <1>a, <1>t, <1>14 DEF FinishCheck
  <1>15. ASSUME NEW t \in Threads, FinishRelease(t) PROVE InHand'
    BY <1>a, <1>t, <1>15 DEF FinishRelease
  <1>16. ASSUME NEW t \in Threads, FinishEnqueue(t) PROVE InHand'
    BY <1>a, <1>t, <1>16 DEF FinishEnqueue
  <1>17. ASSUME NEW t \in Threads, AddWaiter(t) PROVE InHand'
    BY <1>a, <1>t, <1>17 DEF AddWaiter
  <1>18. ASSUME NEW t \in Threads, AwaitYields(t) PROVE InHand'
    BY <1>a, <1>t, <1>18 DEF AwaitYields
  <1>19. ASSUME NEW t \in Threads, AwaitAnswers(t) PROVE InHand'
    BY <1>a, <1>t, <1>19 DEF AwaitAnswers
  <1>20. ASSUME NEW t \in Threads, HandlerEnds(t) PROVE InHand'
    BY <1>a, <1>t, <1>20 DEF HandlerEnds
  <1>21. ASSUME NEW t \in Threads, Settle(t) PROVE InHand'
    BY <1>a, <1>t, <1>21 DEF Settle, AfterComplete
  <1>22. ASSUME NEW t \in Threads, ReadWaiters(t) PROVE InHand'
    BY <1>a, <1>t, <1>22 DEF ReadWaiters
  <1>23. ASSUME NEW t \in Threads, Resume(t) PROVE InHand'
    BY <1>a, <1>t, <1>23 DEF Resume
  <1>24. ASSUME NEW t \in Threads, ResumeParked(t) PROVE InHand'
    BY <1>a, <1>t, <1>24 DEF ResumeParked
  <1>25. ASSUME NEW t \in Threads, ResumeIdle(t) PROVE InHand'
    BY <1>a, <1>t, <1>25 DEF ResumeIdle
  <1>26. ASSUME NEW t \in Threads, CompleteDone(t) PROVE InHand'
    BY <1>a, <1>t, <1>26 DEF CompleteDone, AfterComplete
  <1>27. ASSUME NEW t \in Threads, NEW m \in Msgs, NEW a \in Actors, NEW b \in SendBands,
               Send(t, m, a, b)
        PROVE  InHand'
    BY <1>a, <1>t, <1>27 DEF Send
  <1>28. ASSUME NEW t \in Threads, NEW f \in Futures, Await(t, f) PROVE InHand'
    BY <1>a, <1>t, <1>28 DEF Await
  <1>29. ASSUME NEW t \in Threads, NEW f \in ClientFutures, ClientCompletes(t, f) PROVE InHand'
    BY <1>a, <1>t, <1>29 DEF ClientCompletes
  <1>30. ASSUME NEW t \in Threads, AwaitRefused(t) PROVE InHand'
    BY <1>a, <1>t, <1>30 DEF AwaitRefused
  <1> QED
    BY <1>1, <1>2, <1>3, <1>4, <1>5, <1>6, <1>7, <1>8, <1>9, <1>10, <1>11, <1>12, <1>13, <1>14,
       <1>15, <1>16, <1>17, <1>18, <1>19, <1>20, <1>21, <1>22, <1>23, <1>24, <1>25, <1>26,
       <1>27, <1>28, <1>29, <1>30
    DEF Next, Step

-----------------------------------------------------------------------------
(* The message an actor is handling.                                       *)

\* An actor without a suspended message handles what its one worker has in hand.
LEMMA BusyInTurn ==
    ASSUME NEW c, NEW g, NEW m, NEW a, NEW t \in Threads, m[a] = NoMsg, c[t] = a,
           \A u \in Threads : c[u] = a => u = t
    PROVE  BusyValue(c, g, m, a) = g[t]
  <1>1. (CHOOSE u \in Threads : c[u] = a) = t
    OBVIOUS
  <1> QED
    BY <1>1 DEF BusyValue

\* Busies in terms of BusyValue, before and after a step.
LEMMA BusiesAre ==
    /\ \A a : Busy(a) = BusyValue(cur, msg, turnMsg, a)
    /\ Busies = [a \in Actors |-> BusyValue(cur, msg, turnMsg, a)]
    /\ Busies' = [a \in Actors |-> BusyValue(cur', msg', turnMsg', a)]
  BY DEF Busies, Busy, BusyValue

\* Queues in terms of Join, before and after a step.
LEMMA QueuesAre ==
    /\ \A a, b : Queue(a, b) = Join(pending[a][b], mailbox[a][b])
    /\ Queues = [a \in Actors |-> [b \in Bands |-> Join(pending[a][b], mailbox[a][b])]]
    /\ Queues' = [a \in Actors |-> [b \in Bands |-> Join(pending'[a][b], mailbox'[a][b])]]
  BY DEF Queues, Queue, Join

\* A step that leaves queues, turns and messages in hand alone is a stutter of
\* the contract.
LEMMA Stutters ==
    ASSUME mailbox' = mailbox, pending' = pending, turnMsg' = turnMsg, cur' = cur, msg' = msg
    PROVE  UNCHANGED <<Queues, Busies>>
  BY QueuesAre, BusiesAre

\* A worker with no message in hand takes or leaves an actor.
LEMMA BusyWhileTaken ==
    ASSUME NEW t \in Threads, msg[t] = NoMsg, msg' = msg, turnMsg' = turnMsg,
           \A u \in Threads \ {t} : cur'[u] = cur[u],
           SingleMethod, SingleMethod', NoActor \notin Actors
    PROVE  Busies' = Busies
  <1> SUFFICES ASSUME NEW a \in Actors
               PROVE  BusyValue(cur', msg', turnMsg', a) = BusyValue(cur, msg, turnMsg, a)
    BY BusiesAre
  <1>1. CASE turnMsg[a] # NoMsg
    BY <1>1 DEF BusyValue
  <1>2. CASE turnMsg[a] = NoMsg
    <2>1. \A u, v \in Threads : cur[u] = a /\ cur[v] = a => u = v
      BY DEF SingleMethod
    <2>2. \A u, v \in Threads : cur'[u] = a /\ cur'[v] = a => u = v
      BY DEF SingleMethod
    <2>3. ASSUME NEW u \in Threads \ {t}, cur[u] = a
          PROVE  BusyValue(cur, msg, turnMsg, a) = msg[u] /\ BusyValue(cur', msg', turnMsg', a) = msg[u]
      BY <1>2, <2>1, <2>2, <2>3, BusyInTurn
    <2>4. ASSUME \A u \in Threads \ {t} : cur[u] # a
          PROVE  BusyValue(cur, msg, turnMsg, a) = NoMsg
      <3>1. CASE cur[t] = a
        BY <1>2, <2>1, <3>1, BusyInTurn
      <3>2. CASE cur[t] # a
        BY <1>2, <2>4, <3>2 DEF BusyValue
      <3> QED
        BY <3>1, <3>2
    <2>5. ASSUME \A u \in Threads \ {t} : cur'[u] # a
          PROVE  BusyValue(cur', msg', turnMsg', a) = NoMsg
      <3>1. CASE cur'[t] = a
        BY <1>2, <2>2, <3>1, BusyInTurn
      <3>2. CASE cur'[t] # a
        BY <1>2, <2>5, <3>2 DEF BusyValue
      <3> QED
        BY <3>1, <3>2
    <2> QED
      BY <2>3, <2>4, <2>5
  <1> QED
    BY <1>1, <1>2

\* A step of the worker t in a turn of a changes the message of a alone.
LEMMA BusyInHand ==
    ASSUME NEW t \in Threads, NEW a \in Actors, cur[t] = a, cur' = cur, SingleMethod,
           NoActor \notin Actors,
           \A u \in Threads \ {t} : msg'[u] = msg[u],
           \A c \in Actors \ {a} : turnMsg'[c] = turnMsg[c]
    PROVE  /\ Busy(a) = IF turnMsg[a] # NoMsg THEN turnMsg[a] ELSE msg[t]
           /\ Busies' = [Busies EXCEPT ![a] = IF turnMsg'[a] # NoMsg THEN turnMsg'[a] ELSE msg'[t]]
  <1>1. \A u, v \in Threads : \A c \in Actors : cur[u] = c /\ cur[v] = c => u = v
    BY DEF SingleMethod
  <1>2. BusyValue(cur, msg, turnMsg, a) = IF turnMsg[a] # NoMsg THEN turnMsg[a] ELSE msg[t]
    <2>1. CASE turnMsg[a] = NoMsg
      BY <1>1, <2>1, BusyInTurn
    <2>2. CASE turnMsg[a] # NoMsg
      BY <2>2 DEF BusyValue
    <2> QED
      BY <2>1, <2>2
  <1>3. BusyValue(cur', msg', turnMsg', a) = IF turnMsg'[a] # NoMsg THEN turnMsg'[a] ELSE msg'[t]
    <2>1. CASE turnMsg'[a] = NoMsg
      BY <1>1, <2>1, BusyInTurn
    <2>2. CASE turnMsg'[a] # NoMsg
      BY <2>2 DEF BusyValue
    <2> QED
      BY <2>1, <2>2
  <1>4. ASSUME NEW c \in Actors \ {a}
        PROVE  BusyValue(cur', msg', turnMsg', c) = BusyValue(cur, msg, turnMsg, c)
    <2>1. CASE turnMsg[c] # NoMsg
      BY <2>1 DEF BusyValue
    <2>2. CASE turnMsg[c] = NoMsg /\ \A u \in Threads : cur[u] # c
      BY <2>2 DEF BusyValue
    <2>3. ASSUME turnMsg[c] = NoMsg, NEW u \in Threads, cur[u] = c
          PROVE  BusyValue(cur', msg', turnMsg', c) = BusyValue(cur, msg, turnMsg, c)
      <3>1. u # t
        BY <2>3
      <3>2. BusyValue(cur, msg, turnMsg, c) = msg[u]
        BY <1>1, <2>3, BusyInTurn
      <3>3. BusyValue(cur', msg', turnMsg', c) = msg'[u]
        BY <1>1, <2>3, BusyInTurn
      <3> QED
        BY <3>1, <3>2, <3>3
    <2> QED
      BY <2>1, <2>2, <2>3
  <1>5. Busies' = [Busies EXCEPT ![a] = BusyValue(cur', msg', turnMsg', a)]
    BY <1>4, BusiesAre
  <1> QED
    BY <1>2, <1>3, <1>5, BusiesAre

-----------------------------------------------------------------------------
(* The refinement.                                                         *)

Simulated == Contract!Next \/ UNCHANGED <<Queues, Busies>>

\* A change of one queue.
LEMMA OneQueue ==
    ASSUME NEW F \in [Actors -> [Bands -> Seq(Msgs)]], NEW G \in [Actors -> [Bands -> Seq(Msgs)]],
           NEW a \in Actors, NEW b \in Bands,
           \A c \in Actors, d \in Bands : c # a \/ d # b => G[c][d] = F[c][d]
    PROVE  G = [F EXCEPT ![a][b] = G[a][b]]
  <1>1. \A c \in Actors \ {a} : G[c] = F[c]
    OBVIOUS
  <1>2. G[a] = [F[a] EXCEPT ![b] = G[a][b]]
    OBVIOUS
  <1> QED
    BY <1>1, <1>2

\* A step that queues and takes no message.
LEMMA QueuesStay ==
    ASSUME mailbox' = mailbox, pending' = pending
    PROVE  Queues' = Queues
  BY QueuesAre

\* Every step of the scheduler is a step of the contract: a send, the start or
\* the end of a handler, or nothing it tells apart.
LEMMA StepSimulated ==
    ASSUME IInv, Suspending, InHand, IInv', Next
    PROVE  Simulated
  <1>a. /\ TypeOK /\ Control /\ Suspending /\ InHand
        /\ SingleMethod /\ SingleMethod'
    BY DEF IInv, Claims, OneHolder
  <1>t. /\ pc \in [Threads -> Labels] /\ cur \in [Threads -> Actors \cup {NoActor}]
        /\ msg \in [Threads -> Msgs \cup {NoMsg}] /\ turnMsg \in [Actors -> Msgs \cup {NoMsg}]
        /\ mailbox \in [Actors -> [Bands -> Seq(Msgs)]]
        /\ pending \in [Actors -> [Bands -> Seq(Msgs)]]
    BY <1>a DEF TypeOK
  <1>q. Queues \in [Actors -> [Bands -> Seq(Msgs)]] /\ Queues' \in [Actors -> [Bands -> Seq(Msgs)]]
    <2>1. \A a \in Actors, b \in Bands :
             /\ pending[a][b] \in Seq(Msgs) /\ mailbox[a][b] \in Seq(Msgs)
             /\ pending'[a][b] \in Seq(Msgs) /\ mailbox'[a][b] \in Seq(Msgs)
      <3>1. /\ mailbox' \in [Actors -> [Bands -> Seq(Msgs)]]
            /\ pending' \in [Actors -> [Bands -> Seq(Msgs)]]
        BY DEF IInv, TypeOK
      <3> QED
        BY <1>t, <3>1
    <2>2. \A a \in Actors, b \in Bands : /\ Join(pending[a][b], mailbox[a][b]) \in Seq(Msgs)
                                         /\ Join(pending'[a][b], mailbox'[a][b]) \in Seq(Msgs)
      BY <2>1, QueueType
    <2> QED
      BY <2>2, QueuesAre
  <1> USE DEF Goto, actorVars, futureVars, turnVars, callVars
  <1>1. ASSUME NEW t \in Threads, SendClaim(t) PROVE Simulated
    BY <1>1, Stutters DEF SendClaim, Simulated
  <1>2. ASSUME NEW t \in Threads, SendEnqueue(t) PROVE Simulated
    BY <1>2, Stutters DEF SendEnqueue, Simulated
  <1>3. ASSUME NEW t \in Threads, Dequeue(t) PROVE Simulated
    <2>1. /\ mailbox' = mailbox /\ pending' = pending /\ turnMsg' = turnMsg /\ msg' = msg
          /\ \A u \in Threads \ {t} : cur'[u] = cur[u]
          /\ pc[t] \notin Handling
      BY <1>t, <1>3 DEF Dequeue, Handling, Awaiting
    <2>2. Busies' = Busies
      BY <1>a, <2>1, BusyWhileTaken, ConstantsAssumption DEF InHand
    <2> QED
      BY <2>1, <2>2, QueuesStay DEF Simulated
  <1>4. ASSUME NEW t \in Threads, DequeueEmpty(t) PROVE Simulated
    BY <1>4, Stutters DEF DequeueEmpty, Simulated
  <1>5. ASSUME NEW t \in Threads, StartTurn(t) PROVE Simulated
    BY <1>5, Stutters DEF StartTurn, Simulated
  <1>6. ASSUME NEW t \in Threads, StayParked(t) PROVE Simulated
    BY <1>6, Stutters DEF StayParked, Simulated
  <1>7. ASSUME NEW t \in Threads, ResumeTurn(t) PROVE Simulated
    <2>1. PICK a \in Actors : cur[t] = a
      BY <1>a, <1>7, Located DEF ResumeTurn, WorkerLabels, Between
    <2>2. /\ mailbox' = mailbox /\ pending' = pending /\ cur' = cur
          /\ \A u \in Threads \ {t} : msg'[u] = msg[u]
          /\ \A c \in Actors \ {a} : turnMsg'[c] = turnMsg[c]
      BY <1>t, <1>7, <2>1 DEF ResumeTurn
    <2>3. /\ Busy(a) = IF turnMsg[a] # NoMsg THEN turnMsg[a] ELSE msg[t]
          /\ Busies' = [Busies EXCEPT ![a] = IF turnMsg'[a] # NoMsg THEN turnMsg'[a] ELSE msg'[t]]
      BY <1>a, <2>1, <2>2, BusyInHand, ConstantsAssumption
    <2>4. msg[t] = NoMsg
      BY <1>a, <1>7 DEF ResumeTurn, InHand, Handling, Awaiting
    <2>5. turnMsg'[a] = NoMsg /\ msg'[t] = turnMsg[a]
      BY <1>t, <1>7, <2>1 DEF ResumeTurn
    <2>6. Busies' = Busies
      BY <2>3, <2>4, <2>5, BusiesAre
    <2> QED
      BY <2>2, <2>6, QueuesStay DEF Simulated
  <1>8. ASSUME NEW t \in Threads, TakeMessage(t) PROVE Simulated
    <2>1. PICK a \in Actors : cur[t] = a
      BY <1>a, <1>8, Located DEF TakeMessage, WorkerLabels, Between
    <2>2. PICK b \in Bands : scan[t] = b
      BY <1>a DEF TypeOK
    <2>3. /\ cur' = cur /\ turnMsg' = turnMsg /\ \A u \in Threads \ {t} : msg'[u] = msg[u]
          /\ msg'[t] = Head(Batch(a, b)) /\ Batch(a, b) # <<>>
      BY <1>t, <1>8, <2>1, <2>2 DEF TakeMessage
    <2>4. turnMsg[a] = NoMsg /\ msg[t] = NoMsg
      BY <1>a, <1>8, <2>1, ConstantsAssumption
      DEF TakeMessage, Suspending, InTurn, InHand, Handling, Awaiting
    <2>5. Busy(a) = NoMsg /\ Busies' = [Busies EXCEPT ![a] = Head(Batch(a, b))]
      BY <1>a, <2>1, <2>3, <2>4, BusyInHand, ConstantsAssumption
    <2>6. mailbox[a][b] \in Seq(Msgs) /\ pending[a][b] \in Seq(Msgs)
      BY <1>a DEF TypeOK
    <2>7. /\ mailbox'[a][b] = IF pending[a][b] # <<>> THEN mailbox[a][b] ELSE <<>>
          /\ pending'[a][b] = Tail(Batch(a, b))
      BY <1>t, <1>8, <2>1, <2>2 DEF TakeMessage
    <2>8. \A c \in Actors, d \in Bands : c # a \/ d # b =>
             mailbox'[c][d] = mailbox[c][d] /\ pending'[c][d] = pending[c][d]
      BY <1>t, <1>8, <2>1, <2>2 DEF TakeMessage
    <2> DEFINE p == pending[a][b]  q == mailbox[a][b]
    <2>9. /\ Join(p, q) # <<>> /\ Head(Join(p, q)) = Head(Batch(a, b))
          /\ Join(pending'[a][b], mailbox'[a][b]) = Tail(Join(p, q))
      <3>1. CASE p # <<>>
        <4>1. Batch(a, b) = p /\ mailbox'[a][b] = q /\ pending'[a][b] = Tail(p)
          BY <2>7, <3>1 DEF Batch
        <4> QED
          BY <2>6, <3>1, <4>1, QueueTaken
      <3>2. CASE p = <<>>
        <4>1. Batch(a, b) = q /\ mailbox'[a][b] = <<>> /\ pending'[a][b] = Tail(q)
          BY <2>7, <3>2 DEF Batch
        <4>2. q # <<>> /\ Tail(q) \in Seq(Msgs)
          BY <2>3, <2>6, <4>1
        <4> QED
          BY <2>6, <3>2, <4>1, <4>2, QueueHalf, Zenon
      <3> QED
        BY <3>1, <3>2
    <2>q. Queues[a][b] = Join(p, q) /\ Queues'[a][b] = Join(pending'[a][b], mailbox'[a][b])
      BY QueuesAre
    <2>10. Queues' = [Queues EXCEPT ![a][b] = Tail(@)]
      <3>1. Queues'[a][b] = Tail(Queues[a][b])
        BY <2>9, <2>q, Zenon
      <3>2. \A c \in Actors, d \in Bands : c # a \/ d # b => Queues'[c][d] = Queues[c][d]
        BY <2>8, QueuesAre
      <3>3. Queues' = [Queues EXCEPT ![a][b] = Queues'[a][b]]
        BY <1>q, <3>2, OneQueue
      <3> QED
        BY <3>1, <3>3
    <2>11. /\ Busies[a] = NoMsg /\ Queues[a][b] # <<>>
           /\ Busies' = [Busies EXCEPT ![a] = Head(Queues[a][b])]
      <3>1. Busies[a] = Busy(a)
        BY BusiesAre
      <3> QED
        BY <2>5, <2>9, <2>q, <3>1, Zenon
    <2>12. Contract!Begin(a, b)
      BY <2>10, <2>11 DEF Contract!Begin, Busies, Queues
    <2> QED
      BY <2>12 DEF Simulated, Contract!Next
  <1>9. ASSUME NEW t \in Threads, NextBand(t) PROVE Simulated
    BY <1>9, Stutters DEF NextBand, Simulated
  <1>10. ASSUME NEW t \in Threads, TurnOver(t) PROVE Simulated
    BY <1>10, Stutters DEF TurnOver, Simulated
  <1>11. ASSUME NEW t \in Threads, FinishSuspended(t) PROVE Simulated
    <2>1. /\ mailbox' = mailbox /\ pending' = pending /\ turnMsg' = turnMsg /\ msg' = msg
          /\ \A u \in Threads \ {t} : cur'[u] = cur[u]
          /\ pc[t] \notin Handling
      BY <1>t, <1>11 DEF FinishSuspended, Handling, Awaiting
    <2>2. Busies' = Busies
      BY <1>a, <2>1, BusyWhileTaken, ConstantsAssumption DEF InHand
    <2> QED
      BY <2>1, <2>2, QueuesStay DEF Simulated
  <1>12. ASSUME NEW t \in Threads, CountSuspended(t) PROVE Simulated
    BY <1>12, Stutters DEF CountSuspended, Simulated
  <1>13. ASSUME NEW t \in Threads, FinishLoad(t) PROVE Simulated
    BY <1>13, Stutters DEF FinishLoad, Simulated
  <1>14. ASSUME NEW t \in Threads, FinishCheck(t) PROVE Simulated
    BY <1>14, Stutters DEF FinishCheck, Simulated
  <1>15. ASSUME NEW t \in Threads, FinishRelease(t) PROVE Simulated
    <2>1. /\ mailbox' = mailbox /\ pending' = pending /\ turnMsg' = turnMsg /\ msg' = msg
          /\ \A u \in Threads \ {t} : cur'[u] = cur[u]
          /\ pc[t] \notin Handling
      BY <1>t, <1>15 DEF FinishRelease, Handling, Awaiting
    <2>2. Busies' = Busies
      BY <1>a, <2>1, BusyWhileTaken, ConstantsAssumption DEF InHand
    <2> QED
      BY <2>1, <2>2, QueuesStay DEF Simulated
  <1>16. ASSUME NEW t \in Threads, FinishEnqueue(t) PROVE Simulated
    <2>1. /\ mailbox' = mailbox /\ pending' = pending /\ turnMsg' = turnMsg /\ msg' = msg
          /\ \A u \in Threads \ {t} : cur'[u] = cur[u]
          /\ pc[t] \notin Handling
      BY <1>t, <1>16 DEF FinishEnqueue, Handling, Awaiting
    <2>2. Busies' = Busies
      BY <1>a, <2>1, BusyWhileTaken, ConstantsAssumption DEF InHand
    <2> QED
      BY <2>1, <2>2, QueuesStay DEF Simulated
  <1>17. ASSUME NEW t \in Threads, AddWaiter(t) PROVE Simulated
    BY <1>17, Stutters DEF AddWaiter, Simulated
  <1>18. ASSUME NEW t \in Threads, AwaitYields(t) PROVE Simulated
    <2>1. PICK a \in Actors : cur[t] = a
      BY <1>a, <1>18, Located DEF AwaitYields, WorkerLabels, Between
    <2>2. /\ mailbox' = mailbox /\ pending' = pending /\ cur' = cur
          /\ \A u \in Threads \ {t} : msg'[u] = msg[u]
          /\ \A c \in Actors \ {a} : turnMsg'[c] = turnMsg[c]
      BY <1>t, <1>18, <2>1 DEF AwaitYields
    <2>3. /\ Busy(a) = IF turnMsg[a] # NoMsg THEN turnMsg[a] ELSE msg[t]
          /\ Busies' = [Busies EXCEPT ![a] = IF turnMsg'[a] # NoMsg THEN turnMsg'[a] ELSE msg'[t]]
      BY <1>a, <2>1, <2>2, BusyInHand, ConstantsAssumption
    <2>4. turnMsg[a] = NoMsg
      BY <1>a, <1>18, <2>1, ConstantsAssumption DEF AwaitYields, Suspending, InTurn, Awaiting
    <2>5. turnMsg'[a] = msg[t] /\ msg'[t] = NoMsg
      BY <1>t, <1>18, <2>1 DEF AwaitYields
    <2>6. Busies' = Busies
      BY <2>3, <2>4, <2>5, BusiesAre
    <2> QED
      BY <2>2, <2>6, QueuesStay DEF Simulated
  <1>19. ASSUME NEW t \in Threads, AwaitAnswers(t) PROVE Simulated
    BY <1>19, Stutters DEF AwaitAnswers, Simulated
  <1>20. ASSUME NEW t \in Threads, HandlerEnds(t) PROVE Simulated
    <2>1. PICK a \in Actors : cur[t] = a
      BY <1>a, <1>20, Located DEF HandlerEnds, WorkerLabels, Between
    <2>2. /\ mailbox' = mailbox /\ pending' = pending /\ cur' = cur
          /\ \A u \in Threads \ {t} : msg'[u] = msg[u]
          /\ \A c \in Actors \ {a} : turnMsg'[c] = turnMsg[c]
      BY <1>t, <1>20, <2>1 DEF HandlerEnds
    <2>3. /\ Busy(a) = IF turnMsg[a] # NoMsg THEN turnMsg[a] ELSE msg[t]
          /\ Busies' = [Busies EXCEPT ![a] = IF turnMsg'[a] # NoMsg THEN turnMsg'[a] ELSE msg'[t]]
      BY <1>a, <2>1, <2>2, BusyInHand, ConstantsAssumption
    <2>4. turnMsg[a] = NoMsg
      BY <1>a, <1>20, <2>1, ConstantsAssumption DEF HandlerEnds, Suspending, InTurn, Awaiting
    <2>5. turnMsg'[a] = NoMsg /\ msg'[t] = NoMsg
      BY <1>t, <1>20, <2>4 DEF HandlerEnds
    <2>6. Queues' = Queues
      BY <2>2, QueuesStay
    <2>7. CASE msg[t] # NoMsg
      <3>1. Contract!Finish(a)
        BY <2>3, <2>4, <2>5, <2>6, <2>7 DEF Contract!Finish, Busies, Queues
      <3> QED
        BY <3>1 DEF Simulated, Contract!Next
    <2>8. CASE msg[t] = NoMsg
      <3>1. Busies' = Busies
        BY <2>3, <2>4, <2>5, <2>8, BusiesAre
      <3> QED
        BY <2>6, <3>1 DEF Simulated
    <2> QED
      BY <2>7, <2>8
  <1>21. ASSUME NEW t \in Threads, Settle(t) PROVE Simulated
    BY <1>21, Stutters DEF Settle, Simulated
  <1>22. ASSUME NEW t \in Threads, ReadWaiters(t) PROVE Simulated
    BY <1>22, Stutters DEF ReadWaiters, Simulated
  <1>23. ASSUME NEW t \in Threads, Resume(t) PROVE Simulated
    BY <1>23, Stutters DEF Resume, Simulated
  <1>24. ASSUME NEW t \in Threads, ResumeParked(t) PROVE Simulated
    BY <1>24, Stutters DEF ResumeParked, Simulated
  <1>25. ASSUME NEW t \in Threads, ResumeIdle(t) PROVE Simulated
    BY <1>25, Stutters DEF ResumeIdle, Simulated
  <1>26. ASSUME NEW t \in Threads, CompleteDone(t) PROVE Simulated
    BY <1>26, Stutters DEF CompleteDone, Simulated
  <1>27. ASSUME NEW t \in Threads, NEW m \in Msgs, NEW a \in Actors, NEW b \in SendBands,
               Send(t, m, a, b)
        PROVE  Simulated
    <2>1. b \in Bands
      BY ConstantsAssumption
    <2>2. /\ pending' = pending /\ turnMsg' = turnMsg /\ cur' = cur /\ msg' = msg
          /\ mailbox'[a][b] = Append(mailbox[a][b], m)
          /\ \A c \in Actors, d \in Bands : c # a \/ d # b => mailbox'[c][d] = mailbox[c][d]
      BY <1>t, <1>27, <2>1 DEF Send
    <2>3. Busies' = Busies
      BY <2>2, BusiesAre
    <2>4. Join(pending'[a][b], mailbox'[a][b]) = Append(Join(pending[a][b], mailbox[a][b]), m)
      <3>1. mailbox[a][b] \in Seq(Msgs) /\ pending[a][b] \in Seq(Msgs)
        BY <1>t, <2>1
      <3>2. \A p, q \in Seq(Msgs) : Join(p, Append(q, m)) = Append(Join(p, q), m)
        BY QueueSent
      <3>3. Join(pending[a][b], Append(mailbox[a][b], m)) = Append(Join(pending[a][b], mailbox[a][b]), m)
        BY <3>1, <3>2, Zenon
      <3> QED
        BY <2>2, <3>3, Zenon
    <2>5. Queues' = [Queues EXCEPT ![a][b] = Append(@, m)]
      <3>1. Queues'[a][b] = Append(Queues[a][b], m)
        <4>1. /\ Queues[a][b] = Join(pending[a][b], mailbox[a][b])
              /\ Queues'[a][b] = Join(pending'[a][b], mailbox'[a][b])
          BY <2>1, QueuesAre
        <4> QED
          BY <2>4, <4>1, Zenon
      <3>2. \A c \in Actors, d \in Bands : c # a \/ d # b => Queues'[c][d] = Queues[c][d]
        BY <2>2, QueuesAre
      <3>3. Queues' = [Queues EXCEPT ![a][b] = Queues'[a][b]]
        BY <1>q, <2>1, <3>2, OneQueue
      <3> QED
        BY <3>1, <3>3
    <2>6. Contract!Send(a, b, m)
      BY <2>3, <2>5 DEF Contract!Send, Busies, Queues
    <2> QED
      BY <2>1, <2>6 DEF Simulated, Contract!Next
  <1>28. ASSUME NEW t \in Threads, NEW f \in Futures, Await(t, f) PROVE Simulated
    BY <1>28, Stutters DEF Await, Simulated
  <1>29. ASSUME NEW t \in Threads, NEW f \in ClientFutures, ClientCompletes(t, f) PROVE Simulated
    BY <1>29, Stutters DEF ClientCompletes, Simulated
  <1>30. ASSUME NEW t \in Threads, AwaitRefused(t) PROVE Simulated
    BY <1>30, Stutters DEF AwaitRefused, Simulated
  <1> QED
    BY <1>1, <1>2, <1>3, <1>4, <1>5, <1>6, <1>7, <1>8, <1>9, <1>10, <1>11, <1>12, <1>13, <1>14,
       <1>15, <1>16, <1>17, <1>18, <1>19, <1>20, <1>21, <1>22, <1>23, <1>24, <1>25, <1>26,
       <1>27, <1>28, <1>29, <1>30
    DEF Next, Step

\* The scheduler implements the contract: whatever senders, workers, completers
\* and suspended handlers do, an actor handles the messages of each band in the
\* order they were sent, each once, one at a time.
THEOREM ContractHolds == Spec => ImplementsContract
  <1>1. Init => Contract!Init /\ InHand
    <2> SUFFICES ASSUME Init PROVE Contract!Init /\ InHand
      OBVIOUS
    <2>1. /\ \A a \in Actors : turnMsg[a] = NoMsg
          /\ \A a \in Actors, b \in Bands : pending[a][b] = <<>> /\ mailbox[a][b] = <<>>
          /\ \A t \in Threads : cur[t] = NoActor /\ msg[t] = NoMsg
      BY DEF Init
    <2>2. \A a \in Actors, b \in Bands : Queue(a, b) = <<>>
      <3>1. Join(<<>>, <<>>) = <<>>
        <4>1. <<>> \in Seq(Msgs)
          OBVIOUS
        <4> QED
          BY <4>1, QueueHalf
      <3> QED
        BY <2>1, <3>1, QueuesAre
    <2>3. \A a \in Actors : Busy(a) = NoMsg
      BY <2>1, ConstantsAssumption DEF Busy
    <2> QED
      BY <2>1, <2>2, <2>3 DEF Contract!Init, InHand
  <1>2. IInv /\ InHand /\ [Next]_vars => InHand'
    <2>1. ASSUME InHand, UNCHANGED vars PROVE InHand'
      BY <2>1 DEF InHand, vars, turnVars
    <2> QED
      BY <2>1, InHandStep
  <1>3. IInv /\ IInv' /\ Suspending /\ InHand /\ [Next]_vars => [Contract!Next]_(Contract!vars)
    <2>1. ASSUME UNCHANGED vars PROVE Simulated
      BY <2>1, Stutters DEF vars, actorVars, turnVars, Simulated
    <2>2. Simulated => [Contract!Next]_(Contract!vars)
      BY DEF Simulated, Contract!vars, Queues, Busies
    <2> QED
      BY <2>1, <2>2, StepSimulated
  <1>4. (Contract!Init /\ [][Contract!Next]_(Contract!vars)) => ImplementsContract
    BY DEF ImplementsContract, Contract!Spec
  <1> QED
    BY <1>1, <1>2, <1>3, <1>4, WokenAlways, PTL DEF Spec
=============================================================================
