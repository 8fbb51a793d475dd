--------------------- MODULE ActorSchedulerCompletions ----------------------
(***************************************************************************)
(* No wake-up of an actor by a future is lost: a completion reaches every  *)
(* actor parked on its future, and the counter of parked actors is right,  *)
(* for any number of actors, workers, clients, messages and futures.       *)
(***************************************************************************)
EXTENDS ActorSchedulerWakeups, FiniteSetTheorems

\* A completion has still to read the waiters of a's future, or to reach a.
Coming(a) ==
    \E t \in Threads :
        /\ fut[t] = waitingOn[a]
        /\ pc[t] = "walk" \/ \E i \in DOMAIN walk[t] : walk[t][i] = a

\* An actor that is parked, or that its worker is about to park, is still to be
\* reached by the completion of its future if that has happened.
Parks(a) ==
    \/ sched[a] = Suspended
    \/ sched[a] = Claimed /\ \E t \in Threads : pc[t] = "finish_suspended" /\ cur[t] = a
Reached == \A a \in Actors : Parks(a) /\ waitingOn[a] \in settled => Coming(a)

\* The inductive invariant, on top of IInv.
WInv == Woken /\ Suspending /\ Reached

-----------------------------------------------------------------------------
(* Completions.                                                            *)

\* A step that settles nothing, parks no actor and keeps the walks as they are.
LEMMA ReachedStays ==
    ASSUME Reached, waitingOn' = waitingOn, settled' = settled,
           \A a \in Actors : sched'[a] = Suspended => sched[a] = Suspended,
           \A u \in Threads :
               /\ pc'[u] = "finish_suspended" => pc[u] = "finish_suspended" /\ cur'[u] = cur[u]
               /\ pc[u] = "walk" => pc'[u] = "walk"
               /\ pc[u] = "walk" \/ walk[u] # <<>> => fut'[u] = fut[u] /\ walk'[u] = walk[u],
           \A u \in Threads : cur[u] \in Actors /\ pc[u] = "finish_suspended"
               /\ sched'[cur[u]] = Claimed => sched[cur[u]] = Claimed
    PROVE  Reached'
  <1>1. \A a \in Actors : Parks(a)' => Parks(a)
    BY DEF Parks
  <1>2. \A a : Coming(a) => Coming(a)'
    <2> SUFFICES ASSUME NEW a, Coming(a) PROVE Coming(a)'
      BY Zenon
    <2>1. PICK t \in Threads : /\ fut[t] = waitingOn[a]
                               /\ pc[t] = "walk" \/ \E i \in DOMAIN walk[t] : walk[t][i] = a
      BY Zenon DEF Coming
    <2>2. pc[t] = "walk" \/ walk[t] # <<>>
      BY <2>1
    <2> QED
      BY <2>1, <2>2 DEF Coming
  <1> QED
    BY <1>1, <1>2 DEF Reached

\* A step of the worker t that changes what its own actor waits for, and comes
\* to the end of a suspended turn only while that future is pending.
LEMMA ReachedTurn ==
    ASSUME Reached, Claims, NEW t \in Threads, cur[t] \in Actors,
           cur' = cur, sched' = sched, walk' = walk, fut' = fut, settled' = settled,
           pc[t] # "walk", \A u \in Threads \ {t} : pc'[u] = pc[u],
           \A b \in Actors \ {cur[t]} : waitingOn'[b] = waitingOn[b],
           pc'[t] = "finish_suspended" => waitingOn'[cur[t]] \notin settled
    PROVE  Reached'
  <1>s. \A u \in Threads \ {t} : cur[u] # cur[t]
    BY ConstantsAssumption DEF Claims, OneHolder, SingleMethod
  <1>h. sched[cur[t]] # Suspended
    BY ConstantsAssumption DEF Claims, HoldersClaim, Claimed, ClaimedWake, Suspended
  <1>1. Parks(cur[t])' => waitingOn'[cur[t]] \notin settled'
    BY <1>h, <1>s, Zenon DEF Parks
  <1>2. \A b \in Actors \ {cur[t]} : (Parks(b)' => Parks(b)) /\ (Coming(b) => Coming(b)')
    BY DEF Parks, Coming
  <1> QED
    BY <1>1, <1>2, Zenon DEF Reached

\* An actor that is parked, or that its worker is about to park, has frames to
\* resume and is in the waiter list of the future they wait for.
LEMMA ParksListed ==
    ASSUME IInv, Suspending, NEW a \in Actors, Parks(a)
    PROVE  snapshot[a] /\ Listed(a)
  <1>1. CASE sched[a] = Suspended
    <2>1. \A u \in Threads : cur[u] # a
      BY <1>1, ConstantsAssumption DEF IInv, Claims, HoldersClaim, Claimed, ClaimedWake, Suspended
    <2> QED
      BY <1>1, <2>1, Zenon DEF Suspending, Adding
  <1>2. ASSUME NEW t \in Threads, pc[t] = "finish_suspended", cur[t] = a
        PROVE  snapshot[a] /\ Listed(a)
    <2>1. snapshot[a]
      BY <1>2, Zenon DEF Suspending
    <2>2. \A u \in Threads : cur[u] = a => u = t
      BY <1>2, ConstantsAssumption DEF IInv, Claims, OneHolder, SingleMethod
    <2>3. ~ Adding(a)
      BY <1>2, <2>2, Zenon DEF Adding
    <2> QED
      BY <2>1, <2>3, Zenon DEF Suspending
  <1> QED
    BY <1>1, <1>2, Zenon DEF Parks

\* Every step keeps the way from a completion to the actors that wait for it.
LEMMA ReachedStep ==
    ASSUME IInv, Suspending, Reached, Next
    PROVE  Reached'
  <1>a. TypeOK /\ Control /\ Claims /\ Suspending /\ Reached
    BY DEF IInv
  <1>t. /\ pc \in [Threads -> Labels] /\ fut \in [Threads -> Futures \cup {NoFuture}]
        /\ cur \in [Threads -> Actors \cup {NoActor}]
        /\ sched \in [Actors -> {Idle, Claimed, ClaimedWake, Suspended}]
        /\ waitingOn \in [Actors -> Futures \cup {NoFuture}]
        /\ walk \in [Threads -> Seq(Actors)]
    BY <1>a DEF TypeOK
  <1>s. \A u, v \in Threads : cur[u] = cur[v] /\ cur[u] \in Actors => u = v
    BY <1>a, ConstantsAssumption DEF Claims, OneHolder, SingleMethod
  <1>h. \A u \in Threads : cur[u] \in Actors => sched[cur[u]] \in {Claimed, ClaimedWake}
    BY <1>a, ConstantsAssumption DEF Claims, HoldersClaim
  <1>w. \A u \in Threads : walk[u] # <<>> => pc[u] \in {"resume", "resume_parked", "resume_idle"}
    BY <1>a, Zenon DEF Suspending, Walking
  <1> USE DEF Goto, actorVars, futureVars, turnVars, callVars
  <1>1. ASSUME NEW t \in Threads, SendClaim(t) PROVE Reached'
    <2>1. tgt[t] \in Actors
      BY <1>a, <1>1, Located DEF SendClaim, Carrying
    <2>2. \A c \in Actors : sched'[c] = Suspended => sched[c] = Suspended
      BY <1>t, <1>1, <2>1 DEF SendClaim, Idle, Claimed, ClaimedWake, Suspended
    <2>3. \A u \in Threads :
             cur[u] \in Actors /\ sched'[cur[u]] = Claimed => sched[cur[u]] = Claimed
      BY <1>h, <1>t, <1>1, <2>1 DEF SendClaim, Idle, Claimed, ClaimedWake, Suspended
    <2>4. \A u \in Threads :
            /\ pc'[u] = "finish_suspended" => pc[u] = "finish_suspended" /\ cur'[u] = cur[u]
            /\ pc[u] = "walk" => pc'[u] = "walk"
            /\ pc[u] = "walk" \/ walk[u] # <<>> => fut'[u] = fut[u] /\ walk'[u] = walk[u]
      BY <1>t, <1>w, <1>1, Zenon DEF SendClaim, Caller
    <2>5. waitingOn' = waitingOn /\ settled' = settled
      BY <1>1, Zenon DEF SendClaim
    <2> QED
      BY <1>a, <2>2, <2>3, <2>4, <2>5, ReachedStays
  <1>2. ASSUME NEW t \in Threads, SendEnqueue(t) PROVE Reached'
    BY <1>a, <1>t, <1>w, <1>2, ReachedStays DEF SendEnqueue, Caller
  <1>3. ASSUME NEW t \in Threads, Dequeue(t) PROVE Reached'
    BY <1>a, <1>t, <1>w, <1>3, ReachedStays DEF Dequeue
  <1>4. ASSUME NEW t \in Threads, DequeueEmpty(t) PROVE Reached'
    BY <1>a, <1>t, <1>w, <1>4, ReachedStays, Zenon DEF DequeueEmpty
  <1>5. ASSUME NEW t \in Threads, StartTurn(t) PROVE Reached'
    BY <1>a, <1>t, <1>w, <1>5, ReachedStays DEF StartTurn
  <1>6. ASSUME NEW t \in Threads, StayParked(t) PROVE Reached'
    <2>1. cur[t] \in Actors
      BY <1>a, <1>6, Located, Zenon DEF StayParked, WorkerLabels, Between
    <2>2. /\ cur' = cur /\ sched' = sched /\ walk' = walk /\ fut' = fut /\ settled' = settled
          /\ pc[t] # "walk" /\ \A u \in Threads \ {t} : pc'[u] = pc[u]
      BY <1>t, <1>6 DEF StayParked
    <2>3. \A b \in Actors \ {cur[t]} : waitingOn'[b] = waitingOn[b]
      BY <1>t, <1>6, <2>1 DEF StayParked
    <2>4. pc'[t] = "finish_suspended" => waitingOn'[cur[t]] \notin settled
      BY <1>t, <1>6 DEF StayParked
    <2> QED
      BY <1>a, <2>1, <2>2, <2>3, <2>4, ReachedTurn
  <1>7. ASSUME NEW t \in Threads, ResumeTurn(t) PROVE Reached'
    <2>1. cur[t] \in Actors
      BY <1>a, <1>7, Located DEF ResumeTurn, WorkerLabels, Between
    <2>2. /\ cur' = cur /\ sched' = sched /\ walk' = walk /\ fut' = fut /\ settled' = settled
          /\ pc[t] # "walk" /\ \A u \in Threads \ {t} : pc'[u] = pc[u]
      BY <1>t, <1>7 DEF ResumeTurn
    <2>3. \A b \in Actors \ {cur[t]} : waitingOn'[b] = waitingOn[b]
      BY <1>t, <1>7, <2>1, Zenon DEF ResumeTurn
    <2>4. pc'[t] = "finish_suspended" => waitingOn'[cur[t]] \notin settled
      BY <1>t, <1>7 DEF ResumeTurn
    <2> QED
      BY <1>a, <2>1, <2>2, <2>3, <2>4, ReachedTurn
  <1>8. ASSUME NEW t \in Threads, TakeMessage(t) PROVE Reached'
    BY <1>a, <1>t, <1>w, <1>8, ReachedStays DEF TakeMessage
  <1>9. ASSUME NEW t \in Threads, NextBand(t) PROVE Reached'
    BY <1>a, <1>t, <1>w, <1>9, ReachedStays, Zenon DEF NextBand
  <1>10. ASSUME NEW t \in Threads, TurnOver(t) PROVE Reached'
    BY <1>a, <1>t, <1>w, <1>10, ReachedStays DEF TurnOver
  <1>11. ASSUME NEW t \in Threads, FinishSuspended(t) PROVE Reached'
    <2>1. cur[t] \in Actors /\ pc[t] = "finish_suspended"
      BY <1>a, <1>11, Located, Zenon DEF FinishSuspended, WorkerLabels, Between
    <2>2. /\ waitingOn' = waitingOn /\ settled' = settled /\ walk' = walk /\ fut' = fut
          /\ \A u \in Threads : pc[u] = "walk" => pc'[u] = "walk"
          /\ \A u \in Threads \ {t} : pc'[u] = pc[u] /\ cur'[u] = cur[u]
          /\ \A c \in Actors \ {cur[t]} : sched'[c] = sched[c]
          /\ pc'[t] # "finish_suspended"
          /\ sched'[cur[t]] = Suspended => sched[cur[t]] = Claimed
      BY <1>t, <1>11, <2>1 DEF FinishSuspended, Claimed, Suspended
    <2>3. ASSUME NEW c \in Actors, Parks(c)' PROVE Parks(c)
      BY <1>s, <2>1, <2>2, <2>3 DEF Parks
    <2>4. \A c : Coming(c) => Coming(c)'
      BY <2>2, Zenon DEF Coming
    <2> QED
      BY <1>a, <2>2, <2>3, <2>4 DEF Reached
  <1>12. ASSUME NEW t \in Threads, CountSuspended(t) PROVE Reached'
    BY <1>a, <1>t, <1>w, <1>12, ReachedStays, Zenon DEF CountSuspended
  <1>13. ASSUME NEW t \in Threads, FinishLoad(t) PROVE Reached'
    <2>1. cur[t] \in Actors
      BY <1>a, <1>13, Located DEF FinishLoad, WorkerLabels, Between
    <2>2. \A c \in Actors : sched'[c] = Suspended => sched[c] = Suspended
      BY <1>t, <1>13, <2>1 DEF FinishLoad, Claimed, Suspended
    <2>3. \A u \in Threads :
             cur[u] \in Actors /\ pc[u] = "finish_suspended" => sched'[cur[u]] = sched[cur[u]]
      BY <1>s, <1>t, <1>13, <2>1 DEF FinishLoad
    <2>4. \A u \in Threads :
            /\ pc'[u] = "finish_suspended" => pc[u] = "finish_suspended" /\ cur'[u] = cur[u]
            /\ pc[u] = "walk" => pc'[u] = "walk"
            /\ pc[u] = "walk" \/ walk[u] # <<>> => fut'[u] = fut[u] /\ walk'[u] = walk[u]
      BY <1>t, <1>w, <1>13, Zenon DEF FinishLoad
    <2>5. waitingOn' = waitingOn /\ settled' = settled
      BY <1>13 DEF FinishLoad
    <2> QED
      BY <1>a, <2>2, <2>3, <2>4, <2>5, ReachedStays
  <1>14. ASSUME NEW t \in Threads, FinishCheck(t) PROVE Reached'
    BY <1>a, <1>t, <1>w, <1>14, ReachedStays DEF FinishCheck
  <1>15. ASSUME NEW t \in Threads, FinishRelease(t) PROVE Reached'
    <2>1. cur[t] \in Actors
      BY <1>a, <1>15, Located DEF FinishRelease, WorkerLabels, Between
    <2>2. \A c \in Actors : sched'[c] = Suspended => sched[c] = Suspended
      BY <1>t, <1>15, <2>1 DEF FinishRelease, Idle, Suspended
    <2>3. \A c \in Actors : sched'[c] = Claimed => sched[c] = Claimed
      BY <1>t, <1>15, <2>1, Zenon DEF FinishRelease, Idle, Claimed
    <2>4. \A u \in Threads :
            /\ pc'[u] = "finish_suspended" => pc[u] = "finish_suspended" /\ cur'[u] = cur[u]
            /\ pc[u] = "walk" => pc'[u] = "walk"
            /\ pc[u] = "walk" \/ walk[u] # <<>> => fut'[u] = fut[u] /\ walk'[u] = walk[u]
      BY <1>t, <1>w, <1>15 DEF FinishRelease
    <2>5. waitingOn' = waitingOn /\ settled' = settled
      BY <1>15, Zenon DEF FinishRelease
    <2> QED
      BY <1>a, <2>2, <2>3, <2>4, <2>5, ReachedStays
  <1>16. ASSUME NEW t \in Threads, FinishEnqueue(t) PROVE Reached'
    BY <1>a, <1>t, <1>w, <1>16, ReachedStays DEF FinishEnqueue
  <1>17. ASSUME NEW t \in Threads, AddWaiter(t) PROVE Reached'
    BY <1>a, <1>t, <1>w, <1>17, ReachedStays DEF AddWaiter
  <1>18. ASSUME NEW t \in Threads, AwaitYields(t) PROVE Reached'
    <2>1. cur[t] \in Actors
      BY <1>a, <1>18, Located DEF AwaitYields, WorkerLabels, Between
    <2>2. /\ cur' = cur /\ sched' = sched /\ walk' = walk /\ fut' = fut /\ settled' = settled
          /\ pc[t] # "walk" /\ \A u \in Threads \ {t} : pc'[u] = pc[u]
      BY <1>t, <1>18 DEF AwaitYields
    <2>3. \A b \in Actors \ {cur[t]} : waitingOn'[b] = waitingOn[b]
      BY <1>t, <1>18, <2>1 DEF AwaitYields
    <2>4. pc'[t] = "finish_suspended" => waitingOn'[cur[t]] \notin settled
      BY <1>t, <1>18 DEF AwaitYields
    <2> QED
      BY <1>a, <2>1, <2>2, <2>3, <2>4, ReachedTurn
  <1>19. ASSUME NEW t \in Threads, AwaitAnswers(t) PROVE Reached'
    <2>1. cur[t] \in Actors
      BY <1>a, <1>19, Located, Zenon DEF AwaitAnswers, WorkerLabels, Between
    <2>2. /\ cur' = cur /\ sched' = sched /\ walk' = walk /\ fut' = fut /\ settled' = settled
          /\ pc[t] # "walk" /\ \A u \in Threads \ {t} : pc'[u] = pc[u]
      BY <1>t, <1>19 DEF AwaitAnswers
    <2>3. \A b \in Actors \ {cur[t]} : waitingOn'[b] = waitingOn[b]
      BY <1>t, <1>19, <2>1 DEF AwaitAnswers
    <2>4. pc'[t] = "finish_suspended" => waitingOn'[cur[t]] \notin settled
      BY <1>t, <1>19, Zenon DEF AwaitAnswers
    <2> QED
      BY <1>a, <2>1, <2>2, <2>3, <2>4, ReachedTurn
  <1>20. ASSUME NEW t \in Threads, HandlerEnds(t) PROVE Reached'
    <2>1. sched' = sched
      BY <1>20 DEF HandlerEnds
    <2>2. \A u \in Threads :
            /\ pc'[u] = "finish_suspended" => pc[u] = "finish_suspended"
            /\ pc[u] = "walk" => pc'[u] = "walk" /\ u # t
            /\ u # t => fut'[u] = fut[u]
      BY <1>t, <1>20, Zenon DEF HandlerEnds
    <2>3. /\ waitingOn' = waitingOn /\ settled' = settled /\ cur' = cur /\ walk' = walk
           /\ pc[t] = "run"
      BY <1>20 DEF HandlerEnds
    <2>4. walk[t] = <<>>
      BY <1>w, <2>3
    <2> QED
      BY <1>a, <2>1, <2>2, <2>3, <2>4, ReachedStays
  <1>21. ASSUME NEW t \in Threads, Settle(t) PROVE Reached'
    <2>1. /\ waitingOn' = waitingOn /\ sched' = sched /\ cur' = cur /\ walk' = walk
          /\ pc[t] = "settle"
      BY <1>21 DEF Settle
    <2>2. /\ \A u \in Threads \ {t} : pc'[u] = pc[u] /\ fut'[u] = fut[u]
          /\ pc'[t] # "finish_suspended"
      BY <1>t, <1>21 DEF Settle, AfterComplete, DropFuture
    <2>3. settled' # settled => settled' = settled \cup {fut'[t]} /\ pc'[t] = "walk"
      <3>1. CASE fut[t] \notin settled
        BY <1>t, <1>21, <3>1 DEF Settle
      <3>2. CASE fut[t] \in settled
        BY <1>21, <3>2 DEF Settle
      <3> QED
        BY <3>1, <3>2, Zenon
    <2>4. walk[t] = <<>>
      BY <1>w, <2>1, Zenon
    <2>5. \A c : Coming(c) => Coming(c)'
      <3> SUFFICES ASSUME NEW c, NEW u \in Threads, fut[u] = waitingOn[c],
                          pc[u] = "walk" \/ \E i \in DOMAIN walk[u] : walk[u][i] = c
                   PROVE  Coming(c)'
        BY DEF Coming
      <3>1. u # t
        BY <2>1, <2>4
      <3> QED
        BY <2>1, <2>2, <3>1 DEF Coming
    <2>6. \A c \in Actors : Parks(c)' => Parks(c)
      BY <2>1, <2>2 DEF Parks
    <2>7. ASSUME NEW c \in Actors, pc'[t] = "walk", waitingOn[c] = fut'[t] PROVE Coming(c)'
      BY <2>1, <2>7, Zenon DEF Coming
    <2> QED
      BY <1>a, <2>1, <2>3, <2>5, <2>6, <2>7 DEF Reached
  <1>22. ASSUME NEW t \in Threads, ReadWaiters(t) PROVE Reached'
    <2>1. /\ waitingOn' = waitingOn /\ settled' = settled /\ sched' = sched /\ cur' = cur
          /\ fut' = fut /\ pc[t] = "walk"
      BY <1>22, Zenon DEF ReadWaiters
    <2>2. /\ pc'[t] = "resume" /\ walk'[t] = waiters[fut[t]]
          /\ \A u \in Threads \ {t} : pc'[u] = pc[u] /\ walk'[u] = walk[u]
      BY <1>t, <1>22, Zenon DEF ReadWaiters
    <2>3. walk[t] = <<>>
      BY <1>w, <2>1
    <2>4. \A c \in Actors : Parks(c)' => Parks(c)
      BY <2>1, <2>2 DEF Parks
    <2>5. ASSUME NEW c \in Actors, Parks(c), Coming(c) PROVE Coming(c)'
      <3>1. \E i \in DOMAIN waiters[waitingOn[c]] : waiters[waitingOn[c]][i] = c
        BY <2>5, ParksListed, Zenon DEF Listed
      <3> QED
        BY <2>1, <2>2, <2>3, <2>5, <3>1 DEF Coming
    <2> QED
      BY <1>a, <2>1, <2>4, <2>5 DEF Reached
  <1>23. ASSUME NEW t \in Threads, Resume(t) PROVE Reached'
    <2>1. walk[t] \in Seq(Actors) /\ walk[t] # <<>>
      BY <1>t, <1>23 DEF Resume
    <2>2. PICK h \in Actors : h = Head(walk[t])
      BY <2>1
    <2>3. /\ sched[h] \in {Idle, Suspended} => sched'[h] = Claimed
          /\ sched[h] \in {Claimed, ClaimedWake} => sched'[h] = ClaimedWake
          /\ \A c \in Actors \ {h} : sched'[c] = sched[c]
      BY <1>t, <1>23, <2>2 DEF Resume, Idle, Claimed, ClaimedWake, Suspended
    <2>4. /\ waitingOn' = waitingOn /\ settled' = settled /\ cur' = cur /\ fut' = fut
          /\ pc[t] = "resume" /\ walk'[t] = Tail(walk[t])
          /\ \A u \in Threads \ {t} : pc'[u] = pc[u] /\ walk'[u] = walk[u]
          /\ pc'[t] # "finish_suspended"
      BY <1>t, <1>23, Zenon DEF Resume
    <2>5. \A i \in DOMAIN walk[t] : walk[t][i] # h =>
             i - 1 \in DOMAIN Tail(walk[t]) /\ Tail(walk[t])[i - 1] = walk[t][i]
      BY <2>1, <2>2
    <2>6. ~ Parks(h)'
      <3>1. sched'[h] # Suspended
        BY <1>t, <2>1, <2>3 DEF Idle, Claimed, ClaimedWake, Suspended
      <3>2. ASSUME NEW u \in Threads, cur[u] = h PROVE sched'[h] # Claimed
        BY <1>h, <2>1, <2>3, <3>2 DEF Idle, Claimed, ClaimedWake, Suspended
      <3> QED
        BY <2>4, <3>1, <3>2 DEF Parks
    <2>7. ASSUME NEW c \in Actors \ {h}, Coming(c) PROVE Coming(c)'
      <3>1. PICK u \in Threads : /\ fut[u] = waitingOn[c]
                                 /\ pc[u] = "walk" \/ \E i \in DOMAIN walk[u] : walk[u][i] = c
        BY <2>7, Zenon DEF Coming
      <3>2. CASE u # t
        BY <2>4, <3>1, <3>2 DEF Coming
      <3>3. CASE u = t
        <4>1. PICK i \in DOMAIN walk[t] : walk[t][i] = c
          BY <2>4, <3>1, <3>3, Zenon
        <4>2. \E j \in DOMAIN walk'[t] : walk'[t][j] = c
          BY <2>4, <2>5, <4>1
        <4>3. fut'[t] = waitingOn'[c]
          BY <2>4, <3>1, <3>3
        <4> QED
          BY <4>2, <4>3 DEF Coming
      <3> QED
        BY <3>2, <3>3, Zenon
    <2>8. \A c \in Actors \ {h} : Parks(c)' => Parks(c)
      BY <2>3, <2>4, Zenon DEF Parks
    <2> QED
      BY <1>a, <2>4, <2>6, <2>7, <2>8 DEF Reached
  <1>24. ASSUME NEW t \in Threads, ResumeParked(t) PROVE Reached'
    BY <1>a, <1>t, <1>w, <1>24, ReachedStays DEF ResumeParked
  <1>25. ASSUME NEW t \in Threads, ResumeIdle(t) PROVE Reached'
    BY <1>a, <1>t, <1>w, <1>25, ReachedStays DEF ResumeIdle
  <1>26. ASSUME NEW t \in Threads, CompleteDone(t) PROVE Reached'
    BY <1>a, <1>t, <1>w, <1>26, ReachedStays DEF CompleteDone, AfterComplete, DropFuture
  <1>27. ASSUME NEW t \in Threads, NEW m \in Msgs, NEW a \in Actors, NEW b \in SendBands,
               Send(t, m, a, b)
        PROVE  Reached'
    BY <1>a, <1>t, <1>w, <1>27, ReachedStays DEF Send
  <1>28. ASSUME NEW t \in Threads, NEW f \in Futures, Await(t, f) PROVE Reached'
    <2>1. cur[t] \in Actors
      BY <1>a, <1>28, Located DEF Await, WorkerLabels, Between
    <2>2. /\ cur' = cur /\ sched' = sched /\ walk' = walk /\ fut' = fut /\ settled' = settled
          /\ pc[t] # "walk" /\ \A u \in Threads \ {t} : pc'[u] = pc[u]
      BY <1>t, <1>28 DEF Await
    <2>3. \A b \in Actors \ {cur[t]} : waitingOn'[b] = waitingOn[b]
      BY <1>t, <1>28, <2>1 DEF Await
    <2>4. pc'[t] = "finish_suspended" => waitingOn'[cur[t]] \notin settled
      BY <1>t, <1>28, Zenon DEF Await
    <2> QED
      BY <1>a, <2>1, <2>2, <2>3, <2>4, ReachedTurn
  <1>29. ASSUME NEW t \in Threads, NEW f \in ClientFutures, ClientCompletes(t, f) PROVE Reached'
    <2>1. sched' = sched
      BY <1>29 DEF ClientCompletes
    <2>2. \A u \in Threads :
            /\ pc'[u] = "finish_suspended" => pc[u] = "finish_suspended"
            /\ pc[u] = "walk" => pc'[u] = "walk" /\ u # t
            /\ u # t => fut'[u] = fut[u]
      BY <1>t, <1>29, Zenon DEF ClientCompletes
    <2>3. /\ waitingOn' = waitingOn /\ settled' = settled /\ cur' = cur /\ walk' = walk
           /\ pc[t] = "client"
      BY <1>29 DEF ClientCompletes
    <2>4. walk[t] = <<>>
      BY <1>w, <2>3
    <2> QED
      BY <1>a, <2>1, <2>2, <2>3, <2>4, ReachedStays
  <1>30. ASSUME NEW t \in Threads, AwaitRefused(t) PROVE Reached'
    BY <1>a, <1>t, <1>w, <1>30, ReachedStays DEF AwaitRefused
  <1> QED
    BY <1>1, <1>2, <1>3, <1>4, <1>5, <1>6, <1>7, <1>8, <1>9, <1>10, <1>11, <1>12, <1>13, <1>14,
       <1>15, <1>16, <1>17, <1>18, <1>19, <1>20, <1>21, <1>22, <1>23, <1>24, <1>25, <1>26,
       <1>27, <1>28, <1>29, <1>30
    DEF Next, Step

-----------------------------------------------------------------------------
(* The theorems.                                                           *)

\* No actor is parked when the scheduler is created.
LEMMA InitReached == Init => Reached
  BY Zenon DEF Init, Reached, Parks, Idle, Claimed, Suspended

\* Every step of the scheduler preserves the invariant.
LEMMA StepReached == IInv /\ Suspending /\ Reached /\ [Next]_vars => Reached'
  <1>1. ASSUME IInv, Suspending, Reached, Next PROVE Reached'
    BY <1>1, ReachedStep
  <1>2. ASSUME Reached, UNCHANGED vars PROVE Reached'
    <2>1. /\ sched' = sched /\ pc' = pc /\ cur' = cur /\ waitingOn' = waitingOn
          /\ settled' = settled /\ fut' = fut /\ walk' = walk
      BY <1>2 DEF vars, actorVars, futureVars, turnVars, callVars
    <2> QED
      BY <1>2, <2>1, ReachedStays, Zenon
  <1> QED
    BY <1>1, <1>2

\* Every reachable state of the scheduler satisfies the invariants.
THEOREM Wakeups == Spec => [](IInv /\ WInv)
  BY WokenAlways, InitReached, StepReached, PTL DEF Spec, WInv

\* No parked actor is forgotten: between addWaiter's append and second look, the
\* park of finishTurn, and the settlement and the walk of futures::complete, no
\* order of the steps leaves an actor parked on a settled future that no
\* completion is still to reach, and none does after an await that runLoop refused.
THEOREM ParkedIsWokenHolds == Spec => []ParkedIsWoken
  <1>1. ASSUME IInv, WInv PROVE ParkedIsWoken
    <2> SUFFICES ASSUME NEW a \in Actors, sched[a] = Suspended
                 PROVE  /\ snapshot[a]
                        /\ Listed(a)
                        /\ waitingOn[a] \in settled => Coming(a)
      BY Zenon DEF ParkedIsWoken, Listed, Coming
    <2>1. Parks(a)
      BY Zenon DEF Parks
    <2>2. snapshot[a] /\ Listed(a)
      BY <1>1, <2>1, ParksListed, Zenon DEF WInv
    <2> QED
      BY <1>1, <2>1, <2>2, Zenon DEF WInv, Reached
  <1> QED
    BY <1>1, Wakeups, PTL

-----------------------------------------------------------------------------
(* The counter of parked actors.                                           *)

\* What SuspendedCount counts: the parked actors, the workers that have parked
\* one and not yet counted it, the threads that have woken one and still count it.
ParkedActors == {a \in Actors : sched[a] = Suspended}
Uncounted == {t \in Threads : pc[t] = "count_suspended"}
StillCounted == {t \in Threads : pc[t] = "resume_parked"}

\* The three sets are finite, as the pool, its callers and the heap are.
LEMMA FiniteCounts ==
    /\ IsFiniteSet(ParkedActors) /\ Cardinality(ParkedActors) \in Nat
    /\ IsFiniteSet(Uncounted) /\ Cardinality(Uncounted) \in Nat
    /\ IsFiniteSet(StillCounted) /\ Cardinality(StillCounted) \in Nat
  <1>1. IsFiniteSet(Actors) /\ IsFiniteSet(Threads)
    BY ConstantsAssumption, FS_Union, Zenon DEF Threads
  <1>2. /\ ParkedActors \subseteq Actors
        /\ Uncounted \subseteq Threads /\ StillCounted \subseteq Threads
    BY Zenon DEF ParkedActors, Uncounted, StillCounted
  <1>3. IsFiniteSet(ParkedActors) /\ IsFiniteSet(Uncounted) /\ IsFiniteSet(StillCounted)
    BY <1>1, <1>2, FS_Subset, Zenon
  <1> QED
    BY <1>3, FS_CardinalityType, Zenon

\* One element more or less in a finite set.
LEMMA CountOne ==
    ASSUME NEW S, IsFiniteSet(S)
    PROVE  /\ \A x : x \notin S => Cardinality(S \cup {x}) = Cardinality(S) + 1
           /\ \A x : x \in S => Cardinality(S \ {x}) = Cardinality(S) - 1
  BY FS_AddElement, FS_RemoveElement, Zenon

\* A step that parks and wakes nobody and enters or leaves neither label.
LEMMA CountStays ==
    ASSUME SuspendedCount, suspended' = suspended,
           \A a \in Actors : sched'[a] = Suspended <=> sched[a] = Suspended,
           \A u \in Threads : /\ pc'[u] = "count_suspended" <=> pc[u] = "count_suspended"
                              /\ pc'[u] = "resume_parked" <=> pc[u] = "resume_parked"
    PROVE  SuspendedCount'
  <1>1. ParkedActors' = ParkedActors /\ Uncounted' = Uncounted /\ StillCounted' = StillCounted
    BY Zenon DEF ParkedActors, Uncounted, StillCounted
  <1> QED
    BY <1>1, Zenon DEF SuspendedCount, ParkedActors, Uncounted, StillCounted

\* Every step keeps the count.
LEMMA CountStep ==
    ASSUME IInv, SuspendedCount, Next
    PROVE  SuspendedCount'
  <1>a. TypeOK /\ Control /\ Claims
    BY Zenon DEF IInv
  <1>t. /\ pc \in [Threads -> Labels]
        /\ sched \in [Actors -> {Idle, Claimed, ClaimedWake, Suspended}]
        /\ suspended \in Int
    BY <1>a, Zenon DEF TypeOK
  <1>h. \A u \in Threads : cur[u] \in Actors => sched[cur[u]] \in {Claimed, ClaimedWake}
    BY <1>a, ConstantsAssumption, Zenon DEF Claims, HoldersClaim
  <1>c. suspended = Cardinality(ParkedActors) - Cardinality(Uncounted) + Cardinality(StillCounted)
    BY Zenon DEF SuspendedCount, ParkedActors, Uncounted, StillCounted
  <1>g. ASSUME NEW t \in Threads, NEW l, Goto(t, l),
               pc[t] \notin {"count_suspended", "resume_parked"},
               l \notin {"count_suspended", "resume_parked"}
        PROVE  \A u \in Threads : /\ pc'[u] = "count_suspended" <=> pc[u] = "count_suspended"
                                  /\ pc'[u] = "resume_parked" <=> pc[u] = "resume_parked"
    BY <1>t, <1>g DEF Goto
  <1>k. \A t \in Threads : \A l :
           /\ Goto(t, l) /\ pc[t] # "count_suspended" /\ pc[t] # "resume_parked"
           /\ l # "count_suspended" /\ l # "resume_parked"
           /\ suspended' = suspended /\ sched' = sched
           => SuspendedCount'
    BY <1>g, CountStays
  <1>n. ASSUME suspended' = Cardinality(ParkedActors') - Cardinality(Uncounted')
                              + Cardinality(StillCounted')
        PROVE  SuspendedCount'
    BY <1>n, Zenon DEF SuspendedCount, ParkedActors, Uncounted, StillCounted
  <1>1. ASSUME NEW t \in Threads, SendClaim(t) PROVE SuspendedCount'
    <2>1. tgt[t] \in Actors
      BY <1>a, <1>1, Located DEF SendClaim, Carrying
    <2>2. \A c \in Actors : sched'[c] = Suspended <=> sched[c] = Suspended
      BY <1>t, <1>1, <2>1 DEF SendClaim, Idle, Claimed, ClaimedWake, Suspended
    <2>3. suspended' = suspended /\ pc[t] = "send_claim"
          /\ (Goto(t, "send_enqueue") \/ Goto(t, "run") \/ Goto(t, "client"))
      BY <1>1, Zenon DEF SendClaim, Caller
    <2> QED
      BY <1>g, <2>2, <2>3, CountStays
  <1>2. ASSUME NEW t \in Threads, FinishSuspended(t) PROVE SuspendedCount'
    <2>1. cur[t] \in Actors
      BY <1>a, <1>2, Located, Zenon DEF FinishSuspended, WorkerLabels, Between
    <2>2. pc[t] = "finish_suspended" /\ suspended' = suspended
      BY <1>2, Zenon DEF FinishSuspended
    <2>3. CASE sched[cur[t]] = Claimed
      <3>1. /\ sched' = [sched EXCEPT ![cur[t]] = Suspended]
            /\ pc' = [pc EXCEPT ![t] = "count_suspended"]
        BY <1>2, <2>3, Zenon DEF FinishSuspended, Goto
      <3>2. cur[t] \notin ParkedActors /\ ParkedActors' = ParkedActors \cup {cur[t]}
        BY <1>t, <2>1, <2>3, <3>1 DEF ParkedActors, Claimed, Suspended
      <3>3. t \notin Uncounted /\ Uncounted' = Uncounted \cup {t} /\ StillCounted' = StillCounted
        BY <1>t, <2>2, <3>1 DEF Uncounted, StillCounted
      <3>4. /\ Cardinality(ParkedActors') = Cardinality(ParkedActors) + 1
            /\ Cardinality(Uncounted') = Cardinality(Uncounted) + 1
            /\ Cardinality(StillCounted') = Cardinality(StillCounted)
        BY <3>2, <3>3, FiniteCounts, CountOne, Zenon
      <3>5. suspended' = Cardinality(ParkedActors') - Cardinality(Uncounted')
                          + Cardinality(StillCounted')
        BY <1>c, <2>2, <3>4, FiniteCounts
      <3> QED
        BY <1>n, <3>5, Zenon
    <2>4. CASE sched[cur[t]] # Claimed
      <3>1. sched' = [sched EXCEPT ![cur[t]] = Claimed] /\ Goto(t, "finish_enqueue")
        BY <1>2, <2>4, Zenon DEF FinishSuspended
      <3>2. \A c \in Actors : sched'[c] = Suspended <=> sched[c] = Suspended
        BY <1>t, <1>h, <2>1, <3>1 DEF Claimed, ClaimedWake, Suspended
      <3> QED
        BY <1>g, <2>2, <3>1, <3>2, CountStays
    <2> QED
      BY <2>3, <2>4, Zenon
  <1>3. ASSUME NEW t \in Threads, CountSuspended(t) PROVE SuspendedCount'
    <2>1. /\ pc[t] = "count_suspended" /\ suspended' = suspended + 1 /\ sched' = sched
          /\ pc' = [pc EXCEPT ![t] = "dequeue"]
      BY <1>3, Zenon DEF CountSuspended, Goto
    <2>2. ParkedActors' = ParkedActors
      BY <2>1, Zenon DEF ParkedActors
    <2>3. t \in Uncounted /\ Uncounted' = Uncounted \ {t} /\ StillCounted' = StillCounted
      BY <1>t, <2>1 DEF Uncounted, StillCounted
    <2>4. /\ Cardinality(ParkedActors') = Cardinality(ParkedActors)
          /\ Cardinality(Uncounted') = Cardinality(Uncounted) - 1
          /\ Cardinality(StillCounted') = Cardinality(StillCounted)
      BY <2>2, <2>3, FiniteCounts, CountOne, Zenon
    <2>5. suspended' = Cardinality(ParkedActors') - Cardinality(Uncounted')
                        + Cardinality(StillCounted')
      BY <1>c, <2>1, <2>4, FiniteCounts
    <2> QED
      BY <1>n, <2>5, Zenon
  <1>4. ASSUME NEW t \in Threads, FinishLoad(t) PROVE SuspendedCount'
    <2>1. cur[t] \in Actors
      BY <1>a, <1>4, Located, Zenon DEF FinishLoad, WorkerLabels, Between
    <2>2. /\ pc[t] = "finish_load" /\ suspended' = suspended /\ Goto(t, "finish_check")
          /\ sched' = [sched EXCEPT ![cur[t]] = Claimed]
      BY <1>4, Zenon DEF FinishLoad
    <2>3. \A c \in Actors : sched'[c] = Suspended <=> sched[c] = Suspended
      BY <1>t, <1>h, <2>1, <2>2 DEF Claimed, ClaimedWake, Suspended
    <2> QED
      BY <1>g, <2>2, <2>3, CountStays
  <1>5. ASSUME NEW t \in Threads, FinishRelease(t) PROVE SuspendedCount'
    <2>1. cur[t] \in Actors
      BY <1>a, <1>5, Located, Zenon DEF FinishRelease, WorkerLabels, Between
    <2>2. /\ pc[t] = "finish_release" /\ suspended' = suspended
          /\ Goto(t, "dequeue") \/ Goto(t, "finish_load")
      BY <1>5, Zenon DEF FinishRelease
    <2>3. \A c \in Actors : sched'[c] = Suspended <=> sched[c] = Suspended
      BY <1>t, <1>5, <2>1 DEF FinishRelease, Idle, Claimed, Suspended
    <2> QED
      BY <1>g, <2>2, <2>3, CountStays
  <1>6. ASSUME NEW t \in Threads, Resume(t) PROVE SuspendedCount'
    <2>1. PICK a : a = Head(walk[t])
      OBVIOUS
    <2>2. a \in Actors
      <3>1. walk[t] \in Seq(Actors) /\ walk[t] # <<>>
        BY <1>a, <1>6 DEF TypeOK, Resume
      <3> QED
        BY <2>1, <3>1
    <2>3. pc[t] = "resume" /\ suspended' = suspended
      BY <1>6, Zenon DEF Resume
    <2>4. CASE sched[a] = Suspended
      <3>1. sched' = [sched EXCEPT ![a] = Claimed] /\ pc' = [pc EXCEPT ![t] = "resume_parked"]
        BY <1>6, <2>1, <2>4 DEF Resume, Goto, Idle, Claimed, ClaimedWake, Suspended
      <3>2. a \in ParkedActors /\ ParkedActors' = ParkedActors \ {a}
        BY <1>t, <2>2, <2>4, <3>1 DEF ParkedActors, Claimed, Suspended
      <3>3. t \notin StillCounted /\ StillCounted' = StillCounted \cup {t} /\ Uncounted' = Uncounted
        BY <1>t, <2>3, <3>1, Zenon DEF Uncounted, StillCounted
      <3>4. /\ Cardinality(ParkedActors') = Cardinality(ParkedActors) - 1
            /\ Cardinality(Uncounted') = Cardinality(Uncounted)
            /\ Cardinality(StillCounted') = Cardinality(StillCounted) + 1
        BY <3>2, <3>3, FiniteCounts, CountOne, Zenon
      <3>5. suspended' = Cardinality(ParkedActors') - Cardinality(Uncounted')
                          + Cardinality(StillCounted')
        BY <1>c, <2>3, <3>4, FiniteCounts
      <3> QED
        BY <1>n, <3>5, Zenon
    <2>5. CASE sched[a] # Suspended
      <3>1. pc' = pc \/ Goto(t, "resume_idle")
        BY <1>6, <2>1, <2>5, Zenon DEF Resume
      <3>2. sched' = sched \/ sched' = [sched EXCEPT ![a] = Claimed]
            \/ sched' = [sched EXCEPT ![a] = ClaimedWake]
        BY <1>6, <2>1, <2>5, Zenon DEF Resume
      <3>3. \A c \in Actors : sched'[c] = Suspended <=> sched[c] = Suspended
        BY <1>t, <2>2, <2>5, <3>2 DEF Claimed, ClaimedWake, Suspended
      <3> QED
        BY <1>g, <2>3, <3>1, <3>3, CountStays
    <2> QED
      BY <2>4, <2>5, Zenon
  <1>7. ASSUME NEW t \in Threads, ResumeParked(t) PROVE SuspendedCount'
    <2>1. /\ pc[t] = "resume_parked" /\ suspended' = suspended - 1 /\ sched' = sched
          /\ pc' = [pc EXCEPT ![t] = "resume"]
      BY <1>7, Zenon DEF ResumeParked, Goto
    <2>2. ParkedActors' = ParkedActors
      BY <2>1, Zenon DEF ParkedActors
    <2>3. t \in StillCounted /\ StillCounted' = StillCounted \ {t} /\ Uncounted' = Uncounted
      BY <1>t, <2>1 DEF Uncounted, StillCounted
    <2>4. /\ Cardinality(ParkedActors') = Cardinality(ParkedActors)
          /\ Cardinality(Uncounted') = Cardinality(Uncounted)
          /\ Cardinality(StillCounted') = Cardinality(StillCounted) - 1
      BY <2>2, <2>3, FiniteCounts, CountOne, Zenon
    <2>5. suspended' = Cardinality(ParkedActors') - Cardinality(Uncounted')
                        + Cardinality(StillCounted')
      BY <1>c, <2>1, <2>4, FiniteCounts
    <2> QED
      BY <1>n, <2>5, Zenon
  <1>8. ASSUME NEW t \in Threads, SendEnqueue(t) PROVE SuspendedCount'
    BY <1>k, <1>8, Zenon DEF SendEnqueue, Caller
  <1>9. ASSUME NEW t \in Threads, Dequeue(t) PROVE SuspendedCount'
    BY <1>k, <1>9, Zenon DEF Dequeue
  <1>10. ASSUME NEW t \in Threads, DequeueEmpty(t) PROVE SuspendedCount'
    BY <1>10, CountStays, Zenon DEF DequeueEmpty
  <1>11. ASSUME NEW t \in Threads, StartTurn(t) PROVE SuspendedCount'
    BY <1>k, <1>11, Zenon DEF StartTurn
  <1>12. ASSUME NEW t \in Threads, StayParked(t) PROVE SuspendedCount'
    BY <1>k, <1>12, Zenon DEF StayParked
  <1>13. ASSUME NEW t \in Threads, ResumeTurn(t) PROVE SuspendedCount'
    BY <1>k, <1>13, Zenon DEF ResumeTurn
  <1>14. ASSUME NEW t \in Threads, TakeMessage(t) PROVE SuspendedCount'
    BY <1>k, <1>14, Zenon DEF TakeMessage
  <1>15. ASSUME NEW t \in Threads, NextBand(t) PROVE SuspendedCount'
    BY <1>15, CountStays, Zenon DEF NextBand
  <1>16. ASSUME NEW t \in Threads, TurnOver(t) PROVE SuspendedCount'
    BY <1>k, <1>16, Zenon DEF TurnOver
  <1>17. ASSUME NEW t \in Threads, FinishCheck(t) PROVE SuspendedCount'
    BY <1>k, <1>17, Zenon DEF FinishCheck
  <1>18. ASSUME NEW t \in Threads, FinishEnqueue(t) PROVE SuspendedCount'
    BY <1>k, <1>18, Zenon DEF FinishEnqueue
  <1>19. ASSUME NEW t \in Threads, AddWaiter(t) PROVE SuspendedCount'
    BY <1>k, <1>19, Zenon DEF AddWaiter
  <1>20. ASSUME NEW t \in Threads, AwaitYields(t) PROVE SuspendedCount'
    BY <1>k, <1>20, Zenon DEF AwaitYields
  <1>21. ASSUME NEW t \in Threads, AwaitAnswers(t) PROVE SuspendedCount'
    BY <1>k, <1>21, Zenon DEF AwaitAnswers
  <1>22. ASSUME NEW t \in Threads, HandlerEnds(t) PROVE SuspendedCount'
    BY <1>k, <1>22, Zenon DEF HandlerEnds
  <1>23. ASSUME NEW t \in Threads, Settle(t) PROVE SuspendedCount'
    BY <1>k, <1>23, Zenon DEF Settle, AfterComplete
  <1>24. ASSUME NEW t \in Threads, ReadWaiters(t) PROVE SuspendedCount'
    BY <1>k, <1>24, Zenon DEF ReadWaiters
  <1>25. ASSUME NEW t \in Threads, ResumeIdle(t) PROVE SuspendedCount'
    BY <1>k, <1>25, Zenon DEF ResumeIdle
  <1>26. ASSUME NEW t \in Threads, CompleteDone(t) PROVE SuspendedCount'
    BY <1>k, <1>26, Zenon DEF CompleteDone, AfterComplete
  <1>27. ASSUME NEW t \in Threads, NEW m \in Msgs, NEW a \in Actors, NEW b \in SendBands,
               Send(t, m, a, b)
        PROVE  SuspendedCount'
    BY <1>k, <1>27, Zenon DEF Send
  <1>28. ASSUME NEW t \in Threads, NEW f \in Futures, Await(t, f) PROVE SuspendedCount'
    BY <1>k, <1>28, Zenon DEF Await
  <1>29. ASSUME NEW t \in Threads, NEW f \in ClientFutures, ClientCompletes(t, f)
        PROVE  SuspendedCount'
    BY <1>k, <1>29, Zenon DEF ClientCompletes
  <1>30. ASSUME NEW t \in Threads, AwaitRefused(t) PROVE SuspendedCount'
    BY <1>k, <1>30, Zenon DEF AwaitRefused
  <1> QED
    BY <1>1, <1>2, <1>3, <1>4, <1>5, <1>6, <1>7, <1>8, <1>9, <1>10, <1>11, <1>12, <1>13, <1>14,
       <1>15, <1>16, <1>17, <1>18, <1>19, <1>20, <1>21, <1>22, <1>23, <1>24, <1>25, <1>26,
       <1>27, <1>28, <1>29, <1>30, Zenon
    DEF Next, Step

\* No actor is parked and no thread counts when the scheduler is created.
LEMMA InitCount == Init => SuspendedCount
  <1> SUFFICES ASSUME Init PROVE SuspendedCount
    BY Zenon
  <1>1. suspended = 0 /\ ParkedActors = {} /\ Uncounted = {} /\ StillCounted = {}
    BY DEF Init, ParkedActors, Uncounted, StillCounted, Idle, Suspended
  <1>2. suspended = Cardinality(ParkedActors) - Cardinality(Uncounted) + Cardinality(StillCounted)
    BY <1>1, FS_EmptySet
  <1> QED
    BY <1>2, Zenon DEF SuspendedCount, ParkedActors, Uncounted, StillCounted

\* suspended_ is never wrong for good: whatever order the compare-and-swap of a
\* park and of a wake and the increment and decrement that follow them run in,
\* the counter differs from the number of parked actors by exactly the updates
\* that threads are still to make.
THEOREM SuspendedCountHolds == Spec => []SuspendedCount
  <1>1. ASSUME SuspendedCount, UNCHANGED vars PROVE SuspendedCount'
    <2>1. suspended' = suspended /\ sched' = sched /\ pc' = pc
      BY <1>1, Zenon DEF vars
    <2> QED
      BY <1>1, <2>1, CountStays, Zenon
  <1>2. IInv /\ SuspendedCount /\ [Next]_vars => SuspendedCount'
    BY <1>1, CountStep, Zenon
  <1> QED
    BY <1>2, Invariant, InitCount, PTL DEF Spec
=============================================================================
