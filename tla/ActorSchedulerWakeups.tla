----------------------- MODULE ActorSchedulerWakeups ------------------------
(***************************************************************************)
(* No wake-up of an actor for a message is lost, and an actor with frames  *)
(* to resume is in the waiter list of the future they wait for, whether    *)
(* its handler yielded or its await was refused, for any number of actors, *)
(* workers, clients, messages and futures.                                 *)
(***************************************************************************)
EXTENDS ActorSchedulerProofs

\* A sender has queued its message for a and has still to try the claim.
Waking(a) == \E t \in Threads : pc[t] = "send_claim" /\ tgt[t] = a

\* A worker past hasWork releases a claim that nobody has marked: what was
\* queued since then has its sender before the claim.
Released ==
    \A t \in Threads :
        pc[t] = "finish_release" /\ sched[cur[t]] = Claimed /\ HasWork(cur[t]) => Waking(cur[t])

Woken == NoLostWakeup /\ Released

-----------------------------------------------------------------------------
\* The labels at which a turn runs no yielded handler's actor, and those at which
\* a completion has waiters left.
InTurn == {"next", "run"} \cup Awaiting \cup CallLabels
Walking == {"resume", "resume_parked", "resume_idle"}

Waits(a) == snapshot[a] /\ waitingOn[a] \in Futures
Listed(a) == \E i \in DOMAIN waiters[waitingOn[a]] : waiters[waitingOn[a]][i] = a

\* The actor's turn is between opening the snapshot and joining the waiter list.
Adding(a) == \E t \in Threads : pc[t] = "await_add" /\ cur[t] = a

\* A yielded handler has its frames on the actor, as has an actor that is parked
\* or about to be; an actor with frames waits for a future and is listed there, or
\* its turn is about to list it; a turn that runs the actor took over the message
\* of the yielded handler.
Suspending ==
    /\ \A a \in Actors : turnMsg[a] # NoMsg => snapshot[a]
    /\ \A a \in Actors : snapshot[a] => Waits(a) /\ (Listed(a) \/ Adding(a))
    /\ \A t \in Threads : pc[t] \in Awaiting \cup {"finish_suspended"} => snapshot[cur[t]]
    /\ \A t \in Threads : pc[t] \in InTurn /\ cur[t] # NoActor => turnMsg[cur[t]] = NoMsg
    /\ \A a \in Actors : sched[a] = Suspended => snapshot[a]
    /\ \A t \in Threads : walk[t] # <<>> => pc[t] \in Walking

-----------------------------------------------------------------------------
(* Messages.                                                               *)

\* A step that queues and takes no message, leaves the senders before their
\* claim, and neither frees an actor nor brings a worker before a release.
LEMMA WorkStays ==
    ASSUME Woken, mailbox' = mailbox, pending' = pending,
           \A a \in Actors : sched'[a] = Idle => sched[a] = Idle,
           \A t \in Threads : pc[t] = "send_claim" => pc'[t] = "send_claim" /\ tgt'[t] = tgt[t],
           \A t \in Threads : pc'[t] = "finish_release" =>
               /\ pc[t] = "finish_release" /\ cur'[t] = cur[t]
               /\ sched'[cur[t]] = Claimed => sched[cur[t]] = Claimed
    PROVE  Woken'
  <1>1. \A a : (HasWork(a)' <=> HasWork(a)) /\ (Waking(a) => Waking(a)')
    BY Zenon DEF HasWork, Waking
  <1>2. NoLostWakeup'
    BY <1>1, Zenon DEF Woken, NoLostWakeup, Waking
  <1>3. Released'
    <2> SUFFICES ASSUME NEW t \in Threads, pc'[t] = "finish_release", sched'[cur'[t]] = Claimed,
                        HasWork(cur[t])'
                 PROVE  Waking(cur[t])'
      BY Zenon DEF Released, HasWork, Waking
    <2>1. cur'[t] = cur[t] /\ pc[t] = "finish_release" /\ sched[cur[t]] = Claimed
      BY Zenon
    <2>2. HasWork(cur[t])
      BY <2>1 DEF HasWork
    <2>3. Waking(cur[t])
      BY <2>1, <2>2 DEF Woken, Released
    <2> QED
      BY <2>1, <2>3, Zenon DEF Waking
  <1> QED
    BY <1>2, <1>3, Zenon DEF Woken

\* Every step keeps what wakes an actor for its messages.
LEMMA WokenStep ==
    ASSUME IInv, Woken, Next
    PROVE  Woken'
  <1>a. TypeOK /\ Control /\ Claims /\ Woken
    BY Zenon DEF IInv
  <1>t. /\ pc \in [Threads -> Labels] /\ tgt \in [Threads -> Actors \cup {NoActor}]
        /\ cur \in [Threads -> Actors \cup {NoActor}]
        /\ sched \in [Actors -> {Idle, Claimed, ClaimedWake, Suspended}]
    BY <1>a, Zenon DEF TypeOK
  <1>h. \A u \in Threads : cur[u] \in Actors => sched[cur[u]] \in {Claimed, ClaimedWake}
    BY <1>a, ConstantsAssumption, Zenon DEF Claims, HoldersClaim
  <1>s. \A u, v \in Threads : cur[u] = cur[v] /\ cur[u] \in Actors => u = v
    BY <1>a, ConstantsAssumption DEF Claims, OneHolder, SingleMethod
  <1> USE DEF Goto, actorVars, futureVars, turnVars, callVars
  <1>1. ASSUME NEW t \in Threads, SendClaim(t) PROVE Woken'
    <2>1. tgt[t] \in Actors
      BY <1>a, <1>1, Located, Zenon DEF SendClaim, Carrying
    <2>2. \A c \in Actors : sched'[c] = Idle => sched[c] = Idle /\ c # tgt[t]
      BY <1>t, <1>1, <2>1 DEF SendClaim, Idle, Claimed, ClaimedWake, Suspended
    <2>3. \A c \in Actors : c # tgt[t] => sched'[c] = sched[c] /\ (Waking(c) => Waking(c)')
      BY <1>t, <1>1, <2>1, Zenon DEF SendClaim, Waking, DropTarget
    <2>4. \A u \in Threads :
             pc'[u] = "finish_release" => pc[u] = "finish_release" /\ cur'[u] = cur[u]
      BY <1>t, <1>1, Zenon DEF SendClaim, Caller
    <2>5. \A u \in Threads : cur[u] = tgt[t] => sched'[tgt[t]] # Claimed
      BY <1>h, <1>t, <1>1, <2>1 DEF SendClaim, Idle, Claimed, ClaimedWake, Suspended
    <2>6. mailbox' = mailbox /\ pending' = pending
      BY <1>1, Zenon DEF SendClaim
    <2>7. NoLostWakeup'
      BY <1>a, <2>2, <2>3, <2>6, Zenon DEF Woken, NoLostWakeup, HasWork, Waking
    <2>8. Released'
      <3> SUFFICES ASSUME NEW u \in Threads, pc'[u] = "finish_release", sched'[cur'[u]] = Claimed,
                          HasWork(cur[u])'
                   PROVE  Waking(cur[u])'
        BY <2>4, Zenon DEF Released, HasWork, Waking
      <3>1. cur[u] \in Actors /\ cur[u] # tgt[t]
        BY <1>a, <2>4, <2>5, Located, Zenon DEF WorkerLabels, Between
      <3>2. HasWork(cur[u])
        BY <2>4, <2>6, Zenon DEF HasWork
      <3> QED
        BY <1>a, <2>3, <2>4, <3>1, <3>2, Zenon DEF Woken, Released
    <2> QED
      BY <2>7, <2>8, Zenon DEF Woken
  <1>2. ASSUME NEW t \in Threads, SendEnqueue(t) PROVE Woken'
    BY <1>a, <1>t, <1>2, WorkStays DEF SendEnqueue, Caller, DropTarget
  <1>3. ASSUME NEW t \in Threads, Dequeue(t) PROVE Woken'
    BY <1>a, <1>t, <1>3, WorkStays, Zenon DEF Dequeue
  <1>4. ASSUME NEW t \in Threads, DequeueEmpty(t) PROVE Woken'
    BY <1>a, <1>t, <1>4, WorkStays, Zenon DEF DequeueEmpty
  <1>5. ASSUME NEW t \in Threads, StartTurn(t) PROVE Woken'
    BY <1>a, <1>t, <1>5, WorkStays DEF StartTurn
  <1>6. ASSUME NEW t \in Threads, StayParked(t) PROVE Woken'
    BY <1>a, <1>t, <1>6, WorkStays, Zenon DEF StayParked
  <1>7. ASSUME NEW t \in Threads, ResumeTurn(t) PROVE Woken'
    BY <1>a, <1>t, <1>7, WorkStays, Zenon DEF ResumeTurn
  <1>8. ASSUME NEW t \in Threads, TakeMessage(t) PROVE Woken'
    <2>1. cur[t] \in Actors /\ scan[t] \in Bands
      BY <1>a, <1>8, Located, Zenon DEF TakeMessage, TypeOK, WorkerLabels, Between
    <2>2. \A c \in Actors : HasWork(c)' => HasWork(c)
      <3>1. HasWork(cur[t])
        BY <1>8, <2>1, Zenon DEF TakeMessage, Batch, HasWork
      <3>2. \A c \in Actors \ {cur[t]} : mailbox'[c] = mailbox[c] /\ pending'[c] = pending[c]
        BY <1>a, <1>8, <2>1, Zenon DEF TakeMessage, TypeOK
      <3> QED
        BY <3>1, <3>2, Zenon DEF HasWork
    <2>3. \A u \in Threads : (pc'[u] = "finish_release" => pc[u] = "finish_release")
                              /\ (pc[u] = "send_claim" => pc'[u] = "send_claim")
      BY <1>t, <1>8, Zenon DEF TakeMessage
    <2>4. sched' = sched /\ tgt' = tgt /\ cur' = cur
      BY <1>8, Zenon DEF TakeMessage
    <2>5. NoLostWakeup'
      BY <1>a, <2>2, <2>3, <2>4 DEF Woken, NoLostWakeup
    <2>6. Released'
      <3> SUFFICES ASSUME NEW u \in Threads, pc'[u] = "finish_release", sched'[cur'[u]] = Claimed,
                          HasWork(cur[u])'
                   PROVE  Waking(cur[u])'
        BY <2>4, Zenon DEF Released, HasWork, Waking
      <3>1. cur[u] \in Actors
        BY <1>a, <2>3, Located, Zenon DEF WorkerLabels, Between
      <3> QED
        BY <1>a, <2>2, <2>3, <2>4, <3>1, Zenon DEF Woken, Released, Waking
    <2> QED
      BY <2>5, <2>6 DEF Woken
  <1>9. ASSUME NEW t \in Threads, NextBand(t) PROVE Woken'
    BY <1>a, <1>t, <1>9, WorkStays, Zenon DEF NextBand
  <1>10. ASSUME NEW t \in Threads, TurnOver(t) PROVE Woken'
    BY <1>a, <1>t, <1>10, WorkStays, Zenon DEF TurnOver
  <1>11. ASSUME NEW t \in Threads, FinishSuspended(t) PROVE Woken'
    <2>1. cur[t] \in Actors
      BY <1>a, <1>11, Located, Zenon DEF FinishSuspended, WorkerLabels, Between
    <2>2. \A c \in Actors : sched'[c] = Idle => sched[c] = Idle
      BY <1>t, <1>11, <2>1 DEF FinishSuspended, Idle, Claimed, Suspended
    <2>3. \A u \in Threads : pc'[u] = "finish_release" =>
             pc[u] = "finish_release" /\ u # t /\ cur'[u] = cur[u]
      BY <1>t, <1>11, Zenon DEF FinishSuspended
    <2>4. \A u \in Threads : pc'[u] = "finish_release" => sched'[cur[u]] = sched[cur[u]]
      BY <1>a, <1>s, <1>t, <1>11, <2>1, <2>3, Located DEF FinishSuspended, WorkerLabels, Between
    <2> QED
      BY <1>a, <1>t, <1>11, <2>2, <2>3, <2>4, WorkStays DEF FinishSuspended
  <1>12. ASSUME NEW t \in Threads, CountSuspended(t) PROVE Woken'
    BY <1>a, <1>t, <1>12, WorkStays, Zenon DEF CountSuspended
  <1>13. ASSUME NEW t \in Threads, FinishLoad(t) PROVE Woken'
    <2>1. cur[t] \in Actors
      BY <1>a, <1>13, Located, Zenon DEF FinishLoad, WorkerLabels, Between
    <2>2. \A c \in Actors : sched'[c] = Idle => sched[c] = Idle
      BY <1>t, <1>13, <2>1 DEF FinishLoad, Idle, Claimed
    <2>3. \A u \in Threads : pc'[u] = "finish_release" => pc[u] = "finish_release" /\ u # t
      BY <1>t, <1>13 DEF FinishLoad
    <2>4. \A u \in Threads : pc'[u] = "finish_release" => sched'[cur[u]] = sched[cur[u]]
      BY <1>a, <1>s, <1>t, <1>13, <2>1, <2>3, Located, Zenon DEF FinishLoad, WorkerLabels, Between
    <2> QED
      BY <1>a, <1>t, <1>13, <2>2, <2>3, <2>4, WorkStays, Zenon DEF FinishLoad
  <1>14. ASSUME NEW t \in Threads, FinishCheck(t) PROVE Woken'
    <2>1. /\ UNCHANGED <<sched, mailbox, pending, cur, tgt>>
          /\ \A u \in Threads \ {t} : pc'[u] = pc[u]
          /\ pc'[t] = IF HasWork(cur[t]) THEN "finish_enqueue" ELSE "finish_release"
          /\ pc[t] = "finish_check"
      BY <1>t, <1>14, Zenon DEF FinishCheck
    <2>2. \A c : (HasWork(c)' <=> HasWork(c)) /\ (Waking(c) => Waking(c)')
      BY <2>1, Zenon DEF HasWork, Waking
    <2>3. NoLostWakeup'
      BY <1>a, <2>1, <2>2, Zenon DEF Woken, NoLostWakeup, Waking
    <2>4. Released'
      <3> SUFFICES ASSUME NEW u \in Threads, pc'[u] = "finish_release", sched'[cur'[u]] = Claimed,
                          HasWork(cur[u])'
                   PROVE  Waking(cur[u])'
        BY <2>1 DEF Released, HasWork, Waking
      <3> QED
        BY <1>a, <2>1, <2>2, Zenon DEF Woken, Released
    <2> QED
      BY <2>3, <2>4 DEF Woken
  <1>15. ASSUME NEW t \in Threads, FinishRelease(t) PROVE Woken'
    <2>1. cur[t] \in Actors
      BY <1>a, <1>15, Located, Zenon DEF FinishRelease, WorkerLabels, Between
    <2>2. /\ UNCHANGED <<mailbox, pending, tgt>>
          /\ \A u \in Threads \ {t} : pc'[u] = pc[u] /\ cur'[u] = cur[u]
          /\ pc'[t] \in {"dequeue", "finish_load"}
          /\ pc[t] = "finish_release"
          /\ \A c \in Actors \ {cur[t]} : sched'[c] = sched[c]
          /\ sched'[cur[t]] = Idle => sched[cur[t]] \in {Idle, Claimed}
      BY <1>a, <1>t, <1>15, <2>1 DEF FinishRelease, TypeOK, Idle, Claimed
    <2>3. \A c : (HasWork(c)' <=> HasWork(c)) /\ (Waking(c) => Waking(c)')
      BY <2>2, Zenon DEF HasWork, Waking
    <2>4. NoLostWakeup'
      <3>1. ASSUME NEW c \in Actors, sched'[c] = Idle, HasWork(c) PROVE Waking(c)
        BY <1>a, <2>1, <2>2, <3>1 DEF Woken, NoLostWakeup, Released, Waking
      <3> QED
        BY <2>3, <3>1, Zenon DEF NoLostWakeup, Waking
    <2>5. Released'
      <3> SUFFICES ASSUME NEW u \in Threads, pc'[u] = "finish_release", sched'[cur'[u]] = Claimed,
                          HasWork(cur[u])'
                   PROVE  Waking(cur[u])'
        BY Zenon DEF Released, HasWork, Waking
      <3>1. u # t /\ pc[u] = "finish_release" /\ cur'[u] = cur[u]
        BY <2>2, Zenon
      <3>2. cur[u] \in Actors /\ cur[u] # cur[t]
        BY <1>a, <1>s, <2>1, <3>1, Located, Zenon DEF WorkerLabels, Between
      <3>3. HasWork(cur[u])
        BY <2>2, <3>1, Zenon DEF HasWork
      <3>4. Waking(cur[u])
        BY <1>a, <2>2, <3>1, <3>2, <3>3, Zenon DEF Woken, Released
      <3> QED
        BY <2>2, <3>1, <3>4, Zenon DEF Waking
    <2> QED
      BY <2>4, <2>5 DEF Woken
  <1>16. ASSUME NEW t \in Threads, FinishEnqueue(t) PROVE Woken'
    BY <1>a, <1>t, <1>16, WorkStays, Zenon DEF FinishEnqueue
  <1>17. ASSUME NEW t \in Threads, AddWaiter(t) PROVE Woken'
    BY <1>a, <1>t, <1>17, WorkStays DEF AddWaiter
  <1>18. ASSUME NEW t \in Threads, AwaitYields(t) PROVE Woken'
    BY <1>a, <1>t, <1>18, WorkStays, Zenon DEF AwaitYields
  <1>19. ASSUME NEW t \in Threads, AwaitAnswers(t) PROVE Woken'
    BY <1>a, <1>t, <1>19, WorkStays, Zenon DEF AwaitAnswers
  <1>20. ASSUME NEW t \in Threads, HandlerEnds(t) PROVE Woken'
    BY <1>a, <1>t, <1>20, WorkStays DEF HandlerEnds
  <1>21. ASSUME NEW t \in Threads, Settle(t) PROVE Woken'
    BY <1>a, <1>t, <1>21, WorkStays, Zenon DEF Settle, AfterComplete
  <1>22. ASSUME NEW t \in Threads, ReadWaiters(t) PROVE Woken'
    BY <1>a, <1>t, <1>22, WorkStays, Zenon DEF ReadWaiters
  <1>23. ASSUME NEW t \in Threads, Resume(t) PROVE Woken'
    <2> DEFINE a == Head(walk[t])
    <2>1. a \in Actors
      BY <1>a, <1>23 DEF Resume, TypeOK
    <2>2. /\ sched[a] \in {Idle, Suspended} => sched' = [sched EXCEPT ![a] = Claimed]
          /\ sched[a] \in {Claimed, ClaimedWake} => sched'[a] = ClaimedWake
          /\ \A c \in Actors \ {a} : sched'[c] = sched[c]
      BY <1>t, <1>23, <2>1 DEF Resume, Idle, Claimed, ClaimedWake, Suspended
    <2> HIDE DEF a
    <2>3. \A c \in Actors : sched'[c] = Idle => sched[c] = Idle
      BY <1>t, <2>1, <2>2 DEF Idle, Claimed, ClaimedWake, Suspended
    <2>4. /\ UNCHANGED <<mailbox, pending, cur>>
          /\ \A u \in Threads : pc[u] = "send_claim" => pc'[u] = "send_claim" /\ tgt'[u] = tgt[u]
          /\ \A u \in Threads : pc'[u] = "finish_release" => pc[u] = "finish_release"
      BY <1>t, <1>23, Zenon DEF Resume
    <2>5. \A u \in Threads : cur[u] = a => sched'[a] # Claimed
      BY <1>h, <1>t, <2>1, <2>2 DEF Idle, Claimed, ClaimedWake, Suspended
    <2>6. \A u \in Threads :
             pc'[u] = "finish_release" /\ sched'[cur[u]] = Claimed => sched[cur[u]] = Claimed
      BY <1>a, <2>2, <2>4, <2>5, Located DEF WorkerLabels, Between
    <2> QED
      BY <1>a, <2>3, <2>4, <2>6, WorkStays
  <1>24. ASSUME NEW t \in Threads, ResumeParked(t) PROVE Woken'
    BY <1>a, <1>t, <1>24, WorkStays, Zenon DEF ResumeParked, DropTarget
  <1>25. ASSUME NEW t \in Threads, ResumeIdle(t) PROVE Woken'
    BY <1>a, <1>t, <1>25, WorkStays DEF ResumeIdle, DropTarget
  <1>26. ASSUME NEW t \in Threads, CompleteDone(t) PROVE Woken'
    BY <1>a, <1>t, <1>26, WorkStays, Zenon DEF CompleteDone, AfterComplete
  <1>27. ASSUME NEW t \in Threads, NEW m \in Msgs, NEW a \in Actors, NEW b \in SendBands,
               Send(t, m, a, b)
        PROVE  Woken'
    <2>1. /\ UNCHANGED <<sched, pending, cur>>
          /\ \A c \in Actors \ {a} : mailbox'[c] = mailbox[c]
          /\ pc[t] \in {"client", "run"} /\ pc'[t] = "send_claim" /\ tgt'[t] = a
          /\ \A u \in Threads \ {t} : pc'[u] = pc[u] /\ tgt'[u] = tgt[u]
      BY <1>a, <1>t, <1>27, Zenon DEF Send, TypeOK
    <2>2. \A c \in Actors : (Waking(c) => Waking(c)') /\ (c # a => (HasWork(c)' <=> HasWork(c)))
      BY <2>1 DEF HasWork, Waking
    <2>3. Waking(a)'
      BY <2>1, Zenon DEF Waking
    <2>4. NoLostWakeup'
      <3>1. ASSUME NEW c \in Actors, sched[c] = Idle, HasWork(c)' PROVE Waking(c)'
        BY <1>a, <2>2, <2>3, <3>1, Zenon DEF Woken, NoLostWakeup, Waking
      <3> QED
        BY <2>1, <3>1, Zenon DEF NoLostWakeup, Waking
    <2>5. Released'
      <3> SUFFICES ASSUME NEW u \in Threads, pc'[u] = "finish_release", sched'[cur'[u]] = Claimed,
                          HasWork(cur[u])'
                   PROVE  Waking(cur[u])'
        BY <2>1, Zenon DEF Released, HasWork, Waking
      <3>1. u # t /\ pc[u] = "finish_release"
        BY <2>1
      <3>2. cur[u] \in Actors
        BY <1>a, <3>1, Located, Zenon DEF WorkerLabels, Between
      <3> QED
        BY <1>a, <2>1, <2>2, <2>3, <3>1, <3>2, Zenon DEF Woken, Released
    <2> QED
      BY <2>4, <2>5, Zenon DEF Woken
  <1>28. ASSUME NEW t \in Threads, NEW f \in Futures, Await(t, f) PROVE Woken'
    BY <1>a, <1>t, <1>28, WorkStays, Zenon DEF Await
  <1>29. ASSUME NEW t \in Threads, NEW f \in ClientFutures, ClientCompletes(t, f) PROVE Woken'
    BY <1>a, <1>t, <1>29, WorkStays DEF ClientCompletes
  <1>30. ASSUME NEW t \in Threads, AwaitRefused(t) PROVE Woken'
    BY <1>a, <1>t, <1>30, WorkStays, Zenon DEF AwaitRefused
  <1> QED
    BY <1>1, <1>2, <1>3, <1>4, <1>5, <1>6, <1>7, <1>8, <1>9, <1>10, <1>11, <1>12, <1>13, <1>14,
       <1>15, <1>16, <1>17, <1>18, <1>19, <1>20, <1>21, <1>22, <1>23, <1>24, <1>25, <1>26,
       <1>27, <1>28, <1>29, <1>30
    DEF Next, Step

-----------------------------------------------------------------------------
(* Frames to resume.                                                       *)

\* A step that leaves the frames and the waiter lists alone, parks no actor
\* without frames, takes no worker into await, into a turn or to the end of a
\* suspended one, and none out of await before it has joined the list.
LEMMA SuspendingStays ==
    ASSUME Suspending, snapshot' = snapshot, waitingOn' = waitingOn, turnMsg' = turnMsg,
           waiters' = waiters,
           \A a \in Actors : sched'[a] = Suspended => sched[a] = Suspended \/ snapshot[a],
           \A t \in Threads : pc'[t] \in Awaiting \cup {"finish_suspended"} =>
               pc'[t] = pc[t] /\ cur'[t] = cur[t],
           \A t \in Threads : pc[t] = "await_add" => pc'[t] = pc[t] /\ cur'[t] = cur[t],
           \A t \in Threads : pc'[t] \in InTurn /\ cur'[t] # NoActor =>
               pc[t] \in InTurn /\ cur'[t] = cur[t],
           \A t \in Threads : walk'[t] # <<>> => pc'[t] \in Walking
    PROVE  Suspending'
  <1>1. \A a \in Actors : turnMsg'[a] # NoMsg => snapshot'[a]
    BY Zenon DEF Suspending
  <1>2. ASSUME NEW a \in Actors, snapshot'[a] PROVE Waits(a)' /\ (Listed(a)' \/ Adding(a)')
    <2>1. Waits(a) /\ (Listed(a) \/ Adding(a))
      BY <1>2, Zenon DEF Suspending
    <2>2. (Waits(a) => Waits(a)') /\ (Listed(a) => Listed(a)')
      BY DEF Waits, Listed
    <2>3. Adding(a) => Adding(a)'
      BY Zenon DEF Adding
    <2> QED
      BY <2>1, <2>2, <2>3, Zenon
  <1>3. \A t \in Threads : pc'[t] \in Awaiting \cup {"finish_suspended"} => snapshot'[cur'[t]]
    BY Zenon DEF Suspending
  <1>4. \A t \in Threads : pc'[t] \in InTurn /\ cur'[t] # NoActor => turnMsg'[cur'[t]] = NoMsg
    BY Zenon DEF Suspending
  <1>5. \A a \in Actors : sched'[a] = Suspended => snapshot'[a]
    BY Zenon DEF Suspending
  <1> QED
    BY <1>1, <1>2, <1>3, <1>4, <1>5, Zenon DEF Suspending

\* An actor whose frames, future and waiter list stay as they are.
LEMMA ChainStays ==
    ASSUME NEW t \in Threads, cur' = cur, snapshot' = snapshot, waitingOn' = waitingOn,
           waiters' = waiters, Waits(cur[t]), Listed(cur[t])
    PROVE  Waits(cur[t])' /\ Listed(cur[t])'
  BY Zenon DEF Waits, Listed

\* A step of the worker t that changes no frames but those of its own actor.
LEMMA SuspendingTurn ==
    ASSUME Suspending, TypeOK, Control, Claims, NEW t \in Threads, cur[t] \in Actors,
           cur' = cur, sched' = sched, walk' = walk, walk[t] = <<>>,
           \A u \in Threads \ {t} : pc'[u] = pc[u],
           \A b \in Actors \ {cur[t]} :
               /\ snapshot'[b] = snapshot[b] /\ waitingOn'[b] = waitingOn[b]
               /\ turnMsg'[b] = turnMsg[b]
               /\ Waits(b) /\ Listed(b) => Listed(b)',
           turnMsg'[cur[t]] # NoMsg => snapshot'[cur[t]],
           snapshot'[cur[t]] => Waits(cur[t])' /\ (Listed(cur[t])' \/ pc'[t] = "await_add"),
           pc'[t] \in Awaiting \cup {"finish_suspended"} => snapshot'[cur[t]],
           pc'[t] \in InTurn => turnMsg'[cur[t]] = NoMsg
    PROVE  Suspending'
  <1>s. \A u \in Threads \ {t} : cur[u] # cur[t]
    BY ConstantsAssumption DEF Claims, OneHolder, SingleMethod
  <1>h. sched[cur[t]] # Suspended
    <2>1. sched[cur[t]] \in {Claimed, ClaimedWake}
      BY ConstantsAssumption, Zenon DEF Claims, HoldersClaim
    <2> QED
      BY <2>1 DEF Claimed, ClaimedWake, Suspended
  <1>c. \A u \in Threads : cur[u] \in Actors \cup {NoActor}
    BY Zenon DEF TypeOK
  <1>1. \A a \in Actors : turnMsg'[a] # NoMsg => snapshot'[a]
    BY Zenon DEF Suspending
  <1>2. \A a \in Actors : snapshot'[a] => Waits(a)' /\ (Listed(a)' \/ Adding(a)')
    <2>1. ASSUME NEW a \in Actors \ {cur[t]}, snapshot'[a]
          PROVE  Waits(a)' /\ (Listed(a)' \/ Adding(a)')
      <3>1. snapshot[a] /\ waitingOn'[a] = waitingOn[a]
        BY <2>1, Zenon
      <3>2. Waits(a) /\ (Listed(a) \/ Adding(a))
        BY <3>1, Zenon DEF Suspending
      <3>3. Waits(a)'
        BY <2>1, <3>1, <3>2, Zenon DEF Waits
      <3>4. Adding(a) => Adding(a)'
        BY Zenon DEF Adding
      <3> QED
        BY <3>2, <3>3, <3>4, Zenon
    <2>2. \A a : a = cur[t] => (Waits(cur[t])' => Waits(a)') /\ (Listed(cur[t])' => Listed(a)')
      BY DEF Waits, Listed
    <2>3. \A a : a = cur[t] /\ pc'[t] = "await_add" => Adding(a)'
      BY Zenon DEF Adding
    <2> QED
      BY <2>1, <2>2, <2>3, Zenon
  <1>3. \A u \in Threads : pc'[u] \in Awaiting \cup {"finish_suspended"} => snapshot'[cur'[u]]
    <2>1. ASSUME NEW u \in Threads \ {t}, pc[u] \in Awaiting \cup {"finish_suspended"}
          PROVE  snapshot'[cur[u]]
      BY <1>s, <2>1, Located, Zenon DEF Suspending, Awaiting, WorkerLabels, Between
    <2> QED
      BY <2>1, Zenon
  <1>4. \A u \in Threads : pc'[u] \in InTurn /\ cur'[u] # NoActor => turnMsg'[cur'[u]] = NoMsg
    BY <1>c, <1>s DEF Suspending
  <1>5. \A a \in Actors : sched'[a] = Suspended => snapshot'[a]
    BY <1>h DEF Suspending
  <1>6. \A u \in Threads : walk'[u] # <<>> => pc'[u] \in Walking
    BY DEF Suspending
  <1> QED
    BY <1>1, <1>2, <1>3, <1>4, <1>5, <1>6, Zenon DEF Suspending

\* Outside await, the turn of an actor with frames has it listed.
LEMMA TurnListed ==
    ASSUME Suspending, Control, Claims, NEW t \in Threads, cur[t] \in Actors,
           pc[t] # "await_add", snapshot[cur[t]]
    PROVE  Waits(cur[t]) /\ Listed(cur[t])
  <1>1. \A u \in Threads : cur[u] = cur[t] => u = t
    BY ConstantsAssumption DEF Claims, OneHolder, SingleMethod
  <1>2. ~ Adding(cur[t])
    BY <1>1, Zenon DEF Adding
  <1> QED
    BY <1>2, Zenon DEF Suspending

\* Every step keeps the frames of an actor and the waiter lists in step.
LEMMA SuspendingStep ==
    ASSUME IInv, Suspending, Next
    PROVE  Suspending'
  <1>a. TypeOK /\ Control /\ Claims /\ Suspending
    BY Zenon DEF IInv
  <1>t. /\ pc \in [Threads -> Labels] /\ tgt \in [Threads -> Actors \cup {NoActor}]
        /\ cur \in [Threads -> Actors \cup {NoActor}]
        /\ sched \in [Actors -> {Idle, Claimed, ClaimedWake, Suspended}]
        /\ snapshot \in [Actors -> BOOLEAN] /\ turnMsg \in [Actors -> Msgs \cup {NoMsg}]
        /\ waitingOn \in [Actors -> Futures \cup {NoFuture}]
        /\ waiters \in [Futures -> Seq(Actors)] /\ walk \in [Threads -> Seq(Actors)]
    BY <1>a, Zenon DEF TypeOK
  <1>s. \A u, v \in Threads : cur[u] = cur[v] /\ cur[u] \in Actors => u = v
    BY <1>a, ConstantsAssumption DEF Claims, OneHolder, SingleMethod
  <1>w. \A u \in Threads : walk[u] # <<>> => pc[u] \in Walking
    BY <1>a, Zenon DEF Suspending
  <1>c. \A u \in Threads : pc[u] = "client" => cur[u] = NoActor
    BY <1>a, Zenon DEF Control, ThreadOK, Threads
  <1> USE DEF Goto, actorVars, futureVars, turnVars, callVars, InTurn, Awaiting, Walking, CallLabels
  <1>1. ASSUME NEW t \in Threads, SendClaim(t) PROVE Suspending'
    <2>1. tgt[t] \in Actors
      BY <1>a, <1>1, Located, Zenon DEF SendClaim, Carrying
    <2>2. \A c \in Actors : sched'[c] = Suspended => sched[c] = Suspended
      BY <1>t, <1>1, <2>1 DEF SendClaim, Idle, Claimed, ClaimedWake, Suspended
    <2>3. \A u \in Threads :
            /\ pc'[u] \in Awaiting \cup {"finish_suspended"} => pc'[u] = pc[u] /\ cur'[u] = cur[u]
            /\ pc[u] = "await_add" => pc'[u] = pc[u] /\ cur'[u] = cur[u]
            /\ pc'[u] \in InTurn /\ cur'[u] # NoActor => pc[u] \in InTurn /\ cur'[u] = cur[u]
            /\ walk'[u] # <<>> => pc'[u] \in Walking
      BY <1>c, <1>t, <1>w, <1>1 DEF SendClaim, Caller, DropTarget
    <2>4. snapshot' = snapshot /\ waitingOn' = waitingOn /\ turnMsg' = turnMsg /\ waiters' = waiters
      BY <1>1, Zenon DEF SendClaim
    <2> QED
      BY <1>a, <2>2, <2>3, <2>4, SuspendingStays, Zenon
  <1>2. ASSUME NEW t \in Threads, SendEnqueue(t) PROVE Suspending'
    BY <1>a, <1>t, <1>w, <1>2, SuspendingStays, Zenon DEF SendEnqueue, Caller, DropTarget
  <1>3. ASSUME NEW t \in Threads, Dequeue(t) PROVE Suspending'
    BY <1>a, <1>t, <1>w, <1>3, SuspendingStays, Zenon DEF Dequeue
  <1>4. ASSUME NEW t \in Threads, DequeueEmpty(t) PROVE Suspending'
    BY <1>a, <1>t, <1>w, <1>4, SuspendingStays DEF DequeueEmpty
  <1>5. ASSUME NEW t \in Threads, StartTurn(t) PROVE Suspending'
    <2>1. cur[t] \in Actors /\ walk[t] = <<>>
      <3>1. pc[t] \in WorkerLabels \ Between /\ pc[t] \notin Walking
        BY <1>5, Zenon DEF StartTurn, WorkerLabels, Between
      <3> QED
        BY <1>a, <1>w, <3>1, Located, Zenon
    <2>2. /\ cur' = cur /\ sched' = sched /\ walk' = walk /\ waiters' = waiters
          /\ pc'[t] = "next" /\ \A u \in Threads \ {t} : pc'[u] = pc[u]
      BY <1>t, <1>5, Zenon DEF StartTurn
    <2>3. \A b \in Actors \ {cur[t]} :
             snapshot'[b] = snapshot[b] /\ waitingOn'[b] = waitingOn[b] /\ turnMsg'[b] = turnMsg[b]
      BY <1>t, <1>5, <2>1, Zenon DEF StartTurn
    <2>4. \A b \in Actors \ {cur[t]} : Waits(b) /\ Listed(b) => Listed(b)'
      BY <2>2, <2>3 DEF Listed
    <2>5. turnMsg'[cur[t]] = NoMsg
      BY <1>a, <1>5, <2>1 DEF StartTurn, Suspending
    <2>6. ~ snapshot'[cur[t]]
      BY <1>5, Zenon DEF StartTurn
    <2> QED
      BY <1>a, <2>1, <2>2, <2>3, <2>4, <2>5, <2>6, SuspendingTurn
  <1>6. ASSUME NEW t \in Threads, StayParked(t) PROVE Suspending'
    <2>1. cur[t] \in Actors /\ walk[t] = <<>>
      <3>1. pc[t] \in WorkerLabels \ Between /\ pc[t] \notin Walking
        BY <1>6, Zenon DEF StayParked, WorkerLabels, Between
      <3> QED
        BY <1>a, <1>w, <3>1, Located
    <2>2. /\ cur' = cur /\ sched' = sched /\ walk' = walk /\ waiters' = waiters
          /\ pc'[t] = "finish_suspended" /\ \A u \in Threads \ {t} : pc'[u] = pc[u]
      BY <1>t, <1>6, Zenon DEF StayParked
    <2>3. \A b \in Actors \ {cur[t]} :
             snapshot'[b] = snapshot[b] /\ waitingOn'[b] = waitingOn[b] /\ turnMsg'[b] = turnMsg[b]
      BY <1>t, <1>6, <2>1, Zenon DEF StayParked
    <2>4. \A b \in Actors \ {cur[t]} : Waits(b) /\ Listed(b) => Listed(b)'
      BY <2>2, <2>3 DEF Listed
    <2>5. pc[t] # "await_add" /\ snapshot[cur[t]]
      BY <1>6, Zenon DEF StayParked
    <2>6. snapshot' = snapshot /\ waitingOn' = waitingOn /\ turnMsg' = turnMsg /\ waiters' = waiters
      BY <1>6, Zenon DEF StayParked
    <2>7. Waits(cur[t]) /\ Listed(cur[t])
      BY <1>a, <2>1, <2>5, TurnListed, Zenon
    <2>8. Waits(cur[t])' /\ Listed(cur[t])'
      BY <2>2, <2>6, <2>7, ChainStays
    <2> QED
      BY <1>a, <2>1, <2>2, <2>3, <2>4, <2>5, <2>6, <2>8, SuspendingTurn
  <1>7. ASSUME NEW t \in Threads, ResumeTurn(t) PROVE Suspending'
    <2>1. cur[t] \in Actors /\ walk[t] = <<>>
      <3>1. pc[t] \in WorkerLabels \ Between /\ pc[t] \notin Walking
        BY <1>7, Zenon DEF ResumeTurn, WorkerLabels, Between
      <3> QED
        BY <1>a, <1>w, <3>1, Located
    <2>2. /\ cur' = cur /\ sched' = sched /\ walk' = walk /\ waiters' = waiters
          /\ pc'[t] = "run" /\ \A u \in Threads \ {t} : pc'[u] = pc[u]
      BY <1>t, <1>7, Zenon DEF ResumeTurn
    <2>3. \A b \in Actors \ {cur[t]} :
             snapshot'[b] = snapshot[b] /\ waitingOn'[b] = waitingOn[b] /\ turnMsg'[b] = turnMsg[b]
      BY <1>t, <1>7, <2>1 DEF ResumeTurn
    <2>4. \A b \in Actors \ {cur[t]} : Waits(b) /\ Listed(b) => Listed(b)'
      BY <2>2, <2>3, Zenon DEF Listed
    <2>5. turnMsg'[cur[t]] = NoMsg /\ ~ snapshot'[cur[t]]
      BY <1>t, <1>7, <2>1, Zenon DEF ResumeTurn
    <2> QED
      BY <1>a, <2>1, <2>2, <2>3, <2>4, <2>5, SuspendingTurn, Zenon
  <1>8. ASSUME NEW t \in Threads, TakeMessage(t) PROVE Suspending'
    BY <1>a, <1>t, <1>w, <1>8, SuspendingStays DEF TakeMessage
  <1>9. ASSUME NEW t \in Threads, NextBand(t) PROVE Suspending'
    BY <1>a, <1>t, <1>w, <1>9, SuspendingStays DEF NextBand
  <1>10. ASSUME NEW t \in Threads, TurnOver(t) PROVE Suspending'
    BY <1>a, <1>t, <1>w, <1>10, SuspendingStays, Zenon DEF TurnOver
  <1>11. ASSUME NEW t \in Threads, FinishSuspended(t) PROVE Suspending'
    <2>1. cur[t] \in Actors /\ snapshot[cur[t]]
      BY <1>a, <1>11, Located, Zenon DEF FinishSuspended, Suspending, WorkerLabels, Between
    <2>2. \A c \in Actors : sched'[c] = Suspended => sched[c] = Suspended \/ snapshot[c]
      BY <1>t, <1>11, <2>1, Zenon DEF FinishSuspended
    <2>a. /\ pc[t] = "finish_suspended" /\ pc'[t] \in {"count_suspended", "finish_enqueue"}
          /\ walk' = walk
          /\ \A u \in Threads \ {t} : pc'[u] = pc[u] /\ cur'[u] = cur[u]
      BY <1>t, <1>11, Zenon DEF FinishSuspended
    <2>3. \A u \in Threads :
            /\ pc'[u] \in Awaiting \cup {"finish_suspended"} => pc'[u] = pc[u] /\ cur'[u] = cur[u]
            /\ pc[u] = "await_add" => pc'[u] = pc[u] /\ cur'[u] = cur[u]
            /\ pc'[u] \in InTurn /\ cur'[u] # NoActor => pc[u] \in InTurn /\ cur'[u] = cur[u]
            /\ walk'[u] # <<>> => pc'[u] \in Walking
      BY <1>w, <2>a, Zenon
    <2>4. snapshot' = snapshot /\ waitingOn' = waitingOn /\ turnMsg' = turnMsg /\ waiters' = waiters
      BY <1>11, Zenon DEF FinishSuspended
    <2> QED
      BY <1>a, <2>2, <2>3, <2>4, SuspendingStays
  <1>12. ASSUME NEW t \in Threads, CountSuspended(t) PROVE Suspending'
    BY <1>a, <1>t, <1>w, <1>12, SuspendingStays DEF CountSuspended
  <1>13. ASSUME NEW t \in Threads, FinishLoad(t) PROVE Suspending'
    <2>1. cur[t] \in Actors
      BY <1>a, <1>13, Located, Zenon DEF FinishLoad, WorkerLabels, Between
    <2>2. \A c \in Actors : sched'[c] = Suspended => sched[c] = Suspended
      BY <1>t, <1>13, <2>1 DEF FinishLoad, Claimed, Suspended
    <2>3. \A u \in Threads :
            /\ pc'[u] \in Awaiting \cup {"finish_suspended"} => pc'[u] = pc[u] /\ cur'[u] = cur[u]
            /\ pc[u] = "await_add" => pc'[u] = pc[u] /\ cur'[u] = cur[u]
            /\ pc'[u] \in InTurn /\ cur'[u] # NoActor => pc[u] \in InTurn /\ cur'[u] = cur[u]
            /\ walk'[u] # <<>> => pc'[u] \in Walking
      BY <1>c, <1>t, <1>w, <1>13, Zenon DEF FinishLoad
    <2>4. snapshot' = snapshot /\ waitingOn' = waitingOn /\ turnMsg' = turnMsg /\ waiters' = waiters
      BY <1>13, Zenon DEF FinishLoad
    <2> QED
      BY <1>a, <2>2, <2>3, <2>4, SuspendingStays
  <1>14. ASSUME NEW t \in Threads, FinishCheck(t) PROVE Suspending'
    BY <1>a, <1>t, <1>w, <1>14, SuspendingStays DEF FinishCheck
  <1>15. ASSUME NEW t \in Threads, FinishRelease(t) PROVE Suspending'
    <2>1. cur[t] \in Actors
      BY <1>a, <1>15, Located, Zenon DEF FinishRelease, WorkerLabels, Between
    <2>2. \A c \in Actors : sched'[c] = Suspended => sched[c] = Suspended
      BY <1>t, <1>15, <2>1 DEF FinishRelease, Idle, Suspended
    <2>3. \A u \in Threads :
            /\ pc'[u] \in Awaiting \cup {"finish_suspended"} => pc'[u] = pc[u] /\ cur'[u] = cur[u]
            /\ pc[u] = "await_add" => pc'[u] = pc[u] /\ cur'[u] = cur[u]
            /\ pc'[u] \in InTurn /\ cur'[u] # NoActor => pc[u] \in InTurn /\ cur'[u] = cur[u]
            /\ walk'[u] # <<>> => pc'[u] \in Walking
      BY <1>c, <1>t, <1>w, <1>15 DEF FinishRelease
    <2>4. snapshot' = snapshot /\ waitingOn' = waitingOn /\ turnMsg' = turnMsg /\ waiters' = waiters
      BY <1>15, Zenon DEF FinishRelease
    <2> QED
      BY <1>a, <2>2, <2>3, <2>4, SuspendingStays
  <1>16. ASSUME NEW t \in Threads, FinishEnqueue(t) PROVE Suspending'
    BY <1>a, <1>t, <1>w, <1>16, SuspendingStays, Zenon DEF FinishEnqueue
  <1>17. ASSUME NEW t \in Threads, AddWaiter(t) PROVE Suspending'
    <2>1. cur[t] \in Actors /\ walk[t] = <<>>
      <3>1. pc[t] \in WorkerLabels \ Between /\ pc[t] \notin Walking
        BY <1>17, Zenon DEF AddWaiter, WorkerLabels, Between
      <3> QED
        BY <1>a, <1>w, <3>1, Located
    <2>2. /\ cur' = cur /\ sched' = sched /\ walk' = walk
          /\ pc'[t] = "await_recheck" /\ \A u \in Threads \ {t} : pc'[u] = pc[u]
      BY <1>t, <1>17 DEF AddWaiter
    <2>3. \A b \in Actors \ {cur[t]} :
             snapshot'[b] = snapshot[b] /\ waitingOn'[b] = waitingOn[b] /\ turnMsg'[b] = turnMsg[b]
      BY <1>t, <1>17, <2>1 DEF AddWaiter
    <2>4. snapshot[cur[t]] /\ Waits(cur[t]) /\ turnMsg[cur[t]] = NoMsg
      BY <1>a, <1>17, <2>1, ConstantsAssumption, Zenon DEF AddWaiter, Suspending
    <2>5. snapshot' = snapshot /\ waitingOn' = waitingOn /\ turnMsg' = turnMsg
      BY <1>17 DEF AddWaiter
    <2> DEFINE f == waitingOn[cur[t]]
    <2>6. f \in Futures /\ waiters[f] \in Seq(Actors)
      BY <1>a, <2>4 DEF Waits, TypeOK
    <2>7. /\ DOMAIN waiters'[f] = 1..(Len(waiters[f]) + 1)
          /\ \A i \in 1..Len(waiters[f]) : waiters'[f][i] = waiters[f][i]
          /\ waiters'[f][Len(waiters[f]) + 1] = cur[t]
          /\ \A g \in Futures \ {f} : waiters'[g] = waiters[g]
      <3>1. waiters' = [waiters EXCEPT ![f] = Append(waiters[f], cur[t])]
        BY <1>17, Zenon DEF AddWaiter
      <3>2. waiters'[f] = Append(waiters[f], cur[t])
        BY <1>t, <2>6, <3>1, Zenon
      <3>3. \A g \in Futures \ {f} : waiters'[g] = waiters[g]
        BY <1>t, <3>1, Zenon
      <3> HIDE DEF f
      <3> QED
        BY <2>1, <2>6, <3>2, <3>3, PushedEntries
    <2>8. DOMAIN waiters[f] = 1..Len(waiters[f]) /\ Len(waiters[f]) \in Nat
      BY <2>6
    <2> HIDE DEF f
    <2>9. Listed(cur[t])'
      <3>1. Len(waiters[f]) + 1 \in DOMAIN waiters'[f]
        BY <2>7, <2>8
      <3>2. \E i \in DOMAIN waiters'[f] : waiters'[f][i] = cur[t]
        BY <2>7, <3>1, Zenon
      <3>3. f = waitingOn'[cur'[t]] /\ cur' = cur
        BY <2>2, <2>5, Zenon DEF f
      <3> QED
        BY <3>2, <3>3, Zenon DEF Listed
    <2>10. \A g \in Futures : \A b : (\E i \in DOMAIN waiters[g] : waiters[g][i] = b)
                                   => \E i \in DOMAIN waiters'[g] : waiters'[g][i] = b
      BY <2>7, <2>8
    <2>11. \A b \in Actors : Waits(b) /\ Listed(b) => Listed(b)'
      BY <2>5, <2>10 DEF Waits, Listed
    <2>12. snapshot'[cur[t]] /\ Waits(cur[t])' /\ turnMsg'[cur[t]] = NoMsg
      BY <2>2, <2>4, <2>5, Zenon DEF Waits
    <2> QED
      BY <1>a, <2>1, <2>2, <2>3, <2>9, <2>11, <2>12, SuspendingTurn
  <1>18. ASSUME NEW t \in Threads, AwaitYields(t) PROVE Suspending'
    <2>1. cur[t] \in Actors /\ walk[t] = <<>>
      <3>1. pc[t] \in WorkerLabels \ Between /\ pc[t] \notin Walking
        BY <1>18, Zenon DEF AwaitYields, WorkerLabels, Between
      <3> QED
        BY <1>a, <1>w, <3>1, Located
    <2>2. /\ cur' = cur /\ sched' = sched /\ walk' = walk /\ waiters' = waiters
          /\ pc'[t] = "finish_suspended" /\ \A u \in Threads \ {t} : pc'[u] = pc[u]
      BY <1>t, <1>18, Zenon DEF AwaitYields
    <2>3. \A b \in Actors \ {cur[t]} :
             snapshot'[b] = snapshot[b] /\ waitingOn'[b] = waitingOn[b] /\ turnMsg'[b] = turnMsg[b]
      BY <1>t, <1>18, <2>1, Zenon DEF AwaitYields
    <2>4. \A b \in Actors \ {cur[t]} : Waits(b) /\ Listed(b) => Listed(b)'
      BY <2>2, <2>3 DEF Listed
    <2>5. snapshot' = snapshot /\ waitingOn' = waitingOn /\ waiters' = waiters
      BY <1>18, Zenon DEF AwaitYields
    <2>6. pc[t] = "await_recheck" /\ snapshot[cur[t]]
      BY <1>a, <1>18, Zenon DEF AwaitYields, Suspending
    <2>7. Waits(cur[t]) /\ Listed(cur[t])
      BY <1>a, <2>1, <2>6, TurnListed, Zenon
    <2>8. Waits(cur[t])' /\ Listed(cur[t])'
      BY <2>2, <2>5, <2>7, ChainStays
    <2> QED
      BY <1>a, <2>1, <2>2, <2>3, <2>4, <2>5, <2>6, <2>8, SuspendingTurn, Zenon
  <1>19. ASSUME NEW t \in Threads, AwaitAnswers(t) PROVE Suspending'
    <2>1. cur[t] \in Actors /\ walk[t] = <<>>
      <3>1. pc[t] \in WorkerLabels \ Between /\ pc[t] \notin Walking
        BY <1>19 DEF AwaitAnswers, WorkerLabels, Between
      <3> QED
        BY <1>a, <1>w, <3>1, Located
    <2>2. /\ cur' = cur /\ sched' = sched /\ walk' = walk /\ waiters' = waiters
          /\ pc'[t] = "run" /\ \A u \in Threads \ {t} : pc'[u] = pc[u]
      BY <1>t, <1>19, Zenon DEF AwaitAnswers
    <2>3. \A b \in Actors \ {cur[t]} :
             snapshot'[b] = snapshot[b] /\ waitingOn'[b] = waitingOn[b] /\ turnMsg'[b] = turnMsg[b]
      BY <1>t, <1>19, <2>1, Zenon DEF AwaitAnswers
    <2>4. \A b \in Actors \ {cur[t]} : Waits(b) /\ Listed(b) => Listed(b)'
      BY <2>2, <2>3 DEF Listed
    <2>5. turnMsg'[cur[t]] = NoMsg /\ ~ snapshot'[cur[t]]
      BY <1>a, <1>t, <1>19, <2>1, ConstantsAssumption DEF AwaitAnswers, Suspending
    <2> QED
      BY <1>a, <2>1, <2>2, <2>3, <2>4, <2>5, SuspendingTurn
  <1>20. ASSUME NEW t \in Threads, HandlerEnds(t) PROVE Suspending'
    BY <1>a, <1>t, <1>w, <1>20, SuspendingStays DEF HandlerEnds
  <1>21. ASSUME NEW t \in Threads, Settle(t) PROVE Suspending'
    <2>1. sched' = sched
      BY <1>21, Zenon DEF Settle
    <2>2. \A u \in Threads :
            /\ pc'[u] \in Awaiting \cup {"finish_suspended"} => pc'[u] = pc[u] /\ cur'[u] = cur[u]
            /\ pc[u] = "await_add" => pc'[u] = pc[u] /\ cur'[u] = cur[u]
            /\ pc'[u] \in InTurn /\ cur'[u] # NoActor => pc[u] \in InTurn /\ cur'[u] = cur[u]
            /\ walk'[u] # <<>> => pc'[u] \in Walking
      BY <1>c, <1>t, <1>w, <1>21 DEF Settle, AfterComplete
    <2>3. snapshot' = snapshot /\ waitingOn' = waitingOn /\ turnMsg' = turnMsg /\ waiters' = waiters
      BY <1>21, Zenon DEF Settle
    <2> QED
      BY <1>a, <2>1, <2>2, <2>3, SuspendingStays, Zenon
  <1>22. ASSUME NEW t \in Threads, ReadWaiters(t) PROVE Suspending'
    BY <1>a, <1>t, <1>w, <1>22, SuspendingStays DEF ReadWaiters
  <1>23. ASSUME NEW t \in Threads, Resume(t) PROVE Suspending'
    <2>1. Head(walk[t]) \in Actors
      <3>1. walk[t] \in Seq(Actors) /\ walk[t] # <<>>
        BY <1>t, <1>23, Zenon DEF Resume
      <3> QED
        BY <3>1
    <2>2. \A c \in Actors : sched'[c] = Suspended => sched[c] = Suspended
      BY <1>t, <1>23, <2>1 DEF Resume, Idle, Claimed, ClaimedWake, Suspended
    <2>3. \A u \in Threads :
            /\ pc'[u] \in Awaiting \cup {"finish_suspended"} => pc'[u] = pc[u] /\ cur'[u] = cur[u]
            /\ pc[u] = "await_add" => pc'[u] = pc[u] /\ cur'[u] = cur[u]
            /\ pc'[u] \in InTurn /\ cur'[u] # NoActor => pc[u] \in InTurn /\ cur'[u] = cur[u]
            /\ walk'[u] # <<>> => pc'[u] \in Walking
      BY <1>c, <1>t, <1>w, <1>23 DEF Resume
    <2>4. snapshot' = snapshot /\ waitingOn' = waitingOn /\ turnMsg' = turnMsg /\ waiters' = waiters
      BY <1>23, Zenon DEF Resume
    <2> QED
      BY <1>a, <2>2, <2>3, <2>4, SuspendingStays
  <1>24. ASSUME NEW t \in Threads, ResumeParked(t) PROVE Suspending'
    BY <1>a, <1>t, <1>w, <1>24, SuspendingStays, Zenon DEF ResumeParked, DropTarget
  <1>25. ASSUME NEW t \in Threads, ResumeIdle(t) PROVE Suspending'
    BY <1>a, <1>t, <1>w, <1>25, SuspendingStays DEF ResumeIdle, DropTarget
  <1>26. ASSUME NEW t \in Threads, CompleteDone(t) PROVE Suspending'
    BY <1>a, <1>t, <1>w, <1>26, SuspendingStays, Zenon DEF CompleteDone, AfterComplete
  <1>27. ASSUME NEW t \in Threads, NEW m \in Msgs, NEW a \in Actors, NEW b \in SendBands,
               Send(t, m, a, b)
        PROVE  Suspending'
    <2>1. sched' = sched
      BY <1>27, Zenon DEF Send
    <2>2. \A u \in Threads :
            /\ pc'[u] \in Awaiting \cup {"finish_suspended"} => pc'[u] = pc[u] /\ cur'[u] = cur[u]
            /\ pc[u] = "await_add" => pc'[u] = pc[u] /\ cur'[u] = cur[u]
            /\ pc'[u] \in InTurn /\ cur'[u] # NoActor => pc[u] \in InTurn /\ cur'[u] = cur[u]
            /\ walk'[u] # <<>> => pc'[u] \in Walking
      BY <1>c, <1>t, <1>w, <1>27, Zenon DEF Send
    <2>3. snapshot' = snapshot /\ waitingOn' = waitingOn /\ turnMsg' = turnMsg /\ waiters' = waiters
      BY <1>27 DEF Send
    <2> QED
      BY <1>a, <2>1, <2>2, <2>3, SuspendingStays
  <1>28. ASSUME NEW t \in Threads, NEW f \in Futures, Await(t, f) PROVE Suspending'
    <2>1. cur[t] \in Actors /\ walk[t] = <<>>
      <3>1. pc[t] \in WorkerLabels \ Between /\ pc[t] \notin Walking
        BY <1>28, Zenon DEF Await, WorkerLabels, Between
      <3> QED
        BY <1>a, <1>w, <3>1, Located, Zenon
    <2>2. /\ cur' = cur /\ sched' = sched /\ walk' = walk /\ waiters' = waiters
          /\ pc'[t] = "await_add" /\ \A u \in Threads \ {t} : pc'[u] = pc[u]
      BY <1>t, <1>28, Zenon DEF Await
    <2>3. \A b \in Actors \ {cur[t]} :
             snapshot'[b] = snapshot[b] /\ waitingOn'[b] = waitingOn[b] /\ turnMsg'[b] = turnMsg[b]
      BY <1>t, <1>28, <2>1, Zenon DEF Await
    <2>4. \A b \in Actors \ {cur[t]} : Waits(b) /\ Listed(b) => Listed(b)'
      BY <2>2, <2>3 DEF Listed
    <2>5. turnMsg'[cur[t]] = NoMsg
      BY <1>a, <1>28, <2>1, ConstantsAssumption DEF Await, Suspending
    <2>6. snapshot'[cur[t]] /\ Waits(cur[t])'
      BY <1>t, <1>28, <2>1, <2>2, Zenon DEF Await, Waits
    <2> QED
      BY <1>a, <2>1, <2>2, <2>3, <2>4, <2>5, <2>6, SuspendingTurn
  <1>29. ASSUME NEW t \in Threads, NEW f \in ClientFutures, ClientCompletes(t, f) PROVE Suspending'
    BY <1>a, <1>c, <1>t, <1>w, <1>29, SuspendingStays, Zenon DEF ClientCompletes
  <1>30. ASSUME NEW t \in Threads, AwaitRefused(t) PROVE Suspending'
    <2>1. cur[t] \in Actors /\ walk[t] = <<>>
      <3>1. pc[t] \in WorkerLabels \ Between /\ pc[t] \notin Walking
        BY <1>30, Zenon DEF AwaitRefused, WorkerLabels, Between
      <3> QED
        BY <1>a, <1>w, <3>1, Located
    <2>2. /\ cur' = cur /\ sched' = sched /\ walk' = walk /\ waiters' = waiters
          /\ snapshot' = snapshot /\ waitingOn' = waitingOn /\ turnMsg' = turnMsg
          /\ pc'[t] = "run" /\ \A u \in Threads \ {t} : pc'[u] = pc[u]
      BY <1>t, <1>30, Zenon DEF AwaitRefused
    <2>3. \A b \in Actors \ {cur[t]} : Waits(b) /\ Listed(b) => Listed(b)'
      BY <2>2 DEF Listed
    <2>4. pc[t] = "await_recheck" /\ snapshot[cur[t]] /\ turnMsg[cur[t]] = NoMsg
      BY <1>a, <1>30, <2>1, ConstantsAssumption, Zenon DEF AwaitRefused, Suspending
    <2>5. Waits(cur[t]) /\ Listed(cur[t])
      BY <1>a, <2>1, <2>4, TurnListed, Zenon
    <2>6. Waits(cur[t])' /\ Listed(cur[t])'
      BY <2>2, <2>5, ChainStays
    <2> QED
      BY <1>a, <2>1, <2>2, <2>3, <2>4, <2>6, SuspendingTurn, Zenon
  <1> QED
    BY <1>1, <1>2, <1>3, <1>4, <1>5, <1>6, <1>7, <1>8, <1>9, <1>10, <1>11, <1>12, <1>13, <1>14,
       <1>15, <1>16, <1>17, <1>18, <1>19, <1>20, <1>21, <1>22, <1>23, <1>24, <1>25, <1>26,
       <1>27, <1>28, <1>29, <1>30
    DEF Next, Step

-----------------------------------------------------------------------------
(* The theorems.                                                           *)

\* Nothing is queued or suspended when the scheduler is created.
LEMMA InitWaking == Init => Woken /\ Suspending
  <1> SUFFICES ASSUME Init PROVE Woken /\ Suspending
    BY Zenon
  <1>1. \A a \in Actors : ~ HasWork(a)
    BY Zenon DEF Init, HasWork
  <1>2. \A t \in Threads : pc[t] \in {"dequeue", "client"} /\ cur[t] = NoActor /\ walk[t] = <<>>
    BY Zenon DEF Init
  <1>s. Idle # Suspended
    BY DEF Idle, Suspended
  <1>3. \A a \in Actors : sched[a] = Idle /\ turnMsg[a] = NoMsg /\ ~ snapshot[a]
    BY Zenon DEF Init
  <1>4. Woken
    BY <1>1, <1>2, Zenon DEF Woken, NoLostWakeup, Released
  <1>5. Suspending
    BY <1>2, <1>3, <1>s, Zenon DEF Suspending, Awaiting
  <1> QED
    BY <1>4, <1>5, Zenon

\* Every step of the scheduler preserves both invariants.
LEMMA StepWaking == IInv /\ Woken /\ Suspending /\ [Next]_vars => (Woken /\ Suspending)'
  <1>1. ASSUME IInv, Woken, Suspending, Next PROVE (Woken /\ Suspending)'
    BY <1>1, WokenStep, SuspendingStep, Zenon
  <1>2. ASSUME Woken, Suspending, UNCHANGED vars PROVE (Woken /\ Suspending)'
    <2>1. /\ mailbox' = mailbox /\ pending' = pending /\ sched' = sched /\ pc' = pc /\ cur' = cur
          /\ tgt' = tgt /\ snapshot' = snapshot /\ waitingOn' = waitingOn /\ turnMsg' = turnMsg
          /\ waiters' = waiters /\ walk' = walk
      BY <1>2, Zenon DEF vars, actorVars, futureVars, turnVars, callVars
    <2>2. Woken'
      BY <1>2, <2>1, WorkStays, Zenon
    <2>3. \A t \in Threads : walk[t] # <<>> => pc[t] \in Walking
      BY <1>2, Zenon DEF Suspending
    <2>4. Suspending'
      BY <1>2, <2>1, <2>3, SuspendingStays, Zenon
    <2> QED
      BY <2>2, <2>4, Zenon
  <1> QED
    BY <1>1, <1>2, Zenon

\* Every reachable state of the scheduler satisfies the invariants.
THEOREM WokenAlways == Spec => [](IInv /\ Woken /\ Suspending)
  BY InitInvariant, StepInvariant, InitWaking, StepWaking, PTL DEF Spec

\* No message waits at an idle actor with nobody to claim it: between the push of
\* ActorScheduler::send and its claim, and the hasWork and the release of
\* finishTurn, no order of the steps loses the wake-up.
THEOREM NoLostWakeupHolds == Spec => []NoLostWakeup
  <1>1. Woken => NoLostWakeup
    BY Zenon DEF Woken
  <1> QED
    BY <1>1, WokenAlways, PTL
=============================================================================
