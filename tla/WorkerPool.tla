----------------------------- MODULE WorkerPool -----------------------------
(***************************************************************************)
(* The worker threads of the actor scheduler (src/runtime/ActorScheduler   *)
(* and Semaphore.h): starting the pool, parking on the semaphore, growing  *)
(* the pool when a worker blocks in I/O, and shutting it down.             *)
(*                                                                         *)
(* A ready actor's turn is a task here; the ready stacks are one set, and  *)
(* what a turn does is: submit tasks, block in I/O, finish.  A section     *)
(* under workersMtx_ is one action.                                        *)
(***************************************************************************)
EXTENDS Integers, FiniteSets

CONSTANTS
    Workers,      \* worker threads the system can create
    Main,         \* the thread that starts and shuts down the pool
    Tasks,        \* turns, each submitted at most once
    Needs,        \* Needs[k]: the task that answers k's blocking I/O, or NoTask
    baseWorkers,  \* configuredWorkerCount()
    kMaxWorkers,
    kSpinRounds,
    NoTask

ASSUME ConstantsAssumption ==
    /\ IsFiniteSet(Workers) /\ Workers # {}
    /\ Main \notin Workers
    /\ NoTask \notin Tasks
    /\ Needs \in [Tasks -> Tasks \cup {NoTask}]
    /\ baseWorkers \in Nat \ {0}
    /\ kMaxWorkers \in Nat
    /\ kSpinRounds \in Nat

Threads == Workers \cup {Main}

VARIABLES
    ready,         \* ready_: tasks queued
    count,         \* work_.count_: permits
    asleep,        \* workers asleep in count_.wait(0)
    workers,       \* workers_
    spawning,      \* spawning_
    blockedInIo,   \* blockedInIo_
    started,       \* started_
    shuttingDown,  \* shuttingDown_
    submitted,     \* tasks ever queued
    finished,      \* tasks whose turn is over
    didIo,         \* tasks that have blocked; a bound: each blocks once
    pc,            \* where each thread is
    task,          \* the task a worker runs
    c,             \* acquire's local: the permits read
    rounds,        \* workerLoop's local: spin rounds done
    seen,          \* enterBlocking's local `blocked`
    made,          \* spawnWorker's local `t`: {the new worker}, or {} for null
    todo,          \* Main: workers still to spawn, then permits to release
    toJoin,        \* shutdown's local `pool`
    leaving        \* workers that have seen the shutdown: in the final drain loop

pool == <<workers, spawning, blockedInIo, started, shuttingDown>>
locals == <<task, c, rounds, seen, made, todo, toJoin, leaving>>
vars == <<ready, count, asleep, pool, submitted, finished, didIo, pc, locals>>

Init ==
    /\ ready = {}
    /\ count = 0
    /\ asleep = {}
    /\ workers = {}
    /\ spawning = 0
    /\ blockedInIo = 0
    /\ started = FALSE
    /\ shuttingDown = FALSE
    /\ submitted = {}
    /\ finished = {}
    /\ didIo = {}
    /\ pc = [t \in Threads |-> IF t = Main THEN "main" ELSE "unborn"]
    /\ task = [t \in Threads |-> NoTask]
    /\ c = [t \in Threads |-> 0]
    /\ rounds = [t \in Threads |-> 0]
    /\ seen = [t \in Threads |-> 0]
    /\ made = [t \in Threads |-> {}]
    /\ todo = 0
    /\ toJoin = {}
    /\ leaving = {}

-----------------------------------------------------------------------------
Goto(t, l) == pc' = [pc EXCEPT ![t] = l]

\* Where spawnWorker returns to: the start-up loop, or the blocking call.
AfterSpawn(t) == IF t = Main THEN "spawn_loop" ELSE "blocked"

-----------------------------------------------------------------------------
(* ensureStarted and spawnWorker.                                          *)

EnsureStarted ==
    /\ pc[Main] = "main"
    /\ ~started /\ ~shuttingDown
    /\ started' = TRUE
    /\ todo' = baseWorkers
    /\ Goto(Main, "spawn_loop")
    /\ UNCHANGED <<ready, count, asleep, workers, spawning, blockedInIo, shuttingDown,
                   submitted, finished, didIo, task, c, rounds, seen, made, toJoin, leaving>>

SpawnLoop ==
    /\ pc[Main] = "spawn_loop"
    /\ \/ /\ todo > 0
          /\ todo' = todo - 1
          /\ Goto(Main, "reserve")
       \/ /\ todo = 0
          /\ Goto(Main, "main")
          /\ UNCHANGED todo
    /\ UNCHANGED <<ready, count, asleep, pool, submitted, finished, didIo, task, c,
                   rounds, seen, made, toJoin, leaving>>

\* The slot is reserved under the mutex, unless shutdown has begun.
Reserve(t) ==
    /\ pc[t] = "reserve"
    /\ \/ /\ shuttingDown
          /\ UNCHANGED spawning
          /\ Goto(t, AfterSpawn(t))
       \/ /\ ~shuttingDown
          /\ spawning' = spawning + 1
          /\ Goto(t, "create")
    /\ UNCHANGED <<ready, count, asleep, workers, blockedInIo, started, shuttingDown,
                   submitted, finished, didIo, locals>>

ThreadsLeft == \E w \in Workers : pc[w] = "unborn"

\* newThread, outside the mutex: the new worker runs before it is registered.
\* It fails when the system has no thread left to give.
Create(t) ==
    /\ pc[t] = "create"
    /\ \/ \E w \in Workers :
             /\ pc[w] = "unborn"
             /\ pc' = [pc EXCEPT ![t] = "register", ![w] = "drain"]
             /\ made' = [made EXCEPT ![t] = {w}]
       \/ /\ ~ThreadsLeft
          /\ Goto(t, "register")
          /\ UNCHANGED made
    /\ UNCHANGED <<ready, count, asleep, pool, submitted, finished, didIo, task, c, rounds,
                   seen, todo, toJoin, leaving>>

\* A created worker is registered even when shutdown began meanwhile.
Register(t) ==
    /\ pc[t] = "register"
    /\ workers' = workers \cup made[t]
    /\ made' = [made EXCEPT ![t] = {}]
    /\ spawning' = spawning - 1
    /\ Goto(t, AfterSpawn(t))
    /\ UNCHANGED <<ready, count, asleep, blockedInIo, started, shuttingDown, submitted,
                   finished, didIo, task, c, rounds, seen, todo, toJoin, leaving>>

-----------------------------------------------------------------------------
(* enqueue: the push, then Semaphore::release, which adds and notifies.    *)

Submit(t, k) ==
    /\ pc[t] = "turn" \/ (pc[t] = "main" /\ started)
    /\ k \notin submitted
    /\ ready' = ready \cup {k}
    /\ submitted' = submitted \cup {k}
    /\ Goto(t, "release")
    /\ UNCHANGED <<count, asleep, pool, finished, didIo, locals>>

Release(t) ==
    /\ pc[t] \in {"release", "sd_release"}
    /\ pc[t] = "sd_release" => todo > 0
    /\ count' = count + 1
    /\ todo' = IF pc[t] = "sd_release" THEN todo - 1 ELSE todo
    /\ Goto(t, IF pc[t] = "release" THEN "notify" ELSE "sd_notify")
    /\ UNCHANGED <<ready, asleep, pool, submitted, finished, didIo, task, c, rounds,
                   seen, made, toJoin, leaving>>

\* Mutant: a release notifies only when it made the count positive.
NotifyOnZero(t) ==
    /\ pc[t] \in {"notify", "sd_notify"}
    /\ \/ count = 1 /\ \E w \in asleep : asleep' = asleep \ {w}
       \/ (count # 1 \/ asleep = {}) /\ UNCHANGED asleep
    /\ Goto(t, IF pc[t] = "sd_notify" THEN "sd_release"
               ELSE IF t = Main THEN "main" ELSE "turn")
    /\ UNCHANGED <<ready, count, pool, submitted, finished, didIo, locals>>

\* notify_one: some sleeper wakes, if there is one.
Notify(t) ==
    /\ pc[t] \in {"notify", "sd_notify"}
    /\ \/ \E w \in asleep : asleep' = asleep \ {w}
       \/ asleep = {} /\ UNCHANGED asleep
    /\ Goto(t, IF pc[t] = "sd_notify" THEN "sd_release"
               ELSE IF t = Main THEN "main" ELSE "turn")
    /\ UNCHANGED <<ready, count, pool, submitted, finished, didIo, locals>>

-----------------------------------------------------------------------------
(* workerLoop.                                                             *)

\* drainOne finds a ready actor and runs its turn.
Drain(t) ==
    /\ pc[t] \in {"drain", "final", "spin"}
    /\ \E k \in ready :
          /\ ready' = ready \ {k}
          /\ task' = [task EXCEPT ![t] = k]
    /\ rounds' = [rounds EXCEPT ![t] = 0]
    /\ Goto(t, "turn")
    /\ UNCHANGED <<count, asleep, pool, submitted, finished, didIo, c, seen, made,
                   todo, toJoin, leaving>>

\* drainOne finds nothing: test for shutdown, spin, park, or leave.
DrainEmpty(t) ==
    /\ pc[t] \in {"drain", "final", "spin"}
    /\ ready = {}
    /\ Goto(t, CASE pc[t] = "drain" -> "check"
                 [] pc[t] = "final" -> "exit"
                 [] pc[t] = "spin" /\ rounds[t] + 1 < kSpinRounds -> "spin"
                 [] OTHER -> "acquire")
    /\ rounds' = [rounds EXCEPT ![t] =
                     IF pc[t] = "spin" /\ @ + 1 < kSpinRounds THEN @ + 1 ELSE 0]
    /\ UNCHANGED <<ready, count, asleep, pool, submitted, finished, didIo, task, c,
                   seen, made, todo, toJoin, leaving>>

\* Mutant: a worker that sees the shutdown leaves without draining again.
CheckShutdownLeaves(t) ==
    /\ pc[t] = "check"
    /\ leaving' = IF shuttingDown THEN leaving \cup {t} ELSE leaving
    /\ Goto(t, IF shuttingDown THEN "exit" ELSE "spin")
    /\ UNCHANGED <<ready, count, asleep, pool, submitted, finished, didIo, task, c,
                   rounds, seen, made, todo, toJoin>>

CheckShutdown(t) ==
    /\ pc[t] = "check"
    /\ leaving' = IF shuttingDown THEN leaving \cup {t} ELSE leaving
    /\ Goto(t, IF shuttingDown THEN "final" ELSE "spin")
    /\ UNCHANGED <<ready, count, asleep, pool, submitted, finished, didIo, task, c,
                   rounds, seen, made, todo, toJoin>>

\* The turn is over: back to the final loop, or to the top of the main one (a
\* turn taken while spinning starts that loop again).
FinishTurn(t) ==
    /\ pc[t] = "turn"
    /\ finished' = finished \cup {task[t]}
    /\ task' = [task EXCEPT ![t] = NoTask]
    /\ Goto(t, IF t \in leaving THEN "final" ELSE "drain")
    /\ UNCHANGED <<ready, count, asleep, pool, submitted, didIo, c, rounds, seen, made,
                   todo, toJoin, leaving>>

-----------------------------------------------------------------------------
(* Semaphore::acquire.                                                     *)

AcquireLoad(t) ==
    /\ pc[t] = "acquire"
    /\ c' = [c EXCEPT ![t] = count]
    /\ Goto(t, IF count > 0 THEN "acquire_cas" ELSE "wait")
    /\ UNCHANGED <<ready, count, asleep, pool, submitted, finished, didIo, task,
                   rounds, seen, made, todo, toJoin, leaving>>

AcquireCas(t) ==
    /\ pc[t] = "acquire_cas"
    /\ \/ /\ count = c[t]
          /\ count' = count - 1
          /\ c' = [c EXCEPT ![t] = 0]
          /\ Goto(t, "drain")
       \/ /\ count # c[t]
          /\ c' = [c EXCEPT ![t] = count]
          /\ Goto(t, IF count > 0 THEN "acquire_cas" ELSE "wait")
          /\ UNCHANGED count
    /\ UNCHANGED <<ready, asleep, pool, submitted, finished, didIo, task, rounds, seen,
                   made, todo, toJoin, leaving>>

\* Mutant: the sleep does not test the count again.
WaitBlind(t) ==
    /\ pc[t] = "wait"
    /\ asleep' = asleep \cup {t}
    /\ Goto(t, "asleep")
    /\ UNCHANGED <<ready, count, pool, submitted, finished, didIo, locals>>

\* count_.wait(0): the kernel refuses the sleep if the count is not 0.
Wait(t) ==
    /\ pc[t] = "wait"
    /\ \/ /\ count = 0
          /\ asleep' = asleep \cup {t}
          /\ Goto(t, "asleep")
       \/ /\ count # 0
          /\ UNCHANGED asleep
          /\ Goto(t, "acquire")
    /\ UNCHANGED <<ready, count, pool, submitted, finished, didIo, locals>>

\* A notified sleeper tests the count again inside wait.
Wake(t) ==
    /\ pc[t] = "asleep"
    /\ t \notin asleep
    /\ Goto(t, "wait")
    /\ UNCHANGED <<ready, count, asleep, pool, submitted, finished, didIo, locals>>

-----------------------------------------------------------------------------
(* enterBlocking and leaveBlocking, around a blocking system call.         *)

EnterBlocking(t) ==
    /\ pc[t] = "turn"
    /\ task[t] \notin didIo
    /\ didIo' = didIo \cup {task[t]}
    /\ blockedInIo' = blockedInIo + 1
    /\ seen' = [seen EXCEPT ![t] = blockedInIo + 1]
    /\ Goto(t, "blocking")
    /\ UNCHANGED <<ready, count, asleep, workers, spawning, started, shuttingDown,
                   submitted, finished, task, c, rounds, made, todo, toJoin, leaving>>

\* Mutant: the workers being created are left out of the total.
TotalRegistered == Cardinality(workers)

Total == Cardinality(workers) + spawning

\* Mutant: the pool never grows.
BlockingCheckNever(t) ==
    /\ pc[t] = "blocking"
    /\ Goto(t, "blocked")
    /\ seen' = [seen EXCEPT ![t] = 0]
    /\ UNCHANGED <<ready, count, asleep, pool, submitted, finished, didIo, task, c,
                   rounds, made, todo, toJoin, leaving>>

\* The total is read under the mutex; the count of blocked workers is the one
\* this worker's own increment returned.
BlockingCheck(t) ==
    /\ pc[t] = "blocking"
    /\ Goto(t, IF Total < kMaxWorkers /\ Total - seen[t] < baseWorkers
               THEN "reserve" ELSE "blocked")
    /\ seen' = [seen EXCEPT ![t] = 0]
    /\ UNCHANGED <<ready, count, asleep, pool, submitted, finished, didIo, task, c,
                   rounds, made, todo, toJoin, leaving>>

\* The call returns once its answer is there, and leaveBlocking follows.
LeaveBlocking(t) ==
    /\ pc[t] = "blocked"
    /\ Needs[task[t]] \in finished \cup {NoTask}
    /\ blockedInIo' = blockedInIo - 1
    /\ Goto(t, "turn")
    /\ UNCHANGED <<ready, count, asleep, workers, spawning, started, shuttingDown,
                   submitted, finished, didIo, locals>>

-----------------------------------------------------------------------------
(* shutdown, on Main.                                                      *)

Shutdown ==
    /\ pc[Main] = "main"
    /\ \/ /\ started
          /\ shuttingDown' = TRUE
          /\ Goto(Main, "sd_wait")
       \/ /\ ~started
          /\ UNCHANGED shuttingDown
          /\ Goto(Main, "done")
    /\ UNCHANGED <<ready, count, asleep, workers, spawning, blockedInIo, started,
                   submitted, finished, didIo, locals>>

\* Mutant: the workers being created are not waited for.
ShutdownWaitsNot ==
    /\ pc[Main] = "sd_wait"
    /\ toJoin' = workers
    /\ todo' = Cardinality(workers)
    /\ Goto(Main, "sd_release")
    /\ UNCHANGED <<ready, count, asleep, pool, submitted, finished, didIo, task, c,
                   rounds, seen, made, leaving>>

\* spawnedCv_.wait: no worker is being created any more; `pool` is copied.
ShutdownWaits ==
    /\ pc[Main] = "sd_wait"
    /\ spawning = 0
    /\ toJoin' = workers
    /\ todo' = Cardinality(workers)
    /\ Goto(Main, "sd_release")
    /\ UNCHANGED <<ready, count, asleep, pool, submitted, finished, didIo, task, c,
                   rounds, seen, made, leaving>>

\* Every permit is released; join every worker of the copy, then clear.
Join ==
    /\ pc[Main] = "sd_release"
    /\ todo = 0
    /\ \A w \in toJoin : pc[w] = "exit"
    /\ toJoin' = {}
    /\ workers' = {}
    /\ started' = FALSE
    /\ Goto(Main, "done")
    /\ UNCHANGED <<ready, count, asleep, spawning, blockedInIo, shuttingDown, submitted,
                   finished, didIo, task, c, rounds, seen, made, todo, leaving>>

-----------------------------------------------------------------------------
\* What a thread does without deciding anything.
Step(t) ==
    \/ Reserve(t) \/ Create(t) \/ Register(t)
    \/ Release(t) \/ Notify(t)
    \/ Drain(t) \/ DrainEmpty(t) \/ CheckShutdown(t) \/ FinishTurn(t)
    \/ AcquireLoad(t) \/ AcquireCas(t) \/ Wait(t) \/ Wake(t)
    \/ BlockingCheck(t) \/ LeaveBlocking(t)

MainStep == SpawnLoop \/ ShutdownWaits \/ Join

\* The program is over.
Terminated == pc[Main] = "done" /\ UNCHANGED vars

Next ==
    \/ \E t \in Threads : Step(t)
    \/ MainStep
    \/ EnsureStarted \/ Shutdown \/ Terminated
    \/ \E t \in Threads, k \in Tasks : Submit(t, k)
    \/ \E t \in Workers : EnterBlocking(t)

Spec == Init /\ [][Next]_vars

-----------------------------------------------------------------------------
Alive(w) == pc[w] \notin {"unborn", "exit"}

\* A worker has counted itself as blocked and not yet decided about growth.
Growing == \E t \in Threads : pc[t] \in {"blocking", "reserve", "create"}

MayGrow == started /\ ~shuttingDown /\ ~Growing /\ Total < kMaxWorkers /\ ThreadsLeft

BlockedWorkers == {w \in Workers : pc[w] = "blocked"}

\* The fields of the pool keep their types: spawning_ and blockedInIo_ never fall
\* below zero nor outgrow the threads, and shutdown joins registered workers.
TypeOK ==
    /\ ready \subseteq Tasks
    /\ count \in Nat
    /\ asleep \subseteq Workers
    /\ workers \subseteq Workers
    /\ spawning \in 0..Cardinality(Threads)
    /\ blockedInIo \in 0..Cardinality(Workers)
    /\ started \in BOOLEAN /\ shuttingDown \in BOOLEAN
    /\ submitted \subseteq Tasks /\ finished \subseteq submitted /\ didIo \subseteq submitted
    /\ task \in [Threads -> Tasks \cup {NoTask}]
    /\ c \in [Threads -> Nat]
    /\ rounds \in [Threads -> 0..kSpinRounds]
    /\ seen \in [Threads -> 0..Cardinality(Workers)]
    /\ made \in [Threads -> SUBSET Workers]
    /\ todo \in Nat
    /\ toJoin \subseteq workers
    /\ leaving \subseteq Workers

\* total - blocked in enterBlocking is a size_t: it never wraps, because a
\* worker that blocks is registered or its creator still holds its slot.  Nor
\* does a counter: spawning_ and blockedInIo_ stay within the threads (TypeOK).
NoUnderflow ==
    /\ TypeOK
    /\ \A t \in Threads : pc[t] = "blocking" => seen[t] <= Total

\* Blocking I/O cannot starve the pool: while the pool may still grow, some
\* worker is not blocked once every worker that blocks has decided.
NeverStarved ==
    MayGrow /\ workers # {}
      => Cardinality(BlockedWorkers) < Cardinality({w \in Workers : Alive(w)})

\* "Joins every worker": no worker outlives shutdown, one that another worker
\* was creating when it began included.
AllJoined == pc[Main] = "done" => \A w \in Workers : ~Alive(w)

\* Every turn that was queued before the workers left has run.
DrainedAtShutdown == pc[Main] = "done" => ready = {} /\ finished = submitted

-----------------------------------------------------------------------------
\* The operating system runs every thread, and every turn ends.
FairSpec ==
    Spec /\ WF_vars(MainStep) /\ \A t \in Threads : WF_vars(Step(t))

\* What k's I/O waits for is queued too, or is not a turn of this pool.
Answerable(k) == k \in submitted /\ Needs[k] \in submitted \cup {NoTask}

\* Until shutdown begins a queued turn runs to its end: no wake-up is lost
\* between release and acquire, and the workers blocked in I/O never keep the
\* turn that answers them from a thread.
TasksRun == \A k \in Tasks : Answerable(k) ~> (k \in finished \/ shuttingDown)

\* enterBlocking's comment has no such exception: an actor waiting on I/O that
\* another actor must answer cannot starve the pool.
TasksRunAlways == \A k \in Tasks : Answerable(k) ~> (k \in finished)

\* A worker waits for a turn that has not run.
Stuck == \E w \in Workers : pc[w] = "blocked" /\ Needs[task[w]] \notin finished \cup {NoTask}

\* shutdown returns when every I/O is answered: each sleeping worker gets a
\* permit, and each worker that was being created is joined.
ShutdownReturns == (<>[]~Stuck) => (shuttingDown ~> (pc[Main] = "done"))

=============================================================================
