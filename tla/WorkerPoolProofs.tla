-------------------------- MODULE WorkerPoolProofs ---------------------------
(***************************************************************************)
(* What the worker pool promises, for any number of threads the system can *)
(* give, any tasks, any base size and any ceiling.                         *)
(***************************************************************************)
EXTENDS WorkerPool, FiniteSetTheorems, TLAPS

\* Labels: inside a blocking call, inside a turn, and all.
IoLabels == {"blocking", "reserve", "create", "register", "blocked"}
TurnLabels == {"turn", "release", "notify"} \cup IoLabels
WorkerLabels ==
    {"unborn", "drain", "check", "spin", "final", "exit", "acquire", "acquire_cas", "wait",
     "asleep"} \cup TurnLabels
SpawnLabels == {"spawn_loop", "reserve", "create", "register"}
JoinLabels == {"sd_release", "sd_notify"}
MainLabels == {"main", "release", "notify", "sd_wait", "done"} \cup SpawnLabels \cup JoinLabels

\* The sets the counters count.
Spawners == {t \in Threads : pc[t] \in {"create", "register"}}
InIo == {w \in Workers : pc[w] \in IoLabels}
Born == {w \in Workers : pc[w] # "unborn"}
Makers == {t \in Threads : made[t] # {}}

Types ==
    /\ ready \subseteq submitted /\ finished \subseteq submitted /\ didIo \subseteq submitted
    /\ submitted \subseteq Tasks
    /\ count \in Nat
    /\ asleep \subseteq Workers /\ workers \subseteq Workers /\ leaving \subseteq Workers
    /\ spawning \in Nat /\ blockedInIo \in Nat
    /\ started \in BOOLEAN /\ shuttingDown \in BOOLEAN
    /\ pc \in [Threads -> WorkerLabels \cup MainLabels]
    /\ pc[Main] \in MainLabels /\ \A w \in Workers : pc[w] \in WorkerLabels
    /\ task \in [Threads -> Tasks \cup {NoTask}]
    /\ c \in [Threads -> Nat]
    /\ rounds \in [Threads -> 0..kSpinRounds]
    /\ seen \in [Threads -> 0..Cardinality(Workers)]
    /\ made \in [Threads -> SUBSET Workers]
    /\ todo \in Nat

\* A thread's locals agree with where it is: a task in a turn and nowhere else,
\* a positive count to swap.
Locals ==
    /\ \A w \in Workers : IF pc[w] \in TurnLabels THEN task[w] \in submitted ELSE task[w] = NoTask
    /\ \A w \in Workers : pc[w] = "acquire_cas" => c[w] > 0
    /\ \A w \in Workers : w \in leaving \/ pc[w] \in {"final", "exit"} => shuttingDown

\* A thread that has created a worker holds it until it registers it, and every
\* worker there is, is registered or held.  No worker is made only when no thread
\* is left.
Making ==
    /\ \A t \in Threads : made[t] # {} =>
          pc[t] = "register" /\ \E w \in Workers : made[t] = {w} /\ w \notin workers
    /\ \A t, u \in Threads : t # u => made[t] \cap made[u] = {}
    /\ \A t \in Threads : pc[t] = "register" /\ made[t] = {} => Born = Workers
    /\ pc[Main] # "done" => \A w \in Workers :
          w \in Born <=> (w \in workers \/ \E t \in Threads : w \in made[t])

\* Where Main is in the life of the pool.
Phases ==
    /\ pc[Main] \in {"release", "notify", "sd_wait"} \cup SpawnLabels \cup JoinLabels => started
    /\ shuttingDown <=> \/ pc[Main] = "sd_wait" \/ pc[Main] \in JoinLabels
                        \/ (pc[Main] = "done" /\ Born # {})
    /\ ~started /\ ~shuttingDown => Born = {} /\ submitted = {}
    /\ pc[Main] = "done" => ~started
    /\ Born = {} => pc[Main] \in {"spawn_loop", "reserve", "create"} \/ ~started
    /\ Born = {} /\ pc[Main] = "spawn_loop" => todo > 0
    /\ toJoin = IF pc[Main] \in JoinLabels THEN workers ELSE {}
    /\ pc[Main] \in JoinLabels \cup {"done"} => Spawners = {}
    /\ pc[Main] = "done" => \A w \in Workers : ~Alive(w)

\* The last worker to leave leaves no task, and a task that was queued is in the
\* ready stacks, in a worker's hands or over.
Drained ==
    /\ (\A w \in Workers : ~Alive(w)) => ready = {} \/ Born = {}
    /\ \A k \in submitted : k \in ready \/ k \in finished \/ \E w \in Workers : task[w] = k

\* The counters, and what a worker that blocks has read.
Counts ==
    /\ spawning = Cardinality(Spawners)
    /\ blockedInIo = Cardinality(InIo)
    /\ pc[Main] # "done" => Cardinality(Born) = Cardinality(workers) + Cardinality(Makers)
    /\ \A w \in Workers : pc[w] = "blocking" => seen[w] <= Cardinality(Born)

\* When every worker is in a blocking call, one of them is still to decide and has
\* counted them all, or a new worker is on its way.
Grows ==
    ~shuttingDown /\ ThreadsLeft /\ Born # {} /\ Born \subseteq InIo =>
        \/ Total >= kMaxWorkers
        \/ \E t \in Threads : pc[t] \in {"reserve", "create"}
        \/ \E w \in Workers : pc[w] = "blocking" /\ seen[w] >= Cardinality(Born)

\* The inductive invariant.
IInv == Types /\ Locals /\ Making /\ Phases /\ Drained /\ Counts /\ Grows

-----------------------------------------------------------------------------
(* Types.                                                                  *)

\* Main is no worker.
LEMMA MainApart == Main \in Threads /\ Main \notin Workers /\ Workers \subseteq Threads
  BY ConstantsAssumption, Zenon DEF Threads

\* Sets of threads are finite.
LEMMA Finite ==
    \A S : S \subseteq Threads => IsFiniteSet(S) /\ Cardinality(S) \in Nat
  <1>1. IsFiniteSet(Threads)
    BY ConstantsAssumption, FS_AddElement, Zenon DEF Threads
  <1> QED
    BY <1>1, FS_Subset, FS_CardinalityType, Zenon

\* A set of threads with one more.
LEMMA OneMore ==
    \A S, x : S \subseteq Threads /\ x \in Threads /\ x \notin S =>
              Cardinality(S \cup {x}) = Cardinality(S) + 1
  BY Finite, FS_AddElement, Zenon

\* A set of threads with one less.
LEMMA OneLess ==
    \A S, x : S \subseteq Threads /\ x \in S =>
              Cardinality(S \ {x}) = Cardinality(S) - 1 /\ Cardinality(S) > 0
  <1> SUFFICES ASSUME NEW S, NEW x, S \subseteq Threads, x \in S
               PROVE  Cardinality(S \ {x}) = Cardinality(S) - 1 /\ Cardinality(S) > 0
    BY Zenon
  <1>1. /\ Cardinality(S \ {x}) = Cardinality(S) - 1
        /\ Cardinality(S) \in Nat /\ Cardinality(S \ {x}) \in Nat
    BY Finite, FS_RemoveElement, Zenon
  <1> QED
    BY <1>1

\* A part of a set of threads.
LEMMA NoMore ==
    \A S, T : T \subseteq Threads /\ S \subseteq T =>
              /\ Cardinality(S) <= Cardinality(T)
              /\ Cardinality(S) = Cardinality(T) => S = T
  BY Finite, FS_Subset, Zenon

\* No counter falls below zero or outgrows the threads.
LEMMA Numbers ==
    ASSUME Types, Counts
    PROVE  /\ Cardinality(Workers) \in Nat /\ Cardinality(workers) \in Nat
           /\ \A t \in Threads : pc[t] \in {"create", "register"} => spawning > 0
           /\ spawning = 0 => Spawners = {}
           /\ \A w \in Workers : pc[w] \in IoLabels => blockedInIo > 0
           /\ \A w \in Workers : pc[w] \notin IoLabels => blockedInIo + 1 <= Cardinality(Workers)
  <1>1. Workers \subseteq Threads /\ workers \subseteq Threads
    BY Zenon DEF Threads, Types
  <1>2. ASSUME NEW t \in Threads, pc[t] \in {"create", "register"}  PROVE spawning > 0
    <2>1. Spawners \subseteq Threads /\ t \in Spawners
      BY <1>2, Zenon DEF Spawners
    <2> QED
      BY <2>1, OneLess, Zenon DEF Counts
  <1>3. ASSUME NEW w \in Workers, pc[w] \in IoLabels  PROVE blockedInIo > 0
    <2>1. InIo \subseteq Threads /\ w \in InIo
      BY <1>1, <1>3, Zenon DEF InIo
    <2> QED
      BY <2>1, OneLess, Zenon DEF Counts
  <1>4. ASSUME NEW w \in Workers, pc[w] \notin IoLabels
        PROVE  blockedInIo + 1 <= Cardinality(Workers)
    <2>1. InIo \subseteq Threads /\ w \notin InIo /\ InIo \cup {w} \subseteq Workers
      BY <1>1, <1>4, Zenon DEF InIo
    <2>2. Cardinality(InIo \cup {w}) = Cardinality(InIo) + 1
      BY <1>1, <2>1, OneMore, Zenon
    <2> QED
      BY <1>1, <2>1, <2>2, NoMore DEF Counts
  <1>5. spawning = 0 => Spawners = {}
    BY <1>2 DEF Spawners
  <1> QED
    BY <1>1, <1>2, <1>3, <1>4, <1>5, Finite, Zenon

\* Every step keeps the types.
LEMMA TypesStep ==
    ASSUME Types, Locals, Counts, [Next]_vars
    PROVE  Types'
  <1> USE MainApart DEF Types, Threads, IoLabels, TurnLabels, WorkerLabels, SpawnLabels,
          JoinLabels, MainLabels
  <1>1. CASE UNCHANGED vars
    BY <1>1, Zenon DEF vars, pool, locals
  <1>2. ASSUME NEW t \in Threads, Reserve(t)  PROVE Types'
    BY <1>2 DEF Reserve, Goto, pool, locals, AfterSpawn
  <1>3. ASSUME NEW t \in Threads, Create(t)  PROVE Types'
    BY <1>3 DEF Create, Goto, pool, locals
  <1>4. ASSUME NEW t \in Threads, Register(t)  PROVE Types'
    BY <1>4, Numbers DEF Register, Goto, pool, locals, AfterSpawn
  <1>5. ASSUME NEW t \in Threads, Release(t)  PROVE Types'
    BY <1>5 DEF Release, Goto, pool, locals
  <1>6. ASSUME NEW t \in Threads, Notify(t)  PROVE Types'
    BY <1>6 DEF Notify, Goto, pool, locals
  <1>7. ASSUME NEW t \in Threads, Drain(t)  PROVE Types'
    BY <1>7, ConstantsAssumption DEF Drain, Goto, pool, locals
  <1>8. ASSUME NEW t \in Threads, DrainEmpty(t)  PROVE Types'
    BY <1>8, ConstantsAssumption DEF DrainEmpty, Goto, pool, locals
  <1>9. ASSUME NEW t \in Threads, CheckShutdown(t)  PROVE Types'
    BY <1>9, Zenon DEF CheckShutdown, Goto, pool, locals
  <1>10. ASSUME NEW t \in Threads, FinishTurn(t)  PROVE Types'
    BY <1>10 DEF FinishTurn, Locals, Goto, pool, locals
  <1>11. ASSUME NEW t \in Threads, AcquireLoad(t)  PROVE Types'
    BY <1>11, Zenon DEF AcquireLoad, Goto, pool, locals
  <1>12. ASSUME NEW t \in Threads, AcquireCas(t)  PROVE Types'
    BY <1>12 DEF AcquireCas, Locals, Goto, pool, locals
  <1>13. ASSUME NEW t \in Threads, Wait(t)  PROVE Types'
    BY <1>13 DEF Wait, Goto, pool, locals
  <1>14. ASSUME NEW t \in Threads, Wake(t)  PROVE Types'
    BY <1>14, Zenon DEF Wake, Goto, pool, locals
  <1>15. ASSUME NEW t \in Threads, BlockingCheck(t)  PROVE Types'
    BY <1>15, Numbers DEF BlockingCheck, Goto, pool, locals
  <1>16. ASSUME NEW t \in Threads, LeaveBlocking(t)  PROVE Types'
    BY <1>16, Numbers DEF LeaveBlocking, Goto, pool, locals
  <1>17. CASE SpawnLoop
    BY <1>17 DEF SpawnLoop, Goto, pool, locals
  <1>18. CASE ShutdownWaits
    BY <1>18, Numbers, Zenon DEF ShutdownWaits, Goto, pool, locals
  <1>19. CASE Join
    BY <1>19, Zenon DEF Join, Goto, pool, locals
  <1>20. CASE EnsureStarted
    BY <1>20, ConstantsAssumption, Zenon DEF EnsureStarted, Goto, pool, locals
  <1>21. CASE Shutdown
    <2>1. \/ shuttingDown' = TRUE /\ Goto(Main, "sd_wait")
          \/ shuttingDown' = shuttingDown /\ Goto(Main, "done")
      BY <1>21, Zenon DEF Shutdown
    <2>2. \/ shuttingDown' = TRUE /\ pc' = [pc EXCEPT ![Main] = "sd_wait"]
          \/ shuttingDown' = shuttingDown /\ pc' = [pc EXCEPT ![Main] = "done"]
      BY <2>1, Zenon DEF Goto
    <2>3. shuttingDown' \in BOOLEAN
      BY <2>2, Zenon
    <2>4. /\ pc' \in [Threads -> WorkerLabels \cup MainLabels]
          /\ pc'[Main] \in MainLabels /\ \A w \in Workers : pc'[w] \in WorkerLabels
      BY <2>2
    <2>5. UNCHANGED <<ready, count, asleep, workers, spawning, blockedInIo, started, submitted,
                      finished, didIo, task, c, rounds, seen, made, todo, toJoin, leaving>>
      BY <1>21, Zenon DEF Shutdown, locals
    <2> QED
      BY <2>3, <2>4, <2>5, Zenon
  <1>22. CASE Terminated
    BY <1>22, Zenon DEF Terminated, vars, pool, locals
  <1>23. ASSUME NEW t \in Threads, NEW k \in Tasks, Submit(t, k)  PROVE Types'
    BY <1>23 DEF Submit, Goto, pool, locals
  <1>24. ASSUME NEW t \in Workers, EnterBlocking(t)  PROVE Types'
    <2>1. /\ pc[t] = "turn" /\ pc' = [pc EXCEPT ![t] = "blocking"]
          /\ didIo' = didIo \cup {task[t]} /\ blockedInIo' = blockedInIo + 1
          /\ seen' = [seen EXCEPT ![t] = blockedInIo + 1]
          /\ UNCHANGED <<ready, count, asleep, workers, spawning, started, shuttingDown,
                         submitted, finished, task, c, rounds, made, todo, toJoin, leaving>>
      BY <1>24, Zenon DEF EnterBlocking, Goto
    <2>2. blockedInIo' \in Nat /\ seen' \in [Threads -> 0..Cardinality(Workers)]
      BY <2>1, Numbers
    <2>3. didIo' \subseteq submitted'
      BY <2>1 DEF Locals
    <2>4. /\ pc' \in [Threads -> WorkerLabels \cup MainLabels]
          /\ pc'[Main] \in MainLabels /\ \A w \in Workers : pc'[w] \in WorkerLabels
      BY <2>1
    <2> QED
      BY <2>1, <2>2, <2>3, <2>4, Zenon
  <1> QED
    BY <1>1, <1>2, <1>3, <1>4, <1>5, <1>6, <1>7, <1>8, <1>9, <1>10, <1>11, <1>12,
       <1>13, <1>14, <1>15, <1>16, <1>17, <1>18, <1>19, <1>20, <1>21, <1>22, <1>23,
       <1>24, Zenon DEF Next, Step, MainStep

\* Every step keeps the locals.
LEMMA LocalsStep ==
    ASSUME Types, Locals, [Next]_vars
    PROVE  Locals'
  <1> USE MainApart, ConstantsAssumption DEF Types, Threads, IoLabels, TurnLabels,
        WorkerLabels, SpawnLabels, JoinLabels, MainLabels, Locals
  <1>1. CASE UNCHANGED vars
    BY <1>1, Zenon DEF vars, pool, locals
  <1>2. ASSUME NEW t \in Threads, Reserve(t)  PROVE Locals'
    BY <1>2 DEF Reserve, Goto, pool, locals, AfterSpawn
  <1>3. ASSUME NEW t \in Threads, Create(t)  PROVE Locals'
    BY <1>3 DEF Create, Goto, pool, locals
  <1>4. ASSUME NEW t \in Threads, Register(t)  PROVE Locals'
    BY <1>4 DEF Register, Goto, pool, locals, AfterSpawn
  <1>5. ASSUME NEW t \in Threads, Release(t)  PROVE Locals'
    BY <1>5, Zenon DEF Release, Goto, pool, locals
  <1>6. ASSUME NEW t \in Threads, Notify(t)  PROVE Locals'
    BY <1>6 DEF Notify, Goto, pool, locals
  <1>7. ASSUME NEW t \in Threads, Drain(t)  PROVE Locals'
    BY <1>7 DEF Drain, Goto, pool, locals
  <1>8. ASSUME NEW t \in Threads, DrainEmpty(t)  PROVE Locals'
    BY <1>8, Zenon DEF DrainEmpty, Goto, pool, locals
  <1>9. ASSUME NEW t \in Threads, CheckShutdown(t)  PROVE Locals'
    BY <1>9, Zenon DEF CheckShutdown, Goto, pool, locals
  <1>10. ASSUME NEW t \in Threads, FinishTurn(t)  PROVE Locals'
    BY <1>10, Zenon DEF FinishTurn, Goto, pool, locals
  <1>11. ASSUME NEW t \in Threads, AcquireLoad(t)  PROVE Locals'
    BY <1>11, Zenon DEF AcquireLoad, Goto, pool, locals
  <1>12. ASSUME NEW t \in Threads, AcquireCas(t)  PROVE Locals'
    BY <1>12 DEF AcquireCas, Goto, pool, locals
  <1>13. ASSUME NEW t \in Threads, Wait(t)  PROVE Locals'
    BY <1>13 DEF Wait, Goto, pool, locals
  <1>14. ASSUME NEW t \in Threads, Wake(t)  PROVE Locals'
    BY <1>14, Zenon DEF Wake, Goto, pool, locals
  <1>15. ASSUME NEW t \in Threads, BlockingCheck(t)  PROVE Locals'
    BY <1>15, Zenon DEF BlockingCheck, Goto, pool, locals
  <1>16. ASSUME NEW t \in Threads, LeaveBlocking(t)  PROVE Locals'
    BY <1>16, Zenon DEF LeaveBlocking, Goto, pool, locals
  <1>17. CASE SpawnLoop
    BY <1>17 DEF SpawnLoop, Goto, pool, locals
  <1>18. CASE ShutdownWaits
    BY <1>18, Zenon DEF ShutdownWaits, Goto, pool, locals
  <1>19. CASE Join
    BY <1>19, Zenon DEF Join, Goto, pool, locals
  <1>20. CASE EnsureStarted
    BY <1>20, Zenon DEF EnsureStarted, Goto, pool, locals
  <1>21. CASE Shutdown
    BY <1>21 DEF Shutdown, Goto, pool, locals
  <1>22. CASE Terminated
    BY <1>22, Zenon DEF Terminated, vars, pool, locals
  <1>23. ASSUME NEW t \in Threads, NEW k \in Tasks, Submit(t, k)  PROVE Locals'
    BY <1>23, Zenon DEF Submit, Goto, pool, locals
  <1>24. ASSUME NEW t \in Workers, EnterBlocking(t)  PROVE Locals'
    BY <1>24, Zenon DEF EnterBlocking, Goto, pool, locals
  <1> QED
    BY <1>1, <1>2, <1>3, <1>4, <1>5, <1>6, <1>7, <1>8, <1>9, <1>10, <1>11, <1>12,
       <1>13, <1>14, <1>15, <1>16, <1>17, <1>18, <1>19, <1>20, <1>21, <1>22, <1>23,
       <1>24, Zenon DEF Next, Step, MainStep

\* One thread moves between labels that the counters do not tell apart.
Strolls(t) ==
    /\ pc[t] \notin {"unborn", "reserve", "create", "register", "blocking", "blocked", "done"}
    /\ pc'[t] \notin {"unborn", "create", "register", "blocking", "blocked"}
    /\ t # Main => pc'[t] # "reserve"
    /\ \A u \in Threads : u # t => pc'[u] = pc[u]
    /\ UNCHANGED <<spawning, blockedInIo, workers, seen, made>>
    /\ shuttingDown => shuttingDown'

\* The steps of a thread, or of Main, that move it so.
LEMMA StrollSteps ==
    ASSUME Types, NEW t \in Threads
    PROVE  /\ t = Main /\ (SpawnLoop \/ ShutdownWaits \/ EnsureStarted \/ Shutdown) => Strolls(t)
           /\ \/ Release(t) \/ Notify(t) \/ Drain(t) \/ DrainEmpty(t) \/ CheckShutdown(t)
              \/ FinishTurn(t) \/ AcquireLoad(t) \/ AcquireCas(t) \/ Wait(t) \/ Wake(t)
              => Strolls(t)
           /\ \A k \in Tasks : Submit(t, k) => Strolls(t)
  <1>1. \A l : Goto(t, l) => pc'[t] = l /\ \A u \in Threads : u # t => pc'[u] = pc[u]
    BY Zenon DEF Goto, Types
  <1> USE <1>1, MainApart DEF Strolls, pool, locals
  <1>2. t = Main /\ SpawnLoop => Strolls(t)
    BY DEF SpawnLoop
  <1>3. t = Main /\ ShutdownWaits => Strolls(t)
    BY DEF ShutdownWaits
  <1>4. t = Main /\ EnsureStarted => Strolls(t)
    BY DEF EnsureStarted
  <1>5. t = Main /\ Shutdown => Strolls(t)
    BY DEF Shutdown
  <1>6. Release(t) => Strolls(t)
    BY DEF Release
  <1>7. Notify(t) => Strolls(t)
    BY DEF Notify
  <1>8. Drain(t) => Strolls(t)
    BY DEF Drain
  <1>9. DrainEmpty(t) => Strolls(t)
    BY DEF DrainEmpty
  <1>10. CheckShutdown(t) => Strolls(t)
    BY DEF CheckShutdown
  <1>11. FinishTurn(t) => Strolls(t)
    BY DEF FinishTurn
  <1>12. AcquireLoad(t) => Strolls(t)
    BY DEF AcquireLoad
  <1>13. AcquireCas(t) => Strolls(t)
    BY DEF AcquireCas
  <1>14. Wait(t) => Strolls(t)
    BY DEF Wait
  <1>15. Wake(t) => Strolls(t)
    BY DEF Wake
  <1>16. ASSUME NEW k \in Tasks, Submit(t, k)  PROVE Strolls(t)
    BY <1>16 DEF Submit
  <1> HIDE <1>1 DEF Strolls
  <1> QED
    BY <1>2, <1>3, <1>4, <1>5, <1>6, <1>7, <1>8, <1>9, <1>10, <1>11, <1>12, <1>13,
       <1>14, <1>15, <1>16, Zenon

\* Such a move keeps the workers that are being made.
LEMMA StrollMaking ==
    ASSUME Making, NEW t \in Threads, Strolls(t)
    PROVE  Making'
  <1>1. Born' = Born
    BY DEF Strolls, Born, Threads
  <1>2. /\ UNCHANGED <<workers, made>>
        /\ pc'[Main] # "done" => pc[Main] # "done"
        /\ \A u \in Threads : pc'[u] = "register" <=> pc[u] = "register"
    BY MainApart DEF Strolls
  <1> QED
    BY <1>1, <1>2, Zenon DEF Making

\* Every step keeps the new workers accounted for.
LEMMA MakingStep ==
    ASSUME Types, Making, Phases, [Next]_vars
    PROVE  Making'
  <1> USE MainApart
  <1>0. \A t, l : t \in Threads /\ Goto(t, l) =>
                  pc'[t] = l /\ \A u \in Threads : u # t => pc'[u] = pc[u]
    BY DEF Goto, Types
  <1>1. ASSUME NEW t \in Threads, Strolls(t)  PROVE Making'
    BY <1>1, StrollMaking, Zenon
  <1>2. CASE UNCHANGED vars
    <2>1. Born' = Born /\ UNCHANGED <<pc, workers, made>>
      BY <1>2, Zenon DEF vars, pool, locals, Born
    <2> QED
      BY <2>1, Zenon DEF Making
  <1>3. ASSUME NEW t \in Threads, Create(t)  PROVE Making'
    <2>0. pc[t] = "create" /\ made[t] = {} /\ pc[Main] # "done" /\ workers' = workers
      BY <1>3 DEF Create, pool, Phases, Spawners, Making
    <2>1. ASSUME NEW w \in Workers, pc[w] = "unborn",
                 pc' = [pc EXCEPT ![t] = "register", ![w] = "drain"],
                 made' = [made EXCEPT ![t] = {w}]
          PROVE  Making'
      <3>1. w # t /\ w \notin Born /\ w \notin workers /\ \A u \in Threads : w \notin made[u]
        BY <2>0, <2>1 DEF Making, Born, Threads
      <3>2. /\ pc'[t] = "register" /\ pc'[w] = "drain"
            /\ \A u \in Threads : u \notin {t, w} => pc'[u] = pc[u]
        BY <2>1, <3>1 DEF Types, Threads
      <3>3. made'[t] = {w} /\ \A u \in Threads : u # t => made'[u] = made[u]
        BY <2>1 DEF Types
      <3>4. \A u \in Workers : u \in Born' <=> u \in Born \/ u = w
        BY <2>0, <3>1, <3>2 DEF Born, Threads
      <3>5. \A u, v \in Threads : u # v => made'[u] \cap made'[v] = {}
        BY <3>1, <3>3 DEF Making
      <3>6. \A u \in Threads : made'[u] # {} =>
               pc'[u] = "register" /\ \E x \in Workers : made'[u] = {x} /\ x \notin workers'
        <4>1. \A u \in Threads : u # t /\ made'[u] # {} =>
                 pc'[u] = "register" /\ \E x \in Workers : made'[u] = {x} /\ x \notin workers
          <5>1. \A u \in Threads : pc[u] = "register" /\ u # t => pc'[u] = "register"
            BY <3>2, <2>1
          <5> QED
            BY <3>3, <5>1, Zenon DEF Making
        <4>2. pc'[t] = "register" /\ made'[t] = {w} /\ w \notin workers
          BY <3>1, <3>2, <3>3, Zenon
        <4> QED
          BY <2>0, <4>1, <4>2, Zenon
      <3>7. \A u \in Threads : pc'[u] = "register" /\ made'[u] = {} => Born' = Workers
        <4>1. \A u \in Threads : pc'[u] = "register" /\ made'[u] = {} =>
                 pc[u] = "register" /\ made[u] = {}
          BY <3>2, <3>3
        <4>2. Born # Workers
          BY <3>1
        <4> QED
          BY <4>1, <4>2, Zenon DEF Making
      <3>8. \A x \in Workers : x \in Born' <=> (x \in workers' \/ \E u \in Threads : x \in made'[u])
        BY <2>0, <3>1, <3>3, <3>4 DEF Making
      <3> QED
        BY <3>5, <3>6, <3>7, <3>8, Zenon DEF Making
    <2>2. CASE ~ThreadsLeft /\ Goto(t, "register") /\ UNCHANGED made
      <3>1. /\ Born' = Workers /\ Born = Workers
            /\ pc'[t] = "register" /\ \A u \in Threads : u # t => pc'[u] = pc[u]
        BY <1>0, <2>0, <2>2 DEF ThreadsLeft, Born, Threads
      <3> QED
        BY <2>0, <2>2, <3>1 DEF Making
    <2> QED
      BY <1>3, <2>1, <2>2, Zenon DEF Create
  <1>4. ASSUME NEW t \in Threads,
               \/ Reserve(t) \/ BlockingCheck(t) \/ LeaveBlocking(t) \/ EnterBlocking(t)
        PROVE  Making'
    <2>1. /\ pc[t] \in {"reserve", "blocking", "blocked", "turn"}
          /\ pc'[t] \in {"spawn_loop", "create", "reserve", "blocking", "blocked", "turn"}
          /\ \A u \in Threads : u # t => pc'[u] = pc[u]
          /\ UNCHANGED <<workers, made>>
      BY <1>0, <1>4 DEF Reserve, BlockingCheck, LeaveBlocking, EnterBlocking, AfterSpawn, pool, locals
    <2>2. Born' = Born
      BY <2>1 DEF Born, Threads
    <2>3. /\ pc'[Main] # "done" => pc[Main] # "done"
          /\ \A u \in Threads : pc'[u] = "register" <=> pc[u] = "register"
      BY <2>1
    <2> QED
      BY <2>1, <2>2, <2>3, Zenon DEF Making
  <1>5. ASSUME NEW t \in Threads, Register(t)  PROVE Making'
    <2>1. /\ pc[t] = "register" /\ pc'[t] = AfterSpawn(t)
          /\ \A u \in Threads : u # t => pc'[u] = pc[u]
      BY <1>0, <1>5, Zenon DEF Register
    <2>2. workers' = workers \cup made[t]
      BY <1>5 DEF Register
    <2>3. made'[t] = {} /\ \A u \in Threads : u # t => made'[u] = made[u]
      BY <1>5 DEF Register, Types
    <2>4. Born' = Born
      BY <2>1 DEF Born, AfterSpawn, Threads
    <2>5. pc'[t] \notin {"register", "done"}
      BY <2>1 DEF AfterSpawn
    <2>6. \A u \in Threads : made'[u] # {} =>
             pc'[u] = "register" /\ \E w \in Workers : made'[u] = {w} /\ w \notin workers'
      <3> SUFFICES ASSUME NEW u \in Threads, made'[u] # {}
                   PROVE  pc'[u] = "register" /\ \E w \in Workers : made'[u] = {w} /\ w \notin workers'
        BY Zenon
      <3>1. u # t /\ made'[u] = made[u]
        BY <2>3, Zenon
      <3>2. PICK w \in Workers : made[u] = {w} /\ w \notin workers
        BY <3>1, Zenon DEF Making
      <3>3. pc'[u] = "register"
        BY <3>1, <2>1, Zenon DEF Making
      <3>4. made[u] \cap made[t] = {}
        BY <3>1, Zenon DEF Making
      <3>5. w \notin workers'
        BY <3>2, <3>4, <2>2
      <3> QED
        BY <3>1, <3>2, <3>3, <3>5, Zenon
    <2>7. \A u, v \in Threads : u # v => made'[u] \cap made'[v] = {}
      BY <2>3 DEF Making
    <2>8. \A u \in Threads : pc'[u] = "register" /\ made'[u] = {} => Born' = Workers
      BY <2>1, <2>3, <2>4, <2>5, Zenon DEF Making
    <2>9. pc'[Main] # "done" => \A w \in Workers :
             w \in Born' <=> (w \in workers' \/ \E u \in Threads : w \in made'[u])
      <3>1. pc[Main] # "done" \/ pc'[Main] = "done"
        BY <2>1
      <3> QED
        BY <3>1, <2>2, <2>3, <2>4 DEF Making
    <2> QED
      BY <2>6, <2>7, <2>8, <2>9, Zenon DEF Making
  <1>6. CASE Join
    <2>1. /\ pc[Main] = "sd_release" /\ pc'[Main] = "done" /\ made' = made /\ workers' = {}
          /\ \A u \in Threads : u # Main => pc'[u] = pc[u]
      BY <1>0, <1>6, Zenon DEF Join
    <2>2. Born' = Born
      BY <2>1 DEF Born, Threads
    <2>3. \A u \in Threads : pc'[u] = "register" <=> pc[u] = "register"
      BY <2>1
    <2> QED
      BY <2>1, <2>2, <2>3 DEF Making
  <1>7. CASE SpawnLoop \/ ShutdownWaits \/ EnsureStarted \/ Shutdown
    BY <1>1, <1>7, StrollSteps, Zenon
  <1>8. ASSUME NEW t \in Threads, Step(t)  PROVE Making'
    BY <1>1, <1>3, <1>4, <1>5, <1>8, StrollSteps, Zenon DEF Step
  <1>9. ASSUME NEW t \in Workers, EnterBlocking(t)  PROVE Making'
    <2>1. t \in Threads
      BY Zenon
    <2> QED
      BY <1>4, <1>9, <2>1, Zenon
  <1>10. ASSUME NEW t \in Threads, NEW k \in Tasks, Submit(t, k)  PROVE Making'
    BY <1>1, <1>10, StrollSteps, Zenon
  <1> QED
    BY <1>2, <1>6, <1>7, <1>8, <1>9, <1>10, Zenon DEF Next, MainStep, Terminated

\* A worker goes on, or leaves, and the pool stays as it is.
Passive(t) ==
    /\ t \in Workers
    /\ pc[t] \notin {"unborn", "exit", "create", "register"}
    /\ pc'[t] \notin {"unborn", "create", "register"}
    /\ \A u \in Threads : u # t => pc'[u] = pc[u]
    /\ UNCHANGED <<started, shuttingDown, workers, submitted, todo, toJoin>>

\* The steps of that kind.
LEMMA PassiveSteps ==
    ASSUME Types, NEW t \in Threads
    PROVE  /\ \/ Drain(t) \/ DrainEmpty(t) \/ CheckShutdown(t) \/ FinishTurn(t)
              \/ AcquireLoad(t) \/ AcquireCas(t) \/ Wait(t) \/ Wake(t)
              \/ BlockingCheck(t) \/ LeaveBlocking(t)
              => Passive(t)
           /\ t \in Workers /\ (Release(t) \/ Notify(t) \/ EnterBlocking(t)) => Passive(t)
  <1>0. /\ pc = [u \in Threads |-> pc[u]]
        /\ pc[Main] \in MainLabels
        /\ t # Main => t \in Workers
        /\ \A u \in Workers : pc[u] \notin JoinLabels
    BY Zenon DEF Types, Threads, WorkerLabels, TurnLabels, IoLabels, JoinLabels
  <1>1. \A l : Goto(t, l) => pc'[t] = l /\ \A u \in Threads : u # t => pc'[u] = pc[u]
    BY <1>0, Zenon DEF Goto
  <1> USE <1>0, <1>1 DEF Passive, pool, locals, MainLabels, SpawnLabels, JoinLabels
  <1>2. Drain(t) => Passive(t)
    BY DEF Drain
  <1>3. DrainEmpty(t) => Passive(t)
    BY DEF DrainEmpty
  <1>4. CheckShutdown(t) => Passive(t)
    BY DEF CheckShutdown
  <1>5. FinishTurn(t) => Passive(t)
    BY DEF FinishTurn
  <1>6. AcquireLoad(t) => Passive(t)
    BY DEF AcquireLoad
  <1>7. AcquireCas(t) => Passive(t)
    BY DEF AcquireCas
  <1>8. Wait(t) => Passive(t)
    BY DEF Wait
  <1>9. Wake(t) => Passive(t)
    BY DEF Wake
  <1>10. BlockingCheck(t) => Passive(t)
    BY DEF BlockingCheck
  <1>11. LeaveBlocking(t) => Passive(t)
    BY DEF LeaveBlocking
  <1>12. t \in Workers /\ Release(t) => Passive(t)
    BY DEF Release
  <1>13. t \in Workers /\ Notify(t) => Passive(t)
    BY DEF Notify
  <1>14. t \in Workers /\ EnterBlocking(t) => Passive(t)
    BY DEF EnterBlocking
  <1> QED
    BY <1>2, <1>3, <1>4, <1>5, <1>6, <1>7, <1>8, <1>9, <1>10, <1>11, <1>12, <1>13, <1>14, Zenon

\* Where Main is, once a worker exists and nobody else moves.
LEMMA PassivePhases ==
    ASSUME Types, Phases, NEW t \in Threads, Passive(t)
    PROVE  Phases'
  <1>1. pc'[Main] = pc[Main]
    BY MainApart, Zenon DEF Passive
  <1>2. Born' = Born
    BY Zenon DEF Passive, Born, Threads
  <1>3. Spawners' = Spawners
    BY Zenon DEF Passive, Spawners
  <1>4. \A w \in Workers : ~Alive(w) => ~Alive(w)'
    BY Zenon DEF Passive, Alive, Threads
  <1>5. UNCHANGED <<started, shuttingDown, workers, submitted, todo, toJoin>>
    BY Zenon DEF Passive
  <1> QED
    BY <1>1, <1>2, <1>3, <1>4, <1>5, Zenon DEF Phases

\* Every step keeps the phases.
LEMMA PhasesStep ==
    ASSUME Types, Locals, Making, Phases, Counts, [Next]_vars
    PROVE  Phases'
  <1>0. /\ pc = [t \in Threads |-> pc[t]]
        /\ pc[Main] \in MainLabels
        /\ todo \in Nat /\ started \in BOOLEAN /\ shuttingDown \in BOOLEAN
    BY Zenon DEF Types
  <1>a. \A t, l : t \in Threads /\ Goto(t, l) =>
                  pc'[t] = l /\ \A u \in Threads : u # t => pc'[u] = pc[u]
    BY <1>0, Zenon DEF Goto
  <1> USE MainApart
  <1>1. CASE UNCHANGED vars
    <2>1. Born' = Born /\ Spawners' = Spawners /\ \A w \in Workers : Alive(w)' <=> Alive(w)
      BY <1>1, Zenon DEF vars, Born, Spawners, Alive
    <2> QED
      BY <1>1, <2>1, Zenon DEF vars, pool, locals, Phases
  <1>2. ASSUME NEW t \in Threads, Passive(t)  PROVE Phases'
    BY <1>2, PassivePhases, Zenon
  <1>3. ASSUME NEW t \in Threads, Reserve(t)  PROVE Phases'
    <2>1. /\ pc[t] = "reserve" /\ pc'[t] \in {AfterSpawn(t), "create"}
          /\ pc'[t] = "create" <=> ~shuttingDown
          /\ \A u \in Threads : u # t => pc'[u] = pc[u]
          /\ UNCHANGED <<started, shuttingDown, workers, submitted, todo, toJoin>>
      BY <1>3, <1>a DEF Reserve, locals, AfterSpawn
    <2>2. Born' = Born /\ \A w \in Workers : Alive(w)' <=> Alive(w)
      BY <2>1, Zenon DEF Born, Alive, AfterSpawn, Threads
    <2>3. shuttingDown => Spawners' = Spawners
      BY <2>1, Zenon DEF Spawners, AfterSpawn
    <2>4. CASE t = Main
      <3>1. ~shuttingDown /\ started
        BY <2>1, <2>4, Zenon DEF Phases, JoinLabels, SpawnLabels
      <3>2. pc'[Main] = "create" /\ toJoin = {}
        BY <2>1, <2>4, <3>1, Zenon DEF Phases, JoinLabels
      <3> QED
        BY <2>1, <2>2, <3>1, <3>2, Zenon DEF Phases, SpawnLabels, JoinLabels
    <2>5. CASE t # Main
      <3>1. pc'[Main] = pc[Main]
        BY <2>1, <2>5, Zenon
      <3>2. pc[Main] \in JoinLabels \cup {"done"} => Spawners' = {}
        BY <2>2, <2>3, <2>1, <2>5, Zenon DEF Phases, Alive, Threads
      <3> QED
        BY <2>1, <2>2, <3>1, <3>2, Zenon DEF Phases
    <2> QED
      BY <2>4, <2>5, Zenon
  <1>4. ASSUME NEW t \in Threads, Create(t)  PROVE Phases'
    <2>1. /\ pc[t] = "create" /\ t \in Spawners
          /\ UNCHANGED <<started, shuttingDown, workers, submitted, todo, toJoin>>
      BY <1>4, Zenon DEF Create, pool, Spawners
    <2>2. pc[Main] \notin JoinLabels \cup {"done"} /\ toJoin = {}
      BY <2>1, Zenon DEF Phases
    <2>3. /\ pc'[t] = "register" /\ Born' # {}
          /\ pc'[Main] = IF t = Main THEN "register" ELSE pc[Main]
      <3>1. CASE \E w \in Workers :
                    pc[w] = "unborn" /\ pc' = [pc EXCEPT ![t] = "register", ![w] = "drain"]
        <4>1. PICK w \in Workers :
                    pc[w] = "unborn" /\ pc' = [pc EXCEPT ![t] = "register", ![w] = "drain"]
          BY <3>1, Zenon
        <4>2. pc' = [u \in Threads |-> IF u = w THEN "drain" ELSE IF u = t THEN "register" ELSE pc[u]]
          BY <4>1, <2>1, <1>0, Zenon
        <4>3. w # t /\ w # Main
          BY <4>1, <2>1, Zenon
        <4> QED
          BY <4>2, <4>3, Zenon DEF Born
      <3>2. CASE ~ThreadsLeft /\ Goto(t, "register")
        <4>1. pc'[t] = "register" /\ \A u \in Threads : u # t => pc'[u] = pc[u]
          BY <3>2, <1>a, Zenon
        <4>2. Born = Workers /\ Born # {}
          BY <3>2, ConstantsAssumption, Zenon DEF ThreadsLeft, Born
        <4>3. Born' = Born
          BY <4>1, <2>1, Zenon DEF Born, Threads
        <4> QED
          BY <4>1, <4>2, <4>3, Zenon
      <3> QED
        BY <1>4, <3>1, <3>2, Zenon DEF Create
    <2>4. started
      BY <2>1, <2>2, Zenon DEF Phases, Born, Threads, SpawnLabels
    <2> QED
      BY <2>1, <2>2, <2>3, <2>4, Zenon DEF Phases, SpawnLabels, JoinLabels
  <1>5. ASSUME NEW t \in Threads, Register(t)  PROVE Phases'
    <2>1. /\ pc[t] = "register" /\ t \in Spawners /\ pc'[t] = AfterSpawn(t)
          /\ \A u \in Threads : u # t => pc'[u] = pc[u]
          /\ UNCHANGED <<started, shuttingDown, submitted, todo, toJoin>>
      BY <1>5, <1>a, Zenon DEF Register, Spawners
    <2>2. pc[Main] \notin JoinLabels \cup {"done"} /\ toJoin = {}
      BY <2>1, Zenon DEF Phases
    <2>3. Born' = Born
      BY <2>1, Zenon DEF Born, AfterSpawn, Threads
    <2>4. CASE t = Main
      <3>1. Born # {} /\ started /\ ~shuttingDown
        BY <2>1, <2>4, Zenon DEF Phases, SpawnLabels, JoinLabels
      <3> QED
        BY <2>1, <2>2, <2>3, <2>4, <3>1, Zenon DEF Phases, AfterSpawn, SpawnLabels, JoinLabels
    <2>5. CASE t # Main
      <3>1. pc'[Main] = pc[Main]
        BY <2>1, <2>5, Zenon
      <3> QED
        BY <2>1, <2>2, <2>3, <3>1, Zenon DEF Phases
    <2> QED
      BY <2>4, <2>5
  <1>6. ASSUME pc[Main] \notin {"create", "register"}, pc'[Main] \notin {"create", "register"},
               \A w \in Workers : pc'[w] = pc[w]
        PROVE  Born' = Born /\ Spawners' = Spawners /\ \A w \in Workers : Alive(w)' <=> Alive(w)
    BY <1>6, Zenon DEF Born, Spawners, Alive, Threads
  <1>7. \A l : Goto(Main, l) => pc'[Main] = l /\ \A w \in Workers : pc'[w] = pc[w]
    BY <1>a, Zenon DEF Threads
  <1>8. CASE Release(Main) \/ Notify(Main)
    <2>1. /\ \/ pc[Main] = "release" /\ pc'[Main] = "notify" /\ todo' = todo
             \/ pc[Main] = "notify" /\ pc'[Main] = "main" /\ todo' = todo
             \/ pc[Main] \in JoinLabels /\ pc'[Main] \in JoinLabels
          /\ \A w \in Workers : pc'[w] = pc[w]
          /\ UNCHANGED <<started, shuttingDown, workers, submitted, toJoin>>
      BY <1>7, <1>8, Zenon DEF Release, Notify, pool, locals, JoinLabels
    <2>2. Born' = Born /\ Spawners' = Spawners /\ \A w \in Workers : Alive(w)' <=> Alive(w)
      BY <2>1, <1>6, Zenon DEF JoinLabels
    <2> QED
      BY <2>1, <2>2, Zenon DEF Phases, SpawnLabels, JoinLabels
  <1>9. ASSUME NEW t \in Threads, NEW k \in Tasks, Submit(t, k)  PROVE Phases'
    <2>1. /\ UNCHANGED <<started, shuttingDown, workers, todo, toJoin>>
          /\ Goto(t, "release")
      BY <1>9, Zenon DEF Submit, pool, locals
    <2>2. CASE t = Main
      <3>1. pc[Main] = "main" /\ started
        BY <1>9, <2>2, <1>0, Zenon DEF Submit, MainLabels, SpawnLabels, JoinLabels
      <3>2. pc'[Main] = "release" /\ \A w \in Workers : pc'[w] = pc[w]
        BY <2>1, <2>2, <1>7, Zenon
      <3>3. Born' = Born /\ Spawners' = Spawners /\ \A w \in Workers : Alive(w)' <=> Alive(w)
        BY <3>1, <3>2, <1>6, Zenon
      <3> QED
        BY <2>1, <3>1, <3>2, <3>3, Zenon DEF Phases, SpawnLabels, JoinLabels
    <2>3. CASE t # Main
      <3>1. t \in Workers /\ pc[t] = "turn"
        BY <1>9, <2>3, Zenon DEF Submit, Threads, Types, WorkerLabels, TurnLabels, IoLabels
      <3>2. /\ pc'[t] = "release" /\ pc'[Main] = pc[Main]
            /\ \A u \in Threads : u # t => pc'[u] = pc[u]
        BY <1>a, <2>1, <2>3, Zenon
      <3>3. Born' = Born /\ Spawners' = Spawners /\ \A w \in Workers : Alive(w)' <=> Alive(w)
        BY <3>1, <3>2, Zenon DEF Born, Spawners, Alive, Threads
      <3>4. started \/ shuttingDown
        BY <3>1, Zenon DEF Phases, Born
      <3> QED
        BY <2>1, <3>2, <3>3, <3>4, Zenon DEF Phases
    <2> QED
      BY <2>2, <2>3, Zenon
  <1>10. CASE EnsureStarted
    <2>1. /\ pc[Main] = "main" /\ pc'[Main] = "spawn_loop" /\ ~started /\ started'
          /\ todo' = baseWorkers /\ UNCHANGED <<shuttingDown, workers, submitted, toJoin>>
          /\ \A w \in Workers : pc'[w] = pc[w]
      BY <1>10, <1>7, Zenon DEF EnsureStarted
    <2>2. Born' = Born /\ Spawners' = Spawners /\ \A w \in Workers : Alive(w)' <=> Alive(w)
      BY <2>1, <1>6, Zenon
    <2>3. todo' > 0 /\ ~shuttingDown /\ toJoin = {}
      BY <2>1, ConstantsAssumption DEF Phases, JoinLabels
    <2> QED
      BY <2>1, <2>2, <2>3, Zenon DEF Phases, SpawnLabels, JoinLabels
  <1>11. CASE SpawnLoop
    <2>1. /\ pc[Main] = "spawn_loop"
          /\ \/ todo > 0 /\ pc'[Main] = "reserve"
             \/ todo = 0 /\ pc'[Main] = "main"
          /\ UNCHANGED <<started, shuttingDown, workers, submitted, toJoin>>
          /\ \A w \in Workers : pc'[w] = pc[w]
      BY <1>11, <1>7, Zenon DEF SpawnLoop, pool
    <2>2. Born' = Born /\ Spawners' = Spawners /\ \A w \in Workers : Alive(w)' <=> Alive(w)
      BY <2>1, <1>6, Zenon
    <2>3. started /\ toJoin = {} /\ ~shuttingDown /\ (todo = 0 => Born # {})
      BY <2>1 DEF Phases, SpawnLabels, JoinLabels
    <2> QED
      BY <2>1, <2>2, <2>3, Zenon DEF Phases, SpawnLabels, JoinLabels
  <1>12. CASE Shutdown
    <2>1. /\ pc[Main] = "main"
          /\ \/ started /\ shuttingDown' /\ pc'[Main] = "sd_wait"
             \/ ~started /\ shuttingDown' = shuttingDown /\ pc'[Main] = "done"
          /\ UNCHANGED <<started, workers, submitted, todo, toJoin>>
          /\ \A w \in Workers : pc'[w] = pc[w]
      BY <1>12, <1>7, Zenon DEF Shutdown, locals
    <2>2. Born' = Born /\ Spawners' = Spawners /\ \A w \in Workers : Alive(w)' <=> Alive(w)
      BY <2>1, <1>6, Zenon
    <2>3. ~shuttingDown /\ toJoin = {} /\ (started => Born # {})
      BY <2>1, Zenon DEF Phases, SpawnLabels, JoinLabels
    <2>4. ~started => Born = {} /\ Spawners = {} /\ \A w \in Workers : ~Alive(w)
      BY <2>1, <2>3, Zenon DEF Phases, Born, Spawners, Alive, Threads
    <2>5. CASE started
      BY <2>1, <2>2, <2>3, <2>5, Zenon DEF Phases, SpawnLabels, JoinLabels
    <2>6. CASE ~started
      <3>1. ~shuttingDown' /\ pc'[Main] = "done" /\ ~started' /\ toJoin' = {}
        BY <2>1, <2>3, <2>6
      <3>2. Born' = {} /\ Spawners' = {} /\ submitted' = {} /\ \A w \in Workers : ~Alive(w)'
        BY <2>1, <2>2, <2>3, <2>4, <2>6, Zenon DEF Phases
      <3> QED
        BY <3>1, <3>2, Zenon DEF Phases, SpawnLabels, JoinLabels
    <2> QED
      BY <2>5, <2>6, Zenon
  <1>13. CASE ShutdownWaits
    <2>1. /\ pc[Main] = "sd_wait" /\ pc'[Main] = "sd_release" /\ toJoin' = workers
          /\ UNCHANGED <<started, shuttingDown, workers, submitted>>
          /\ \A w \in Workers : pc'[w] = pc[w]
      BY <1>13, <1>7, Zenon DEF ShutdownWaits, pool
    <2>2. Born' = Born /\ Spawners' = Spawners /\ \A w \in Workers : Alive(w)' <=> Alive(w)
      BY <2>1, <1>6, Zenon
    <2>3. Spawners = {}
      BY <1>13, Numbers, Zenon DEF ShutdownWaits
    <2> QED
      BY <2>1, <2>2, <2>3, Zenon DEF Phases, SpawnLabels, JoinLabels
  <1>14. CASE Join
    <2>1. /\ pc[Main] = "sd_release" /\ pc'[Main] = "done" /\ toJoin' = {} /\ ~started'
          /\ UNCHANGED <<shuttingDown, submitted>>
          /\ \A w \in toJoin : pc[w] = "exit"
          /\ \A w \in Workers : pc'[w] = pc[w]
      BY <1>14, <1>7, Zenon DEF Join
    <2>2. Born' = Born /\ Spawners' = Spawners /\ \A w \in Workers : Alive(w)' <=> Alive(w)
      BY <2>1, <1>6, Zenon
    <2>3. toJoin = workers /\ Spawners = {} /\ shuttingDown /\ Born # {}
      BY <2>1, Zenon DEF Phases, JoinLabels, SpawnLabels
    <2>4. \A w \in Born : w \in workers
      BY <2>1, <2>3, Zenon DEF Making, Spawners, Born
    <2>5. \A w \in Workers : ~Alive(w)
      BY <2>1, <2>3, <2>4, Zenon DEF Alive, Born
    <2> QED
      BY <2>1, <2>2, <2>3, <2>5, Zenon DEF Phases, SpawnLabels, JoinLabels
  <1>15. ASSUME NEW t \in Threads, Release(t) \/ Notify(t)  PROVE Phases'
    <2>1. CASE t = Main
      BY <1>15, <2>1, <1>8, Zenon
    <2>2. CASE t \in Workers
      BY <1>15, <2>2, <1>2, PassiveSteps, Zenon
    <2> QED
      BY <2>1, <2>2, Zenon DEF Threads
  <1>16. ASSUME NEW t \in Workers, EnterBlocking(t)  PROVE Phases'
    <2>1. t \in Threads
      BY Zenon DEF Threads
    <2> QED
      BY <1>16, <2>1, <1>2, PassiveSteps, Zenon
  <1>17. ASSUME NEW t \in Threads, Step(t)  PROVE Phases'
    BY <1>17, <1>2, <1>3, <1>4, <1>5, <1>15, PassiveSteps, Zenon DEF Step
  <1> QED
    BY <1>1, <1>9, <1>10, <1>11, <1>12, <1>13, <1>14, <1>16, <1>17, Zenon DEF Next, MainStep, Terminated

\* A thread moves and no task does: a worker that moves stays, and Main creates
\* workers at most.
Keeps(t) ==
    /\ UNCHANGED <<ready, submitted, finished, task>>
    /\ t \in Workers => pc'[t] \notin {"unborn", "exit"}
    /\ t = Main => \A w \in Workers : pc'[w] \in {pc[w], "drain"}

\* The steps of that kind.
LEMMA KeepsSteps ==
    ASSUME Types, NEW t \in Threads
    PROVE  /\ \/ Reserve(t) \/ Create(t) \/ Register(t) \/ Release(t) \/ Notify(t)
              \/ CheckShutdown(t) \/ AcquireLoad(t) \/ AcquireCas(t) \/ Wait(t) \/ Wake(t)
              \/ BlockingCheck(t) \/ LeaveBlocking(t) \/ EnterBlocking(t)
              => Keeps(t)
           /\ SpawnLoop \/ ShutdownWaits \/ Join \/ EnsureStarted \/ Shutdown => Keeps(Main)
  <1>1. \A u, l : u \in Threads /\ Goto(u, l) =>
                  pc'[u] = l /\ \A v \in Threads : v # u => pc'[v] = pc[v]
    BY Zenon DEF Goto, Types
  <1>2. Main \in Threads /\ Main \notin Workers /\ \A w \in Workers : w \in Threads /\ w # Main
    BY MainApart, Zenon DEF Threads
  <1> USE <1>1, <1>2 DEF Keeps, locals
  <1>3. Create(t) => Keeps(t)
    <2>1. \A w \in Workers : pc' = [pc EXCEPT ![t] = "register", ![w] = "drain"] /\ w # t =>
             pc'[t] = "register" /\ \A v \in Threads : v # t => pc'[v] \in {pc[v], "drain"}
      BY Zenon DEF Types
    <2>2. \A w \in Workers : pc[w] = "unborn" /\ pc[t] = "create" => w # t
      BY Zenon
    <2> QED
      BY <2>1, <2>2 DEF Create
  <1>4. ASSUME Reserve(t)  PROVE Keeps(t)
    <2>1. Goto(t, "spawn_loop") \/ Goto(t, "blocked") \/ Goto(t, "create")
      BY <1>4, Zenon DEF Reserve, AfterSpawn
    <2>2. UNCHANGED <<ready, submitted, finished, task>>
      BY <1>4, Zenon DEF Reserve
    <2> QED
      BY <2>1, <2>2
  <1>5. Register(t) => Keeps(t)
    BY DEF Register, AfterSpawn
  <1>6. Release(t) => Keeps(t)
    BY DEF Release
  <1>7. Notify(t) => Keeps(t)
    BY DEF Notify
  <1>8. CheckShutdown(t) => Keeps(t)
    BY DEF CheckShutdown
  <1>9. AcquireLoad(t) => Keeps(t)
    BY DEF AcquireLoad
  <1>10. AcquireCas(t) => Keeps(t)
    BY DEF AcquireCas
  <1>11. Wait(t) => Keeps(t)
    BY DEF Wait
  <1>12. Wake(t) => Keeps(t)
    BY DEF Wake
  <1>13. BlockingCheck(t) => Keeps(t)
    BY DEF BlockingCheck
  <1>14. LeaveBlocking(t) => Keeps(t)
    BY DEF LeaveBlocking
  <1>15. EnterBlocking(t) => Keeps(t)
    BY DEF EnterBlocking
  <1>16. SpawnLoop => Keeps(Main)
    BY Zenon DEF SpawnLoop
  <1>17. ShutdownWaits => Keeps(Main)
    BY Zenon DEF ShutdownWaits
  <1>18. Join => Keeps(Main)
    BY Zenon DEF Join
  <1>19. EnsureStarted => Keeps(Main)
    BY Zenon DEF EnsureStarted
  <1>20. Shutdown => Keeps(Main)
    BY Zenon DEF Shutdown
  <1> HIDE DEF Keeps
  <1> QED
    BY <1>3, <1>4, <1>5, <1>6, <1>7, <1>8, <1>9, <1>10, <1>11, <1>12, <1>13, <1>14,
       <1>15, <1>16, <1>17, <1>18, <1>19, <1>20, Zenon

\* Every step keeps the tasks accounted for.
LEMMA DrainedStep ==
    ASSUME Types, Locals, Phases, Drained, [Next]_vars
    PROVE  Drained'
  <1> USE MainApart
  <1>0. \A t, l : t \in Threads /\ Goto(t, l) =>
                  pc'[t] = l /\ \A v \in Threads : v # t => pc'[v] = pc[v]
    BY Zenon DEF Goto, Types
  <1>1. ASSUME NEW t \in Threads, Keeps(t)  PROVE Drained'
    <2>1. CASE t \in Workers
      <3>1. Alive(t)'
        BY <1>1, <2>1, Zenon DEF Keeps, Alive
      <3> QED
        BY <1>1, <2>1, <3>1, Zenon DEF Keeps, Drained
    <2>2. CASE t = Main
      <3>1. \A w \in Workers : Alive(w) => Alive(w)'
        BY <1>1, <2>2, Zenon DEF Keeps, Alive
      <3>2. (\A w \in Workers : ~Alive(w)') => Born' = Born
        BY <1>1, <2>2, Zenon DEF Keeps, Alive, Born
      <3> QED
        BY <1>1, <3>1, <3>2, Zenon DEF Keeps, Drained
    <2> QED
      BY <2>1, <2>2, Zenon DEF Threads
  <1>2. CASE UNCHANGED vars
    <2>1. Keeps(Main)
      BY <1>2, Zenon DEF vars, locals, Keeps
    <2> QED
      BY <1>1, <2>1, Zenon
  <1>3. ASSUME NEW t \in Threads, Drain(t)  PROVE Drained'
    <2>1. t \in Workers
      BY <1>3, Zenon DEF Drain, Threads, Types, MainLabels, SpawnLabels, JoinLabels
    <2>2. PICK k \in ready : ready' = ready \ {k} /\ task' = [task EXCEPT ![t] = k]
      BY <1>3, Zenon DEF Drain
    <2>3. Alive(t)'
      <3>1. pc'[t] = "turn"
        BY <1>3, <1>0, Zenon DEF Drain
      <3> QED
        BY <3>1, Zenon DEF Alive
    <2>4. task[t] = NoTask
      BY <1>3, <2>1, Zenon DEF Drain, Locals, TurnLabels, IoLabels
    <2>5. NoTask \notin submitted
      BY ConstantsAssumption, Zenon DEF Types
    <2>6. task'[t] = k /\ \A w \in Workers : w # t => task'[w] = task[w]
      BY <2>2, Zenon DEF Types, Threads
    <2>7. submitted' = submitted /\ finished' = finished
      BY <1>3, Zenon DEF Drain
    <2> QED
      BY <2>1, <2>2, <2>3, <2>4, <2>5, <2>6, <2>7, Zenon DEF Drained
  <1>4. ASSUME NEW t \in Threads, DrainEmpty(t)  PROVE Drained'
    BY <1>4, Zenon DEF DrainEmpty, Drained
  <1>5. ASSUME NEW t \in Threads, FinishTurn(t)  PROVE Drained'
    <2>1. t \in Workers
      BY <1>5, Zenon DEF FinishTurn, Threads, Types, MainLabels, SpawnLabels, JoinLabels
    <2>2. pc'[t] \in {"final", "drain"}
      BY <1>5, <1>0, Zenon DEF FinishTurn
    <2>3. Alive(t)'
      BY <2>2, Zenon DEF Alive
    <2>4. /\ finished' = finished \cup {task[t]} /\ UNCHANGED <<ready, submitted>>
          /\ \A w \in Workers : w # t => task'[w] = task[w]
      BY <1>5, Zenon DEF FinishTurn, Types, Threads
    <2> QED
      BY <2>1, <2>3, <2>4, Zenon DEF Drained
  <1>6. ASSUME NEW t \in Threads, NEW k \in Tasks, Submit(t, k)  PROVE Drained'
    <2>1. /\ pc[t] = "turn" \/ (pc[t] = "main" /\ started)
          /\ pc'[t] = "release" /\ \A u \in Threads : u # t => pc'[u] = pc[u]
          /\ ready' = ready \cup {k} /\ submitted' = submitted \cup {k}
          /\ UNCHANGED <<finished, task>>
      BY <1>6, <1>0, Zenon DEF Submit, locals
    <2>2. \E w \in Workers : Alive(w)'
      <3>1. CASE t = Main
        <4>1. pc[Main] = "main" /\ started
          BY <3>1, <2>1, Zenon DEF Types, MainLabels, SpawnLabels, JoinLabels
        <4>2. Born # {} /\ ~shuttingDown
          BY <4>1, Zenon DEF Phases, JoinLabels
        <4>3. PICK w \in Workers : pc[w] # "unborn"
          BY <4>2, Zenon DEF Born
        <4>4. pc[w] # "exit" /\ pc'[w] = pc[w]
          BY <4>2, <2>1, <3>1, Zenon DEF Locals, Threads
        <4> QED
          BY <4>3, <4>4, Zenon DEF Alive
      <3>2. CASE t \in Workers
        BY <2>1, <3>2, Zenon DEF Alive
      <3> QED
        BY <3>1, <3>2, Zenon DEF Threads
    <2> QED
      BY <2>1, <2>2, Zenon DEF Drained
  <1>7. ASSUME NEW t \in Threads, Step(t)  PROVE Drained'
    BY <1>7, <1>1, <1>3, <1>4, <1>5, KeepsSteps, Zenon DEF Step
  <1>8. CASE MainStep \/ EnsureStarted \/ Shutdown
    BY <1>8, <1>1, KeepsSteps, Zenon DEF MainStep
  <1>9. ASSUME NEW t \in Workers, EnterBlocking(t)  PROVE Drained'
    BY <1>9, <1>1, KeepsSteps, Zenon
  <1> QED
    BY <1>2, <1>6, <1>7, <1>8, <1>9, Zenon DEF Next, Terminated

-----------------------------------------------------------------------------
(* The counters and the growth of the pool.                                *)

\* A step that creates, registers, blocks and joins nobody.
Quiet ==
    /\ Spawners' = Spawners /\ InIo' = InIo /\ Born' = Born /\ Makers' = Makers
    /\ UNCHANGED <<spawning, blockedInIo, workers>>
    /\ shuttingDown => shuttingDown'
    /\ pc[Main] = "done" => pc'[Main] = "done"
    /\ \A t \in Threads : pc[t] \in {"reserve", "create"} => pc'[t] \in {"reserve", "create"}
    /\ \A w \in Workers : (pc'[w] = "blocking" <=> pc[w] = "blocking") /\ seen'[w] = seen[w]

\* Such a step keeps the counters and the promise of growth.
LEMMA QuietKeeps ==
    ASSUME Types, Counts, Grows, Quiet
    PROVE  Counts' /\ Grows'
  <1>1. Counts'
    BY Zenon DEF Quiet, Counts
  <1>2. ThreadsLeft' = ThreadsLeft
    <2>1. ThreadsLeft <=> Born # Workers
      BY Zenon DEF ThreadsLeft, Born
    <2>2. ThreadsLeft' <=> Born' # Workers
      BY Zenon DEF ThreadsLeft, Born
    <2> QED
      BY <2>1, <2>2, Zenon DEF Quiet, ThreadsLeft
  <1>3. Total' = Total
    BY Zenon DEF Total, Quiet
  <1>4. Grows'
    BY <1>2, <1>3, Zenon DEF Grows, Quiet
  <1> QED
    BY <1>1, <1>4, Zenon

\* Such a move is quiet.
LEMMA StrollIsQuiet ==
    ASSUME NEW t \in Threads, Strolls(t)
    PROVE  Quiet
  <1> USE MainApart
  <1>1. Spawners' = Spawners
    BY Zenon DEF Strolls, Spawners
  <1>2. InIo' = InIo
    BY Zenon DEF Strolls, InIo, IoLabels, Threads
  <1>3. Born' = Born
    BY Zenon DEF Strolls, Born, Threads
  <1>4. Makers' = Makers
    BY Zenon DEF Strolls, Makers
  <1>5. \A u \in Threads : pc[u] \in {"reserve", "create"} => pc'[u] \in {"reserve", "create"}
    BY Zenon DEF Strolls
  <1>6. \A w \in Workers : (pc'[w] = "blocking" <=> pc[w] = "blocking") /\ seen'[w] = seen[w]
    BY Zenon DEF Strolls, Threads
  <1>7. pc[Main] = "done" => pc'[Main] = "done"
    BY Zenon DEF Strolls
  <1> QED
    BY <1>1, <1>2, <1>3, <1>4, <1>5, <1>6, <1>7, Zenon DEF Quiet, Strolls

\* The quiet steps.
LEMMA QuietSteps ==
    ASSUME Types
    PROVE  /\ UNCHANGED vars => Quiet
           /\ SpawnLoop \/ ShutdownWaits \/ EnsureStarted \/ Shutdown => Quiet
           /\ \A t \in Threads :
                 \/ Release(t) \/ Notify(t) \/ Drain(t) \/ DrainEmpty(t) \/ CheckShutdown(t)
                 \/ FinishTurn(t) \/ AcquireLoad(t) \/ AcquireCas(t) \/ Wait(t) \/ Wake(t)
                 \/ \E k \in Tasks : Submit(t, k)
                 => Quiet
  <1>1. ASSUME UNCHANGED vars  PROVE Quiet
    BY <1>1, Zenon DEF vars, pool, locals, Quiet, Spawners, InIo, Born, Makers
  <1>2. \A t \in Threads : Strolls(t) => Quiet
    BY StrollIsQuiet, Zenon
  <1>3. Main \in Threads
    BY MainApart, Zenon
  <1>4. CASE SpawnLoop \/ ShutdownWaits \/ EnsureStarted \/ Shutdown
    BY <1>2, <1>3, <1>4, StrollSteps, Zenon
  <1> QED
    BY <1>1, <1>2, <1>4, StrollSteps, Zenon

\* The sets that are counted hold threads.
LEMMA Sets ==
    /\ Spawners \subseteq Threads /\ InIo \subseteq Threads /\ Makers \subseteq Threads
    /\ Born \subseteq Threads /\ Workers \subseteq Threads
    /\ ThreadsLeft <=> Born # Workers
  BY Zenon DEF Spawners, InIo, Makers, Born, Threads, ThreadsLeft

\* The counters and the size of the pool are numbers.
LEMMA Sizes ==
    ASSUME Types, Counts
    PROVE  /\ Cardinality(Spawners) \in Nat /\ Cardinality(InIo) \in Nat
           /\ Cardinality(Makers) \in Nat /\ Cardinality(Born) \in Nat
           /\ Cardinality(workers) \in Nat /\ Total \in Nat
  <1>1. workers \subseteq Threads
    BY Zenon DEF Types, Threads
  <1>2. /\ Cardinality(Spawners) \in Nat /\ Cardinality(InIo) \in Nat
        /\ Cardinality(Makers) \in Nat /\ Cardinality(Born) \in Nat
        /\ Cardinality(workers) \in Nat
    BY <1>1, Sets, Finite, Zenon
  <1> QED
    BY <1>2 DEF Total, Types

\* The sizes configured are numbers, and so is what a worker that blocks has read.
LEMMA Settings ==
    ASSUME Types
    PROVE  /\ baseWorkers \in Nat /\ baseWorkers > 0 /\ kMaxWorkers \in Nat
           /\ spawning \in Nat
           /\ \A w \in Workers : seen[w] \in Nat
  <1>1. Cardinality(Workers) \in Nat
    BY Finite, MainApart, Zenon
  <1>2. /\ baseWorkers \in Nat /\ baseWorkers > 0 /\ kMaxWorkers \in Nat
    BY ConstantsAssumption
  <1>3. spawning \in Nat /\ seen \in [Threads -> 0..Cardinality(Workers)]
    BY Zenon DEF Types
  <1> QED
    BY <1>1, <1>2, <1>3, MainApart

\* A slot is reserved: its thread is on its way to a new worker.
LEMMA ReserveGrows ==
    ASSUME Types, Counts, Grows, NEW t \in Threads, Reserve(t)
    PROVE  Counts' /\ Grows'
  <1> USE MainApart
  <1>0. /\ pc[t] = "reserve" /\ pc'[t] \in {AfterSpawn(t), "create"} /\ made' = made
        /\ \A u \in Threads : u # t => pc'[u] = pc[u]
    BY Zenon DEF Reserve, Goto, Types, locals
  <1>1. InIo' = InIo /\ Born' = Born /\ Makers' = Makers
    BY <1>0, Zenon DEF AfterSpawn, InIo, Born, Makers, Threads, IoLabels
  <1>2. /\ blockedInIo' = blockedInIo /\ workers' = workers
        /\ shuttingDown' = shuttingDown /\ seen' = seen
        /\ pc[Main] = "done" => pc'[Main] = "done"
        /\ \A w \in Workers : pc'[w] = "blocking" => pc[w] = "blocking"
    BY Zenon DEF Reserve, Goto, AfterSpawn, locals, Types, Threads
  <1>3. spawning' = Cardinality(Spawners')
    <2>1. CASE shuttingDown
      <3>1. Spawners' = Spawners /\ spawning' = spawning
        BY <2>1, Zenon DEF Reserve, Goto, AfterSpawn, Types, Spawners
      <3> QED
        BY <3>1, Zenon DEF Counts
    <2>2. CASE ~shuttingDown
      <3>1. /\ Spawners' = Spawners \cup {t} /\ t \notin Spawners
            /\ spawning' = spawning + 1
        BY <2>2 DEF Reserve, Goto, Types, Spawners
      <3> QED
        BY <3>1, OneMore, Sets, Zenon DEF Counts
    <2> QED
      BY <2>1, <2>2, Zenon
  <1>4. Counts'
    BY <1>1, <1>2, <1>3, Zenon DEF Counts
  <1>5. ~shuttingDown => pc'[t] = "create"
    BY Zenon DEF Reserve, Goto, Types
  <1>6. Grows'
    BY <1>2, <1>5, Zenon DEF Grows
  <1> QED
    BY <1>4, <1>6, Zenon

\* A worker is created: it is in no blocking call.
LEMMA CreateGrows ==
    ASSUME Types, Counts, Grows, Making, Phases, NEW t \in Threads, Create(t)
    PROVE  Counts' /\ Grows'
  <1> USE MainApart
  <1>1. t # Main \/ pc[Main] # "done"
    BY Zenon DEF Create
  <1>2. made[t] = {} /\ t \notin Makers
    BY Zenon DEF Create, Making, Makers
  <1>3. /\ blockedInIo' = blockedInIo /\ workers' = workers /\ spawning' = spawning
        /\ shuttingDown' = shuttingDown /\ seen' = seen
    BY Zenon DEF Create, pool
  <1>4. CASE \E w \in Workers :
               /\ pc[w] = "unborn"
               /\ pc' = [pc EXCEPT ![t] = "register", ![w] = "drain"]
               /\ made' = [made EXCEPT ![t] = {w}]
    <2>1. PICK w \in Workers :
               /\ pc[w] = "unborn"
               /\ pc' = [pc EXCEPT ![t] = "register", ![w] = "drain"]
               /\ made' = [made EXCEPT ![t] = {w}]
      BY <1>4, Zenon
    <2>2. w # t /\ w \in Threads
      BY <2>1, Zenon DEF Create, Threads
    <2>3. Spawners' = Spawners
      BY <2>1, <2>2, Zenon DEF Create, Types, Spawners
    <2>4. InIo' = InIo
      BY <2>1, <2>2, Zenon DEF Create, Types, InIo, IoLabels
    <2>5. Born' = Born \cup {w} /\ w \notin Born
      BY <2>1, <2>2 DEF Create, Types, Born
    <2>6. Makers' = Makers \cup {t}
      BY <2>1, <2>2, Zenon DEF Types, Makers
    <2>7. pc[Main] = "done" => pc'[Main] = "done"
      BY <2>1, <1>1, <2>2, Zenon DEF Types
    <2>8. \A v \in Workers : pc'[v] = "blocking" => pc[v] = "blocking"
      BY <2>1, <2>2, Zenon DEF Types, Threads
    <2>9. Cardinality(Born') = Cardinality(Born) + 1
      BY <2>5, <2>2, OneMore, Sets, Zenon
    <2>10. Cardinality(Makers') = Cardinality(Makers) + 1
      BY <2>6, <1>2, OneMore, Sets, Zenon
    <2>11. \A v \in Workers : pc'[v] = "blocking" => seen'[v] <= Cardinality(Born')
      <3>1. \A v \in Workers : pc[v] = "blocking" => seen[v] <= Cardinality(Born)
        BY Zenon DEF Counts
      <3>2. Cardinality(Born) \in Nat /\ \A v \in Workers : seen[v] \in Nat
        BY Sizes, Settings, Zenon
      <3>3. ASSUME NEW v \in Workers, pc'[v] = "blocking"  PROVE seen'[v] <= Cardinality(Born')
        <4>1. seen[v] <= Cardinality(Born) /\ seen[v] \in Nat /\ Cardinality(Born) \in Nat
          BY <3>1, <3>2, <3>3, <2>8, Zenon
        <4>2. seen'[v] = seen[v]
          BY <1>3, Zenon
        <4> QED
          BY <4>1, <4>2, <2>9
      <3> QED
        BY <3>3, Zenon
    <2>12. Counts'
      <3>1. spawning' = Cardinality(Spawners') /\ blockedInIo' = Cardinality(InIo')
        BY <1>3, <2>3, <2>4, Zenon DEF Counts
      <3>2. pc'[Main] # "done" => Cardinality(Born) = Cardinality(workers') + Cardinality(Makers)
        BY <1>3, <2>7, Zenon DEF Counts
      <3>3. /\ Cardinality(Makers) \in Nat /\ Cardinality(Born) \in Nat
            /\ Cardinality(workers') \in Nat
        BY <1>3, Sizes, Zenon
      <3>4. pc'[Main] # "done" => Cardinality(Born') = Cardinality(workers') + Cardinality(Makers')
        BY <2>9, <2>10, <3>2, <3>3
      <3> QED
        BY <3>1, <3>4, <2>11, Zenon DEF Counts
    <2>13. w \in Born' /\ w \notin InIo'
      BY <2>5, <2>4, <2>1, Zenon DEF InIo, IoLabels
    <2> QED
      BY <2>12, <2>13, Zenon DEF Grows
  <1>5. CASE ~ThreadsLeft /\ Goto(t, "register") /\ UNCHANGED made
    <2>1. /\ Spawners' = Spawners /\ InIo' = InIo /\ Born' = Born /\ Makers' = Makers
      BY <1>5, Zenon DEF Create, Goto, Types, Spawners, InIo, Born, Makers, Threads, IoLabels
    <2>2. /\ pc[Main] = "done" => pc'[Main] = "done"
          /\ \A w \in Workers : pc'[w] = "blocking" => pc[w] = "blocking"
      BY <1>5, <1>1, Zenon DEF Goto, Types, Threads
    <2>3. Counts'
      BY <1>3, <2>1, <2>2, Zenon DEF Counts
    <2>4. ~ThreadsLeft'
      BY <1>5, Zenon DEF ThreadsLeft, Goto, Types, Threads
    <2> QED
      BY <2>3, <2>4, Zenon DEF Grows
  <1> QED
    BY <1>4, <1>5, Zenon DEF Create

\* A worker is registered: the total stays, since its slot is given back.
LEMMA RegisterGrows ==
    ASSUME Types, Counts, Grows, Making, NEW t \in Threads, Register(t)
    PROVE  Counts' /\ Grows'
  <1> USE MainApart
  <1>1. /\ InIo' = InIo /\ Born' = Born
        /\ Spawners' = Spawners \ {t} /\ t \in Spawners
        /\ Makers' = Makers \ {t}
    BY Zenon DEF Register, Goto, AfterSpawn, Types, InIo, Born, Spawners, Makers, Threads,
       IoLabels
  <1>2. /\ blockedInIo' = blockedInIo /\ spawning' = spawning - 1
        /\ shuttingDown' = shuttingDown /\ seen' = seen
        /\ pc[Main] = "done" => pc'[Main] = "done"
        /\ \A w \in Workers : pc'[w] = "blocking" <=> pc[w] = "blocking"
        /\ \A u \in Threads : pc[u] \in {"reserve", "create"} => pc'[u] = pc[u]
    BY Zenon DEF Register, Goto, AfterSpawn, Types, Threads
  <1>3. spawning' = Cardinality(Spawners')
    BY <1>1, <1>2, OneLess, Sets, Zenon DEF Counts
  <1>4. ThreadsLeft' <=> ThreadsLeft
    BY <1>1, Sets, Zenon DEF ThreadsLeft, Born
  <1>5. CASE made[t] = {}
    <2>1. Makers' = Makers /\ workers' = workers
      BY <1>1, <1>5, Zenon DEF Makers, Register
    <2>2. Counts'
      BY <1>1, <1>2, <1>3, <2>1, Zenon DEF Counts
    <2>3. ~ThreadsLeft
      BY <1>5, Sets, Zenon DEF Making, Register
    <2> QED
      BY <2>2, <2>3, <1>4, Zenon DEF Grows
  <1>6. CASE made[t] # {}
    <2>1. PICK w \in Workers : made[t] = {w} /\ w \notin workers
      BY <1>6, Zenon DEF Making
    <2>2. workers' = workers \cup {w} /\ workers \subseteq Threads /\ w \in Threads
      BY <2>1, Zenon DEF Register, Types, Threads
    <2>3. Cardinality(workers') = Cardinality(workers) + 1
      BY <2>1, <2>2, OneMore, Zenon
    <2>4. t \in Makers
      BY <1>6, Zenon DEF Makers
    <2>5. Cardinality(Makers') = Cardinality(Makers) - 1
      BY <1>1, <2>4, OneLess, Sets, Zenon
    <2>6. Counts'
      <3>1. blockedInIo' = Cardinality(InIo')
        BY <1>1, <1>2, Zenon DEF Counts
      <3>2. pc'[Main] # "done" => Cardinality(Born') = Cardinality(workers) + Cardinality(Makers)
        BY <1>1, <1>2, Zenon DEF Counts
      <3>3. /\ Cardinality(Makers) \in Nat /\ Cardinality(workers) \in Nat
        BY Sizes, Zenon
      <3>4. pc'[Main] # "done" => Cardinality(Born') = Cardinality(workers') + Cardinality(Makers')
        BY <2>3, <2>5, <3>2, <3>3
      <3>5. \A v \in Workers : pc'[v] = "blocking" => seen'[v] <= Cardinality(Born')
        BY <1>1, <1>2, Zenon DEF Counts
      <3> QED
        BY <1>3, <3>1, <3>4, <3>5, Zenon DEF Counts
    <2>7. Total' = Total
      <3>1. Cardinality(workers) \in Nat /\ spawning \in Nat
        BY Sizes, Settings, Zenon
      <3>2. Cardinality(workers') + spawning' = Cardinality(workers) + spawning
        BY <1>2, <2>3, <3>1
      <3> QED
        BY <3>2, Zenon DEF Total
    <2>8. Grows'
      BY <1>1, <1>2, <1>4, <2>7, Zenon DEF Grows
    <2> QED
      BY <2>6, <2>8, Zenon
  <1> QED
    BY <1>5, <1>6, Zenon

\* While nobody is about to create a worker and a thread is left, the total is the
\* number of workers there are.
LEMMA TotalIsBorn ==
    ASSUME Types, Counts, Making, pc[Main] # "done", ThreadsLeft,
           \A u \in Threads : pc[u] # "create"
    PROVE  Total = Cardinality(Born)
  <1>1. Spawners = Makers
    <2>1. Makers \subseteq Spawners
      BY Zenon DEF Makers, Spawners, Making
    <2>2. Spawners \subseteq Makers
      BY Sets, Zenon DEF Makers, Spawners, Making
    <2> QED
      BY <2>1, <2>2, Zenon
  <1> QED
    BY <1>1, Sizes, Zenon DEF Counts, Total

\* A worker that blocks decides: if it counted everyone, the pool grows.
LEMMA BlockingCheckGrows ==
    ASSUME Types, Counts, Grows, Making, Phases, NEW t \in Threads, BlockingCheck(t)
    PROVE  Counts' /\ Grows'
  <1> USE MainApart
  <1>1. t \in Workers /\ t # Main
    BY Zenon DEF BlockingCheck, Types, MainLabels, SpawnLabels, JoinLabels, Threads
  <1>2. /\ Spawners' = Spawners /\ InIo' = InIo /\ Born' = Born /\ Makers' = Makers
    BY Zenon DEF BlockingCheck, Goto, Types, Spawners, InIo, Born, Makers, Threads, IoLabels
  <1>3. /\ blockedInIo' = blockedInIo /\ workers' = workers /\ spawning' = spawning
        /\ shuttingDown' = shuttingDown /\ started' = started
    BY Zenon DEF BlockingCheck, pool
  <1>4. /\ pc'[Main] = pc[Main]
        /\ pc'[t] # "blocking"
        /\ \A w \in Workers : w # t => pc'[w] = pc[w] /\ seen'[w] = seen[w]
        /\ \A u \in Threads : u # t => pc'[u] = pc[u]
    BY <1>1, Zenon DEF BlockingCheck, Goto, Types, Threads
  <1>5. Counts'
    BY <1>2, <1>3, <1>4, Zenon DEF Counts
  <1>6. Total' = Total
    BY <1>3, Zenon DEF Total
  <1>7. ThreadsLeft' <=> ThreadsLeft
    BY <1>2, Sets, Zenon DEF ThreadsLeft, Born
  <1>8. ASSUME ~shuttingDown, ThreadsLeft, Born # {}, Born \subseteq InIo,
               Total < kMaxWorkers, \A u \in Threads : pc[u] \notin {"reserve", "create"},
               seen[t] >= Cardinality(Born)
        PROVE  pc'[t] = "reserve"
    <2>1. pc[Main] # "done"
      BY <1>8, Zenon DEF Phases
    <2>2. Total = Cardinality(Born)
      BY <2>1, <1>8, TotalIsBorn, Zenon
    <2>3. seen[t] \in Nat /\ Total \in Nat /\ baseWorkers \in Nat /\ baseWorkers > 0
      BY <1>1, Sizes, Settings, Zenon
    <2>4. seen[t] >= Total
      BY <2>2, <1>8, Zenon
    <2>5. Total - seen[t] < baseWorkers
      BY <2>3, <2>4
    <2>6. Total < kMaxWorkers
      BY <1>8, Zenon
    <2>7. Goto(t, "reserve")
      BY <2>5, <2>6, Zenon DEF BlockingCheck
    <2> QED
      BY <2>7, Zenon DEF Goto, Types
  <1>9. Grows'
    <2> SUFFICES ASSUME ~shuttingDown, ThreadsLeft, Born # {}, Born \subseteq InIo, ~(Total >= kMaxWorkers)
                 PROVE  \/ \E u \in Threads : pc'[u] \in {"reserve", "create"}
                        \/ \E w \in Workers : pc'[w] = "blocking" /\ seen'[w] >= Cardinality(Born')
      BY <1>2, <1>3, <1>6, <1>7, Zenon DEF Grows
    <2>1. CASE \E u \in Threads : pc[u] \in {"reserve", "create"}
      <3>1. pc[t] = "blocking"
        BY Zenon DEF BlockingCheck
      <3> QED
        BY <2>1, <3>1, <1>4, Zenon
    <2>2. CASE \E w \in Workers : w # t /\ pc[w] = "blocking" /\ seen[w] >= Cardinality(Born)
      BY <2>2, <1>4, <1>2, Zenon
    <2>3. CASE /\ \A u \in Threads : pc[u] \notin {"reserve", "create"}
               /\ seen[t] >= Cardinality(Born)
      <3>1. Total < kMaxWorkers
        BY Sizes, Settings
      <3> QED
        BY <2>3, <3>1, <1>8, Zenon
    <2> QED
      BY <2>1, <2>2, <2>3, Zenon DEF Grows
  <1> QED
    BY <1>5, <1>9, Zenon

\* A worker enters a blocking call: if it is the last, it has counted them all.
LEMMA EnterBlockingGrows ==
    ASSUME Types, Counts, Grows, NEW t \in Workers, EnterBlocking(t)
    PROVE  Counts' /\ Grows'
  <1> USE MainApart
  <1>1. /\ Spawners' = Spawners /\ Born' = Born /\ Makers' = Makers
        /\ InIo' = InIo \cup {t} /\ t \notin InIo
    BY Zenon DEF EnterBlocking, Goto, Types, Spawners, InIo, Born, Makers, Threads, IoLabels
  <1>2. /\ blockedInIo' = blockedInIo + 1 /\ workers' = workers /\ spawning' = spawning
        /\ pc'[Main] = pc[Main] /\ pc'[t] = "blocking" /\ seen'[t] = blockedInIo + 1
        /\ \A w \in Workers : w # t => pc'[w] = pc[w] /\ seen'[w] = seen[w]
    BY Zenon DEF EnterBlocking, Goto, Types, Threads
  <1>3. blockedInIo' = Cardinality(InIo')
    BY <1>1, <1>2, OneMore, Sets, Zenon DEF Counts
  <1>4. InIo' \subseteq Born /\ Born \subseteq Threads
    BY <1>1, Sets, Zenon DEF InIo, Born, EnterBlocking, IoLabels
  <1>5. seen'[t] <= Cardinality(Born)
    BY <1>2, <1>3, <1>4, NoMore, Zenon
  <1>6. Counts'
    BY <1>1, <1>2, <1>3, <1>5, Zenon DEF Counts
  <1>7. Born' \subseteq InIo' => seen'[t] >= Cardinality(Born')
    <2> SUFFICES ASSUME Born' \subseteq InIo'
                 PROVE  seen'[t] >= Cardinality(Born)
      BY <1>1, Zenon
    <2>1. InIo' = Born
      BY <1>4, <1>1, Zenon
    <2>2. seen'[t] = Cardinality(Born)
      BY <2>1, <1>2, <1>3, Zenon
    <2> QED
      BY <2>2, Sizes
  <1>8. Grows'
    BY <1>2, <1>7, Zenon DEF Grows
  <1> QED
    BY <1>6, <1>8, Zenon

\* A worker leaves its blocking call: not every worker is in one.
LEMMA LeaveBlockingGrows ==
    ASSUME Types, Counts, NEW t \in Threads, LeaveBlocking(t)
    PROVE  Counts' /\ Grows'
  <1> USE MainApart
  <1>1. t \in Workers /\ t # Main
    BY Zenon DEF LeaveBlocking, Types, MainLabels, SpawnLabels, JoinLabels, Threads
  <1>2. /\ Spawners' = Spawners /\ Born' = Born /\ Makers' = Makers
        /\ InIo' = InIo \ {t} /\ t \in InIo /\ t \in Born
    BY <1>1, Zenon DEF LeaveBlocking, Goto, locals, Types, Spawners, InIo, Born, Makers,
       Threads, IoLabels
  <1>3. /\ blockedInIo' = blockedInIo - 1 /\ workers' = workers /\ spawning' = spawning
        /\ pc'[Main] = pc[Main] /\ seen' = seen
        /\ \A w \in Workers : pc'[w] = "blocking" => pc[w] = "blocking"
    BY <1>1, Zenon DEF LeaveBlocking, Goto, locals, Types, Threads
  <1>4. blockedInIo' = Cardinality(InIo')
    BY <1>2, <1>3, OneLess, Sets, Zenon DEF Counts
  <1>5. Counts'
    BY <1>2, <1>3, <1>4, Zenon DEF Counts
  <1>6. Grows'
    BY <1>2, Zenon DEF Grows
  <1> QED
    BY <1>5, <1>6, Zenon

\* The pool is joined after the shutdown has begun.
LEMMA JoinGrows ==
    ASSUME Types, Counts, Phases, Join
    PROVE  Counts' /\ Grows'
  <1> USE MainApart
  <1>1. Spawners' = Spawners /\ InIo' = InIo /\ Born' = Born /\ Makers' = Makers
    BY Zenon DEF Join, Goto, Types, Spawners, InIo, Born, Makers, Threads, IoLabels
  <1>2. /\ blockedInIo' = blockedInIo /\ spawning' = spawning /\ seen' = seen
        /\ pc'[Main] = "done" /\ shuttingDown'
        /\ \A w \in Workers : pc'[w] = pc[w]
    BY Zenon DEF Join, Goto, Types, Phases, JoinLabels, Threads
  <1> QED
    BY <1>1, <1>2, Zenon DEF Counts, Grows

\* Every step keeps the counters, and the promise of a new worker.
LEMMA GrowsStep ==
    ASSUME Types, Counts, Grows, Making, Phases, [Next]_vars
    PROVE  Counts' /\ Grows'
  <1>1. CASE Quiet
    BY <1>1, QuietKeeps, Zenon
  <1>2. CASE \E t \in Threads :
               \/ Reserve(t) \/ Create(t) \/ Register(t) \/ BlockingCheck(t) \/ LeaveBlocking(t)
    BY <1>2, ReserveGrows, CreateGrows, RegisterGrows, BlockingCheckGrows,
       LeaveBlockingGrows, Zenon
  <1>3. CASE \E t \in Workers : EnterBlocking(t)
    BY <1>3, EnterBlockingGrows, Zenon
  <1>4. CASE Join
    BY <1>4, JoinGrows, Zenon
  <1> QED
    BY <1>1, <1>2, <1>3, <1>4, QuietSteps, Zenon DEF Next, Step, MainStep, Terminated

-----------------------------------------------------------------------------
(* What the pool promises.                                                 *)

\* Before the pool is started the invariant holds.
LEMMA InitInvariant == Init => IInv
  <1> SUFFICES ASSUME Init PROVE IInv
    BY Zenon
  <1> USE MainApart, ConstantsAssumption
  <1>1. \A t \in Threads : pc[t] = IF t = Main THEN "main" ELSE "unborn"
    BY Zenon DEF Init
  <1>2. Spawners = {} /\ InIo = {} /\ Born = {} /\ Makers = {}
    BY <1>1, Zenon DEF Init, Spawners, InIo, Born, Makers, Threads, IoLabels
  <1>3. Types
    <2>1. Cardinality(Workers) \in Nat
      BY Finite, Zenon
    <2>2. /\ pc \in [Threads -> WorkerLabels \cup MainLabels]
          /\ pc[Main] \in MainLabels /\ \A w \in Workers : pc[w] \in WorkerLabels
      BY <1>1, Zenon DEF Init, WorkerLabels, MainLabels, Threads
    <2>3. /\ task \in [Threads -> Tasks \cup {NoTask}]
          /\ c \in [Threads -> Nat]
          /\ rounds \in [Threads -> 0..kSpinRounds]
          /\ seen \in [Threads -> 0..Cardinality(Workers)]
          /\ made \in [Threads -> SUBSET Workers]
      BY <2>1 DEF Init
    <2> QED
      BY <2>2, <2>3, Zenon DEF Types, Init
  <1>4. Locals
    BY <1>1, Zenon DEF Locals, Init, Threads, IoLabels, TurnLabels
  <1>5. Making
    BY <1>1, <1>2, Zenon DEF Making, Init
  <1>6. Phases
    BY <1>1, <1>2, Zenon DEF Phases, Init, SpawnLabels, JoinLabels
  <1>7. Drained
    BY <1>2, Zenon DEF Drained, Init
  <1>8. Counts
    <2>1. spawning = 0 /\ blockedInIo = 0 /\ workers = {}
      BY Zenon DEF Init
    <2>2. Cardinality({}) = 0
      BY FS_EmptySet, Zenon
    <2>3. \A w \in Workers : pc[w] # "blocking"
      BY <1>1, Zenon
    <2>4. /\ spawning = Cardinality(Spawners) /\ blockedInIo = Cardinality(InIo)
          /\ Cardinality(Born) = Cardinality(workers) + Cardinality(Makers)
      BY <1>2, <2>1, <2>2
    <2> QED
      BY <2>3, <2>4, Zenon DEF Counts
  <1>9. Grows
    BY <1>2, Zenon DEF Grows
  <1> QED
    BY <1>3, <1>4, <1>5, <1>6, <1>7, <1>8, <1>9, Zenon DEF IInv

\* Every behaviour of the pool keeps the invariant: ensureStarted, spawnWorker,
\* enqueue, workerLoop, the semaphore, enterBlocking, leaveBlocking and shutdown.
THEOREM Invariant == Spec => []IInv
  <1>1. IInv /\ [Next]_vars => IInv'
    <2> SUFFICES ASSUME IInv, [Next]_vars PROVE IInv'
      BY Zenon
    <2>0. Types /\ Locals /\ Making /\ Phases /\ Drained /\ Counts /\ Grows
      BY Zenon DEF IInv
    <2>1. Types'
      BY <2>0, TypesStep, Zenon
    <2>2. Locals'
      BY <2>0, LocalsStep, Zenon
    <2>3. Making'
      BY <2>0, MakingStep, Zenon
    <2>4. Phases'
      BY <2>0, PhasesStep, Zenon
    <2>5. Drained'
      BY <2>0, DrainedStep, Zenon
    <2>6. Counts' /\ Grows'
      BY <2>0, GrowsStep, Zenon
    <2> QED
      BY <2>1, <2>2, <2>3, <2>4, <2>5, <2>6, Zenon DEF IInv
  <1> QED
    BY <1>1, InitInvariant, PTL DEF Spec

\* `total - blocked` in enterBlocking never wraps and no counter of the pool falls
\* below zero or outgrows the threads, whatever the base size and the ceiling.
THEOREM NoUnderflowHolds == Spec => []NoUnderflow
  <1>1. IInv => NoUnderflow
    <2> SUFFICES ASSUME Types, Making, Phases, Counts PROVE NoUnderflow
      BY Zenon DEF IInv
    <2> USE MainApart
    <2>1. spawning <= Cardinality(Threads)
      BY Sets, NoMore, Zenon DEF Counts
    <2>2. blockedInIo <= Cardinality(Workers)
      <3>1. InIo \subseteq Workers
        BY Zenon DEF InIo
      <3> QED
        BY <3>1, Sets, NoMore, Zenon DEF Counts
    <2>3. toJoin \subseteq workers
      BY Zenon DEF Phases
    <2>4. TypeOK
      <3>1. Cardinality(Threads) \in Nat /\ Cardinality(Workers) \in Nat
        BY Finite, Sets, Zenon
      <3>2. spawning \in 0..Cardinality(Threads) /\ blockedInIo \in 0..Cardinality(Workers)
        BY <2>1, <2>2, <3>1 DEF Types
      <3>3. ready \subseteq Tasks
        BY Zenon DEF Types
      <3> QED
        BY <2>3, <3>2, <3>3, Zenon DEF TypeOK, Types
    <2>5. ASSUME NEW t \in Threads, pc[t] = "blocking"  PROVE seen[t] <= Total
      <3>1. t \in Workers
        BY <2>5, Zenon DEF Types, MainLabels, SpawnLabels, JoinLabels, Threads
      <3>2. pc[Main] # "done"
        BY <3>1, <2>5, Zenon DEF Phases, Alive
      <3>3. seen[t] <= Cardinality(Born)
        BY <3>1, <2>5, Zenon DEF Counts
      <3>4. Makers \subseteq Spawners
        BY Zenon DEF Makers, Spawners, Making
      <3>5. Cardinality(Makers) <= spawning
        BY <3>4, Sets, NoMore, Zenon DEF Counts
      <3>6. Cardinality(Born) = Cardinality(workers) + Cardinality(Makers)
        BY <3>2, Zenon DEF Counts
      <3>7. /\ Cardinality(workers) \in Nat /\ Cardinality(Makers) \in Nat
            /\ Cardinality(Born) \in Nat /\ spawning \in Nat /\ seen[t] \in Nat
        BY <3>1, Sizes, Settings, Zenon
      <3> QED
        BY <3>3, <3>5, <3>6, <3>7 DEF Total
    <2> QED
      BY <2>4, <2>5, Zenon DEF NoUnderflow
  <1> QED
    BY <1>1, Invariant, PTL

\* Blocking I/O cannot starve the pool: while it may still grow, some worker is not
\* blocked once every worker that blocks has decided in enterBlocking.
THEOREM NeverStarvedHolds == Spec => []NeverStarved
  <1>1. IInv => NeverStarved
    <2> DEFINE Live == {w \in Workers : Alive(w)}
    <2> SUFFICES ASSUME Types, Locals, Making, Phases, Counts, Grows, MayGrow, workers # {},
                        ~(Cardinality(BlockedWorkers) < Cardinality(Live))
                 PROVE  FALSE
      BY Zenon DEF IInv, NeverStarved
    <2>1. started /\ ~shuttingDown /\ Total < kMaxWorkers /\ ThreadsLeft
      BY Zenon DEF MayGrow
    <2>2. \A t \in Threads : pc[t] \notin {"blocking", "reserve", "create"}
      BY Zenon DEF MayGrow, Growing
    <2>3. Live = Born
      BY <2>1, Zenon DEF Alive, Born, Locals
    <2>4. Live \subseteq Threads /\ BlockedWorkers \subseteq Live
      BY Zenon DEF BlockedWorkers, Alive, Threads
    <2>5. BlockedWorkers = Live
      <3>1. BlockedWorkers \subseteq Threads
        BY <2>4, Zenon
      <3>2. Cardinality(BlockedWorkers) \in Nat /\ Cardinality(Live) \in Nat
        BY <2>4, <3>1, Finite, Zenon
      <3>3. Cardinality(BlockedWorkers) = Cardinality(Live)
        BY <2>4, <3>2, NoMore
      <3> QED
        BY <2>4, <3>3, NoMore, Zenon
    <2>6. Born \subseteq InIo
      BY <2>3, <2>5, Zenon DEF BlockedWorkers, InIo, IoLabels
    <2>7. Born # {}
      BY <2>1, Zenon DEF Making, Phases, Types
    <2>8. ~(Total >= kMaxWorkers)
      BY <2>1, Sizes, Settings
    <2> QED
      BY <2>1, <2>2, <2>6, <2>7, <2>8, MainApart, Zenon DEF Grows
  <1> QED
    BY <1>1, Invariant, PTL

\* No worker outlives shutdown, one that another worker was creating when it began
\* included.
THEOREM AllJoinedHolds == Spec => []AllJoined
  <1>1. IInv => AllJoined
    BY Zenon DEF IInv, Phases, AllJoined
  <1> QED
    BY <1>1, Invariant, PTL

\* When shutdown returns, every turn that was queued has run.
THEOREM DrainedAtShutdownHolds == Spec => []DrainedAtShutdown
  <1>1. IInv => DrainedAtShutdown
    <2> SUFFICES ASSUME Types, Locals, Phases, Drained, pc[Main] = "done"
                 PROVE  ready = {} /\ finished = submitted
      BY Zenon DEF IInv, DrainedAtShutdown
    <2>1. \A w \in Workers : ~Alive(w)
      BY Zenon DEF Phases
    <2>2. CASE Born = {}
      BY <2>2, Zenon DEF Phases, Types, JoinLabels
    <2>3. CASE Born # {}
      <3>1. ready = {}
        BY <2>1, <2>3, Zenon DEF Drained
      <3>2. \A w \in Workers : task[w] = NoTask
        BY <2>1, Zenon DEF Locals, Alive, TurnLabels, IoLabels
      <3>3. submitted \subseteq finished
        BY <3>1, <3>2, ConstantsAssumption, Zenon DEF Drained, Types
      <3> QED
        BY <3>1, <3>3, Zenon DEF Types
    <2> QED
      BY <2>2, <2>3, Zenon
  <1> QED
    BY <1>1, Invariant, PTL

=============================================================================
