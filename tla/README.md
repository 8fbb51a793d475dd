# protoScala: a TLA+ verification project

protoScala compiles a dialect of Scala to bytecode and runs it on the protoCore
object space, with actors, futures, OS threads, modules loaded at run time and a
debug adapter. This directory holds TLA+ models of that program, the TLC
configurations that check them on small instances, and TLAPS proofs of the safety
of the actor scheduler, its ready stacks, its worker pool and the module table,
for instances of any size. `PROJECT.json` lists the components, the runs, the
source lines each definition models, the hazards of the code and the theorems.

    tlc -workers 2 -config MCActorScheduler.cfg MCActorScheduler
    tlapm ActorSchedulerProofs.tla

There are two halves. The first is the concurrent runtime: threads, atomics,
locks and messages, modelled step by step. The second is the way of a program
from its text to its effects (layout, parser, desugarer, compiler, interpreter,
collections), which is sequential: its parts are operators or small machines,
checked against definitions that know nothing of how the code works.

## The system and what is modelled

| Part | Source | Modules | State |
|---|---|---|---|
| Actor claim protocol, turns, suspension | `runtime/ActorScheduler.*`, `FutureYield.h` | `ActorScheduler`, `ActorContract`; `ActorSchedulerProofs`, `ActorSchedulerWakeups`, `ActorSchedulerCompletions`, `ActorContractProofs` | modelled, safety proved |
| Mailboxes | `runtime/Mailbox.*` | `ActorScheduler` | modelled |
| Ready stacks | `runtime/ReadyStack.h` | `ReadyStack`, `LifoStack`; `ReadyStackProofs` | modelled, safety proved |
| Worker pool, semaphore | `runtime/ActorScheduler.*`, `Semaphore.h` | `WorkerPool`; `WorkerPoolProofs` | modelled, safety proved |
| Futures, continuations, blocking await | `runtime/Futures.*`, `ActorPrimitives.cpp` | `Futures`, `Promise` | modelled |
| Module table and loading | `repl/ModuleTable.*`, `repl/Session.cpp` | `ModuleTable`; `ModuleTableProofs` | modelled, safety proved |
| Actor, Thread, System primitives | `runtime/ActorPrimitives.cpp` | (as above) | partly |
| DAP server; threads, stops and detach of the debugger core | `dap/DapServer.cpp`, `runtime/Debugger.cpp` | `DapServer` | partly |
| Layout | `frontend/Layout.*` | `Layout` | modelled |
| Parser, syntax tree | `frontend/Parser.*`, `AST.*` | `Parser`, `Syntax`, `Ast` | modelled |
| Desugarer | `frontend/Desugar.*` | `Desugar` | partly |
| Compiler | `compiler/Compiler.cpp`, `CompilePatterns.cpp`, `CompileTailRec.cpp`, `CompileTemplates.cpp` | `Scopes`, `Compiler`, `Templates` | partly |
| Linearizer, object model, equality and hashing | `frontend/Linearizer.*`, `runtime/Values.cpp` | `Templates`, `Engine`, `Collections` | partly |
| Execution engine | `runtime/ExecutionEngine.*`, `OpcodeOps.h` | `Engine` | partly |
| Native collections | `runtime/CollectionPrimitives.cpp`, `Primitives.cpp` | `Collections` | partly |
| Lexer, session and REPL, module providers, serialised bytecode, transpiler, files, HTTP, start-up | | | not modelled, see below |

How the parts meet. A unit of source text becomes tokens, is laid out, parsed,
desugared and compiled, and its bytecode is run by the engine, which calls the
natives of the collections and is called back by them. A `send` puts an envelope
in a mailbox and tries to claim the actor; the winner pushes it on a ready stack
and releases the semaphore; a worker pops it, runs a turn of at most `kBatchSize`
messages in the engine and releases the claim. A handler that awaits a pending
future leaves the engine with a snapshot of its frames and parks its actor; the
future's completion resumes it. Completions also run continuations and wake OS
threads that block in `await`. A worker that blocks in I/O asks the pool to grow.
Modules are loaded by whichever thread first imports them.

## Modules: the concurrent runtime

**ActorScheduler** (with `ActorContract`). Variables: `sched[a]` is
`ActorState::sched` (0 idle, 1 claimed, 2 claimed with a wake marked, 3 parked);
`mailbox` and `pending` are the two queues of each priority band, `pending`
being what is left of the last `takeAll` after `pendingIdx`; `ready` is the three
ready stacks; `snapshot` and `waitingOn` are the attributes a suspended chain
leaves on its actor, and `turnMsg` the message it was handling (whose reply
future is the code's `turnFutureKey`); `settled` and `waiters` are the futures;
`suspended` is `suspended_`. Each thread has a `pc` and the locals of the code it
is in. There is one action per atomic access: `send` is `Send`, `SendClaim`,
`SendEnqueue`; `finishTurn` is `FinishLoad`, `FinishCheck`, `FinishRelease`,
`FinishEnqueue` and, for a suspended turn, `FinishSuspended`, `CountSuspended`;
`resume` is `Resume`, `ResumeParked`, `ResumeIdle`; and so on. A yield that
reaches a frame with no call pending (an `==` that called an `equals`) is refused
(`AwaitRefused`): the frames inside it have recorded themselves by then, so
`snapshot`, `waitingOn` and the entry in the future's waiter list stay behind
while the handler goes on with an exception. The
end of that turn, or a later one, finds them and suspends or resumes for them.
The model follows the claims and wake-ups through this and leaves out what the
leftover frames compute; `applyHandlerResult` may write it to the actor's state.
`ActorContract`
promises what a user of one actor sees: messages of a band are taken in the order
of the sends, each once, and never while another handler is unfinished.

**ReadyStack** (with `LifoStack`). The lock-free stack: `head_` and `free_` as
(generation, index) words, the nodes' links and values, the fresh-index counter
and the chunks. One action per atomic access; `LifoStack` is a stack whose
operations take effect at one instant, and the refinement mapping follows the
links from the head.

**WorkerPool**. `ensureStarted`, the two critical sections of `spawnWorker` and
the `newThread` between them, `workerLoop` with its spin rounds, the semaphore's
`release` and `acquire` with the futex wait, `enterBlocking`, `leaveBlocking` and
`shutdown`. A turn is a task; a task may block on I/O that another task answers
(`Needs`), as an HTTP client and server on one pool do. The ready stacks are one
set, since no property here depends on their order. `leaving` holds the workers
that are past the shutdown test. `newThread` is external: it may answer null when
no thread is left.

**Futures** (with `Promise`). `complete` with its claim, value and state writes,
`onComplete`, `runContinuations`, the futures derived by `map`, `flatMap` and
`recover`, `awaitBlocking` and `wakeBlockedThreads`. A thread's calls nest
(a continuation completes another future, whose continuations run in turn), so
each thread has a stack of frames. A derived future exists from the moment its
continuation is registered (`Made`). `Promise` promises that a future is settled
once and never changes, and that each continuation runs once, after settlement.

**ModuleTable**. `find`, `claim`, `awaitLoaded`, `publish`, `abandon` and the
nested loads of `Session::loadModuleFile`, with a stack of loads per thread and
the failure of any of them.

**DapServer**. Three kinds of thread. The debuggee's threads (`tpc`) register and
exit under `Threads::mu` (`RegisterThread`, `ThreadStarted`, `Exit`,
`ThreadExited`), find a reason to stop (`NewLine`), become a `StoppedThread` with
fresh frame ids (`Stop`), announce it, run the work queued for them (`TakeWork`,
`FinishWork`) and go on (`Resume`). The evaluator (`epc`) waits for the
configuration, opens a session, runs the script, clears `session_` and joins the
workers. The protocol thread (`spc`) handles one request at a time; a request on
a frame is `HandleInspect`, `OwnerOf`, `QueueWork`, `Answer`, because `mu_` is
released between them, and the shutdown is `Disconnect`, `Detach`, `Shutdown` and
`Leave` or `Kill`. A `StoppedThread` is its thread and the number of the stop
(`stops`), so that a later stop of the same thread is told from an earlier one.
Why a thread stops (step, breakpoint, exception) is left open.

## Modules: from the text to its effects

**Ast** and **Syntax** hold the tree: one constructor per node of `AST.h`, `Ast`
for the nodes the compiler reads and `Syntax` for those `Desugar` removes.

**Layout** is the layout pass as a machine with one action per raw token: it
emits the token with the `Newline`, `Indent` and `Outdent` it causes, keeps the
stack of regions (indented, braced, bracketed, pending block), handles closing
keywords and end markers, and ends as done, wrong or incomplete. A raw token
keeps its kind, text, line, indentation and what the pass asks of its
surroundings; how characters become tokens is the lexer's.

**Parser** is `Parser.cpp` as operators over the laid-out tokens, one per parse
function, with precedence, placeholders, patterns, types, definitions, templates,
enums, extensions and imports. A failure is "error" or "incomplete" by the
code's own test (the failing token is the end of the input).

**Desugar** rewrites the parser's tree into the compiler's: operators, compound
assignments, for-comprehensions, interpolation, pattern definitions, enums and
companions, nested templates, extensions, and the effect of `Unit` and `Double`
types. Fresh names are made from the node's place, where the code counts.

**Scopes**, **Compiler** and **Templates** are the bytecode compiler. Its state
(the functions under construction, their scopes, slots, captures, stack depth and
handler table, the global table, the known types) is a record that one operator
per `compileX` method takes and returns. `Scopes` has emission, name resolution
and the capture analysis that decides which definitions live in a box; `Compiler`
has expressions, calls, closures, patterns, `try` with its copied `finally`
blocks and `@tailrec` loops (a self call by name, on `this` or on another
receiver, under `_` functions, with defaults, named and repeated arguments and
widened parameters, and its value discarded where the result is `Unit`);
`Templates` has linearization, members and their
private keys, constructors, and `compileUnit`. The first error ends compilation.

**Engine** runs the bytecode. Variables: `frames` (module, pc, slots, operand
stack, what the engine's C++ does with the result), `heap` (cells, lazy values,
instances, classes), `globals`, `out` (what the program emitted), `awaits` (how
each await ended), `outer` (frames of a suspended chain that `resumeFrames` has
not re-entered), `snapshot` (the frames a yield has recorded so far) and
`status`. A value widened by `toDouble` is a `DoubleV` of its integer, without
arithmetic; repeated arguments travel as the code's `__varargs` do. `Next` is one
instruction or one step of the engine's own C++: the return of a frame, the
search for a handler, a callback of a native, an await that finds its future
settled, failed or pending, the suspension that takes the snapshot, frame by
frame, until it reaches the bottom or is refused, and the resumption that
rebuilds the chain.

**Collections** has the natives of List, Vector, Range, Map, Set and the filtered
view. A native answers, raises, or asks for a call of a program's function with
the state of its loop, so each loop is cut exactly where it calls back. `Engine`
uses the same operators for compiled programs.

**Semantics** is the reference for the engine: what a program means, stated on
the parser's tree with environments and a store. It knows no desugaring,
bytecode, slots, boxes, handler tables or prototypes, and is not a model of code.
**Programs** holds the programs, **FrontEndSamples** the texts.

## Runs

| Run | Instance | States | Shows |
|---|---|---|---|
| `actor_scheduler` | 2 actors, 2 workers, 1 client, 2 messages, 2 bands, `kBatchSize` 1 | 451,583 | one worker per actor at a time, a claim in one place, no lost wake-up, every parked actor has a wake-up to come, the suspended counter |
| `actor_contract` | 1 actor, 1 worker, 1 client, 3 messages, 2 bands, `kBatchSize` 2 | 102,036 | the contract; messages are taken; a settled future resumes its actor |
| `ready_stack` | 3 threads, 2 values, 3 pushes, first chunk of 2 nodes | 317,037 | linearizability; each node in one place; chunks present before use |
| `worker_pool` | 2 threads to be had, base 1, 2 tasks, 2 spin rounds | 32,505 | no starvation by blocked I/O, no unsigned underflow, shutdown drains, joins all and returns |
| `futures` | 2 threads, 3 futures, 3 continuations | 49,287 | the promise; derived outcomes; blocked threads are always about to be woken; awaits return and continuations run |
| `module_table` | 2 threads, 4 modules, 2 imports per thread | 23,986 | claims match loads; a loaded module's imports are loaded; imports end |
| `dap_server` | evaluator and 1 worker, 2 stops each, 1 request on a frame | 137,993 | frame ids live as long as their stop; a request runs in the stop it was made for; order of thread events; callbacks end with detach; requests answered; shutdown releases every thread |
| `engine` | 57 programs, every outcome of every await | 4,764 | a compiled program emits and ends as its source says; the operand stack has the depth the compiler recorded; every program ends |
| `front_end` | 2,976 texts | 36,418 | every text is read back as the tree it was written from, or refused as wrong or as incomplete; regions are well nested at every token |
| `collections` | 22 receivers, every native, any answers, chains of two calls | 339,083 | calls, results and failures are those of the definitions; but for the answers `Excused` names a Range or Vector answers as the List of its elements; Map and Set agree with `==` |
| `module_once`, `resume_chain` | as small as shows it | | the first two disagreements below |

The bounds. Two actors and two workers give every race on one claim word and the
wake-up of one actor by another; a third worker adds a spectator. `kBatchSize` 1
makes every message end a turn, 2 leaves messages in `pending` while newer ones
arrive, which needs three messages. `MaxWaits` bounds how often an actor awaits
the same pending future: once in the larger instance, twice in the smaller, where
a refused await is followed by another that parks. Three pushes make a node pass
through the free list while a stalled pop holds its old word, and cross a chunk
boundary. In the pool, with two threads to be had and a growing pool, a creation
is refused; two workers of a pool that may still grow never block together in
that instance, which the theorem `NeverStarvedHolds` covers; larger pools (three
workers with base 1, three tasks, three workers with base 2) were checked by hand
with the same result. In `futures` one future has two continuations, a `recover`
and a `flatMap` whose body answers the recovered future and so forwards it:
completions nest, the two derived futures are settled in either order, and two
threads race to complete the source. `map` adds no branch to these; an instance
with a `map` as well (four futures, four continuations, 291,518 states) was
checked by hand with the same properties, and a chain of a `map` and a `recover`
(five futures, 1,909,926 states) with those of safety. In `dap_server` two stops
per thread let a frame id, or a request that was looked up, outlive its stop and
meet the next one; two requests (305,696 states) were checked by hand. The
expressions it evaluates wait for no other thread; those of `MCDapServerWait.cfg`
below do. Four modules hold a diamond and a cycle entered by one thread.

In `engine` each program is built for one hazard of the translation (a variable
captured before it is assigned, a `return` through two `finally` blocks, a
default that reads an earlier parameter, a method of a trait reached through
`super`, an await under a native, a guard that falls through to the next case):
it is the interplay of two or three constructs that a compiler gets wrong, and
such a program needs only a few lines. The awaits of a program end in every
combination of settled, failed and suspended. In `front_end` each of eight
constructs is put in each other in every layout style (indented, braced, on one
line, old and new conditions, with and without an end marker), every sequence of
three operators out of eleven is grouped, and samples cover the rest of the
grammar with its errors and unfinished inputs. In `collections` the receivers
hold equal keys of different kinds (`'a'` and 97, a Range and a List), repeated
elements, and Ranges that are empty, descending or do not end on a step; the
functions a native calls may answer with the wrong type. Of a filtered view the
elements are compared, not the kind of collection it yields.

A model of a program that stops has no step when it has stopped: the runs on the
pool, the futures, the module table, the adapter, the engine, the front end and
the collections do not check for deadlock, and say with a property that what must
finish does (`Terminates`, `ShutdownReturns`, `AwaitReturns`, `ImportsEnd`,
`RequestAnswered`). The scheduler and the stack never stop and are checked.

Fairness. Weak fairness of each thread's own steps: the operating system
schedules every thread, and handlers, turns and bodies are assumed to end. What
the program decides (to send, await, complete, import, submit, block or shut
down) is not fair, and neither is the 50 ms timeout of `awaitBlocking`: the
liveness of blocked awaits does not lean on it. `ShutdownReturns` assumes that no
worker stays blocked for ever on I/O nobody answers, which no code could mend.
In `DapServer` the protocol thread and the threads inside the hook are fair, the
client, the script and the half-second `Kill` are not; `MCDapServerWait.cfg` adds
a client that always continues a stopped thread when it is listened to. In
`Engine` the one thread is fair and so is the scheduler's resumption of a
suspended turn, which `actor_contract` shows the scheduler owes.

Abstractions that merge steps or drop data, and why they are sound:

- A compare-and-set loop is one step on the value it finally read.
- `hasWork` reads several queues; only the claimer removes messages, so it
  behaves as one read at its last access. The same holds for
  `highestPendingBand` and the push that follows it.
- A critical section of `workersMtx_`, `mu_` or `g_waitMutex` is one step.
- `future_await`'s first look at the state and `addWaiter`'s are one step.
- In `ActorScheduler` the three writes of a completion are one step, because
  `kClaiming` reads as pending; `Futures` has them apart.
- The stack's diagnostic `size_` changes with the last swap of an operation.
- Memory is sequentially consistent. The generation is unbounded.
- `suspended` may pass through -1, the wrapped unsigned of the code.
- Jumps of the compiled code hold absolute targets, constants are in the
  instruction, and a definition is known by a name that stands for its node's
  address. Inline caches and fast paths only repeat the lookup they shortcut.
- Integers in `Engine` and `Collections` are small and unbounded; overflow into
  big integers is protoCore's.

## Disagreements between the code and its documentation

Two have a run:

- `module_once`: `find` and `claim` are separate critical sections and `claim`
  ignores `loaded_`, so a module can be loaded twice.
- `resume_chain`: an await two calls deep is suspended and its future fails. The
  failure is raised in the inner frame; `resumeFrames` re-enters the inner frames
  before it has entered `runFrame` for the outer one, so the outer frame's `try`
  never sees it and its `finally` does not run. The comments of
  `ActorScheduler.cpp` and `docs/STATUS.md` say that the enclosing `try` catches
  it. The same program whose await finds its future failed at once is right.

Eight more are shown by configurations kept beside them, each of which TLC
refutes (run with the module named):

- `MCFuturesAwait.cfg` (`MCFutures`): a continuation that awaits a pending future
  blocks its thread. The comment on `ActorTurnPause` (`Futures.cpp:40`) and
  D43/D48 in `docs/STATUS.md` say it is refused; `future_await` tests for "no
  current actor" first (`ActorPrimitives.cpp:165`) and blocks.
- `MCRefusedAwait.cfg` (`MCActorScheduler`): D43 (`docs/STATUS.md:942`) says that
  an await which cannot be suspended "raises `UnsupportedOperationException`
  instead of suspending; the ask's future receives that failure and the actor stays
  alive". The frames recorded before the refusal, the awaited future and the waiter
  entry are not withdrawn (`ExecutionEngine.cpp:1457`), so a later turn parks the
  actor, with no handler under way and its messages untaken, until that future
  settles; then the leftover frames are resumed.
- `MCWorkerPoolHang.cfg` (`MCWorkerPool`): once shutdown has begun the pool does
  not grow (`ActorScheduler.cpp:82`), so a worker can block for ever on I/O that a
  queued turn was to answer; `ActorScheduler.h:83` says the pool cannot starve.
- `MCModuleTableCycle.cfg` (`MCModuleTable`): a cycle entered by two threads at
  different modules is not refused, as `docs/LANGUAGE.md:285` says; both wait for
  ever.
- `MCDapServerWait.cfg` (`MCDapServer`): `docs/debugging.md:329` says an expression
  that waits for a stopped thread blocks its request until that thread is
  resumed; the protocol thread is the one that blocks, so the request that would
  resume it is never read.
- `RangeEquality.cfg` (`MCCollections`): two Ranges of one element that differ in
  their step are not equal (`Values.cpp:289`), although each equals the List of
  its element; `docs/LANGUAGE.md:350` says they compare as Scala's `Seq`s do.
- `SetEntries.cfg` (`MCCollections`): `Map.toSet`, `Set ++ Map` and `Set.toMap`
  carry entries over as they are, so a Set comes to hold an entry whose key is not
  its value, against the comment at `CollectionPrimitives.cpp:2213`.
- `MCFinallyCopies.cfg` (`MCEngine`): a `finally` that raises while a `return`
  passes through it and an inner `try` is run twice, and so is the inner one. This
  one is known: D87 of the decisions log records it as not implemented, and
  `docs/DESIGN.md:609` says "`finally` runs on every exit path".

Other things met while reading, each a reason why a program or text is written as
it is:

- An await inside a default argument (`ExecutionEngine.cpp:650`) or inside a
  parameterless method whose result is applied (`:324`) is suspended in a C++
  call that leaves no frame of its caller in the snapshot: what the caller still
  had to do is lost. The programs await in bodies only.
- A resumed chain that is suspended a second time loses its outer frames, for the
  reason `resume_chain` shows.
- `force` stores a lazy value after its initialiser has returned
  (`ExecutionEngine.cpp:786`): two threads may both run it, and an initialiser
  that asks for its own value recurses.
- `return` in a `finally` body copies that body into itself while it is being
  compiled, without end.
- A closure made in a constructor holds the object as it was at that moment; a
  class body that reads a plain constructor parameter and a subclass that
  overrides it by a `val` see different values.
- An operator that ends in a colon reads a `var` on its left after its right
  operand; `return n` in a method of result `Double` is not widened.
- A lone `_`, two names in a row, and an error at the end of an interpolation
  hole fail at the end of the input, so the prompt asks for more; a `try` without
  catch or finally and an enum without a case fail at their first token and never
  count as unfinished. `end try` is laid out as an end marker and refused by
  `checkEndMarker`.
- A predicate on a Range that answers no Boolean counts as false where a List
  raises, and `Range.flatMap` raises another exception for a wrong answer:
  `SameAsList` sets these answers apart. It also sets apart `contains` of a Range
  with a Char, which answers false (`CollectionPrimitives.cpp:149`) where the
  List of the elements compares the Char as a number (`Values.cpp:268`). A
  guarded `for` over a Vector yields a List.
- A REPL input commits its definitions before it shows them (`Session.cpp:244`),
  so one whose `toString` raises is reported as an error and has defined them,
  against the comment at line 146.

## Proofs

The theorems hold for every value of the constants that satisfies the assumption
`ConstantsAssumption` of the component's module. Each rests on an inductive
invariant that holds initially and is kept by every step; the proofs have one step
per action and, under it, one per conjunct the action can disturb.

**Actor scheduler**: finitely many actors, workers and clients, workers and
clients apart, a positive batch size, a reply future or none per message, bands
among the three of the code.

- `ActorSchedulerProofs` proves `TypeOK` (`TypeCorrect`), `SingleMethod`
  (`SingleMethodHolds`: no two workers are inside turns of one actor) and
  `ClaimHeldOnce` (`ClaimHeldOnceHolds`: a claimed actor is in exactly one place,
  a ready stack, a thread about to push it or the worker that runs it; an idle or
  parked one is in none). `ClaimHeldOnce` is not inductive: `finishTurn` keeps it
  only if the worker's actor is the one it popped, and a dequeue only if the stacks
  hold no actor twice. `IInv` (`Invariant`) adds `Control`, which ties a thread's
  locals to the code it is in, and `Claims`: every place that holds a claim holds
  it alone (`OneHolder`), for a claimed actor (`HoldersClaim`), and every claimed
  actor is held (`ClaimsHeld`).
- `ActorSchedulerWakeups` proves `NoLostWakeup` (`NoLostWakeupHolds`: an idle actor
  with a message has a sender about to claim it). The strengthening `Released`
  speaks of a worker between `hasWork` and its compare-and-set: what was queued in
  between has a sender before the claim. The module also proves `Suspending`: an
  actor with frames to resume is in the waiter list of the future they wait for,
  or its turn is about to put it there, whether the handler yielded or its await
  was refused.
- `ActorSchedulerCompletions` proves `ParkedIsWoken` (`ParkedIsWokenHolds`: a
  parked actor is in its future's waiter list, and if the future is settled its
  completion has still to reach the actor) and `SuspendedCount`
  (`SuspendedCountHolds`: the counter is the number of parked actors but for
  updates in flight). `Reached` extends the first to the actor its worker is about
  to park, since a completion may pass it before the compare-and-set to parked;
  the mark it leaves makes that compare-and-set fail.
- `ActorContractProofs` proves `ImplementsContract` (`ContractHolds`). It needs
  `IInv`, `Suspending` and that only a worker inside a handler has a message in
  hand (`InHand`); each step is then a step of the contract or leaves the mapped
  queues and handlers as they are (`Simulated`).

**Ready stacks** (`ReadyStackProofs`): finitely many threads, any values, any
number of pushes, any positive first chunk. `NodesOwnedOnce`
(`NodesOwnedOnceHolds`), `ChunksPresent` (`ChunksPresentHolds`) and
`ImplementsLifo` (`LifoHolds`). The links change under a thread's feet, so the
invariant names the two lists: there are sequences `L["stack"]` and `L["free"]`
which the links spell out from the heads (`Lists`), whose nodes and those in
threads' hands are all different (`Owners`), whose chunks are installed and whose
values are set on the stack (`Contents`), and such that a thread whose generation
is still current has read the current link (`Views`). `Counted` bounds the fresh
nodes by the pushes. A compare-and-swap that succeeds appends to a list or drops
its last node; every other step leaves `L` alone.

**Worker pool** (`WorkerPoolProofs`): finitely many threads to be had, any tasks
and dependencies, a positive base size, any ceiling and number of spin rounds.
`NoUnderflow` (`NoUnderflowHolds`), `NeverStarved` (`NeverStarvedHolds`),
`AllJoined` (`AllJoinedHolds`) and `DrainedAtShutdown` (`DrainedAtShutdownHolds`).
`Counts` says what the counters count (`spawning_` the threads inside the
creation, `blockedInIo_` the workers inside a blocking call), `Making` and
`Phases` where a worker may be while it is created and while the pool shuts down,
`Drained` that the last worker to leave leaves no task, and `Grows` that, when
every worker is in a blocking call, one that counted them all has still to decide
or a new one is on its way.

**Module table** (`ModuleTableProofs`): finitely many modules, any threads, any
import graph with its cycles. `LoadedIsClosed` (`LoadedIsClosedHolds`: what a
loaded module imports is loaded) and `ClaimsMatchLoads` (`ClaimsMatchLoadsHolds`).
The invariant says that the modules a thread has claimed are those of its chain of
loads, each once, and that what a load imports is loaded, still to come, or being
loaded by the next load of the chain (`Covers`).

Only model-checked: `Futures` with its refinement of `Promise`, `DapServer`, and
all liveness, which the prover does not support. The layout, parser, desugarer,
compiler, engine and collections are recursive operators on trees and sequences;
what such an operator computes for every input needs induction over data, which
is out of the prover's reach, so they are checked on the inputs described above
and on no others.

## Not modelled

- Lexer: characters to tokens. The front-end models begin with raw tokens.
- Session and REPL (redefinition and rollback of globals), module providers, and
  with them what a module file exports: imports in the compiler
  (`Compiler.cpp:1421`-`1780`) and `desugarModule`.
- In the compiler: extension methods at the call (as tail calls too), overload
  sets and their keys, self aliases, the `f` interpolator, the filters of `catch`
  clauses kept for the debugger, debug tables. In the engine: more than one
  thread in it, inline caches, the stack guard, positions and stack traces.
- Debugger: steps by depth, breakpoints and exception filters; the adapter's wire
  format, paths and output forwarding.
- Serialised bytecode, the transpiler and its run-time shims: conversions with no
  state of their own, the second repeating the engine's semantics.
- Arithmetic on Double, and LargeInt and Double as elements and keys of
  collections; a LargeInt hashes its digits (`Values.cpp:327`), an equal Double
  its value.
- Strings, numbers, formatting, files and HTTP: library data and I/O; that I/O
  blocks a worker is in `WorkerPool`. Mutable buffers and iterators over strings.
- `catch (...)` around a turn (an unknown C++ exception); a resumed turn with no
  waited future, which no path produces; the collector and its safepoints; weak
  memory orders; an internal error that escapes `runScript`; `Thread.start` and
  `join` beyond the blocking await.
- Limits met only after very long runs, or by design: the wrap of the stack's
  generation after 2^32 swaps (`ReadyStack.h:133`), of the semaphore's permits
  (`Semaphore.h:22`), two workers that pass the ceiling `kMaxWorkers` together
  (`ActorScheduler.cpp:113`), a start after shutdown (`:68`), and low bands that
  wait for as long as higher ones are busy (`:247`).

## Plan

1. **Session**: evaluation, redefinition and rollback of globals, module import
   and what a module exports, composed with `ModuleTable`.
2. **Engine with threads**: lazy values and objects initialised by two threads,
   awaits in default arguments, composed with `ActorScheduler`.
3. **Debugger**: steps by depth, breakpoints (armed, moved, conditional, counted)
   and exception filters on the stopping thread, composed with `DapServer`; what
   a request may use once the script has ended and `session_` is cleared.
4. **Proofs**: `ImplementsPromise` and `NoLostWake` of `Futures`.
