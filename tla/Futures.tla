------------------------------ MODULE Futures -------------------------------
(***************************************************************************)
(* Futures (src/runtime/Futures.cpp and the Future primitives of           *)
(* src/runtime/ActorPrimitives.cpp): completion by several threads,        *)
(* continuations, the derived futures of map, flatMap and recover, and     *)
(* blocking await.  Suspending await is the business of ActorScheduler.    *)
(*                                                                         *)
(* A thread's call chain is a stack of frames, since a continuation        *)
(* completes another future, whose continuations run on the same thread.   *)
(* One read, write or compare-and-set of shared state is one action.       *)
(***************************************************************************)
EXTENDS Integers, Sequences, FiniteSets

CONSTANTS
    Threads,
    Workers,      \* the threads that are in the middle of an actor's turn
    Futures,
    Roots,        \* futures completed by calls of complete
    Conts,        \* registrations; each happens at most once
    Kind,         \* Kind[k]: "user", "map", "flatMap", "recover" or "forward"
    Source,       \* Source[k]: the future k is registered on
    Derived,      \* Derived[k]: the future k completes, or NoFuture
    Forward,      \* Forward[k]: a flatMap's cont_forward, or NoCont
    Watched,      \* the futures a thread outside any continuation may await
    Awaits,       \* Awaits[k]: the futures k's body may await
    MaxAttempts,  \* bound on the calls of complete: MaxAttempts[f] on the root f
    NoFuture, NoCont

Kinds == {"user", "map", "flatMap", "recover", "forward"}

ASSUME ConstantsAssumption ==
    /\ Workers \subseteq Threads
    /\ Roots \subseteq Futures
    /\ NoFuture \notin Futures /\ NoCont \notin Conts
    /\ Kind \in [Conts -> Kinds]
    /\ Source \in [Conts -> Futures]
    /\ Derived \in [Conts -> (Futures \ Roots) \cup {NoFuture}]
    /\ Forward \in [Conts -> Conts \cup {NoCont}]
    /\ Watched \subseteq Futures
    /\ Awaits \in [Conts -> SUBSET Futures]
    /\ MaxAttempts \in [Roots -> Nat]

\* What a future is completed with: whether it failed, and the thread or the
\* continuation whose value or Throwable it carries.
Outcomes == [failed : BOOLEAN, by : Threads \cup Conts]
NoOutcome == [failed |-> FALSE, by |-> NoCont]

VARIABLES
    fstate,      \* __fstate__
    fvalue,      \* __fvalue__ or __ferror__
    conts,       \* __conts__
    epoch,       \* g_epoch
    blocked,     \* g_blocked
    sleeping,    \* threads in g_waitCv
    stack,       \* each thread's call chain, innermost first
    attempts,    \* calls of complete on each root
    registered,  \* continuations handed to onComplete
    ran          \* ran[k]: times k was run

vars == <<fstate, fvalue, conts, epoch, blocked, sleeping, stack, attempts, registered, ran>>
shared == <<fstate, fvalue, conts>>
waiting == <<epoch, blocked, sleeping>>
history == <<attempts, registered, ran>>

Init ==
    /\ fstate = [f \in Futures |-> "pending"]
    /\ fvalue = [f \in Futures |-> NoOutcome]
    /\ conts = [f \in Futures |-> <<>>]
    /\ epoch = 0
    /\ blocked = 0
    /\ sleeping = {}
    /\ stack = [t \in Threads |-> <<>>]
    /\ attempts = [f \in Futures |-> 0]
    /\ registered = {}
    /\ ran = [k \in Conts |-> 0]

-----------------------------------------------------------------------------
(* Call chains.                                                            *)

Frame(at, f, k, out) == [at |-> at, f |-> f, k |-> k, out |-> out, list |-> <<>>, seen |-> 0]

CompleteFrame(f, out) == Frame("claim", f, NoCont, out)
RunFrame(f) == Frame("run_read", f, NoCont, NoOutcome)
RegisterFrame(k) == Frame("reg_check", Source[k], k, NoOutcome)
ContFrame(k) == Frame("cont", Source[k], k, NoOutcome)
AwaitFrame(f) == Frame("aw_epoch", f, NoCont, NoOutcome)

At(t, l) == stack[t] # <<>> /\ stack[t][1].at = l
Top(t) == stack[t][1]

Return(t) == stack' = [stack EXCEPT ![t] = Tail(@)]
Become(t, fr) == stack' = [stack EXCEPT ![t] = <<fr>> \o Tail(@)]
Goto(t, l) == Become(t, [Top(t) EXCEPT !.at = l])
\* The top frame goes on at l once the called frame returns.
Call(t, l, fr) == stack' = [stack EXCEPT ![t] = <<fr, [Top(t) EXCEPT !.at = l]>> \o Tail(@)]

\* futures::state: a claimed future still reads as pending.
Settled(f) == fstate[f] \in {"success", "failure"}

Outcome(f) == [failed |-> fstate[f] = "failure", by |-> fvalue[f].by]

\* A program has a derived future in its hands once derive made it.
Made(f) == f \in Roots \/ \E k \in registered : Derived[k] = f

-----------------------------------------------------------------------------
(* complete.                                                               *)

Complete(t, f, failed) ==
    /\ stack[t] = <<>>
    /\ f \in Roots
    /\ attempts[f] < MaxAttempts[f]
    /\ attempts' = [attempts EXCEPT ![f] = @ + 1]
    /\ stack' = [stack EXCEPT ![t] = <<CompleteFrame(f, [failed |-> failed, by |-> t])>>]
    /\ UNCHANGED <<shared, waiting, registered, ran>>

\* One compare-and-set claims the completion; a loser returns false.
Claim(t) ==
    /\ At(t, "claim")
    /\ LET f == Top(t).f IN
       \/ /\ fstate[f] = "pending"
          /\ fstate' = [fstate EXCEPT ![f] = "claiming"]
          /\ Goto(t, "write")
       \/ /\ fstate[f] # "pending"
          /\ UNCHANGED fstate
          /\ Return(t)
    /\ UNCHANGED <<fvalue, conts, waiting, history>>

WriteValue(t) ==
    /\ At(t, "write")
    /\ fvalue' = [fvalue EXCEPT ![Top(t).f] = Top(t).out]
    /\ Goto(t, "settle")
    /\ UNCHANGED <<fstate, conts, waiting, history>>

\* The final state; then runContinuations, then wakeBlockedThreads.
Settle(t) ==
    /\ At(t, "settle")
    /\ LET fr == Top(t) IN
       /\ fstate' = [fstate EXCEPT ![fr.f] = IF fr.out.failed THEN "failure" ELSE "success"]
       /\ Call(t, "wake", RunFrame(fr.f))
    /\ UNCHANGED <<fvalue, conts, waiting, history>>

-----------------------------------------------------------------------------
(* runContinuations.                                                       *)

RunRead(t) ==
    /\ At(t, "run_read")
    /\ LET list == conts[Top(t).f] IN
       IF list = <<>> THEN Return(t)
       ELSE Become(t, [Top(t) EXCEPT !.at = "run_take", !.list = list])
    /\ UNCHANGED <<shared, waiting, history>>

\* Mutant: the list is run without being taken.
RunTakeLeaves(t) ==
    /\ At(t, "run_take")
    /\ Goto(t, "run_loop")
    /\ UNCHANGED <<shared, waiting, history>>

\* The list is taken by a compare-and-set; a thread that lost it leaves the
\* list to the registration that changed it.
RunTake(t) ==
    /\ At(t, "run_take")
    /\ LET f == Top(t).f IN
       \/ /\ conts[f] = Top(t).list
          /\ conts' = [conts EXCEPT ![f] = <<>>]
          /\ Goto(t, "run_loop")
       \/ /\ conts[f] # Top(t).list
          /\ UNCHANGED conts
          /\ Return(t)
    /\ UNCHANGED <<fstate, fvalue, waiting, history>>

RunNext(t) ==
    /\ At(t, "run_loop")
    /\ LET list == Top(t).list IN
       \/ /\ list # <<>>
          /\ stack' = [stack EXCEPT ![t] =
                         <<ContFrame(Head(list)), [Top(t) EXCEPT !.list = Tail(list)]>> \o Tail(@)]
       \/ list = <<>> /\ Return(t)
    /\ UNCHANGED <<shared, waiting, history>>

-----------------------------------------------------------------------------
(* onComplete.                                                             *)

\* derive, and future_onComplete: the derived future is fresh.
OnComplete(t, k) ==
    /\ stack[t] = <<>>
    /\ k \notin registered
    /\ Kind[k] # "forward" /\ Made(Source[k])
    /\ registered' = registered \cup {k}
    /\ stack' = [stack EXCEPT ![t] = <<RegisterFrame(k)>>]
    /\ UNCHANGED <<shared, waiting, attempts, ran>>

\* On a settled future the continuation runs at once on this thread.
RegisterCheck(t) ==
    /\ At(t, "reg_check")
    /\ IF Settled(Top(t).f) THEN Become(t, ContFrame(Top(t).k)) ELSE Goto(t, "reg_read")
    /\ UNCHANGED <<shared, waiting, history>>

RegisterRead(t) ==
    /\ At(t, "reg_read")
    /\ Become(t, [Top(t) EXCEPT !.at = "reg_cas", !.list = conts[Top(t).f]])
    /\ UNCHANGED <<shared, waiting, history>>

RegisterCas(t) ==
    /\ At(t, "reg_cas")
    /\ LET fr == Top(t) IN
       \/ /\ conts[fr.f] = fr.list
          /\ conts' = [conts EXCEPT ![fr.f] = Append(fr.list, fr.k)]
          /\ Become(t, [fr EXCEPT !.at = "reg_recheck", !.list = <<>>])
       \/ /\ conts[fr.f] # fr.list
          /\ UNCHANGED conts
          /\ Become(t, [fr EXCEPT !.at = "reg_check", !.list = <<>>])
    /\ UNCHANGED <<fstate, fvalue, waiting, history>>

\* Mutant: a completion that won meanwhile is not looked for.
RegisterRecheckNot(t) ==
    /\ At(t, "reg_recheck")
    /\ Return(t)
    /\ UNCHANGED <<shared, waiting, history>>

RegisterRecheck(t) ==
    /\ At(t, "reg_recheck")
    /\ IF Settled(Top(t).f) THEN Become(t, RunFrame(Top(t).f)) ELSE Return(t)
    /\ UNCHANGED <<shared, waiting, history>>

-----------------------------------------------------------------------------
(* A continuation: a user's callback, or the holder of a derived future.   *)

\* Mutant: flatMap runs its body on a failed source.
CopiesMapOnly(k) ==
    \/ Kind[k] = "forward"
    \/ Kind[k] = "map" /\ fstate[Source[k]] = "failure"
    \/ Kind[k] = "recover" /\ fstate[Source[k]] = "success"

\* The operators that pass their source's outcome on without the user's body.
Copies(k) ==
    \/ Kind[k] = "forward"
    \/ Kind[k] \in {"map", "flatMap"} /\ fstate[Source[k]] = "failure"
    \/ Kind[k] = "recover" /\ fstate[Source[k]] = "success"

ContBegin(t) ==
    /\ At(t, "cont")
    /\ LET k == Top(t).k IN
       /\ ran' = [ran EXCEPT ![k] = @ + 1]
       /\ IF Copies(k) THEN Call(t, "cont_end", CompleteFrame(Derived[k], Outcome(Source[k])))
          ELSE Goto(t, "body")
    /\ UNCHANGED <<shared, waiting, attempts, registered>>

\* The user's body returns: the callback is over, or the derived future is
\* completed with the result, or with what the returned future gives.
BodyReturns(t) ==
    /\ At(t, "body") \/ At(t, "body_end")
    /\ LET k == Top(t).k IN
       \/ /\ Kind[k] = "user"
          /\ Return(t)
          /\ UNCHANGED registered
       \/ /\ Kind[k] \in {"map", "recover"}
          /\ Call(t, "cont_end", CompleteFrame(Derived[k], [failed |-> FALSE, by |-> k]))
          /\ UNCHANGED registered
       \/ /\ Kind[k] = "flatMap" /\ Made(Source[Forward[k]])
          /\ registered' = registered \cup {Forward[k]}
          /\ Call(t, "cont_end", RegisterFrame(Forward[k]))
    /\ UNCHANGED <<shared, waiting, attempts, ran>>

\* The body throws (or a flatMap's body returns no future): a callback's
\* exception is reported, any other fails the derived future.
BodyThrows(t) ==
    /\ At(t, "body") \/ At(t, "body_end")
    /\ LET k == Top(t).k IN
       \/ Kind[k] = "user" /\ Return(t)
       \/ /\ Kind[k] # "user"
          /\ Call(t, "cont_end", CompleteFrame(Derived[k], [failed |-> TRUE, by |-> k]))
    /\ UNCHANGED <<shared, waiting, history>>

ContEnd(t) ==
    /\ At(t, "cont_end")
    /\ Return(t)
    /\ UNCHANGED <<shared, waiting, history>>

-----------------------------------------------------------------------------
(* future_await.                                                           *)

\* ActorTurnPause clears the current actor while continuations run.
Paused(t) == \E i \in DOMAIN stack[t] :
                 stack[t][i].at \in {"run_loop", "cont", "body", "body_end", "cont_end"}
CurrentActor(t) == t \in Workers /\ ~Paused(t)

\* A continuation's body awaits f: a settled future answers at once, a thread
\* with no current actor blocks, and any other is refused (nativeReentryDepth
\* is above 1 here), which throws.
BodyAwaits(t, f) ==
    /\ At(t, "body")
    /\ f \in Awaits[Top(t).k] /\ Made(f)
    /\ IF ~Settled(f) /\ ~CurrentActor(t)
       THEN Call(t, "body_end", AwaitFrame(f))
       ELSE Goto(t, "body_end")
    /\ UNCHANGED <<shared, waiting, history>>

\* A thread outside any actor's turn awaits f.
Await(t, f) ==
    /\ stack[t] = <<>>
    /\ ~CurrentActor(t)
    /\ Made(f) /\ ~Settled(f)
    /\ stack' = [stack EXCEPT ![t] = <<AwaitFrame(f)>>]
    /\ UNCHANGED <<shared, waiting, history>>

-----------------------------------------------------------------------------
(* awaitBlocking.                                                          *)

AwaitEpoch(t) ==
    /\ At(t, "aw_epoch")
    /\ Become(t, [Top(t) EXCEPT !.at = "aw_state", !.seen = epoch])
    /\ UNCHANGED <<shared, waiting, history>>

AwaitState(t) ==
    /\ At(t, "aw_state")
    /\ IF Settled(Top(t).f) THEN Return(t) ELSE Goto(t, "aw_count")
    /\ UNCHANGED <<shared, waiting, history>>

\* Mutant: the epoch is read again after the state.
AwaitCountLate(t) ==
    /\ At(t, "aw_count")
    /\ blocked' = blocked + 1
    /\ Become(t, [Top(t) EXCEPT !.at = "aw_lock", !.seen = epoch])
    /\ UNCHANGED <<shared, epoch, sleeping, history>>

AwaitCount(t) ==
    /\ At(t, "aw_count")
    /\ blocked' = blocked + 1
    /\ Goto(t, "aw_lock")
    /\ UNCHANGED <<shared, epoch, sleeping, history>>

\* The predicate of wait_for, under g_waitMutex: a bumped epoch does not sleep.
AwaitLock(t) ==
    /\ At(t, "aw_lock")
    /\ IF epoch # Top(t).seen THEN Goto(t, "aw_leave") /\ UNCHANGED sleeping
       ELSE Goto(t, "aw_sleep") /\ sleeping' = sleeping \cup {t}
    /\ UNCHANGED <<shared, epoch, blocked, history>>

AwaitNotified(t) ==
    /\ At(t, "aw_sleep")
    /\ t \notin sleeping
    /\ Goto(t, "aw_lock")
    /\ UNCHANGED <<shared, waiting, history>>

\* The 50 ms bound.
AwaitTimeout(t) ==
    /\ At(t, "aw_sleep")
    /\ t \in sleeping
    /\ sleeping' = sleeping \ {t}
    /\ Goto(t, "aw_leave")
    /\ UNCHANGED <<shared, epoch, blocked, history>>

AwaitLeave(t) ==
    /\ At(t, "aw_leave")
    /\ blocked' = blocked - 1
    /\ Become(t, [Top(t) EXCEPT !.at = "aw_epoch", !.seen = 0])
    /\ UNCHANGED <<shared, epoch, sleeping, history>>

-----------------------------------------------------------------------------
(* wakeBlockedThreads.                                                     *)

WakeEpoch(t) ==
    /\ At(t, "wake")
    /\ epoch' = epoch + 1
    /\ Goto(t, "wake_load")
    /\ UNCHANGED <<shared, blocked, sleeping, history>>

WakeLoad(t) ==
    /\ At(t, "wake_load")
    /\ IF blocked # 0 THEN Goto(t, "wake_notify") ELSE Return(t)
    /\ UNCHANGED <<shared, waiting, history>>

WakeNotify(t) ==
    /\ At(t, "wake_notify")
    /\ sleeping' = {}
    /\ Return(t)
    /\ UNCHANGED <<shared, epoch, blocked, history>>

-----------------------------------------------------------------------------
\* What a thread does inside a call, the timeout of its wait apart.
Step(t) ==
    \/ Claim(t) \/ WriteValue(t) \/ Settle(t)
    \/ RunRead(t) \/ RunTake(t) \/ RunNext(t)
    \/ RegisterCheck(t) \/ RegisterRead(t) \/ RegisterCas(t) \/ RegisterRecheck(t)
    \/ ContBegin(t) \/ BodyReturns(t) \/ BodyThrows(t) \/ ContEnd(t)
    \/ AwaitEpoch(t) \/ AwaitState(t) \/ AwaitCount(t) \/ AwaitLock(t)
    \/ AwaitNotified(t) \/ AwaitLeave(t)
    \/ WakeEpoch(t) \/ WakeLoad(t) \/ WakeNotify(t)

Next ==
    \E t \in Threads :
        \/ Step(t)
        \/ AwaitTimeout(t)
        \/ \E f \in Futures, failed \in BOOLEAN : Complete(t, f, failed)
        \/ \E k \in Conts : OnComplete(t, k)
        \/ \E f \in Watched : Await(t, f)
        \/ \E f \in Futures : BodyAwaits(t, f)

Spec == Init /\ [][Next]_vars

-----------------------------------------------------------------------------
Labels == {"claim", "write", "settle", "wake", "wake_load", "wake_notify",
           "run_read", "run_take", "run_loop",
           "reg_check", "reg_read", "reg_cas", "reg_recheck",
           "cont", "body", "body_end", "cont_end",
           "aw_epoch", "aw_state", "aw_count", "aw_lock", "aw_sleep", "aw_leave"}

FrameOK(fr) ==
    /\ fr.at \in Labels
    /\ fr.f \in Futures
    /\ fr.k \in Conts \cup {NoCont}
    /\ fr.out \in Outcomes \cup {NoOutcome}
    /\ fr.list \in Seq(Conts)
    /\ fr.seen \in 0..epoch

\* The attributes of a future, the blocking counters and every thread's frames
\* keep their types; g_blocked never counts more threads than there are.
TypeOK ==
    /\ fstate \in [Futures -> {"pending", "claiming", "success", "failure"}]
    /\ fvalue \in [Futures -> Outcomes \cup {NoOutcome}]
    /\ conts \in [Futures -> Seq(Conts)]
    /\ epoch \in Nat
    /\ blocked \in 0..Cardinality(Threads)
    /\ sleeping \subseteq Threads
    /\ \A t \in Threads : \A i \in DOMAIN stack[t] : FrameOK(stack[t][i])
    /\ attempts \in [Futures -> Nat]
    /\ registered \subseteq Conts
    /\ ran \in [Conts -> Nat]

\* A thread is between settling f and the end of wakeBlockedThreads.
Waking(f) ==
    \E t \in Threads : \E i \in DOMAIN stack[t] :
        stack[t][i].f = f /\ stack[t][i].at \in {"wake", "wake_load", "wake_notify"}

\* The 50 ms bound of awaitBlocking is a safety net and never what ends a
\* wait: a thread asleep on a settled future still has its notification
\* coming.  It rests on the epoch being read before the state and on g_blocked
\* being raised before the epoch is tested, and on its being given back (TypeOK).
NoLostWake ==
    /\ TypeOK
    /\ \A t \in sleeping : At(t, "aw_sleep") /\ Settled(Top(t).f) => Waking(Top(t).f)

\* A derived future carries what its operator prescribes: map and flatMap pass
\* a failure on, recover a success, and flatMap takes the inner future's
\* outcome or its own body's exception.
DerivedOutcomes ==
    \A k \in Conts :
        Derived[k] # NoFuture /\ Settled(Derived[k]) /\ Kind[k] # "forward" =>
            LET o == Outcome(Derived[k])
                copied == Outcome(Source[k])
            IN  CASE Kind[k] = "map" -> IF copied.failed THEN o = copied ELSE o.by = k
                  [] Kind[k] = "recover" -> IF copied.failed THEN o.by = k ELSE o = copied
                  [] Kind[k] = "flatMap" ->
                        IF copied.failed THEN o = copied
                        ELSE \/ o = [failed |-> TRUE, by |-> k]
                             \/ o = Outcome(Source[Forward[k]]) /\ Settled(Source[Forward[k]])

\* "A continuation may not await": no thread blocks in awaitBlocking inside a
\* continuation.
ContinuationsNeverBlock ==
    \A t \in Threads : At(t, "aw_sleep") => ~Paused(t)

\* The futures keep the promise of Promise: one outcome, written once and
\* visible only when complete, and each continuation run at most once, after it.
Contract == INSTANCE Promise WITH
    outcome <- [f \in Futures |-> IF Settled(f) THEN Outcome(f) ELSE NoOutcome]
ImplementsPromise == Contract!Spec

-----------------------------------------------------------------------------
\* Every thread is scheduled; the timeout is not relied on.
FairSpec == Spec /\ \A t \in Threads : WF_vars(Step(t))

\* A blocked thread returns once its future is settled, by the notification
\* alone.
AwaitReturns ==
    \A t \in Threads : (At(t, "aw_sleep") /\ Settled(Top(t).f)) ~> (stack[t] = <<>>)

\* Every continuation registered on a future that is settled runs.
ContinuationsRun ==
    \A k \in Conts : (k \in registered /\ Settled(Source[k])) ~> (ran[k] = 1)

=============================================================================
