--------------------------- MODULE ActorScheduler ---------------------------
(***************************************************************************)
(* The claim protocol of the actor scheduler (src/runtime/ActorScheduler). *)
(*                                                                         *)
(* An actor is claimed by one compare-and-swap on `sched`, travels through *)
(* a ready stack to a worker, runs a turn of at most kBatchSize messages,  *)
(* and is released, re-enqueued, or parked on a future.  Senders push into *)
(* the mailbox first and claim second; a completed future resumes every    *)
(* actor in its waiter list.  The module has one action per atomic access  *)
(* to shared state, so that senders, workers and completers interleave as  *)
(* they do in the code.                                                    *)
(*                                                                         *)
(* Abstracted here: the ready stacks are sequences (ReadyStack shows the   *)
(* lock-free stack implements one), workers poll instead of parking on the *)
(* semaphore (WorkerPool models the parking), a future's settlement is one *)
(* step and it has no continuations (Futures models both).                 *)
(***************************************************************************)
EXTENDS Integers, Sequences, FiniteSets

CONSTANTS
    Actors,      \* the actors of the program
    Workers,     \* the worker threads of the pool
    Clients,     \* other threads: main, Thread.start bodies
    Msgs,        \* the messages sent, each at most once
    Futures,     \* the futures of the program
    ReplyTo,     \* ReplyTo[m]: the future an ask's handler completes, or NoFuture
    SendBands,   \* the bands senders use, a subset of Bands
    kBatchSize,  \* messages per turn
    MaxWaits,    \* bound: how often an actor awaits the same pending future
    NoActor, NoMsg, NoFuture

kBands == 3
Bands == 0..(kBands - 1)
Medium == 1
Threads == Workers \cup Clients

\* A future no ask owns: one derived by map/flatMap/recover, or created by
\* Future.successful, which any thread may complete.
ClientFutures == {f \in Futures : \A m \in Msgs : ReplyTo[m] # f}

ASSUME ConstantsAssumption ==
    /\ IsFiniteSet(Actors) /\ IsFiniteSet(Workers) /\ IsFiniteSet(Clients)
    /\ Workers \cap Clients = {}
    /\ NoActor \notin Actors
    /\ NoMsg \notin Msgs
    /\ NoFuture \notin Futures
    /\ ReplyTo \in [Msgs -> Futures \cup {NoFuture}]
    /\ SendBands \subseteq Bands
    /\ kBatchSize \in Nat \ {0}
    /\ MaxWaits \in Nat

\* ActorState::sched
Idle == 0
Claimed == 1
ClaimedWake == 2
Suspended == 3

VARIABLES
    sched,       \* ActorState::sched
    mailbox,     \* __mbox<b>__ of each actor, oldest first
    pending,     \* __pend<b>__ from pendingIdx on: taken, not yet delivered
    snapshot,    \* the actor has frames to resume (__snapshot__)
    waitingOn,   \* __waiting_on__
    turnMsg,     \* the message whose handler those frames are, NoMsg when a
                 \* refused await left them behind
    ready,       \* ready_[b]; the top of the stack is the last element
    settled,     \* futures whose final state is stored
    waiters,     \* __waiters__ of each future
    suspended,   \* suspended_
    messages,    \* messages_
    sent,        \* messages some thread has sent
    pc,          \* where each thread is
    cur,         \* the actor whose turn a worker runs
    msg,         \* the message that turn is delivering
    scan,        \* the band a dequeue or a message scan looks at next
    budget,      \* messages left in the turn
    tgt,         \* the actor a send or a resume is about
    tband,       \* the band a send uses
    fut,         \* the future a thread completes
    walk         \* waiters that completion has still to resume

actorVars == <<mailbox, pending, snapshot, waitingOn, turnMsg>>
futureVars == <<settled, waiters>>
turnVars == <<cur, msg, scan, budget>>
callVars == <<tgt, tband, fut, walk>>
vars == <<sched, actorVars, ready, futureVars, suspended, messages, sent, pc,
          turnVars, callVars>>

Init ==
    /\ sched = [a \in Actors |-> Idle]
    /\ mailbox = [a \in Actors |-> [b \in Bands |-> <<>>]]
    /\ pending = [a \in Actors |-> [b \in Bands |-> <<>>]]
    /\ snapshot = [a \in Actors |-> FALSE]
    /\ waitingOn = [a \in Actors |-> NoFuture]
    /\ turnMsg = [a \in Actors |-> NoMsg]
    /\ ready = [b \in Bands |-> <<>>]
    /\ settled = {}
    /\ waiters = [f \in Futures |-> <<>>]
    /\ suspended = 0
    /\ messages = 0
    /\ sent = {}
    /\ pc = [t \in Threads |-> IF t \in Workers THEN "dequeue" ELSE "client"]
    /\ cur = [t \in Threads |-> NoActor]
    /\ msg = [t \in Threads |-> NoMsg]
    /\ scan = [t \in Threads |-> 0]
    /\ budget = [t \in Threads |-> 0]
    /\ tgt = [t \in Threads |-> NoActor]
    /\ tband = [t \in Threads |-> Medium]
    /\ fut = [t \in Threads |-> NoFuture]
    /\ walk = [t \in Threads |-> <<>>]

-----------------------------------------------------------------------------
Goto(t, l) == pc' = [pc EXCEPT ![t] = l]

\* Locals that go out of scope.
DropTarget(t) ==
    /\ tgt' = [tgt EXCEPT ![t] = NoActor]
    /\ tband' = [tband EXCEPT ![t] = Medium]
DropFuture(t) == fut' = [fut EXCEPT ![t] = NoFuture]

\* Where a call made by thread t returns to: the handler, or the client's code.
Caller(t) == IF t \in Workers THEN "run" ELSE "client"

\* A delivery ends: the worker looks for the next message of the turn.
AfterComplete(t) == IF t \in Workers THEN "next" ELSE "client"

HasWork(a) == \E b \in Bands : pending[a][b] # <<>> \/ mailbox[a][b] # <<>>

HighestPendingBand(a) ==
    IF HasWork(a)
    THEN CHOOSE b \in Bands :
           /\ pending[a][b] # <<>> \/ mailbox[a][b] # <<>>
           /\ \A c \in Bands : c < b => pending[a][c] = <<>> /\ mailbox[a][c] = <<>>
    ELSE Medium

PushReady(b, a) == ready' = [ready EXCEPT ![b] = Append(@, a)]

-----------------------------------------------------------------------------
(* send: the message is queued before the claim is attempted.              *)

Send(t, m, a, b) ==
    /\ pc[t] \in {"client", "run"}
    /\ m \in Msgs \ sent
    /\ sent' = sent \cup {m}
    /\ mailbox' = [mailbox EXCEPT ![a][b] = Append(@, m)]
    /\ tgt' = [tgt EXCEPT ![t] = a]
    /\ tband' = [tband EXCEPT ![t] = b]
    /\ Goto(t, "send_claim")
    /\ UNCHANGED <<sched, pending, snapshot, waitingOn, turnMsg, ready, futureVars,
                   suspended, messages, turnVars, fut, walk>>

\* Mutant: the claim is stored without looking at the state it replaces.
SendClaimBlind(t) ==
    /\ pc[t] = "send_claim"
    /\ sched' = [sched EXCEPT ![tgt[t]] = Claimed]
    /\ Goto(t, "send_enqueue")
    /\ UNCHANGED <<actorVars, ready, futureVars, suspended, messages, sent,
                   turnVars, callVars>>

\* The load/compare-and-swap loop: the swap takes effect on the value read,
\* and a lost swap changes nothing.
SendClaim(t) ==
    /\ pc[t] = "send_claim"
    /\ \/ /\ sched[tgt[t]] = Idle
          /\ sched' = [sched EXCEPT ![tgt[t]] = Claimed]
          /\ Goto(t, "send_enqueue")
          /\ UNCHANGED <<tgt, tband>>
       \/ /\ sched[tgt[t]] = Claimed
          /\ sched' = [sched EXCEPT ![tgt[t]] = ClaimedWake]
          /\ Goto(t, Caller(t))
          /\ DropTarget(t)
       \/ /\ sched[tgt[t]] \in {ClaimedWake, Suspended}
          /\ UNCHANGED sched
          /\ Goto(t, Caller(t))
          /\ DropTarget(t)
    /\ UNCHANGED <<actorVars, ready, futureVars, suspended, messages, sent,
                   turnVars, fut, walk>>

SendEnqueue(t) ==
    /\ pc[t] = "send_enqueue"
    /\ PushReady(tband[t], tgt[t])
    /\ Goto(t, Caller(t))
    /\ DropTarget(t)
    /\ UNCHANGED <<sched, actorVars, futureVars, suspended, messages, sent,
                   turnVars, fut, walk>>

-----------------------------------------------------------------------------
(* drainOne: dequeue, runTurn, finishTurn.                                 *)

\* One pop per band, High first; a band pushed to after its pop is missed
\* until the next round.
Dequeue(t) ==
    /\ pc[t] = "dequeue"
    /\ ready[scan[t]] # <<>>
    /\ LET s == ready[scan[t]] IN
       /\ cur' = [cur EXCEPT ![t] = s[Len(s)]]
       /\ ready' = [ready EXCEPT ![scan[t]] = SubSeq(s, 1, Len(s) - 1)]
    /\ scan' = [scan EXCEPT ![t] = 0]
    /\ Goto(t, "turn")
    /\ UNCHANGED <<sched, actorVars, futureVars, suspended, messages, sent, msg,
                   budget, callVars>>

DequeueEmpty(t) ==
    /\ pc[t] = "dequeue"
    /\ ready[scan[t]] = <<>>
    /\ scan' = [scan EXCEPT ![t] = (@ + 1) % kBands]
    /\ UNCHANGED <<sched, actorVars, ready, futureVars, suspended, messages, sent, pc,
                   cur, msg, budget, callVars>>

\* runTurn with no suspended chain.
StartTurn(t) ==
    /\ pc[t] = "turn"
    /\ ~snapshot[cur[t]]
    /\ budget' = [budget EXCEPT ![t] = kBatchSize]
    /\ Goto(t, "next")
    /\ UNCHANGED <<sched, actorVars, ready, futureVars, suspended, messages, sent,
                   cur, msg, scan, callVars>>

\* resumeSuspendedTurn: the future is still pending (a message, or a wake
\* marked in flight, caused this turn), so the actor stays parked.
StayParked(t) ==
    /\ pc[t] = "turn"
    /\ snapshot[cur[t]]
    /\ waitingOn[cur[t]] \notin settled
    /\ Goto(t, "finish_suspended")
    /\ UNCHANGED <<sched, actorVars, ready, futureVars, suspended, messages, sent,
                   turnVars, callVars>>

\* resumeSuspendedTurn: the frames are taken off the actor and run on, those
\* a refused await left behind included; they have no message.
ResumeTurn(t) ==
    /\ pc[t] = "turn"
    /\ snapshot[cur[t]]
    /\ waitingOn[cur[t]] \in settled
    /\ budget' = [budget EXCEPT ![t] = kBatchSize]
    /\ msg' = [msg EXCEPT ![t] = turnMsg[cur[t]]]
    /\ snapshot' = [snapshot EXCEPT ![cur[t]] = FALSE]
    /\ waitingOn' = [waitingOn EXCEPT ![cur[t]] = NoFuture]
    /\ turnMsg' = [turnMsg EXCEPT ![cur[t]] = NoMsg]
    /\ Goto(t, "run")
    /\ UNCHANGED <<sched, mailbox, pending, ready, futureVars, suspended, messages,
                   sent, cur, scan, callVars>>

\* Mutant: a fresh takeAll before the leftovers of the last one.
BatchFresh(a, b) == IF mailbox[a][b] # <<>> THEN mailbox[a][b] ELSE pending[a][b]

\* nextMessage: the leftovers of the last takeAll first, then a fresh takeAll.
Batch(a, b) == IF pending[a][b] # <<>> THEN pending[a][b] ELSE mailbox[a][b]

\* The budget loop of runTurn takes a message and counts it before the
\* handler runs; the next scan starts from High again.
TakeMessage(t) ==
    /\ pc[t] = "next"
    /\ budget[t] > 0
    /\ LET a == cur[t] b == scan[t] IN
       /\ Batch(a, b) # <<>>
       /\ msg' = [msg EXCEPT ![t] = Head(Batch(a, b))]
       /\ mailbox' = IF pending[a][b] # <<>> THEN mailbox
                     ELSE [mailbox EXCEPT ![a][b] = <<>>]
       /\ pending' = [pending EXCEPT ![a][b] = Tail(Batch(a, b))]
    /\ messages' = messages + 1
    /\ budget' = [budget EXCEPT ![t] = @ - 1]
    /\ scan' = [scan EXCEPT ![t] = 0]
    /\ Goto(t, "run")
    /\ UNCHANGED <<sched, snapshot, waitingOn, turnMsg, ready, futureVars, suspended,
                   sent, cur, callVars>>

\* Mutant: the band scan runs past the last band.
NextBandUnbounded(t) ==
    /\ pc[t] = "next"
    /\ budget[t] > 0
    /\ Batch(cur[t], scan[t]) = <<>>
    /\ scan' = [scan EXCEPT ![t] = @ + 1]
    /\ UNCHANGED <<sched, actorVars, ready, futureVars, suspended, messages, sent,
                   pc, cur, msg, budget, callVars>>

NextBand(t) ==
    /\ pc[t] = "next"
    /\ budget[t] > 0
    /\ scan[t] < kBands - 1
    /\ Batch(cur[t], scan[t]) = <<>>
    /\ scan' = [scan EXCEPT ![t] = @ + 1]
    /\ UNCHANGED <<sched, actorVars, ready, futureVars, suspended, messages, sent,
                   pc, cur, msg, budget, callVars>>

\* The budget is used up, or no band has a message.
TurnOver(t) ==
    /\ pc[t] = "next"
    /\ \/ budget[t] = 0
       \/ scan[t] = kBands - 1 /\ Batch(cur[t], scan[t]) = <<>>
    /\ scan' = [scan EXCEPT ![t] = 0]
    /\ budget' = [budget EXCEPT ![t] = 0]
    /\ Goto(t, "finish_load")
    /\ UNCHANGED <<sched, actorVars, ready, futureVars, suspended, messages, sent,
                   cur, msg, callVars>>

\* finishTurn(suspended): park, unless a completion raced the suspension.
FinishSuspended(t) ==
    /\ pc[t] = "finish_suspended"
    /\ \/ /\ sched[cur[t]] = Claimed
          /\ sched' = [sched EXCEPT ![cur[t]] = Suspended]
          /\ cur' = [cur EXCEPT ![t] = NoActor]
          /\ Goto(t, "count_suspended")
       \/ /\ sched[cur[t]] # Claimed
          /\ sched' = [sched EXCEPT ![cur[t]] = Claimed]
          /\ UNCHANGED cur
          /\ Goto(t, "finish_enqueue")
    /\ UNCHANGED <<actorVars, ready, futureVars, suspended, messages, sent, msg, scan,
                   budget, callVars>>

CountSuspended(t) ==
    /\ pc[t] = "count_suspended"
    /\ suspended' = suspended + 1
    /\ Goto(t, "dequeue")
    /\ UNCHANGED <<sched, actorVars, ready, futureVars, messages, sent, turnVars, callVars>>

\* finishTurn(not suspended): a marked wake is taken back to a plain claim.
FinishLoad(t) ==
    /\ pc[t] = "finish_load"
    /\ sched' = [sched EXCEPT ![cur[t]] = Claimed]
    /\ Goto(t, "finish_check")
    /\ UNCHANGED <<actorVars, ready, futureVars, suspended, messages, sent, turnVars,
                   callVars>>

\* Mutant: the claim is released without looking for work.
FinishCheckSkipped(t) ==
    /\ pc[t] = "finish_check"
    /\ Goto(t, "finish_release")
    /\ UNCHANGED <<sched, actorVars, ready, futureVars, suspended, messages, sent,
                   turnVars, callVars>>

\* hasWork, decided before the claim is released.  Only the claimer takes
\* messages, so the band-by-band test equals one read of all bands.
FinishCheck(t) ==
    /\ pc[t] = "finish_check"
    /\ Goto(t, IF HasWork(cur[t]) THEN "finish_enqueue" ELSE "finish_release")
    /\ UNCHANGED <<sched, actorVars, ready, futureVars, suspended, messages, sent,
                   turnVars, callVars>>

\* Mutant: the claim is released by a store.
FinishReleaseStore(t) ==
    /\ pc[t] = "finish_release"
    /\ sched' = [sched EXCEPT ![cur[t]] = Idle]
    /\ cur' = [cur EXCEPT ![t] = NoActor]
    /\ Goto(t, "dequeue")
    /\ UNCHANGED <<actorVars, ready, futureVars, suspended, messages, sent, msg, scan,
                   budget, callVars>>

FinishRelease(t) ==
    /\ pc[t] = "finish_release"
    /\ \/ /\ sched[cur[t]] = Claimed
          /\ sched' = [sched EXCEPT ![cur[t]] = Idle]
          /\ cur' = [cur EXCEPT ![t] = NoActor]
          /\ Goto(t, "dequeue")
       \/ /\ sched[cur[t]] # Claimed
          /\ UNCHANGED <<sched, cur>>
          /\ Goto(t, "finish_load")
    /\ UNCHANGED <<actorVars, ready, futureVars, suspended, messages, sent, msg, scan,
                   budget, callVars>>

FinishEnqueue(t) ==
    /\ pc[t] = "finish_enqueue"
    /\ PushReady(HighestPendingBand(cur[t]), cur[t])
    /\ cur' = [cur EXCEPT ![t] = NoActor]
    /\ Goto(t, "dequeue")
    /\ UNCHANGED <<sched, actorVars, futureVars, suspended, messages, sent, msg, scan,
                   budget, callVars>>

-----------------------------------------------------------------------------
(* The handler: it may send (above), await, and finally return or fail.    *)

\* The futures a handler can hold: replies to messages already sent, and the
\* futures of clients.
Held(f) == f \in ClientFutures \/ \E m \in sent : ReplyTo[m] = f

\* future_await on a pending future: the snapshot is opened before the actor
\* becomes visible in the waiter list.
Await(t, f) ==
    /\ pc[t] = "run"
    /\ f \in Futures \ settled
    /\ Held(f)
    /\ Cardinality({i \in DOMAIN waiters[f] : waiters[f][i] = cur[t]}) < MaxWaits
    /\ snapshot' = [snapshot EXCEPT ![cur[t]] = TRUE]
    /\ waitingOn' = [waitingOn EXCEPT ![cur[t]] = f]
    /\ Goto(t, "await_add")
    /\ UNCHANGED <<sched, mailbox, pending, turnMsg, ready, futureVars, suspended,
                   messages, sent, turnVars, callVars>>

\* addWaiter's append
AddWaiter(t) ==
    /\ pc[t] = "await_add"
    /\ waiters' = [waiters EXCEPT ![waitingOn[cur[t]]] = Append(@, cur[t])]
    /\ Goto(t, "await_recheck")
    /\ UNCHANGED <<sched, actorVars, ready, settled, suspended, messages, sent,
                   turnVars, callVars>>

\* Mutant: the state is not read again after the append.
AwaitYieldsBlind(t) ==
    /\ pc[t] = "await_recheck"
    /\ turnMsg' = [turnMsg EXCEPT ![cur[t]] = msg[t]]
    /\ msg' = [msg EXCEPT ![t] = NoMsg]
    /\ budget' = [budget EXCEPT ![t] = 0]
    /\ Goto(t, "finish_suspended")
    /\ UNCHANGED <<sched, mailbox, pending, snapshot, waitingOn, ready, futureVars,
                   suspended, messages, sent, cur, scan, callVars>>

\* addWaiter's second look at the state: still pending, the handler yields and
\* deliver (or resumeSuspendedTurn) remembers the message it was running.
AwaitYields(t) ==
    /\ pc[t] = "await_recheck"
    /\ waitingOn[cur[t]] \notin settled
    /\ turnMsg' = [turnMsg EXCEPT ![cur[t]] = msg[t]]
    /\ msg' = [msg EXCEPT ![t] = NoMsg]
    /\ budget' = [budget EXCEPT ![t] = 0]
    /\ Goto(t, "finish_suspended")
    /\ UNCHANGED <<sched, mailbox, pending, snapshot, waitingOn, ready, futureVars,
                   suspended, messages, sent, cur, scan, callVars>>

\* ... still pending, but a frame of the handler cannot be suspended: runLoop
\* turns the yield into an exception, which the handler catches or fails with.
\* The snapshot, the future and the waiter entry stay behind.
AwaitRefused(t) ==
    /\ pc[t] = "await_recheck"
    /\ waitingOn[cur[t]] \notin settled
    /\ Goto(t, "run")
    /\ UNCHANGED <<sched, actorVars, ready, futureVars, suspended, messages, sent,
                   turnVars, callVars>>

\* ... settled meanwhile, the await answers at once; the actor stays in the
\* waiter list.
AwaitAnswers(t) ==
    /\ pc[t] = "await_recheck"
    /\ waitingOn[cur[t]] \in settled
    /\ snapshot' = [snapshot EXCEPT ![cur[t]] = FALSE]
    /\ waitingOn' = [waitingOn EXCEPT ![cur[t]] = NoFuture]
    /\ Goto(t, "run")
    /\ UNCHANGED <<sched, mailbox, pending, turnMsg, ready, futureVars, suspended,
                   messages, sent, turnVars, callVars>>

\* The future the code being run answers: none for a tell, and none for frames
\* that a refused await left behind.
Reply(m) == IF m = NoMsg THEN NoFuture ELSE ReplyTo[m]

\* The handler, or what is left of one, returns or throws: an ask's future is
\* completed either way, by applyHandlerResult or by the catch clauses of
\* deliver and resumeSuspendedTurn.  What a refused await left on the actor
\* stays there.
HandlerEnds(t) ==
    /\ pc[t] = "run"
    /\ fut' = [fut EXCEPT ![t] = Reply(msg[t])]
    /\ msg' = [msg EXCEPT ![t] = NoMsg]
    /\ Goto(t, IF Reply(msg[t]) = NoFuture THEN "next" ELSE "settle")
    /\ UNCHANGED <<sched, actorVars, ready, futureVars, suspended, messages, sent,
                   cur, scan, budget, tgt, tband, walk>>

-----------------------------------------------------------------------------
(* futures::complete, on any thread, and ActorScheduler::resume.           *)

ClientCompletes(t, f) ==
    /\ pc[t] = "client"
    /\ fut' = [fut EXCEPT ![t] = f]
    /\ Goto(t, "settle")
    /\ UNCHANGED <<sched, actorVars, ready, futureVars, suspended, messages, sent,
                   turnVars, tgt, tband, walk>>

\* The claim, the value and the final state (Futures has them one by one).
Settle(t) ==
    /\ pc[t] = "settle"
    /\ \/ /\ fut[t] \notin settled
          /\ settled' = settled \cup {fut[t]}
          /\ Goto(t, "walk")
          /\ UNCHANGED fut
       \/ /\ fut[t] \in settled
          /\ UNCHANGED settled
          /\ Goto(t, AfterComplete(t))
          /\ DropFuture(t)
    /\ UNCHANGED <<sched, actorVars, ready, waiters, suspended, messages, sent,
                   turnVars, tgt, tband, walk>>

\* Mutant: only the first waiter is resumed.
ReadWaitersFirst(t) ==
    /\ pc[t] = "walk"
    /\ walk' = [walk EXCEPT ![t] = IF waiters[fut[t]] = <<>> THEN <<>>
                                   ELSE <<Head(waiters[fut[t]])>>]
    /\ Goto(t, "resume")
    /\ UNCHANGED <<sched, actorVars, ready, futureVars, suspended, messages, sent,
                   turnVars, tgt, tband, fut>>

\* The waiter list is read after the final state is stored.
ReadWaiters(t) ==
    /\ pc[t] = "walk"
    /\ walk' = [walk EXCEPT ![t] = waiters[fut[t]]]
    /\ Goto(t, "resume")
    /\ UNCHANGED <<sched, actorVars, ready, futureVars, suspended, messages, sent,
                   turnVars, tgt, tband, fut>>

\* resume of the next waiter: wake a parked actor, mark a claimed one, give an
\* idle one an empty turn, leave a marked one alone.
Resume(t) ==
    /\ pc[t] = "resume"
    /\ walk[t] # <<>>
    /\ LET a == Head(walk[t]) IN
       /\ walk' = [walk EXCEPT ![t] = Tail(@)]
       /\ \/ /\ sched[a] = Suspended
             /\ sched' = [sched EXCEPT ![a] = Claimed]
             /\ tgt' = [tgt EXCEPT ![t] = a]
             /\ Goto(t, "resume_parked")
          \/ /\ sched[a] = Claimed
             /\ sched' = [sched EXCEPT ![a] = ClaimedWake]
             /\ UNCHANGED <<tgt, pc>>
          \/ /\ sched[a] = Idle
             /\ sched' = [sched EXCEPT ![a] = Claimed]
             /\ tgt' = [tgt EXCEPT ![t] = a]
             /\ Goto(t, "resume_idle")
          \/ /\ sched[a] = ClaimedWake
             /\ UNCHANGED <<sched, tgt, pc>>
    /\ UNCHANGED <<actorVars, ready, futureVars, suspended, messages, sent, turnVars,
                   tband, fut>>

\* Mutant: the counter is not decremented.
ResumeParkedUncounted(t) ==
    /\ pc[t] = "resume_parked"
    /\ PushReady(HighestPendingBand(tgt[t]), tgt[t])
    /\ Goto(t, "resume")
    /\ DropTarget(t)
    /\ UNCHANGED <<sched, actorVars, futureVars, suspended, messages, sent, turnVars,
                   fut, walk>>

ResumeParked(t) ==
    /\ pc[t] = "resume_parked"
    /\ suspended' = suspended - 1
    /\ PushReady(HighestPendingBand(tgt[t]), tgt[t])
    /\ Goto(t, "resume")
    /\ DropTarget(t)
    /\ UNCHANGED <<sched, actorVars, futureVars, messages, sent, turnVars, fut, walk>>

\* Mutant: the stale wake claims the actor and forgets to push it.
ResumeIdleNoPush(t) ==
    /\ pc[t] = "resume_idle"
    /\ Goto(t, "resume")
    /\ DropTarget(t)
    /\ UNCHANGED <<sched, actorVars, ready, futureVars, suspended, messages, sent,
                   turnVars, fut, walk>>

ResumeIdle(t) ==
    /\ pc[t] = "resume_idle"
    /\ PushReady(Medium, tgt[t])
    /\ Goto(t, "resume")
    /\ DropTarget(t)
    /\ UNCHANGED <<sched, actorVars, futureVars, suspended, messages, sent, turnVars,
                   fut, walk>>

CompleteDone(t) ==
    /\ pc[t] = "resume"
    /\ walk[t] = <<>>
    /\ Goto(t, AfterComplete(t))
    /\ DropFuture(t)
    /\ UNCHANGED <<sched, actorVars, ready, futureVars, suspended, messages, sent,
                   turnVars, tgt, tband, walk>>

-----------------------------------------------------------------------------
\* The steps of a thread that do not depend on what the program decides to do.
Step(t) ==
    \/ SendClaim(t) \/ SendEnqueue(t)
    \/ Dequeue(t) \/ DequeueEmpty(t)
    \/ StartTurn(t) \/ StayParked(t) \/ ResumeTurn(t)
    \/ TakeMessage(t) \/ NextBand(t) \/ TurnOver(t)
    \/ FinishSuspended(t) \/ CountSuspended(t) \/ FinishLoad(t)
    \/ FinishCheck(t) \/ FinishRelease(t) \/ FinishEnqueue(t)
    \/ AddWaiter(t) \/ AwaitYields(t) \/ AwaitRefused(t) \/ AwaitAnswers(t)
    \/ HandlerEnds(t)
    \/ Settle(t) \/ ReadWaiters(t) \/ Resume(t) \/ ResumeParked(t)
    \/ ResumeIdle(t) \/ CompleteDone(t)

Next ==
    \E t \in Threads :
        \/ Step(t)
        \/ \E m \in Msgs, a \in Actors, b \in SendBands : Send(t, m, a, b)
        \/ \E f \in Futures : Await(t, f)
        \/ \E f \in ClientFutures : ClientCompletes(t, f)

Spec == Init /\ [][Next]_vars

-----------------------------------------------------------------------------
WorkerLabels ==
    {"dequeue", "turn", "next", "run", "await_add", "await_recheck",
     "finish_suspended", "count_suspended", "finish_load", "finish_check",
     "finish_release", "finish_enqueue"}

\* Inside send or complete, on any thread.
CallLabels ==
    {"send_claim", "send_enqueue", "settle", "walk", "resume", "resume_parked",
     "resume_idle"}

Labels == WorkerLabels \cup CallLabels \cup {"client"}

\* The labels at which a worker runs no turn.
Between == {"dequeue", "count_suspended"}

\* The labels at which a thread has won a claim and not yet pushed the actor.
Carrying == {"send_enqueue", "resume_parked", "resume_idle"}

\* The type of the state: every field of ActorScheduler, ActorState and of the
\* actor's and the future's attributes keeps to the values the code gives it.
TypeOK ==
    /\ sched \in [Actors -> {Idle, Claimed, ClaimedWake, Suspended}]
    /\ mailbox \in [Actors -> [Bands -> Seq(Msgs)]]
    /\ pending \in [Actors -> [Bands -> Seq(Msgs)]]
    /\ snapshot \in [Actors -> BOOLEAN]
    /\ waitingOn \in [Actors -> Futures \cup {NoFuture}]
    /\ turnMsg \in [Actors -> Msgs \cup {NoMsg}]
    /\ ready \in [Bands -> Seq(Actors)]
    /\ settled \subseteq Futures
    /\ waiters \in [Futures -> Seq(Actors)]
    /\ suspended \in Int
    /\ messages \in Nat
    /\ sent \subseteq Msgs
    /\ pc \in [Threads -> Labels]
    /\ cur \in [Threads -> Actors \cup {NoActor}]
    /\ msg \in [Threads -> Msgs \cup {NoMsg}]
    /\ scan \in [Threads -> Bands]
    /\ budget \in [Threads -> 0..kBatchSize]
    /\ tgt \in [Threads -> Actors \cup {NoActor}]
    /\ tband \in [Threads -> Bands]
    /\ fut \in [Threads -> Futures \cup {NoFuture}]
    /\ walk \in [Threads -> Seq(Actors)]

\* The single-method invariant: no two workers are ever inside a turn of the
\* same actor, from the pop in drainOne to the park, release or push of
\* finishTurn, whatever senders and completers do to `sched` meanwhile.
SingleMethod ==
    \A t, u \in Threads : t # u /\ cur[t] = cur[u] => cur[t] = NoActor

\* The places an actor's claim can be: an entry of a ready stack, a thread
\* about to push it, a worker running its turn.
Holders(a) ==
    (UNION {{<<"ready", b, i>> : i \in {j \in DOMAIN ready[b] : ready[b][j] = a}} : b \in Bands})
      \cup {<<"carried", t>> : t \in {u \in Threads : pc[u] \in Carrying /\ tgt[u] = a}}
      \cup {<<"turn", t>> : t \in {u \in Threads : cur[u] = a}}

\* A claim is neither duplicated nor leaked: a claimed actor (1 or 2) is in
\* exactly one place, so it is on the ready stacks at most once and someone
\* will run it; an idle or parked actor is in none.
ClaimHeldOnce ==
    \A a \in Actors :
        IF sched[a] \in {Claimed, ClaimedWake}
        THEN \E h \in Holders(a) : Holders(a) = {h}
        ELSE Holders(a) = {}

\* No wake-up is lost between a sender that queues a message and the worker
\* that releases the claim: an idle actor has queued messages only while a
\* sender is still to try the claim.
NoLostWakeup ==
    \A a \in Actors :
        sched[a] = Idle /\ HasWork(a) => \E t \in Threads : pc[t] = "send_claim" /\ tgt[t] = a

\* A parked actor is never forgotten by the completion it waits for, whether a
\* handler suspended it or a refused await left it a snapshot: it is in the
\* waiter list of its future, and if the future is settled the completing
\* thread has still to read that list or to reach the actor in it.
ParkedIsWoken ==
    \A a \in Actors : sched[a] = Suspended =>
        LET f == waitingOn[a] IN
        /\ snapshot[a]
        /\ \E i \in DOMAIN waiters[f] : waiters[f][i] = a
        /\ f \in settled =>
             \E t \in Threads :
                 /\ fut[t] = f
                 /\ \/ pc[t] = "walk"
                    \/ \E i \in DOMAIN walk[t] : walk[t][i] = a

\* suspended_ counts the parked actors, up to the increments and decrements
\* that follow the compare-and-swap they belong to.  (A decrement can come
\* first: the counter is then -1, the wrapped value of the code's unsigned.)
SuspendedCount ==
    suspended = Cardinality({a \in Actors : sched[a] = Suspended})
                  - Cardinality({t \in Threads : pc[t] = "count_suspended"})
                  + Cardinality({t \in Threads : pc[t] = "resume_parked"})

-----------------------------------------------------------------------------
(* The contract the protocol implements.                                   *)

Queue(a, b) == pending[a][b] \o mailbox[a][b]

Busy(a) ==
    IF turnMsg[a] # NoMsg THEN turnMsg[a]
    ELSE IF \E t \in Threads : cur[t] = a
    THEN msg[CHOOSE t \in Threads : cur[t] = a]
    ELSE NoMsg

Contract ==
    INSTANCE ActorContract WITH
        queue <- [a \in Actors |-> [b \in Bands |-> Queue(a, b)]],
        busy <- [a \in Actors |-> Busy(a)]

\* Per actor and band, messages are handled exactly once, in the order they
\* were sent, one at a time, a handler parked on a future included.
ImplementsContract == Contract!Spec

-----------------------------------------------------------------------------
\* Every thread keeps running: the operating system schedules each of them,
\* and a handler returns, fails or awaits.  Which messages are sent and which
\* futures a client completes is left open.
Fairness == \A t \in Threads : WF_vars(Step(t))

FairSpec == Spec /\ Fairness

\* A queued message is eventually taken, unless its actor is parked on a
\* future nobody has settled.
MessagesAreTaken ==
    \A m \in Msgs, a \in Actors, b \in SendBands :
        (\E i \in DOMAIN Queue(a, b) : Queue(a, b)[i] = m)
          ~> (\/ \A i \in DOMAIN Queue(a, b) : Queue(a, b)[i] # m
              \/ sched[a] = Suspended /\ waitingOn[a] \notin settled)

\* A settled future resumes what waits for it: a handler that has yielded, even
\* before its actor is parked, and a parked actor, whatever parked it.  (What a
\* refused await left on an actor that is then released waits for nothing: it
\* is looked at in the actor's next turn.)
SettledResumes ==
    \A a \in Actors, f \in Futures :
        (waitingOn[a] = f /\ f \in settled /\ (turnMsg[a] # NoMsg \/ sched[a] = Suspended))
          ~> (waitingOn[a] # f)

\* What the repository says of an await in a place that cannot be suspended:
\* the handler gets an exception instead of being suspended, so an actor is
\* parked only on behalf of a handler.
RefusedIsNotParked ==
    \A a \in Actors : sched[a] = Suspended => turnMsg[a] # NoMsg

=============================================================================
