------------------------ MODULE ActorSchedulerProofs ------------------------
(***************************************************************************)
(* The inductive invariant of the actor scheduler and the proof that every *)
(* step keeps it: the types, the locals of a thread in step with the code  *)
(* the thread is in, and each claim in one place.  From it, type           *)
(* correctness, the single-method invariant and the uniqueness of claims,  *)
(* for any number of actors, workers, clients, messages and futures.       *)
(***************************************************************************)
EXTENDS ActorScheduler, TLAPS

Awaiting == {"await_add", "await_recheck"}

\* What a thread's label says about its locals.
ThreadOK(t) ==
    /\ t \in Clients => pc[t] \in CallLabels \cup {"client"} /\ cur[t] = NoActor
    /\ t \in Workers => pc[t] # "client" /\ (cur[t] = NoActor <=> pc[t] \in Between)
    /\ pc[t] \in Carrying \cup {"send_claim"} => tgt[t] \in Actors
    /\ pc[t] \in CallLabels \ {"send_claim", "send_enqueue"} => fut[t] \in Futures

Control == \A t \in Threads : ThreadOK(t)

\* Every place that holds a claim holds it alone ...
OneHolder ==
    /\ \A b, c \in Bands : \A i \in DOMAIN ready[b], j \in DOMAIN ready[c] :
          ready[b][i] = ready[c][j] => b = c /\ i = j
    /\ \A t, u \in Threads :
          pc[t] \in Carrying /\ pc[u] \in Carrying /\ tgt[t] = tgt[u] => t = u
    /\ SingleMethod
    /\ \A b \in Bands, t \in Threads : \A i \in DOMAIN ready[b] :
          /\ pc[t] \in Carrying => tgt[t] # ready[b][i]
          /\ cur[t] # ready[b][i]
    /\ \A t, u \in Threads : pc[t] \in Carrying => tgt[t] # cur[u]

\* ... for an actor that is claimed ...
HoldersClaim ==
    /\ \A b \in Bands : \A i \in DOMAIN ready[b] : sched[ready[b][i]] \in {Claimed, ClaimedWake}
    /\ \A t \in Threads : pc[t] \in Carrying => sched[tgt[t]] \in {Claimed, ClaimedWake}
    /\ \A t \in Threads : cur[t] # NoActor => sched[cur[t]] \in {Claimed, ClaimedWake}

\* ... and a claimed actor is held somewhere.
ClaimsHeld ==
    \A a \in Actors : sched[a] \in {Claimed, ClaimedWake} =>
        \/ \E b \in Bands : \E i \in DOMAIN ready[b] : ready[b][i] = a
        \/ \E t \in Threads : pc[t] \in Carrying /\ tgt[t] = a
        \/ \E t \in Threads : cur[t] = a

Claims == OneHolder /\ HoldersClaim /\ ClaimsHeld

\* The inductive invariant.
IInv == TypeOK /\ Control /\ Claims

-----------------------------------------------------------------------------
(* What the ready stacks do to a sequence.                                 *)

\* A push (ReadyStack::push) adds one entry above the others.
LEMMA PushedEntries ==
    ASSUME NEW S, NEW s \in Seq(S), NEW e \in S
    PROVE  /\ Append(s, e) \in Seq(S)
           /\ DOMAIN Append(s, e) = 1..(Len(s) + 1)
           /\ \A i \in 1..Len(s) : Append(s, e)[i] = s[i]
           /\ Append(s, e)[Len(s) + 1] = e
  OBVIOUS

\* A pop (ReadyStack::pop) removes the top entry and keeps the others.
LEMMA PoppedEntries ==
    ASSUME NEW S, NEW s \in Seq(S), s # <<>>
    PROVE  /\ Len(s) \in DOMAIN s
           /\ s[Len(s)] \in S
           /\ SubSeq(s, 1, Len(s) - 1) \in Seq(S)
           /\ DOMAIN SubSeq(s, 1, Len(s) - 1) = 1..(Len(s) - 1)
           /\ \A i \in 1..(Len(s) - 1) : SubSeq(s, 1, Len(s) - 1)[i] = s[i]
  <1>1. Len(s) \in Nat \ {0}
    OBVIOUS
  <1>2. \A i \in 1..(Len(s) - 1) : s[i] \in S
    BY <1>1
  <1> QED
    BY <1>1, <1>2

\* highestPendingBand answers a band.
LEMMA BandOfWork ==
    ASSUME NEW a \in Actors
    PROVE  HighestPendingBand(a) \in Bands
  <1> DEFINE W(b) == pending[a][b] # <<>> \/ mailbox[a][b] # <<>>
  <1>1. ASSUME HasWork(a)
        PROVE  \E b \in Bands : W(b) /\ \A c \in Bands : c < b => ~W(c)
    <2>1. Bands = {0, 1, 2}
      BY DEF Bands, kBands
    <2>2. W(0) \/ W(1) \/ W(2)
      BY <1>1, <2>1, Zenon DEF HasWork
    <2> QED
      BY <2>1, <2>2
  <1>2. CASE HasWork(a)
    BY <1>1, <1>2, Zenon DEF HighestPendingBand
  <1>3. CASE ~HasWork(a)
    BY <1>3 DEF HighestPendingBand, Medium, Bands, kBands
  <1> QED
    BY <1>2, <1>3, Zenon

\* The band constants of ActorScheduler.h lie in the range the scans walk.
LEMMA BandFacts ==
    /\ 0 \in Bands /\ Medium \in Bands
    /\ \A b \in Bands : (b + 1) % kBands \in Bands
    /\ \A b \in Bands : b < kBands - 1 => b + 1 \in Bands
  BY DEF Bands, kBands, Medium

\* A message, or the lack of one, is answered through a future or not at all.
LEMMA ReplyType ==
    ASSUME NEW m \in Msgs \cup {NoMsg}
    PROVE  Reply(m) \in Futures \cup {NoFuture}
  BY ConstantsAssumption DEF Reply

\* A worker's label tells that it runs a turn, a call's label what it is about.
LEMMA Located ==
    ASSUME TypeOK, Control, NEW t \in Threads
    PROVE  /\ pc[t] \in WorkerLabels => t \in Workers
           /\ pc[t] \in WorkerLabels \ Between => cur[t] \in Actors
           /\ pc[t] \in Carrying \cup {"send_claim"} => tgt[t] \in Actors
           /\ pc[t] \in CallLabels \ {"send_claim", "send_enqueue"} => fut[t] \in Futures
  BY Zenon DEF TypeOK, Control, ThreadOK, Threads, WorkerLabels, CallLabels, Between, Carrying, Awaiting

-----------------------------------------------------------------------------
(* How a claim moves.                                                      *)

IsClaimed(a) == sched[a] \in {Claimed, ClaimedWake}

\* A step that moves no actor between the stacks, the carriers and the turns,
\* and claims or releases none, keeps the claims in order.
LEMMA ClaimsStay ==
    ASSUME TypeOK, Claims,
           ready' = ready, cur' = cur,
           \A a \in Actors : IsClaimed(a)' <=> IsClaimed(a),
           \A t \in Threads : pc'[t] \in Carrying <=> pc[t] \in Carrying,
           \A t \in Threads : pc[t] \in Carrying => tgt'[t] = tgt[t] /\ tgt[t] \in Actors
    PROVE  Claims'
  <1>1. OneHolder'
    BY DEF Claims, OneHolder, SingleMethod
  <1>2. HoldersClaim'
    <2>1. \A b \in Bands : \A i \in DOMAIN ready[b] : ready[b][i] \in Actors
      BY DEF TypeOK
    <2>2. \A t \in Threads : cur[t] # NoActor => cur[t] \in Actors
      BY Zenon DEF TypeOK
    <2> QED
      BY <2>1, <2>2, Zenon DEF Claims, HoldersClaim, IsClaimed
  <1>3. ClaimsHeld'
    BY DEF Claims, ClaimsHeld, IsClaimed
  <1> QED
    BY <1>1, <1>2, <1>3, Zenon DEF Claims

\* A won compare-and-swap (send, resume): thread t carries actor a, which was
\* nobody's.
LEMMA ClaimTaken ==
    ASSUME TypeOK, Claims, NEW t \in Threads, NEW a \in Actors,
           ~IsClaimed(a), pc[t] \notin Carrying,
           sched' = [sched EXCEPT ![a] = Claimed],
           ready' = ready, cur' = cur,
           tgt'[t] = a, \A u \in Threads \ {t} : tgt'[u] = tgt[u],
           pc'[t] \in Carrying, \A u \in Threads \ {t} : pc'[u] = pc[u],
           \A u \in Threads : pc[u] \in Carrying => tgt[u] \in Actors
    PROVE  Claims'
  <1>1. \A b \in Bands : \A i \in DOMAIN ready[b] : ready[b][i] \in Actors /\ ready[b][i] # a
    BY DEF Claims, HoldersClaim, IsClaimed, TypeOK
  <1>2. \A u \in Threads : cur[u] # a
    BY ConstantsAssumption DEF Claims, HoldersClaim, IsClaimed, TypeOK
  <1>3. \A u \in Threads : pc[u] \in Carrying => tgt[u] # a
    BY Zenon DEF Claims, HoldersClaim, IsClaimed
  <1>4. OneHolder'
    BY <1>1, <1>2, <1>3 DEF Claims, OneHolder, SingleMethod
  <1>5. sched'[a] = Claimed /\ \A c \in Actors \ {a} : sched'[c] = sched[c]
    BY Zenon DEF TypeOK
  <1>6. HoldersClaim'
    <2>1. \A u \in Threads : cur[u] # NoActor => cur[u] \in Actors
      BY Zenon DEF TypeOK
    <2> QED
      BY <1>1, <1>2, <1>3, <1>5, <2>1 DEF Claims, HoldersClaim
  <1>7. ClaimsHeld'
    BY <1>5 DEF Claims, ClaimsHeld
  <1> QED
    BY <1>4, <1>6, <1>7, Zenon DEF Claims

\* enqueue by a thread that carries the actor (send, resume).
LEMMA CarrierPushes ==
    ASSUME TypeOK, Claims, NEW t \in Threads, NEW b \in Bands,
           pc[t] \in Carrying, tgt[t] \in Actors,
           ready' = [ready EXCEPT ![b] = Append(@, tgt[t])],
           sched' = sched, cur' = cur,
           pc'[t] \notin Carrying, \A u \in Threads \ {t} : pc'[u] = pc[u],
           \A u \in Threads \ {t} : tgt'[u] = tgt[u]
    PROVE  Claims'
  <1> DEFINE a == tgt[t]
             n == Len(ready[b])
  <1>1. n \in Nat /\ DOMAIN ready[b] = 1..n
    BY DEF TypeOK
  <1>2. /\ DOMAIN ready'[b] = 1..(n + 1)
        /\ \A i \in 1..n : ready'[b][i] = ready[b][i]
        /\ ready'[b][n + 1] = a
        /\ \A c \in Bands \ {b} : ready'[c] = ready[c]
    BY PushedEntries DEF TypeOK
  <1>3. \A c \in Bands : \A i \in DOMAIN ready'[c] :
           \/ i \in DOMAIN ready[c] /\ ready'[c][i] = ready[c][i]
           \/ c = b /\ i = n + 1 /\ ready'[c][i] = a
    BY <1>1, <1>2
  <1>4. \A c \in Bands : \A i \in DOMAIN ready[c] :
           i \in DOMAIN ready'[c] /\ ready'[c][i] = ready[c][i]
    BY <1>1, <1>2
  <1>5. n + 1 \in DOMAIN ready'[b]
    BY <1>1, <1>2
  <1> HIDE DEF n
  <1>6. OneHolder'
    BY <1>3 DEF Claims, OneHolder, SingleMethod
  <1>7. HoldersClaim'
    BY <1>3 DEF Claims, HoldersClaim
  <1>8. ClaimsHeld'
    BY <1>2, <1>4, <1>5 DEF Claims, ClaimsHeld
  <1> QED
    BY <1>6, <1>7, <1>8, Zenon DEF Claims

\* enqueue by the worker that ends the actor's turn (finishTurn).
LEMMA WorkerPushes ==
    ASSUME TypeOK, Claims, NEW t \in Threads, NEW b \in Bands,
           cur[t] \in Actors,
           ready' = [ready EXCEPT ![b] = Append(@, cur[t])],
           sched' = sched, cur' = [cur EXCEPT ![t] = NoActor], tgt' = tgt,
           \A u \in Threads : pc'[u] \in Carrying <=> pc[u] \in Carrying,
           \A u \in Threads : pc[u] \in Carrying => tgt[u] \in Actors
    PROVE  Claims'
  <1> DEFINE a == cur[t]
             n == Len(ready[b])
  <1>1. n \in Nat /\ DOMAIN ready[b] = 1..n
    BY DEF TypeOK
  <1>2. /\ DOMAIN ready'[b] = 1..(n + 1)
        /\ \A i \in 1..n : ready'[b][i] = ready[b][i]
        /\ ready'[b][n + 1] = a
        /\ \A c \in Bands \ {b} : ready'[c] = ready[c]
    BY PushedEntries DEF TypeOK
  <1>3. \A c \in Bands : \A i \in DOMAIN ready'[c] :
           \/ i \in DOMAIN ready[c] /\ ready'[c][i] = ready[c][i]
           \/ c = b /\ i = n + 1 /\ ready'[c][i] = a
    BY <1>1, <1>2
  <1>4. \A c \in Bands : \A i \in DOMAIN ready[c] :
           i \in DOMAIN ready'[c] /\ ready'[c][i] = ready[c][i]
    BY <1>1, <1>2
  <1>5. n + 1 \in DOMAIN ready'[b]
    BY <1>1, <1>2
  <1> HIDE DEF n
  <1>6. cur'[t] = NoActor /\ \A u \in Threads \ {t} : cur'[u] = cur[u]
    BY Zenon DEF TypeOK
  <1>7. \A c \in Bands : \A i \in DOMAIN ready'[c] : ready'[c][i] # NoActor
    <2>1. ready \in [Bands -> Seq(Actors)] /\ NoActor \notin Actors
      BY ConstantsAssumption, Zenon DEF TypeOK
    <2>2. \A c \in Bands : \A i \in DOMAIN ready[c] : ready[c][i] \in Actors
      BY <2>1
    <2> QED
      BY <1>3, <2>1, <2>2
  <1>8. OneHolder'
    <2>1. NoActor \notin Actors
      BY ConstantsAssumption, Zenon
    <2>2. /\ \A c \in Bands : \A i \in DOMAIN ready[c] : ready[c][i] # a
          /\ \A u \in Threads : pc[u] \in Carrying => tgt[u] # a
          /\ \A u \in Threads \ {t} : cur[u] # a
      BY <2>1 DEF Claims, OneHolder, SingleMethod
    <2>3. \A c, d \in Bands : \A i \in DOMAIN ready'[c], j \in DOMAIN ready'[d] :
             ready'[c][i] = ready'[d][j] => c = d /\ i = j
      BY <1>3, <2>2 DEF Claims, OneHolder
    <2>4. SingleMethod'
      BY <1>6 DEF Claims, OneHolder, SingleMethod
    <2>5. \A c \in Bands, u \in Threads : \A i \in DOMAIN ready'[c] :
             (pc'[u] \in Carrying => tgt'[u] # ready'[c][i]) /\ cur'[u] # ready'[c][i]
      BY <1>3, <1>6, <1>7, <2>2 DEF Claims, OneHolder
    <2>6. \A u, v \in Threads : pc'[u] \in Carrying => tgt'[u] # cur'[v]
      BY <1>6, <2>1 DEF Claims, OneHolder
    <2> QED
      BY <2>3, <2>4, <2>5, <2>6, Zenon DEF Claims, OneHolder
  <1>9. HoldersClaim'
    BY <1>3, <1>6, ConstantsAssumption DEF Claims, HoldersClaim
  <1>10. ClaimsHeld'
    BY <1>2, <1>4, <1>5, <1>6 DEF Claims, ClaimsHeld
  <1> QED
    BY <1>8, <1>9, <1>10, Zenon DEF Claims

\* dequeue: the worker that pops an actor runs it.
LEMMA WorkerPops ==
    ASSUME TypeOK, Claims, NEW t \in Threads, NEW b \in Bands,
           ready[b] # <<>>, cur[t] = NoActor,
           cur' = [cur EXCEPT ![t] = ready[b][Len(ready[b])]],
           ready' = [ready EXCEPT ![b] = SubSeq(ready[b], 1, Len(ready[b]) - 1)],
           sched' = sched, tgt' = tgt,
           \A u \in Threads : pc'[u] \in Carrying <=> pc[u] \in Carrying
    PROVE  Claims'
  <1> DEFINE n == Len(ready[b])
             a == ready[b][n]
  <1>1. /\ n \in Nat \ {0}
        /\ DOMAIN ready[b] = 1..n
        /\ a \in Actors
    BY PoppedEntries DEF TypeOK
  <1>2. /\ DOMAIN ready'[b] = 1..(n - 1)
        /\ \A i \in 1..(n - 1) : ready'[b][i] = ready[b][i]
        /\ \A c \in Bands \ {b} : ready'[c] = ready[c]
    BY PoppedEntries DEF TypeOK
  <1>3. \A c \in Bands : \A i \in DOMAIN ready'[c] :
           i \in DOMAIN ready[c] /\ ready'[c][i] = ready[c][i] /\ ~(c = b /\ i = n)
    BY <1>1, <1>2
  <1>4. \A c \in Bands : \A i \in DOMAIN ready[c] :
           ~(c = b /\ i = n) => i \in DOMAIN ready'[c] /\ ready'[c][i] = ready[c][i]
    BY <1>1, <1>2
  <1>5. n \in DOMAIN ready[b]
    BY <1>1
  <1>6. cur'[t] = a /\ \A u \in Threads \ {t} : cur'[u] = cur[u]
    BY Zenon DEF TypeOK
  <1>7. a # NoActor
    BY <1>1, ConstantsAssumption, Zenon
  <1> HIDE DEF n
  <1>8. OneHolder'
    <2>1. \A c \in Bands : \A i \in DOMAIN ready[c] : ready[c][i] = a => c = b /\ i = n
      BY <1>5 DEF Claims, OneHolder
    <2>2. \A u \in Threads : cur[u] # a /\ (pc[u] \in Carrying => tgt[u] # a)
      BY <1>5 DEF Claims, OneHolder
    <2>3. \A c, d \in Bands : \A i \in DOMAIN ready'[c], j \in DOMAIN ready'[d] :
             ready'[c][i] = ready'[d][j] => c = d /\ i = j
      BY <1>3 DEF Claims, OneHolder
    <2>4. SingleMethod'
      BY <1>6, <2>2 DEF Claims, OneHolder, SingleMethod
    <2>5. \A c \in Bands, u \in Threads : \A i \in DOMAIN ready'[c] :
             (pc'[u] \in Carrying => tgt'[u] # ready'[c][i]) /\ cur'[u] # ready'[c][i]
      BY <1>3, <1>6, <2>1 DEF Claims, OneHolder
    <2>6. \A u, v \in Threads : pc'[u] \in Carrying => tgt'[u] # cur'[v]
      BY <1>6, <2>2 DEF Claims, OneHolder
    <2> QED
      BY <2>3, <2>4, <2>5, <2>6, Zenon DEF Claims, OneHolder
  <1>9. HoldersClaim'
    BY <1>3, <1>5, <1>6 DEF Claims, HoldersClaim
  <1>10. ClaimsHeld'
    BY <1>4, <1>6, ConstantsAssumption DEF Claims, ClaimsHeld
  <1> QED
    BY <1>8, <1>9, <1>10, Zenon DEF Claims

\* finishTurn parks or releases: the worker stops running the actor in the
\* compare-and-swap that takes the claim away.
LEMMA ClaimDropped ==
    ASSUME TypeOK, Claims, NEW t \in Threads, NEW v \in {Idle, Suspended},
           cur[t] \in Actors,
           sched' = [sched EXCEPT ![cur[t]] = v],
           cur' = [cur EXCEPT ![t] = NoActor],
           ready' = ready, tgt' = tgt,
           \A u \in Threads : pc'[u] \in Carrying <=> pc[u] \in Carrying,
           \A u \in Threads : pc[u] \in Carrying => tgt[u] \in Actors
    PROVE  Claims'
  <1> DEFINE a == cur[t]
  <1>1. cur'[t] = NoActor /\ \A u \in Threads \ {t} : cur'[u] = cur[u]
    BY Zenon DEF TypeOK
  <1>2. sched'[a] = v /\ \A c \in Actors \ {a} : sched'[c] = sched[c]
    BY Zenon DEF TypeOK
  <1>3. /\ \A b \in Bands : \A i \in DOMAIN ready[b] :
              ready[b][i] # a /\ ready[b][i] \in Actors
        /\ \A u \in Threads : pc[u] \in Carrying => tgt[u] # a
    BY DEF TypeOK, Claims, OneHolder
  <1>4. \A u \in Threads \ {t} : cur[u] # a
    BY ConstantsAssumption, Zenon DEF Claims, OneHolder, SingleMethod
  <1>5. OneHolder'
    BY <1>1, <1>3, ConstantsAssumption DEF Claims, OneHolder, SingleMethod
  <1>6. HoldersClaim'
    <2>1. \A u \in Threads : cur[u] # NoActor => cur[u] \in Actors
      BY Zenon DEF TypeOK
    <2> QED
      BY <1>1, <1>2, <1>3, <1>4, <2>1 DEF Claims, HoldersClaim
  <1>7. ClaimsHeld'
    <2>1. v \notin {Claimed, ClaimedWake}
      BY DEF Idle, Suspended, Claimed, ClaimedWake
    <2> QED
      BY <1>1, <1>2, <2>1 DEF Claims, ClaimsHeld
  <1> QED
    BY <1>5, <1>6, <1>7, Zenon DEF Claims

\* Every step keeps every claim in one place.
LEMMA ClaimsStep ==
    ASSUME IInv, Next
    PROVE  Claims'
  <1>a. TypeOK /\ Control /\ Claims
    BY Zenon DEF IInv
  <1>t. /\ pc \in [Threads -> Labels] /\ tgt \in [Threads -> Actors \cup {NoActor}]
        /\ sched \in [Actors -> {Idle, Claimed, ClaimedWake, Suspended}]
    BY <1>a, Zenon DEF TypeOK
  <1>b. \A u \in Threads : pc[u] \in Carrying => tgt[u] \in Actors
    BY <1>a, Located, Zenon
  <1> USE DEF Goto, actorVars, futureVars, turnVars, callVars
  <1>1. ASSUME NEW t \in Threads, SendClaim(t) PROVE Claims'
    <2>a. tgt[t] \in Actors /\ pc[t] \notin Carrying
      BY <1>a, <1>1, Located, Zenon DEF SendClaim, Carrying
    <2>1. CASE sched[tgt[t]] = Idle
      <3>1. /\ sched' = [sched EXCEPT ![tgt[t]] = Claimed]
            /\ pc' = [pc EXCEPT ![t] = "send_enqueue"]
            /\ ready' = ready /\ cur' = cur /\ tgt' = tgt
        BY <1>1, <2>1 DEF SendClaim, Idle, Claimed, ClaimedWake, Suspended
      <3>2. ~IsClaimed(tgt[t])
        BY <2>1 DEF IsClaimed, Idle, Claimed, ClaimedWake
      <3>3. pc'[t] \in Carrying /\ \A u \in Threads \ {t} : pc'[u] = pc[u]
        BY <1>a, <1>t, <3>1, Zenon DEF Carrying
      <3> QED
        BY <1>a, <1>b, <2>a, <3>1, <3>2, <3>3, ClaimTaken, Zenon
    <2>2. CASE sched[tgt[t]] # Idle
      <3>1. \A c \in Actors : IsClaimed(c)' <=> IsClaimed(c)
        BY <1>a, <1>t, <1>1, <2>a, <2>2, Zenon
        DEF SendClaim, IsClaimed, Idle, Claimed, ClaimedWake, Suspended
      <3>2. /\ ready' = ready /\ cur' = cur
            /\ \A u \in Threads : pc'[u] \in Carrying <=> pc[u] \in Carrying
            /\ \A u \in Threads : pc[u] \in Carrying => tgt'[u] = tgt[u]
        BY <1>a, <1>t, <1>1, <2>a, <2>2 DEF SendClaim, Carrying, Caller, DropTarget
      <3> QED
        BY <1>a, <1>b, <3>1, <3>2, ClaimsStay, Zenon
    <2> QED
      BY <2>1, <2>2
  <1>2. ASSUME NEW t \in Threads, SendEnqueue(t) PROVE Claims'
    <2>1. tgt[t] \in Actors /\ pc[t] \in Carrying
      BY <1>a, <1>2, Located, Zenon DEF SendEnqueue, Carrying
    <2>2. tband[t] \in Bands
      BY <1>a, Zenon DEF TypeOK
    <2>3. /\ pc'[t] \notin Carrying
          /\ \A u \in Threads \ {t} : pc'[u] = pc[u] /\ tgt'[u] = tgt[u]
      BY <1>a, <1>t, <1>2, Zenon DEF SendEnqueue, Carrying, DropTarget, Caller
    <2> QED
      BY <1>a, <1>2, <2>1, <2>2, <2>3, CarrierPushes, Zenon DEF SendEnqueue, PushReady
  <1>3. ASSUME NEW t \in Threads, Dequeue(t) PROVE Claims'
    <2>1. scan[t] \in Bands /\ cur[t] = NoActor
      <3>1. t \in Workers /\ pc[t] \in Between
        BY <1>a, <1>3, Located, Zenon DEF Dequeue, WorkerLabels, Between
      <3> QED
        BY <1>a, <3>1, Zenon DEF TypeOK, Control, ThreadOK
    <2>2. \A u \in Threads : pc'[u] \in Carrying <=> pc[u] \in Carrying
      BY <1>a, <1>3, Zenon DEF TypeOK, Dequeue, Carrying
    <2> QED
      BY <1>a, <1>3, <2>1, <2>2, WorkerPops, Zenon DEF Dequeue
  <1>4. ASSUME NEW t \in Threads, DequeueEmpty(t) PROVE Claims'
    BY <1>a, <1>t, <1>b, <1>4, ClaimsStay DEF DequeueEmpty, Carrying, IsClaimed
  <1>5. ASSUME NEW t \in Threads, StartTurn(t) PROVE Claims'
    BY <1>a, <1>t, <1>b, <1>5, ClaimsStay, Zenon DEF StartTurn, Carrying, IsClaimed
  <1>6. ASSUME NEW t \in Threads, StayParked(t) PROVE Claims'
    BY <1>a, <1>t, <1>b, <1>6, ClaimsStay, Zenon DEF StayParked, Carrying, IsClaimed
  <1>7. ASSUME NEW t \in Threads, ResumeTurn(t) PROVE Claims'
    BY <1>a, <1>t, <1>b, <1>7, ClaimsStay DEF ResumeTurn, Carrying, IsClaimed
  <1>8. ASSUME NEW t \in Threads, TakeMessage(t) PROVE Claims'
    BY <1>a, <1>t, <1>b, <1>8, ClaimsStay, Zenon DEF TakeMessage, Carrying, IsClaimed
  <1>9. ASSUME NEW t \in Threads, NextBand(t) PROVE Claims'
    BY <1>a, <1>t, <1>b, <1>9, ClaimsStay, Zenon DEF NextBand, Carrying, IsClaimed
  <1>10. ASSUME NEW t \in Threads, TurnOver(t) PROVE Claims'
    BY <1>a, <1>t, <1>b, <1>10, ClaimsStay DEF TurnOver, Carrying, IsClaimed
  <1>11. ASSUME NEW t \in Threads, FinishSuspended(t) PROVE Claims'
    <2>a. cur[t] \in Actors
      BY <1>a, <1>11, Located, Zenon DEF FinishSuspended, WorkerLabels, Between
    <2>b. \A u \in Threads : pc'[u] \in Carrying <=> pc[u] \in Carrying
      BY <1>a, <1>t, <1>11, Zenon DEF FinishSuspended, Carrying
    <2>1. CASE sched[cur[t]] = Claimed
      <3>1. /\ sched' = [sched EXCEPT ![cur[t]] = Suspended]
            /\ cur' = [cur EXCEPT ![t] = NoActor]
            /\ ready' = ready /\ tgt' = tgt
        BY <1>11, <2>1, Zenon DEF FinishSuspended
      <3> QED
        BY <1>a, <1>b, <2>a, <2>b, <3>1, ClaimDropped
    <2>2. CASE sched[cur[t]] # Claimed
      <3>1. ready' = ready /\ cur' = cur /\ tgt' = tgt
        BY <1>11, <2>2, Zenon DEF FinishSuspended
      <3>2. sched[cur[t]] \in {Claimed, ClaimedWake}
        BY <1>a, <2>a, ConstantsAssumption, Zenon DEF Claims, HoldersClaim
      <3>3. \A c \in Actors : IsClaimed(c)' <=> IsClaimed(c)
        BY <1>a, <1>t, <1>11, <2>2, <3>2, Zenon DEF FinishSuspended, IsClaimed, Claimed, ClaimedWake
      <3> QED
        BY <1>a, <1>b, <2>b, <3>1, <3>3, ClaimsStay, Zenon
    <2> QED
      BY <2>1, <2>2
  <1>12. ASSUME NEW t \in Threads, CountSuspended(t) PROVE Claims'
    BY <1>a, <1>t, <1>b, <1>12, ClaimsStay DEF CountSuspended, Carrying, IsClaimed
  <1>13. ASSUME NEW t \in Threads, FinishLoad(t) PROVE Claims'
    <2>1. cur[t] \in Actors /\ sched[cur[t]] \in {Claimed, ClaimedWake}
      BY <1>a, <1>13, Located, ConstantsAssumption, Zenon
      DEF FinishLoad, WorkerLabels, Between, Claims, HoldersClaim
    <2>2. \A c \in Actors : IsClaimed(c)' <=> IsClaimed(c)
      BY <1>a, <1>t, <1>13, <2>1 DEF FinishLoad, IsClaimed, Claimed, ClaimedWake
    <2> QED
      BY <1>a, <1>t, <1>b, <1>13, <2>2, ClaimsStay, Zenon DEF FinishLoad, Carrying
  <1>14. ASSUME NEW t \in Threads, FinishCheck(t) PROVE Claims'
    BY <1>a, <1>t, <1>b, <1>14, ClaimsStay, Zenon DEF FinishCheck, Carrying, IsClaimed
  <1>15. ASSUME NEW t \in Threads, FinishRelease(t) PROVE Claims'
    <2>a. cur[t] \in Actors
      BY <1>a, <1>15, Located, Zenon DEF FinishRelease, WorkerLabels, Between
    <2>b. \A u \in Threads : pc'[u] \in Carrying <=> pc[u] \in Carrying
      BY <1>a, <1>t, <1>15 DEF FinishRelease, Carrying
    <2>1. CASE sched[cur[t]] = Claimed
      <3>1. /\ sched' = [sched EXCEPT ![cur[t]] = Idle]
            /\ cur' = [cur EXCEPT ![t] = NoActor]
            /\ ready' = ready /\ tgt' = tgt
        BY <1>15, <2>1, Zenon DEF FinishRelease
      <3> QED
        BY <1>a, <1>b, <2>a, <2>b, <3>1, ClaimDropped
    <2>2. CASE sched[cur[t]] # Claimed
      <3>1. ready' = ready /\ cur' = cur /\ tgt' = tgt
        BY <1>15, <2>2 DEF FinishRelease
      <3>2. sched[cur[t]] \in {Claimed, ClaimedWake}
        BY <1>a, <2>a, ConstantsAssumption DEF Claims, HoldersClaim
      <3>3. \A c \in Actors : IsClaimed(c)' <=> IsClaimed(c)
        BY <1>a, <1>t, <1>15, <2>2, <3>2 DEF FinishRelease, IsClaimed, Claimed, ClaimedWake
      <3> QED
        BY <1>a, <1>b, <2>b, <3>1, <3>3, ClaimsStay
    <2> QED
      BY <2>1, <2>2
  <1>16. ASSUME NEW t \in Threads, FinishEnqueue(t) PROVE Claims'
    <2>1. cur[t] \in Actors
      BY <1>a, <1>16, Located, Zenon DEF FinishEnqueue, WorkerLabels, Between
    <2>2. HighestPendingBand(cur[t]) \in Bands
      BY <2>1, BandOfWork, Zenon
    <2>3. \A u \in Threads : pc'[u] \in Carrying <=> pc[u] \in Carrying
      BY <1>a, <1>t, <1>16, Zenon DEF FinishEnqueue, Carrying
    <2> QED
      BY <1>a, <1>b, <1>16, <2>1, <2>2, <2>3, WorkerPushes, Zenon DEF FinishEnqueue, PushReady
  <1>17. ASSUME NEW t \in Threads, AddWaiter(t) PROVE Claims'
    BY <1>a, <1>t, <1>b, <1>17, ClaimsStay DEF AddWaiter, Carrying, IsClaimed
  <1>18. ASSUME NEW t \in Threads, AwaitYields(t) PROVE Claims'
    BY <1>a, <1>t, <1>b, <1>18, ClaimsStay, Zenon DEF AwaitYields, Carrying, IsClaimed
  <1>19. ASSUME NEW t \in Threads, AwaitAnswers(t) PROVE Claims'
    BY <1>a, <1>t, <1>b, <1>19, ClaimsStay, Zenon DEF AwaitAnswers, Carrying, IsClaimed
  <1>20. ASSUME NEW t \in Threads, HandlerEnds(t) PROVE Claims'
    BY <1>a, <1>t, <1>b, <1>20, ClaimsStay DEF HandlerEnds, Carrying, IsClaimed
  <1>21. ASSUME NEW t \in Threads, Settle(t) PROVE Claims'
    BY <1>a, <1>t, <1>b, <1>21, ClaimsStay DEF Settle, Carrying, IsClaimed, AfterComplete
  <1>22. ASSUME NEW t \in Threads, ReadWaiters(t) PROVE Claims'
    BY <1>a, <1>t, <1>b, <1>22, ClaimsStay, Zenon DEF ReadWaiters, Carrying, IsClaimed
  <1>23. ASSUME NEW t \in Threads, Resume(t) PROVE Claims'
    <2> DEFINE a == Head(walk[t])
    <2>a. a \in Actors /\ pc[t] \notin Carrying
      <3>1. walk[t] \in Seq(Actors)
        BY <1>a, Zenon DEF TypeOK
      <3> QED
        BY <1>23, <3>1 DEF Resume, Carrying
    <2>b. ready' = ready /\ cur' = cur
      BY <1>23, Zenon DEF Resume
    <2> HIDE DEF a
    <2>1. CASE sched[a] \in {Idle, Suspended}
      <3>1. /\ sched' = [sched EXCEPT ![a] = Claimed]
            /\ tgt' = [tgt EXCEPT ![t] = a]
            /\ pc' = [pc EXCEPT ![t] = "resume_parked"] \/ pc' = [pc EXCEPT ![t] = "resume_idle"]
        BY <1>23, <2>1 DEF Resume, a, Idle, Claimed, ClaimedWake, Suspended
      <3>2. ~IsClaimed(a)
        BY <2>1 DEF IsClaimed, Idle, Claimed, ClaimedWake, Suspended
      <3>3. /\ pc'[t] \in Carrying /\ tgt'[t] = a
            /\ \A u \in Threads \ {t} : pc'[u] = pc[u] /\ tgt'[u] = tgt[u]
        BY <1>a, <1>t, <3>1, Zenon DEF Carrying
      <3> QED
        BY <1>a, <1>b, <2>a, <2>b, <3>1, <3>2, <3>3, ClaimTaken, Zenon
    <2>2. CASE sched[a] \in {Claimed, ClaimedWake}
      <3>1. pc' = pc /\ tgt' = tgt /\ (sched' = sched \/ sched' = [sched EXCEPT ![a] = ClaimedWake])
        BY <1>23, <2>2 DEF Resume, a, Idle, Claimed, ClaimedWake, Suspended
      <3>2. \A c \in Actors : IsClaimed(c)' <=> IsClaimed(c)
        BY <1>a, <1>t, <2>a, <2>2, <3>1 DEF IsClaimed
      <3> QED
        BY <1>a, <1>b, <2>b, <3>1, <3>2, ClaimsStay, Zenon
    <2> QED
      BY <1>a, <1>t, <2>a, <2>1, <2>2, Zenon
  <1>24. ASSUME NEW t \in Threads, ResumeParked(t) PROVE Claims'
    <2>1. tgt[t] \in Actors /\ pc[t] \in Carrying
      BY <1>a, <1>24, Located, Zenon DEF ResumeParked, Carrying
    <2>2. HighestPendingBand(tgt[t]) \in Bands
      BY <1>a, <1>t, <2>1, BandOfWork, Zenon
    <2>3. /\ pc'[t] \notin Carrying
          /\ \A u \in Threads \ {t} : pc'[u] = pc[u] /\ tgt'[u] = tgt[u]
      BY <1>a, <1>t, <1>24, Zenon DEF ResumeParked, Carrying, DropTarget
    <2> QED
      BY <1>a, <1>24, <2>1, <2>2, <2>3, CarrierPushes, Zenon DEF ResumeParked, PushReady
  <1>25. ASSUME NEW t \in Threads, ResumeIdle(t) PROVE Claims'
    <2>1. tgt[t] \in Actors /\ pc[t] \in Carrying
      BY <1>a, <1>25, Located, Zenon DEF ResumeIdle, Carrying
    <2>2. Medium \in Bands
      BY <1>a, <1>t, <2>1, BandFacts
    <2>3. /\ pc'[t] \notin Carrying
          /\ \A u \in Threads \ {t} : pc'[u] = pc[u] /\ tgt'[u] = tgt[u]
      BY <1>a, <1>t, <1>25, Zenon DEF ResumeIdle, Carrying, DropTarget
    <2> QED
      BY <1>a, <1>25, <2>1, <2>2, <2>3, CarrierPushes, Zenon DEF ResumeIdle, PushReady
  <1>26. ASSUME NEW t \in Threads, CompleteDone(t) PROVE Claims'
    BY <1>a, <1>t, <1>b, <1>26, ClaimsStay, Zenon DEF CompleteDone, Carrying, IsClaimed, AfterComplete
  <1>27. ASSUME NEW t \in Threads, NEW m \in Msgs, NEW a \in Actors, NEW b \in SendBands,
               Send(t, m, a, b)
        PROVE  Claims'
    <2>1. pc[t] \notin Carrying /\ pc'[t] \notin Carrying
      BY <1>a, <1>t, <1>27, Zenon DEF Send, Carrying
    <2>2. \A u \in Threads \ {t} : pc'[u] = pc[u] /\ tgt'[u] = tgt[u]
      BY <1>a, <1>t, <1>27, Zenon DEF Send
    <2> QED
      BY <1>a, <1>b, <1>27, <2>1, <2>2, ClaimsStay DEF Send, IsClaimed
  <1>28. ASSUME NEW t \in Threads, NEW f \in Futures, Await(t, f) PROVE Claims'
    BY <1>a, <1>t, <1>b, <1>28, ClaimsStay DEF Await, Carrying, IsClaimed
  <1>29. ASSUME NEW t \in Threads, NEW f \in ClientFutures, ClientCompletes(t, f) PROVE Claims'
    BY <1>a, <1>t, <1>b, <1>29, ClaimsStay, Zenon DEF ClientCompletes, Carrying, IsClaimed
  <1>30. ASSUME NEW t \in Threads, AwaitRefused(t) PROVE Claims'
    BY <1>a, <1>t, <1>b, <1>30, ClaimsStay, Zenon DEF AwaitRefused, Carrying, IsClaimed
  <1> QED
    BY <1>1, <1>2, <1>3, <1>4, <1>5, <1>6, <1>7, <1>8, <1>9, <1>10, <1>11, <1>12, <1>13, <1>14,
       <1>15, <1>16, <1>17, <1>18, <1>19, <1>20, <1>21, <1>22, <1>23, <1>24, <1>25, <1>26,
       <1>27, <1>28, <1>29, <1>30, Zenon
    DEF Next, Step

-----------------------------------------------------------------------------
(* Types.                                                                  *)

\* enqueue keeps every ready stack a sequence of actors.
LEMMA PushType ==
    ASSUME TypeOK, NEW b \in Bands, NEW a \in Actors, PushReady(b, a)
    PROVE  ready' \in [Bands -> Seq(Actors)]
  <1>1. Append(ready[b], a) \in Seq(Actors)
    BY DEF TypeOK
  <1> QED
    BY <1>1, Zenon DEF TypeOK, PushReady

\* Every step keeps the types.
LEMMA TypeStep ==
    ASSUME IInv, Next
    PROVE  TypeOK'
  <1>a. TypeOK /\ Control
    BY Zenon DEF IInv
  <1>b. 0 \in 0..kBatchSize /\ kBatchSize \in 0..kBatchSize
    BY ConstantsAssumption
  <1>1. ASSUME NEW t \in Threads, SendClaim(t) PROVE TypeOK'
    <2>1. sched' \in [Actors -> {Idle, Claimed, ClaimedWake, Suspended}]
      <3>1. sched' = sched \/ sched' = [sched EXCEPT ![tgt[t]] = Claimed]
            \/ sched' = [sched EXCEPT ![tgt[t]] = ClaimedWake]
        BY <1>1, Zenon DEF SendClaim
      <3> QED
        BY <1>a, <3>1 DEF TypeOK
    <2>2. pc' \in [Threads -> Labels]
      BY <1>a, <1>1 DEF TypeOK, Goto, SendClaim, Labels, WorkerLabels, CallLabels, Caller
    <2>3. tgt' \in [Threads -> Actors \cup {NoActor}]
      BY <1>a, <1>1, Zenon DEF TypeOK, SendClaim, DropTarget
    <2>4. tband' \in [Threads -> Bands]
      BY <1>a, <1>1, BandFacts DEF TypeOK, SendClaim, DropTarget
    <2> QED
      BY <1>a, <1>1, <2>1, <2>2, <2>3, <2>4, Zenon
      DEF TypeOK, SendClaim, actorVars, futureVars, turnVars, callVars
  <1>2. ASSUME NEW t \in Threads, SendEnqueue(t) PROVE TypeOK'
    <2>1. tgt[t] \in Actors
      BY <1>a, <1>2, Located, Zenon DEF SendEnqueue, Carrying
    <2>2. tband[t] \in Bands
      BY <1>a, <2>1, Zenon DEF TypeOK
    <2>3. ready' \in [Bands -> Seq(Actors)]
      BY <1>a, <1>2, <2>1, <2>2, PushType, Zenon DEF SendEnqueue
    <2>4. pc' \in [Threads -> Labels]
      BY <1>a, <1>2, Zenon DEF TypeOK, Goto, SendEnqueue, Labels, WorkerLabels, CallLabels, Caller
    <2>5. tgt' \in [Threads -> Actors \cup {NoActor}]
      BY <1>a, <1>2, Zenon DEF TypeOK, SendEnqueue, DropTarget
    <2>6. tband' \in [Threads -> Bands]
      BY <1>a, <1>2, BandFacts, Zenon DEF TypeOK, SendEnqueue, DropTarget
    <2> QED
      BY <1>a, <1>2, <2>3, <2>4, <2>5, <2>6, Zenon
      DEF TypeOK, SendEnqueue, actorVars, futureVars, turnVars, callVars
  <1>3. ASSUME NEW t \in Threads, Dequeue(t) PROVE TypeOK'
    <2>1. scan[t] \in Bands /\ ready[scan[t]] \in Seq(Actors)
      BY <1>a, Zenon DEF TypeOK
    <2>2. /\ ready[scan[t]][Len(ready[scan[t]])] \in Actors
          /\ SubSeq(ready[scan[t]], 1, Len(ready[scan[t]]) - 1) \in Seq(Actors)
      BY <1>3, <2>1, PoppedEntries, Zenon DEF Dequeue
    <2>3. ready' \in [Bands -> Seq(Actors)]
      BY <1>a, <1>3, <2>1, <2>2, Zenon DEF TypeOK, Dequeue
    <2>4. cur' \in [Threads -> Actors \cup {NoActor}]
      BY <1>a, <1>3, <2>1, <2>2, Zenon DEF TypeOK, Dequeue
    <2>5. scan' \in [Threads -> Bands]
      BY <1>a, <1>3, BandFacts, Zenon DEF TypeOK, Dequeue
    <2>6. pc' \in [Threads -> Labels]
      BY <1>a, <1>3, Zenon DEF TypeOK, Goto, Dequeue, Labels, WorkerLabels, CallLabels
    <2> QED
      BY <1>a, <1>3, <2>3, <2>4, <2>5, <2>6, Zenon
      DEF TypeOK, Dequeue, actorVars, futureVars, turnVars, callVars
  <1>4. ASSUME NEW t \in Threads, DequeueEmpty(t) PROVE TypeOK'
    <2>1. scan' \in [Threads -> Bands]
      BY <1>a, <1>4, BandFacts, Zenon DEF TypeOK, DequeueEmpty
    <2> QED
      BY <1>a, <1>4, <2>1, Zenon DEF TypeOK, DequeueEmpty, actorVars, futureVars, turnVars, callVars
  <1>5. ASSUME NEW t \in Threads, StartTurn(t) PROVE TypeOK'
    <2>1. budget' \in [Threads -> 0..kBatchSize]
      BY <1>a, <1>5, <1>b, Zenon DEF TypeOK, StartTurn
    <2>2. pc' \in [Threads -> Labels]
      BY <1>a, <1>5, Zenon DEF TypeOK, Goto, StartTurn, Labels, WorkerLabels, CallLabels
    <2> QED
      BY <1>a, <1>5, <2>1, <2>2, Zenon DEF TypeOK, StartTurn, actorVars, futureVars, turnVars, callVars
  <1>6. ASSUME NEW t \in Threads, StayParked(t) PROVE TypeOK'
    <2>1. pc' \in [Threads -> Labels]
      BY <1>a, <1>6, Zenon DEF TypeOK, Goto, StayParked, Labels, WorkerLabels, CallLabels
    <2> QED
      BY <1>a, <1>6, <2>1, Zenon DEF TypeOK, StayParked, actorVars, futureVars, turnVars, callVars
  <1>7. ASSUME NEW t \in Threads, ResumeTurn(t) PROVE TypeOK'
    <2>1. cur[t] \in Actors
      BY <1>a, <1>7, Located, Zenon DEF ResumeTurn, WorkerLabels, Between
    <2>2. budget' \in [Threads -> 0..kBatchSize]
      BY <1>a, <1>7, <1>b, Zenon DEF TypeOK, ResumeTurn
    <2>3. msg' \in [Threads -> Msgs \cup {NoMsg}]
      BY <1>a, <1>7, <2>1, Zenon DEF TypeOK, ResumeTurn
    <2>4. snapshot' \in [Actors -> BOOLEAN]
      BY <1>a, <1>7, Zenon DEF TypeOK, ResumeTurn
    <2>5. waitingOn' \in [Actors -> Futures \cup {NoFuture}]
      BY <1>a, <1>7, Zenon DEF TypeOK, ResumeTurn
    <2>6. turnMsg' \in [Actors -> Msgs \cup {NoMsg}]
      BY <1>a, <1>7, Zenon DEF TypeOK, ResumeTurn
    <2>7. pc' \in [Threads -> Labels]
      BY <1>a, <1>7 DEF TypeOK, Goto, ResumeTurn, Labels, WorkerLabels, CallLabels
    <2> QED
      BY <1>a, <1>7, <2>2, <2>3, <2>4, <2>5, <2>6, <2>7, Zenon
      DEF TypeOK, ResumeTurn, actorVars, futureVars, turnVars, callVars
  <1>8. ASSUME NEW t \in Threads, TakeMessage(t) PROVE TypeOK'
    <2>1. cur[t] \in Actors
      BY <1>a, <1>8, Located, Zenon DEF TakeMessage, WorkerLabels, Between
    <2>2. scan[t] \in Bands /\ Batch(cur[t], scan[t]) \in Seq(Msgs)
      BY <1>a, <2>1 DEF TypeOK, Batch
    <2>3. /\ Head(Batch(cur[t], scan[t])) \in Msgs
          /\ Tail(Batch(cur[t], scan[t])) \in Seq(Msgs)
      BY <1>8, <2>2 DEF TakeMessage
    <2>4. mailbox' \in [Actors -> [Bands -> Seq(Msgs)]]
      BY <1>a, <1>8, <2>1, <2>3 DEF TypeOK, TakeMessage
    <2>5. pending' \in [Actors -> [Bands -> Seq(Msgs)]]
      BY <1>a, <1>8, <2>1, <2>3, Zenon DEF TypeOK, TakeMessage
    <2>6. messages' \in Nat
      BY <1>a, <1>8 DEF TypeOK, TakeMessage
    <2>7. msg' \in [Threads -> Msgs \cup {NoMsg}]
      BY <1>a, <1>8, <2>1, <2>3, Zenon DEF TypeOK, TakeMessage
    <2>8. scan' \in [Threads -> Bands]
      BY <1>a, <1>8, BandFacts, Zenon DEF TypeOK, TakeMessage
    <2>9. budget' \in [Threads -> 0..kBatchSize]
      BY <1>a, <1>8, ConstantsAssumption DEF TypeOK, TakeMessage
    <2>10. pc' \in [Threads -> Labels]
      BY <1>a, <1>8, Zenon DEF TypeOK, Goto, TakeMessage, Labels, WorkerLabels, CallLabels
    <2> QED
      BY <1>a, <1>8, <2>4, <2>5, <2>6, <2>7, <2>8, <2>9, <2>10, Zenon
      DEF TypeOK, TakeMessage, actorVars, futureVars, turnVars, callVars
  <1>9. ASSUME NEW t \in Threads, NextBand(t) PROVE TypeOK'
    <2>1. scan' \in [Threads -> Bands]
      BY <1>a, <1>9, BandFacts, Zenon DEF TypeOK, NextBand
    <2> QED
      BY <1>a, <1>9, <2>1, Zenon DEF TypeOK, NextBand, actorVars, futureVars, turnVars, callVars
  <1>10. ASSUME NEW t \in Threads, TurnOver(t) PROVE TypeOK'
    <2>1. scan' \in [Threads -> Bands]
      BY <1>a, <1>10, BandFacts, Zenon DEF TypeOK, TurnOver
    <2>2. budget' \in [Threads -> 0..kBatchSize]
      BY <1>a, <1>10, <1>b, Zenon DEF TypeOK, TurnOver
    <2>3. pc' \in [Threads -> Labels]
      BY <1>a, <1>10, Zenon DEF TypeOK, Goto, TurnOver, Labels, WorkerLabels, CallLabels
    <2> QED
      BY <1>a, <1>10, <2>1, <2>2, <2>3, Zenon
      DEF TypeOK, TurnOver, actorVars, futureVars, turnVars, callVars
  <1>11. ASSUME NEW t \in Threads, FinishSuspended(t) PROVE TypeOK'
    <2>1. sched' \in [Actors -> {Idle, Claimed, ClaimedWake, Suspended}]
      <3>1. \/ sched' = [sched EXCEPT ![cur[t]] = Suspended]
            \/ sched' = [sched EXCEPT ![cur[t]] = Claimed]
        BY <1>11, Zenon DEF FinishSuspended
      <3> QED
        BY <1>a, <3>1 DEF TypeOK
    <2>2. cur' \in [Threads -> Actors \cup {NoActor}]
      BY <1>a, <1>11, Zenon DEF TypeOK, FinishSuspended
    <2>3. pc' \in [Threads -> Labels]
      <3>1. Goto(t, "count_suspended") \/ Goto(t, "finish_enqueue")
        BY <1>11, Zenon DEF FinishSuspended
      <3> QED
        BY <1>a, <3>1 DEF TypeOK, Goto, Labels, WorkerLabels, CallLabels
    <2> QED
      BY <1>a, <1>11, <2>1, <2>2, <2>3, Zenon
      DEF TypeOK, FinishSuspended, actorVars, futureVars, turnVars, callVars
  <1>12. ASSUME NEW t \in Threads, CountSuspended(t) PROVE TypeOK'
    <2>1. pc' \in [Threads -> Labels]
      BY <1>a, <1>12, Zenon DEF TypeOK, Goto, CountSuspended, Labels, WorkerLabels, CallLabels
    <2>2. suspended' \in Int
      BY <1>a, <1>12 DEF TypeOK, CountSuspended
    <2> QED
      BY <1>a, <1>12, <2>1, <2>2, Zenon
      DEF TypeOK, CountSuspended, actorVars, futureVars, turnVars, callVars
  <1>13. ASSUME NEW t \in Threads, FinishLoad(t) PROVE TypeOK'
    <2>1. sched' \in [Actors -> {Idle, Claimed, ClaimedWake, Suspended}]
      BY <1>a, <1>13, Zenon DEF TypeOK, FinishLoad
    <2>2. pc' \in [Threads -> Labels]
      BY <1>a, <1>13, Zenon DEF TypeOK, Goto, FinishLoad, Labels, WorkerLabels, CallLabels
    <2> QED
      BY <1>a, <1>13, <2>1, <2>2, Zenon DEF TypeOK, FinishLoad, actorVars, futureVars, turnVars, callVars
  <1>14. ASSUME NEW t \in Threads, FinishCheck(t) PROVE TypeOK'
    <2>1. pc' \in [Threads -> Labels]
      <3>1. Goto(t, "finish_enqueue") \/ Goto(t, "finish_release")
        BY <1>14, Zenon DEF FinishCheck
      <3> QED
        BY <1>a, <3>1 DEF TypeOK, Goto, Labels, WorkerLabels, CallLabels
    <2> QED
      BY <1>a, <1>14, <2>1, Zenon DEF TypeOK, FinishCheck, actorVars, futureVars, turnVars, callVars
  <1>15. ASSUME NEW t \in Threads, FinishRelease(t) PROVE TypeOK'
    <2>1. sched' \in [Actors -> {Idle, Claimed, ClaimedWake, Suspended}]
      <3>1. sched' = sched \/ sched' = [sched EXCEPT ![cur[t]] = Idle]
        BY <1>15, Zenon DEF FinishRelease
      <3> QED
        BY <1>a, <3>1 DEF TypeOK
    <2>2. cur' \in [Threads -> Actors \cup {NoActor}]
      BY <1>a, <1>15, Zenon DEF TypeOK, FinishRelease
    <2>3. pc' \in [Threads -> Labels]
      <3>1. Goto(t, "dequeue") \/ Goto(t, "finish_load")
        BY <1>15, Zenon DEF FinishRelease
      <3> QED
        BY <1>a, <3>1 DEF TypeOK, Goto, Labels, WorkerLabels, CallLabels
    <2> QED
      BY <1>a, <1>15, <2>1, <2>2, <2>3, Zenon
      DEF TypeOK, FinishRelease, actorVars, futureVars, turnVars, callVars
  <1>16. ASSUME NEW t \in Threads, FinishEnqueue(t) PROVE TypeOK'
    <2>1. cur[t] \in Actors
      BY <1>a, <1>16, Located, Zenon DEF FinishEnqueue, WorkerLabels, Between
    <2>2. HighestPendingBand(cur[t]) \in Bands
      BY <1>a, <2>1, BandOfWork, Zenon DEF TypeOK
    <2>3. ready' \in [Bands -> Seq(Actors)]
      BY <1>a, <1>16, <2>1, <2>2, PushType, Zenon DEF FinishEnqueue
    <2>4. cur' \in [Threads -> Actors \cup {NoActor}]
      BY <1>a, <1>16, Zenon DEF TypeOK, FinishEnqueue
    <2>5. pc' \in [Threads -> Labels]
      BY <1>a, <1>16, Zenon DEF TypeOK, Goto, FinishEnqueue, Labels, WorkerLabels, CallLabels
    <2> QED
      BY <1>a, <1>16, <2>3, <2>4, <2>5, Zenon
      DEF TypeOK, FinishEnqueue, actorVars, futureVars, turnVars, callVars
  <1>17. ASSUME NEW t \in Threads, AddWaiter(t) PROVE TypeOK'
    <2>1. cur[t] \in Actors
      BY <1>a, <1>17, Located, Zenon DEF AddWaiter, WorkerLabels, Between
    <2>2. \A f \in Futures : Append(waiters[f], cur[t]) \in Seq(Actors)
      BY <1>a, <2>1 DEF TypeOK
    <2>3. waiters' \in [Futures -> Seq(Actors)]
      BY <1>a, <1>17, <2>2, Zenon DEF TypeOK, AddWaiter
    <2>4. pc' \in [Threads -> Labels]
      BY <1>a, <1>17, Zenon DEF TypeOK, Goto, AddWaiter, Labels, WorkerLabels, CallLabels
    <2> QED
      BY <1>a, <1>17, <2>3, <2>4, Zenon DEF TypeOK, AddWaiter, actorVars, futureVars, turnVars, callVars
  <1>18. ASSUME NEW t \in Threads, AwaitYields(t) PROVE TypeOK'
    <2>1. turnMsg' \in [Actors -> Msgs \cup {NoMsg}]
      BY <1>a, <1>18, Zenon DEF TypeOK, AwaitYields
    <2>2. msg' \in [Threads -> Msgs \cup {NoMsg}]
      BY <1>a, <1>18, Zenon DEF TypeOK, AwaitYields
    <2>3. budget' \in [Threads -> 0..kBatchSize]
      BY <1>a, <1>18, <1>b, Zenon DEF TypeOK, AwaitYields
    <2>4. pc' \in [Threads -> Labels]
      BY <1>a, <1>18, Zenon DEF TypeOK, Goto, AwaitYields, Labels, WorkerLabels, CallLabels
    <2> QED
      BY <1>a, <1>18, <2>1, <2>2, <2>3, <2>4, Zenon
      DEF TypeOK, AwaitYields, actorVars, futureVars, turnVars, callVars
  <1>19. ASSUME NEW t \in Threads, AwaitAnswers(t) PROVE TypeOK'
    <2>1. snapshot' \in [Actors -> BOOLEAN]
      BY <1>a, <1>19, Zenon DEF TypeOK, AwaitAnswers
    <2>2. waitingOn' \in [Actors -> Futures \cup {NoFuture}]
      BY <1>a, <1>19, Zenon DEF TypeOK, AwaitAnswers
    <2>3. pc' \in [Threads -> Labels]
      BY <1>a, <1>19 DEF TypeOK, Goto, AwaitAnswers, Labels, WorkerLabels, CallLabels
    <2> QED
      BY <1>a, <1>19, <2>1, <2>2, <2>3
      DEF TypeOK, AwaitAnswers, actorVars, futureVars, turnVars, callVars
  <1>20. ASSUME NEW t \in Threads, HandlerEnds(t) PROVE TypeOK'
    <2>1. Reply(msg[t]) \in Futures \cup {NoFuture}
      BY <1>a, ReplyType, Zenon DEF TypeOK
    <2>2. fut' \in [Threads -> Futures \cup {NoFuture}]
      BY <1>a, <1>20, <2>1, Zenon DEF TypeOK, HandlerEnds
    <2>3. msg' \in [Threads -> Msgs \cup {NoMsg}]
      BY <1>a, <1>20, Zenon DEF TypeOK, HandlerEnds
    <2>4. pc' \in [Threads -> Labels]
      BY <1>a, <1>20, Zenon DEF TypeOK, Goto, HandlerEnds, Labels, WorkerLabels, CallLabels
    <2> QED
      BY <1>a, <1>20, <2>2, <2>3, <2>4, Zenon
      DEF TypeOK, HandlerEnds, actorVars, futureVars, turnVars, callVars
  <1>21. ASSUME NEW t \in Threads, Settle(t) PROVE TypeOK'
    <2>1. fut[t] \in Futures
      BY <1>a, <1>21, Located, Zenon DEF Settle, CallLabels
    <2>2. fut' \in [Threads -> Futures \cup {NoFuture}]
      BY <1>a, <1>21, Zenon DEF TypeOK, Settle, DropFuture
    <2>3. pc' \in [Threads -> Labels]
      BY <1>a, <1>21 DEF TypeOK, Goto, Settle, Labels, WorkerLabels, CallLabels, AfterComplete
    <2> QED
      BY <1>a, <1>21, <2>1, <2>2, <2>3 DEF TypeOK, Settle, actorVars, futureVars, turnVars, callVars
  <1>22. ASSUME NEW t \in Threads, ReadWaiters(t) PROVE TypeOK'
    <2>1. fut[t] \in Futures
      BY <1>a, <1>22, Located, Zenon DEF ReadWaiters, CallLabels
    <2>2. walk' \in [Threads -> Seq(Actors)]
      BY <1>a, <1>22, <2>1, Zenon DEF TypeOK, ReadWaiters
    <2>3. pc' \in [Threads -> Labels]
      BY <1>a, <1>22, Zenon DEF TypeOK, Goto, ReadWaiters, Labels, WorkerLabels, CallLabels
    <2> QED
      BY <1>a, <1>22, <2>2, <2>3, Zenon DEF TypeOK, ReadWaiters, actorVars, futureVars, turnVars, callVars
  <1>23. ASSUME NEW t \in Threads, Resume(t) PROVE TypeOK'
    <2>1. Head(walk[t]) \in Actors /\ Tail(walk[t]) \in Seq(Actors)
      BY <1>a, <1>23 DEF TypeOK, Resume
    <2>2. walk' \in [Threads -> Seq(Actors)]
      BY <1>a, <1>23, <2>1, Zenon DEF TypeOK, Resume
    <2>3. sched' \in [Actors -> {Idle, Claimed, ClaimedWake, Suspended}]
      BY <1>a, <1>23 DEF TypeOK, Resume
    <2>4. tgt' \in [Threads -> Actors \cup {NoActor}]
      BY <1>a, <1>23, <2>1, Zenon DEF TypeOK, Resume
    <2>5. pc' \in [Threads -> Labels]
      <3>1. pc' = pc \/ Goto(t, "resume_parked") \/ Goto(t, "resume_idle")
        BY <1>23, Zenon DEF Resume
      <3> QED
        BY <1>a, <3>1 DEF TypeOK, Goto, Labels, WorkerLabels, CallLabels
    <2> QED
      BY <1>a, <1>23, <2>2, <2>3, <2>4, <2>5
      DEF TypeOK, Resume, actorVars, futureVars, turnVars, callVars
  <1>24. ASSUME NEW t \in Threads, ResumeParked(t) PROVE TypeOK'
    <2>1. tgt[t] \in Actors
      BY <1>a, <1>24, Located, Zenon DEF ResumeParked, Carrying
    <2>2. HighestPendingBand(tgt[t]) \in Bands
      BY <1>a, <2>1, BandOfWork, Zenon DEF TypeOK
    <2>3. ready' \in [Bands -> Seq(Actors)]
      BY <1>a, <1>24, <2>1, <2>2, PushType, Zenon DEF ResumeParked
    <2>4. pc' \in [Threads -> Labels]
      BY <1>a, <1>24, Zenon DEF TypeOK, Goto, ResumeParked, Labels, WorkerLabels, CallLabels
    <2>5. tgt' \in [Threads -> Actors \cup {NoActor}]
      BY <1>a, <1>24, Zenon DEF TypeOK, ResumeParked, DropTarget
    <2>6. tband' \in [Threads -> Bands]
      BY <1>a, <1>24, BandFacts DEF TypeOK, ResumeParked, DropTarget
    <2>7. suspended' \in Int
      BY <1>a, <1>24 DEF TypeOK, ResumeParked
    <2> QED
      BY <1>a, <1>24, <2>3, <2>4, <2>5, <2>6, <2>7, Zenon
      DEF TypeOK, ResumeParked, actorVars, futureVars, turnVars, callVars
  <1>25. ASSUME NEW t \in Threads, ResumeIdle(t) PROVE TypeOK'
    <2>1. tgt[t] \in Actors
      BY <1>a, <1>25, Located, Zenon DEF ResumeIdle, Carrying
    <2>2. Medium \in Bands
      BY <1>a, <2>1, BandFacts DEF TypeOK
    <2>3. ready' \in [Bands -> Seq(Actors)]
      BY <1>a, <1>25, <2>1, <2>2, PushType, Zenon DEF ResumeIdle
    <2>4. pc' \in [Threads -> Labels]
      BY <1>a, <1>25, Zenon DEF TypeOK, Goto, ResumeIdle, Labels, WorkerLabels, CallLabels
    <2>5. tgt' \in [Threads -> Actors \cup {NoActor}]
      BY <1>a, <1>25 DEF TypeOK, ResumeIdle, DropTarget
    <2>6. tband' \in [Threads -> Bands]
      BY <1>a, <1>25, BandFacts DEF TypeOK, ResumeIdle, DropTarget
    <2> QED
      BY <1>a, <1>25, <2>3, <2>4, <2>5, <2>6, Zenon
      DEF TypeOK, ResumeIdle, actorVars, futureVars, turnVars, callVars
  <1>26. ASSUME NEW t \in Threads, CompleteDone(t) PROVE TypeOK'
    <2>1. fut' \in [Threads -> Futures \cup {NoFuture}]
      BY <1>a, <1>26 DEF TypeOK, CompleteDone, DropFuture
    <2>2. pc' \in [Threads -> Labels]
      BY <1>a, <1>26 DEF TypeOK, Goto, CompleteDone, Labels, WorkerLabels, CallLabels, AfterComplete
    <2> QED
      BY <1>a, <1>26, <2>1, <2>2, Zenon DEF TypeOK, CompleteDone, actorVars, futureVars, turnVars, callVars
  <1>27. ASSUME NEW t \in Threads, NEW m \in Msgs, NEW a \in Actors, NEW b \in SendBands,
               Send(t, m, a, b)
        PROVE  TypeOK'
    <2>1. mailbox' \in [Actors -> [Bands -> Seq(Msgs)]]
      <3>1. mailbox \in [Actors -> [Bands -> Seq(Msgs)]] /\ b \in Bands
        BY <1>a, ConstantsAssumption, Zenon DEF TypeOK
      <3>2. mailbox' = [mailbox EXCEPT ![a][b] = Append(@, m)]
        BY <1>27, Zenon DEF Send
      <3> QED
        BY <3>1, <3>2
    <2>2. tgt' \in [Threads -> Actors \cup {NoActor}]
      BY <1>a, <1>27 DEF TypeOK, Send
    <2>3. tband' \in [Threads -> Bands]
      BY <1>a, <1>27, ConstantsAssumption, Zenon DEF TypeOK, Send
    <2>4. pc' \in [Threads -> Labels]
      BY <1>a, <1>27 DEF TypeOK, Send, Goto, Labels, WorkerLabels, CallLabels
    <2> QED
      BY <1>a, <1>27, <2>1, <2>2, <2>3, <2>4
      DEF TypeOK, Send, actorVars, futureVars, turnVars, callVars
  <1>28. ASSUME NEW t \in Threads, NEW f \in Futures, Await(t, f) PROVE TypeOK'
    <2>1. snapshot' \in [Actors -> BOOLEAN]
      BY <1>a, <1>28 DEF TypeOK, Await
    <2>2. waitingOn' \in [Actors -> Futures \cup {NoFuture}]
      BY <1>a, <1>28, Zenon DEF TypeOK, Await
    <2>3. pc' \in [Threads -> Labels]
      BY <1>a, <1>28, Zenon DEF TypeOK, Await, Goto, Labels, WorkerLabels, CallLabels
    <2> QED
      BY <1>a, <1>28, <2>1, <2>2, <2>3, Zenon DEF TypeOK, Await, actorVars, futureVars, turnVars, callVars
  <1>29. ASSUME NEW t \in Threads, NEW f \in ClientFutures, ClientCompletes(t, f) PROVE TypeOK'
    <2>1. fut' \in [Threads -> Futures \cup {NoFuture}]
      BY <1>a, <1>29, Zenon DEF TypeOK, ClientCompletes, ClientFutures
    <2>2. pc' \in [Threads -> Labels]
      BY <1>a, <1>29, Zenon DEF TypeOK, ClientCompletes, Goto, Labels, WorkerLabels, CallLabels
    <2> QED
      BY <1>a, <1>29, <2>1, <2>2
      DEF TypeOK, ClientCompletes, actorVars, futureVars, turnVars, callVars
  <1>30. ASSUME NEW t \in Threads, AwaitRefused(t) PROVE TypeOK'
    <2>1. pc' \in [Threads -> Labels]
      BY <1>a, <1>30, Zenon DEF TypeOK, Goto, AwaitRefused, Labels, WorkerLabels, CallLabels
    <2> QED
      BY <1>a, <1>30, <2>1, Zenon
      DEF TypeOK, AwaitRefused, actorVars, futureVars, turnVars, callVars
  <1> QED
    BY <1>1, <1>2, <1>3, <1>4, <1>5, <1>6, <1>7, <1>8, <1>9, <1>10, <1>11, <1>12, <1>13, <1>14,
       <1>15, <1>16, <1>17, <1>18, <1>19, <1>20, <1>21, <1>22, <1>23, <1>24, <1>25, <1>26,
       <1>27, <1>28, <1>29, <1>30
    DEF Next, Step

-----------------------------------------------------------------------------
(* Locals.                                                                 *)

\* A step of one thread leaves the locals of the others alone.
LEMMA ControlOfOthers ==
    ASSUME Control, NEW t \in Threads, ThreadOK(t)',
           \A u \in Threads \ {t} :
              /\ pc'[u] = pc[u] /\ cur'[u] = cur[u] /\ msg'[u] = msg[u]
              /\ tgt'[u] = tgt[u] /\ fut'[u] = fut[u]
    PROVE  Control'
  BY DEF Control, ThreadOK

\* Every step keeps each thread's locals in step with its label.
LEMMA ControlStep ==
    ASSUME IInv, Next
    PROVE  Control'
  <1>a. TypeOK /\ Control
    BY Zenon DEF IInv
  <1>t. /\ pc \in [Threads -> Labels] /\ cur \in [Threads -> Actors \cup {NoActor}]
        /\ msg \in [Threads -> Msgs \cup {NoMsg}] /\ fut \in [Threads -> Futures \cup {NoFuture}]
        /\ tgt \in [Threads -> Actors \cup {NoActor}]
    BY <1>a, Zenon DEF TypeOK
  <1> USE DEF Goto, actorVars, futureVars, turnVars, callVars
  <1>1. ASSUME NEW t \in Threads, SendClaim(t) PROVE Control'
    <2>1. ThreadOK(t) /\ pc[t] = "send_claim"
      BY <1>a, <1>1, Zenon DEF Control, SendClaim
    <2>2. /\ cur'[t] = cur[t] /\ msg'[t] = msg[t] /\ fut'[t] = fut[t]
          /\ \/ pc'[t] = "send_enqueue" /\ tgt'[t] = tgt[t]
             \/ pc'[t] = Caller(t)
      BY <1>t, <1>1, Zenon DEF SendClaim, DropTarget
    <2>3. ThreadOK(t)'
      BY <2>1, <2>2, ConstantsAssumption, Zenon
      DEF ThreadOK, CallLabels, Between, Carrying, Awaiting, Threads, Caller
    <2> QED
      BY <1>a, <1>t, <1>1, <2>3, ControlOfOthers, Zenon DEF SendClaim, Caller, DropTarget
  <1>2. ASSUME NEW t \in Threads, SendEnqueue(t) PROVE Control'
    <2>1. ThreadOK(t)
      BY <1>a, Zenon DEF Control
    <2>2. ThreadOK(t)'
      BY <1>t, <1>2, <2>1, ConstantsAssumption, Zenon
      DEF SendEnqueue, ThreadOK, CallLabels, Between, Carrying, Awaiting, Caller, DropTarget
    <2> QED
      BY <1>a, <1>t, <1>2, <2>2, ControlOfOthers, Zenon DEF SendEnqueue, Caller, DropTarget
  <1>3. ASSUME NEW t \in Threads, Dequeue(t) PROVE Control'
    <2>1. ready[scan[t]] \in Seq(Actors)
      BY <1>a, Zenon DEF TypeOK
    <2>2. ready[scan[t]][Len(ready[scan[t]])] \in Actors
      BY <1>3, <2>1, PoppedEntries, Zenon DEF Dequeue
    <2>3. ThreadOK(t)
      BY <1>a DEF Control
    <2>4. ThreadOK(t)'
      BY <1>t, <1>3, <2>2, <2>3, ConstantsAssumption
      DEF Dequeue, ThreadOK, CallLabels, Between, Carrying, Awaiting
    <2> QED
      BY <1>a, <1>t, <1>3, <2>4, ControlOfOthers, Zenon DEF Dequeue
  <1>4. ASSUME NEW t \in Threads, DequeueEmpty(t) PROVE Control'
    <2>1. ThreadOK(t)
      BY <1>a DEF Control
    <2>2. ThreadOK(t)'
      BY <1>t, <1>4, <2>1, ConstantsAssumption, Zenon
      DEF DequeueEmpty, ThreadOK, CallLabels, Between, Carrying, Awaiting
    <2> QED
      BY <1>a, <1>t, <1>4, <2>2, ControlOfOthers, Zenon DEF DequeueEmpty
  <1>5. ASSUME NEW t \in Threads, StartTurn(t) PROVE Control'
    <2>1. ThreadOK(t)
      BY <1>a DEF Control
    <2>2. ThreadOK(t)'
      BY <1>t, <1>5, <2>1, ConstantsAssumption
      DEF StartTurn, ThreadOK, CallLabels, Between, Carrying, Awaiting
    <2> QED
      BY <1>a, <1>t, <1>5, <2>2, ControlOfOthers DEF StartTurn
  <1>6. ASSUME NEW t \in Threads, StayParked(t) PROVE Control'
    <2>1. ThreadOK(t)
      BY <1>a DEF Control
    <2>2. ThreadOK(t)'
      BY <1>t, <1>6, <2>1, ConstantsAssumption
      DEF StayParked, ThreadOK, CallLabels, Between, Carrying, Awaiting
    <2> QED
      BY <1>a, <1>t, <1>6, <2>2, ControlOfOthers, Zenon DEF StayParked
  <1>7. ASSUME NEW t \in Threads, ResumeTurn(t) PROVE Control'
    <2>1. t \in Workers /\ cur[t] \in Actors
      BY <1>a, <1>7, Located, Zenon DEF ResumeTurn, WorkerLabels, Between
    <2>2. ThreadOK(t)
      BY <1>a DEF Control
    <2>3. ThreadOK(t)'
      BY <1>t, <1>7, <2>1, <2>2, ConstantsAssumption
      DEF ResumeTurn, ThreadOK, CallLabels, Between, Carrying, Awaiting
    <2> QED
      BY <1>a, <1>t, <1>7, <2>3, ControlOfOthers, Zenon DEF ResumeTurn
  <1>8. ASSUME NEW t \in Threads, TakeMessage(t) PROVE Control'
    <2>1. ThreadOK(t)
      BY <1>a DEF Control
    <2>2. cur[t] \in Actors
      BY <1>a, <1>8, Located, Zenon DEF TakeMessage, WorkerLabels, Between
    <2>3. Batch(cur[t], scan[t]) \in Seq(Msgs)
      BY <1>a, <2>2 DEF TypeOK, Batch
    <2>4. Head(Batch(cur[t], scan[t])) \in Msgs
      BY <1>8, <2>3 DEF TakeMessage
    <2>5. ThreadOK(t)'
      BY <1>t, <1>8, <2>1, <2>4, ConstantsAssumption, Zenon
      DEF TakeMessage, ThreadOK, CallLabels, Between, Carrying, Awaiting
    <2> QED
      BY <1>a, <1>t, <1>8, <2>5, ControlOfOthers, Zenon DEF TakeMessage
  <1>9. ASSUME NEW t \in Threads, NextBand(t) PROVE Control'
    <2>1. ThreadOK(t)
      BY <1>a DEF Control
    <2>2. ThreadOK(t)'
      BY <1>t, <1>9, <2>1, ConstantsAssumption, Zenon
      DEF NextBand, ThreadOK, CallLabels, Between, Carrying, Awaiting
    <2> QED
      BY <1>a, <1>t, <1>9, <2>2, ControlOfOthers, Zenon DEF NextBand
  <1>10. ASSUME NEW t \in Threads, TurnOver(t) PROVE Control'
    <2>1. ThreadOK(t)
      BY <1>a DEF Control
    <2>2. ThreadOK(t)'
      BY <1>t, <1>10, <2>1, ConstantsAssumption, Zenon
      DEF TurnOver, ThreadOK, CallLabels, Between, Carrying, Awaiting
    <2> QED
      BY <1>a, <1>t, <1>10, <2>2, ControlOfOthers, Zenon DEF TurnOver
  <1>11. ASSUME NEW t \in Threads, FinishSuspended(t) PROVE Control'
    <2>1. ThreadOK(t)
      BY <1>a DEF Control
    <2>2. ThreadOK(t)'
      BY <1>t, <1>11, <2>1, ConstantsAssumption
      DEF FinishSuspended, ThreadOK, CallLabels, Between, Carrying, Awaiting
    <2> QED
      BY <1>a, <1>t, <1>11, <2>2, ControlOfOthers DEF FinishSuspended
  <1>12. ASSUME NEW t \in Threads, CountSuspended(t) PROVE Control'
    <2>1. ThreadOK(t)
      BY <1>a DEF Control
    <2>2. ThreadOK(t)'
      BY <1>t, <1>12, <2>1, ConstantsAssumption
      DEF CountSuspended, ThreadOK, CallLabels, Between, Carrying, Awaiting
    <2> QED
      BY <1>a, <1>t, <1>12, <2>2, ControlOfOthers, Zenon DEF CountSuspended
  <1>13. ASSUME NEW t \in Threads, FinishLoad(t) PROVE Control'
    <2>1. ThreadOK(t)
      BY <1>a DEF Control
    <2>2. ThreadOK(t)'
      BY <1>t, <1>13, <2>1, ConstantsAssumption, Zenon
      DEF FinishLoad, ThreadOK, CallLabels, Between, Carrying, Awaiting
    <2> QED
      BY <1>a, <1>t, <1>13, <2>2, ControlOfOthers, Zenon DEF FinishLoad
  <1>14. ASSUME NEW t \in Threads, FinishCheck(t) PROVE Control'
    <2>1. ThreadOK(t)
      BY <1>a DEF Control
    <2>2. ThreadOK(t)'
      BY <1>t, <1>14, <2>1, ConstantsAssumption, Zenon
      DEF FinishCheck, ThreadOK, CallLabels, Between, Carrying, Awaiting
    <2> QED
      BY <1>a, <1>t, <1>14, <2>2, ControlOfOthers, Zenon DEF FinishCheck
  <1>15. ASSUME NEW t \in Threads, FinishRelease(t) PROVE Control'
    <2>1. ThreadOK(t)
      BY <1>a DEF Control
    <2>2. ThreadOK(t)'
      BY <1>t, <1>15, <2>1, ConstantsAssumption
      DEF FinishRelease, ThreadOK, CallLabels, Between, Carrying, Awaiting
    <2> QED
      BY <1>a, <1>t, <1>15, <2>2, ControlOfOthers DEF FinishRelease
  <1>16. ASSUME NEW t \in Threads, FinishEnqueue(t) PROVE Control'
    <2>1. ThreadOK(t)
      BY <1>a DEF Control
    <2>2. ThreadOK(t)'
      BY <1>t, <1>16, <2>1, ConstantsAssumption
      DEF FinishEnqueue, ThreadOK, CallLabels, Between, Carrying, Awaiting
    <2> QED
      BY <1>a, <1>t, <1>16, <2>2, ControlOfOthers, Zenon DEF FinishEnqueue
  <1>17. ASSUME NEW t \in Threads, AddWaiter(t) PROVE Control'
    <2>1. ThreadOK(t)
      BY <1>a DEF Control
    <2>2. ThreadOK(t)'
      BY <1>t, <1>17, <2>1, ConstantsAssumption, Zenon
      DEF AddWaiter, ThreadOK, CallLabels, Between, Carrying, Awaiting
    <2> QED
      BY <1>a, <1>t, <1>17, <2>2, ControlOfOthers, Zenon DEF AddWaiter
  <1>18. ASSUME NEW t \in Threads, AwaitYields(t) PROVE Control'
    <2>1. ThreadOK(t)
      BY <1>a DEF Control
    <2>2. ThreadOK(t)'
      BY <1>t, <1>18, <2>1, ConstantsAssumption
      DEF AwaitYields, ThreadOK, CallLabels, Between, Carrying, Awaiting
    <2> QED
      BY <1>a, <1>t, <1>18, <2>2, ControlOfOthers, Zenon DEF AwaitYields
  <1>19. ASSUME NEW t \in Threads, AwaitAnswers(t) PROVE Control'
    <2>1. ThreadOK(t)
      BY <1>a DEF Control
    <2>2. ThreadOK(t)'
      BY <1>t, <1>19, <2>1, ConstantsAssumption, Zenon
      DEF AwaitAnswers, ThreadOK, CallLabels, Between, Carrying, Awaiting
    <2> QED
      BY <1>a, <1>t, <1>19, <2>2, ControlOfOthers DEF AwaitAnswers
  <1>20. ASSUME NEW t \in Threads, HandlerEnds(t) PROVE Control'
    <2>1. ThreadOK(t)
      BY <1>a DEF Control
    <2>m. t \in Workers /\ Reply(msg[t]) \in Futures \cup {NoFuture}
      BY <1>a, <1>t, <1>20, Located, ReplyType, Zenon DEF HandlerEnds, WorkerLabels
    <2>2. ThreadOK(t)'
      BY <1>t, <1>20, <2>1, <2>m, ConstantsAssumption
      DEF HandlerEnds, ThreadOK, CallLabels, Between, Carrying, Awaiting
    <2> QED
      BY <1>a, <1>t, <1>20, <2>2, ControlOfOthers DEF HandlerEnds
  <1>21. ASSUME NEW t \in Threads, Settle(t) PROVE Control'
    <2>1. ThreadOK(t)
      BY <1>a DEF Control
    <2>2. ThreadOK(t)'
      BY <1>t, <1>21, <2>1, ConstantsAssumption
      DEF Settle, ThreadOK, CallLabels, Between, Carrying, Awaiting, AfterComplete, DropFuture
    <2> QED
      BY <1>a, <1>t, <1>21, <2>2, ControlOfOthers DEF Settle, AfterComplete, DropFuture
  <1>22. ASSUME NEW t \in Threads, ReadWaiters(t) PROVE Control'
    <2>1. ThreadOK(t)
      BY <1>a DEF Control
    <2>2. ThreadOK(t)'
      BY <1>t, <1>22, <2>1, ConstantsAssumption, Zenon
      DEF ReadWaiters, ThreadOK, CallLabels, Between, Carrying, Awaiting
    <2> QED
      BY <1>a, <1>t, <1>22, <2>2, ControlOfOthers DEF ReadWaiters
  <1>23. ASSUME NEW t \in Threads, Resume(t) PROVE Control'
    <2>1. Head(walk[t]) \in Actors
      <3>1. walk[t] \in Seq(Actors)
        BY <1>a, Zenon DEF TypeOK
      <3> QED
        BY <1>23, <3>1 DEF Resume
    <2>2. ThreadOK(t) /\ pc[t] = "resume"
      BY <1>a, <1>23, Zenon DEF Control, Resume
    <2>3. /\ cur'[t] = cur[t] /\ msg'[t] = msg[t] /\ fut'[t] = fut[t]
          /\ \/ pc'[t] = "resume"
             \/ pc'[t] \in {"resume_parked", "resume_idle"} /\ tgt'[t] \in Actors
      BY <1>t, <1>23, <2>1 DEF Resume
    <2>4. ThreadOK(t)'
      BY <2>2, <2>3, ConstantsAssumption, Zenon
      DEF ThreadOK, CallLabels, Between, Carrying, Awaiting, Threads
    <2> QED
      BY <1>a, <1>t, <1>23, <2>4, ControlOfOthers, Zenon DEF Resume
  <1>24. ASSUME NEW t \in Threads, ResumeParked(t) PROVE Control'
    <2>1. ThreadOK(t)
      BY <1>a DEF Control
    <2>2. ThreadOK(t)'
      BY <1>t, <1>24, <2>1, ConstantsAssumption
      DEF ResumeParked, ThreadOK, CallLabels, Between, Carrying, Awaiting, DropTarget
    <2> QED
      BY <1>a, <1>t, <1>24, <2>2, ControlOfOthers, Zenon DEF ResumeParked, DropTarget
  <1>25. ASSUME NEW t \in Threads, ResumeIdle(t) PROVE Control'
    <2>1. ThreadOK(t)
      BY <1>a DEF Control
    <2>2. ThreadOK(t)'
      BY <1>t, <1>25, <2>1, ConstantsAssumption, Zenon
      DEF ResumeIdle, ThreadOK, CallLabels, Between, Carrying, Awaiting, DropTarget
    <2> QED
      BY <1>a, <1>t, <1>25, <2>2, ControlOfOthers DEF ResumeIdle, DropTarget
  <1>26. ASSUME NEW t \in Threads, CompleteDone(t) PROVE Control'
    <2>1. ThreadOK(t)
      BY <1>a DEF Control
    <2>2. ThreadOK(t)'
      BY <1>t, <1>26, <2>1, ConstantsAssumption, Zenon
      DEF CompleteDone, ThreadOK, CallLabels, Between, Carrying, Awaiting, AfterComplete, DropFuture
    <2> QED
      BY <1>a, <1>t, <1>26, <2>2, ControlOfOthers DEF CompleteDone, AfterComplete, DropFuture
  <1>27. ASSUME NEW t \in Threads, NEW m \in Msgs, NEW a \in Actors, NEW b \in SendBands,
               Send(t, m, a, b)
        PROVE  Control'
    <2>1. ThreadOK(t)
      BY <1>a DEF Control
    <2>2. ThreadOK(t)'
      BY <1>t, <1>27, <2>1, ConstantsAssumption, Zenon
      DEF Send, ThreadOK, CallLabels, Between, Carrying, Awaiting
    <2> QED
      BY <1>a, <1>t, <1>27, <2>2, ControlOfOthers, Zenon DEF Send
  <1>28. ASSUME NEW t \in Threads, NEW f \in Futures, Await(t, f) PROVE Control'
    <2>1. ThreadOK(t)
      BY <1>a, Zenon DEF Control
    <2>2. ThreadOK(t)'
      BY <1>t, <1>28, <2>1, ConstantsAssumption, Zenon
      DEF Await, ThreadOK, CallLabels, Between, Carrying, Awaiting
    <2> QED
      BY <1>a, <1>t, <1>28, <2>2, ControlOfOthers, Zenon DEF Await
  <1>29. ASSUME NEW t \in Threads, NEW f \in ClientFutures, ClientCompletes(t, f) PROVE Control'
    <2>1. ThreadOK(t)
      BY <1>a DEF Control
    <2>2. ThreadOK(t)'
      BY <1>t, <1>29, <2>1, ConstantsAssumption
      DEF ClientCompletes, ThreadOK, CallLabels, Between, Carrying, Awaiting, ClientFutures
    <2> QED
      BY <1>a, <1>t, <1>29, <2>2, ControlOfOthers, Zenon DEF ClientCompletes
  <1>30. ASSUME NEW t \in Threads, AwaitRefused(t) PROVE Control'
    <2>1. ThreadOK(t)
      BY <1>a DEF Control
    <2>2. ThreadOK(t)'
      BY <1>t, <1>30, <2>1, ConstantsAssumption, Zenon
      DEF AwaitRefused, ThreadOK, CallLabels, Between, Carrying, Awaiting
    <2> QED
      BY <1>a, <1>t, <1>30, <2>2, ControlOfOthers, Zenon DEF AwaitRefused
  <1> QED
    BY <1>1, <1>2, <1>3, <1>4, <1>5, <1>6, <1>7, <1>8, <1>9, <1>10, <1>11, <1>12, <1>13, <1>14,
       <1>15, <1>16, <1>17, <1>18, <1>19, <1>20, <1>21, <1>22, <1>23, <1>24, <1>25, <1>26,
       <1>27, <1>28, <1>29, <1>30
    DEF Next, Step

-----------------------------------------------------------------------------
(* The theorems.                                                           *)

\* The scheduler starts in the inductive invariant: every actor is idle and no
\* thread holds one.
LEMMA InitInvariant == Init => IInv
  <1> SUFFICES ASSUME Init PROVE IInv
    BY Zenon
  <1>1. TypeOK
    BY ConstantsAssumption
    DEF Init, TypeOK, Threads, Bands, kBands, Medium, Labels, WorkerLabels, Idle
  <1>2. Control
    BY ConstantsAssumption, Zenon
    DEF Init, Control, ThreadOK, Threads, Between, Carrying, Awaiting, CallLabels
  <1>3. Claims
    <2>1. \A b \in Bands : DOMAIN ready[b] = {}
      BY DEF Init
    <2>2. \A t \in Threads : pc[t] \notin Carrying /\ cur[t] = NoActor
      BY Zenon DEF Init, Carrying
    <2>3. \A a \in Actors : sched[a] \notin {Claimed, ClaimedWake}
      BY DEF Init, Idle, Claimed, ClaimedWake
    <2>4. OneHolder
      BY <2>1, <2>2, Zenon DEF OneHolder, SingleMethod
    <2>5. HoldersClaim
      BY <2>1, <2>2, Zenon DEF HoldersClaim
    <2>6. ClaimsHeld
      BY <2>3, Zenon DEF ClaimsHeld
    <2> QED
      BY <2>4, <2>5, <2>6, Zenon DEF Claims
  <1> QED
    BY <1>1, <1>2, <1>3, Zenon DEF IInv

\* Every step of the scheduler preserves the inductive invariant.
LEMMA StepInvariant == IInv /\ [Next]_vars => IInv'
  <1>1. ASSUME IInv, Next PROVE IInv'
    BY <1>1, TypeStep, ControlStep, ClaimsStep, Zenon DEF IInv
  <1>2. ASSUME IInv, UNCHANGED vars PROVE IInv'
    <2>1. TypeOK'
      BY <1>2, Zenon DEF IInv, TypeOK, vars, actorVars, futureVars, turnVars, callVars
    <2>2. Control'
      BY <1>2, Zenon
      DEF IInv, Control, ThreadOK, vars, actorVars, futureVars, turnVars, callVars
    <2>3. UNCHANGED <<ready, sched, pc, cur, tgt>>
      BY <1>2, Zenon DEF vars, actorVars, futureVars, turnVars, callVars
    <2>4. \A t \in Threads : pc[t] \in Carrying => tgt[t] \in Actors
      BY <1>2, Located, Zenon DEF IInv
    <2>5. Claims'
      BY <1>2, <2>3, <2>4, ClaimsStay, Zenon DEF IInv, IsClaimed
    <2> QED
      BY <2>1, <2>2, <2>5, Zenon DEF IInv
  <1> QED
    BY <1>1, <1>2, Zenon

\* Every reachable state of the scheduler satisfies the inductive invariant: types,
\* locals in step with the code a thread is in, and every claim in one place.
THEOREM Invariant == Spec => []IInv
  BY InitInvariant, StepInvariant, PTL DEF Spec

\* The fields of the scheduler, of its actors and of its threads keep their
\* types, for any number of each.
THEOREM TypeCorrect == Spec => []TypeOK
  <1>1. IInv => TypeOK
    BY Zenon DEF IInv
  <1> QED
    BY <1>1, Invariant, PTL

\* The single-method invariant (DESIGN 8.2): no two workers are ever inside
\* turns of one actor, however many senders, workers and completers race.
THEOREM SingleMethodHolds == Spec => []SingleMethod
  <1>1. IInv => SingleMethod
    BY Zenon DEF IInv, Claims, OneHolder
  <1> QED
    BY <1>1, Invariant, PTL

\* No claim is duplicated or leaked: a claimed actor is on one ready stack
\* once, or in the hands of one thread; an idle or parked one in none.
THEOREM ClaimHeldOnceHolds == Spec => []ClaimHeldOnce
  <1>1. ASSUME IInv PROVE ClaimHeldOnce
    <2> SUFFICES ASSUME NEW a \in Actors
                 PROVE  IF sched[a] \in {Claimed, ClaimedWake}
                        THEN \E h \in Holders(a) : Holders(a) = {h}
                        ELSE Holders(a) = {}
      BY Zenon DEF ClaimHeldOnce
    <2> DEFINE R(b, i) == b \in Bands /\ i \in DOMAIN ready[b] /\ ready[b][i] = a
               C(t) == t \in Threads /\ pc[t] \in Carrying /\ tgt[t] = a
               T(t) == t \in Threads /\ cur[t] = a
    <2>1. \A h : h \in Holders(a) <=>
             \/ \E b \in Bands : \E i \in DOMAIN ready[b] : R(b, i) /\ h = <<"ready", b, i>>
             \/ \E t \in Threads : C(t) /\ h = <<"carried", t>>
             \/ \E t \in Threads : T(t) /\ h = <<"turn", t>>
      <3> DEFINE E(b) == {<<"ready", b, i>> : i \in {j \in DOMAIN ready[b] : ready[b][j] = a}}
                 RS == UNION {E(b) : b \in Bands}
                 CS == {<<"carried", t>> : t \in {u \in Threads : pc[u] \in Carrying /\ tgt[u] = a}}
                 TS == {<<"turn", t>> : t \in {u \in Threads : cur[u] = a}}
      <3>1. Holders(a) = RS \cup CS \cup TS
        BY Zenon DEF Holders
      <3>2. \A b \in Bands : \A h :
               h \in E(b) <=> \E i \in DOMAIN ready[b] : R(b, i) /\ h = <<"ready", b, i>>
        BY Zenon
      <3>3. \A h : h \in CS <=> \E t \in Threads : C(t) /\ h = <<"carried", t>>
        BY Zenon
      <3>4. \A h : h \in TS <=> \E t \in Threads : T(t) /\ h = <<"turn", t>>
        BY Zenon
      <3> HIDE DEF E
      <3>5. \A h : h \in RS <=> \E b \in Bands : h \in E(b)
        BY Zenon
      <3> HIDE DEF R, C, T, RS, CS, TS
      <3> QED
        BY <3>1, <3>2, <3>3, <3>4, <3>5
    <2>2. a # NoActor
      BY ConstantsAssumption, Zenon
    <2>3. CASE sched[a] \notin {Claimed, ClaimedWake}
      <3>1. \A b \in Bands : \A i \in DOMAIN ready[b] : ~R(b, i)
        BY <1>1, <2>3, Zenon DEF IInv, Claims, HoldersClaim
      <3>2. \A t \in Threads : ~C(t) /\ ~T(t)
        BY <1>1, <2>2, <2>3, Zenon DEF IInv, Claims, HoldersClaim
      <3> QED
        BY <2>1, <2>3, <3>1, <3>2, Zenon
    <2>4. CASE sched[a] \in {Claimed, ClaimedWake}
      <3>1. \/ \E b \in Bands : \E i \in DOMAIN ready[b] : R(b, i)
            \/ \E t \in Threads : C(t)
            \/ \E t \in Threads : T(t)
        BY <1>1, <2>4, Zenon DEF IInv, Claims, ClaimsHeld
      <3>2. /\ \A b, c \in Bands : \A i \in DOMAIN ready[b], j \in DOMAIN ready[c] :
                  R(b, i) /\ R(c, j) => b = c /\ i = j
            /\ \A t, u \in Threads : C(t) /\ C(u) => t = u
            /\ \A t, u \in Threads : T(t) /\ T(u) => t = u
            /\ \A b \in Bands, t \in Threads : \A i \in DOMAIN ready[b] :
                  R(b, i) => ~C(t) /\ ~T(t)
            /\ \A t, u \in Threads : C(t) => ~T(u)
        <4>1. OneHolder
          BY <1>1, Zenon DEF IInv, Claims
        <4>2. \A b, c \in Bands : \A i \in DOMAIN ready[b], j \in DOMAIN ready[c] :
                 R(b, i) /\ R(c, j) => b = c /\ i = j
          BY <4>1 DEF OneHolder
        <4>3. \A t, u \in Threads : C(t) /\ C(u) => t = u
          BY <4>1, Zenon DEF OneHolder
        <4>4. \A t, u \in Threads : T(t) /\ T(u) => t = u
          BY <2>2, <4>1, Zenon DEF OneHolder, SingleMethod
        <4>5. \A b \in Bands, t \in Threads : \A i \in DOMAIN ready[b] :
                 R(b, i) => ~C(t) /\ ~T(t)
          BY <4>1 DEF OneHolder
        <4>6. \A t, u \in Threads : C(t) => ~T(u)
          BY <4>1, Zenon DEF OneHolder
        <4> QED
          BY <4>2, <4>3, <4>4, <4>5, <4>6, Zenon
      <3> HIDE DEF R, C, T
      <3>3. \E h \in Holders(a) : \A g \in Holders(a) : g = h
        <4>1. CASE \E b \in Bands : \E i \in DOMAIN ready[b] : R(b, i)
          <5>1. PICK b \in Bands : \E i \in DOMAIN ready[b] : R(b, i)
            BY <4>1, Zenon
          <5>2. PICK i \in DOMAIN ready[b] : R(b, i)
            BY <5>1, Zenon
          <5>3. \A g \in Holders(a) : g = <<"ready", b, i>>
            BY <2>1, <3>2, <5>2
          <5> QED
            BY <2>1, <5>2, <5>3, Zenon
        <4>2. CASE \E t \in Threads : C(t)
          <5>1. PICK t \in Threads : C(t)
            BY <4>2, Zenon
          <5>2. \A g \in Holders(a) : g = <<"carried", t>>
            BY <2>1, <3>2, <5>1, Zenon
          <5> QED
            BY <2>1, <5>1, <5>2, Zenon
        <4>3. CASE \E t \in Threads : T(t)
          <5>1. PICK t \in Threads : T(t)
            BY <4>3
          <5>2. \A g \in Holders(a) : g = <<"turn", t>>
            BY <2>1, <3>2, <5>1, Zenon
          <5> QED
            BY <2>1, <5>1, <5>2, Zenon
        <4> QED
          BY <3>1, <4>1, <4>2, <4>3, Zenon
      <3> QED
        BY <2>4, <3>3, Zenon
    <2> QED
      BY <2>3, <2>4, Zenon
  <1> QED
    BY <1>1, Invariant, PTL
=============================================================================
