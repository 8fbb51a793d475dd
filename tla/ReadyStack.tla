----------------------------- MODULE ReadyStack -----------------------------
(***************************************************************************)
(* The lock-free LIFO stack of ready actors (src/runtime/ReadyStack.h): a  *)
(* Treiber stack whose nodes come from a pool that is never freed and      *)
(* whose two heads, the stack's and the free list's, carry a generation    *)
(* that every successful compare-and-swap increments.                      *)
(*                                                                         *)
(* One action per access to shared memory.  linkFront and unlinkFront work *)
(* on either head, as in the code.  size_, a diagnostic no one             *)
(* synchronises with, is updated with the last compare-and-swap.           *)
(***************************************************************************)
EXTENDS Integers, Sequences, FiniteSets

CONSTANTS
    Threads,
    Values,       \* the actors pushed
    MaxPushes,    \* bound: pushes a behaviour contains
    FirstChunk,   \* 2^kFirstChunkBits: nodes of the first chunk
    NoValue

ASSUME ConstantsAssumption ==
    /\ NoValue \notin Values
    /\ MaxPushes \in Nat
    /\ FirstChunk \in Nat \ {0}
    /\ IsFiniteSet(Threads)

\* The free list is consulted before a fresh index is taken, so a behaviour
\* with MaxPushes pushes uses no more nodes.
Nodes == 0..(MaxPushes - 1)
kNil == MaxPushes
Heads == {"stack", "free"}

VARIABLES
    head,       \* head_ and free_: [gen, idx]
    next,       \* Node::next
    value,      \* Node::value
    nextFresh,  \* nextFresh_
    chunks,     \* the chunks installed
    size,       \* size_
    pushes,     \* pushes begun, for the bound
    pc,         \* where each thread is
    hd,         \* the head linkFront or unlinkFront works on
    old,        \* their local `old`
    succ,       \* unlinkFront's local `next`
    idx,        \* the node the thread owns, or kNil
    arg         \* the value being pushed

shared == <<head, next, value, nextFresh, chunks, size>>
locals == <<hd, old, succ, idx, arg>>
vars == <<shared, pushes, pc, locals>>

Nowhere == [gen |-> 0, idx |-> kNil]

Init ==
    /\ head = [h \in Heads |-> Nowhere]
    /\ next = [n \in Nodes |-> kNil]
    /\ value = [n \in Nodes |-> NoValue]
    /\ nextFresh = 0
    /\ chunks = {}
    /\ size = 0
    /\ pushes = 0
    /\ pc = [t \in Threads |-> "idle"]
    /\ hd = [t \in Threads |-> "stack"]
    /\ old = [t \in Threads |-> Nowhere]
    /\ succ = [t \in Threads |-> kNil]
    /\ idx = [t \in Threads |-> kNil]
    /\ arg = [t \in Threads |-> NoValue]

-----------------------------------------------------------------------------
Goto(t, l) == pc' = [pc EXCEPT ![t] = l]

\* Chunk k holds FirstChunk * 2^k nodes, so it starts at FirstChunk * (2^k - 1).
ChunkOf(n) == CHOOSE k \in 0..MaxPushes :
                 FirstChunk * (2^k - 1) <= n /\ n < FirstChunk * (2^(k + 1) - 1)

\* The call returns; its locals go out of scope.
Return(t) ==
    /\ Goto(t, "idle")
    /\ hd' = [hd EXCEPT ![t] = "stack"]
    /\ old' = [old EXCEPT ![t] = Nowhere]
    /\ succ' = [succ EXCEPT ![t] = kNil]
    /\ idx' = [idx EXCEPT ![t] = kNil]
    /\ arg' = [arg EXCEPT ![t] = NoValue]

-----------------------------------------------------------------------------
\* push: acquireNode tries the free list first.
Push(t, v) ==
    /\ pc[t] = "idle"
    /\ pushes < MaxPushes
    /\ pushes' = pushes + 1
    /\ arg' = [arg EXCEPT ![t] = v]
    /\ hd' = [hd EXCEPT ![t] = "free"]
    /\ Goto(t, "unlink_load")
    /\ UNCHANGED <<shared, old, succ, idx>>

Pop(t) ==
    /\ pc[t] = "idle"
    /\ hd' = [hd EXCEPT ![t] = "stack"]
    /\ Goto(t, "unlink_load")
    /\ UNCHANGED <<shared, pushes, old, succ, idx, arg>>

\* unlinkFront found the list empty: pop answers V{}, acquireNode takes a
\* fresh index.
UnlinkEmpty(t, w) ==
    /\ w.idx = kNil
    /\ \/ /\ hd[t] = "stack"
          /\ Return(t)
       \/ /\ hd[t] = "free"
          /\ Goto(t, "fresh")
          /\ UNCHANGED locals

UnlinkGo(t, w) ==
    /\ w.idx # kNil
    /\ old' = [old EXCEPT ![t] = w]
    /\ Goto(t, "unlink_next")
    /\ UNCHANGED <<hd, succ, idx, arg>>

UnlinkLoad(t) ==
    /\ pc[t] = "unlink_load"
    /\ UnlinkEmpty(t, head[hd[t]]) \/ UnlinkGo(t, head[hd[t]])
    /\ UNCHANGED <<shared, pushes>>

\* The link may be stale, or rewritten by the node's new owner.
UnlinkNext(t) ==
    /\ pc[t] = "unlink_next"
    /\ succ' = [succ EXCEPT ![t] = next[old[t].idx]]
    /\ Goto(t, "unlink_cas")
    /\ UNCHANGED <<shared, pushes, hd, old, idx, arg>>

\* Mutant: a pop installs the generation it read.
BumpedNot(w, n) == [gen |-> w.gen, idx |-> n]

\* pack(generationOf(old) + 1, n)
Bumped(w, n) == [gen |-> w.gen + 1, idx |-> n]

\* The node is now this thread's: a pop gives it to the free list, a push
\* links it to the stack.
UnlinkCas(t) ==
    /\ pc[t] = "unlink_cas"
    /\ head[hd[t]] = old[t]
    /\ head' = [head EXCEPT ![hd[t]] = Bumped(old[t], succ[t])]
    /\ idx' = [idx EXCEPT ![t] = old[t].idx]
    /\ hd' = [hd EXCEPT ![t] = IF @ = "stack" THEN "free" ELSE "stack"]
    /\ succ' = [succ EXCEPT ![t] = kNil]
    /\ old' = [old EXCEPT ![t] = Nowhere]
    /\ Goto(t, "link_load")
    /\ UNCHANGED <<next, value, nextFresh, chunks, size, pushes, arg>>

\* A lost compare-and-swap reloads `old` and goes round again.
UnlinkRetry(t) ==
    /\ pc[t] = "unlink_cas"
    /\ head[hd[t]] # old[t]
    /\ UnlinkEmpty(t, head[hd[t]]) \/ UnlinkGo(t, head[hd[t]])
    /\ UNCHANGED <<shared, pushes>>

-----------------------------------------------------------------------------
TakeFresh(t) ==
    /\ pc[t] = "fresh"
    /\ idx' = [idx EXCEPT ![t] = nextFresh]
    /\ nextFresh' = nextFresh + 1
    /\ Goto(t, "chunk")
    /\ UNCHANGED <<head, next, value, chunks, size, pushes, hd, old, succ, arg>>

\* Mutant: only the owner of a chunk's first index installs it.
InstallChunkFirst(t) ==
    /\ pc[t] = "chunk"
    /\ chunks' = IF idx[t] = FirstChunk * (2^ChunkOf(idx[t]) - 1)
                 THEN chunks \cup {ChunkOf(idx[t])} ELSE chunks
    /\ hd' = [hd EXCEPT ![t] = "stack"]
    /\ Goto(t, "link_load")
    /\ UNCHANGED <<head, next, value, nextFresh, size, pushes, old, succ, idx, arg>>

\* Whoever needs the chunk installs it; a second installer deletes its own.
InstallChunk(t) ==
    /\ pc[t] = "chunk"
    /\ chunks' = chunks \cup {ChunkOf(idx[t])}
    /\ hd' = [hd EXCEPT ![t] = "stack"]
    /\ Goto(t, "link_load")
    /\ UNCHANGED <<head, next, value, nextFresh, size, pushes, old, succ, idx, arg>>

-----------------------------------------------------------------------------
\* linkFront's first load; push has written the node's value before it.
LinkLoad(t) ==
    /\ pc[t] = "link_load"
    /\ value' = IF hd[t] = "stack" THEN [value EXCEPT ![idx[t]] = arg[t]] ELSE value
    /\ old' = [old EXCEPT ![t] = head[hd[t]]]
    /\ Goto(t, "link_store")
    /\ UNCHANGED <<head, next, nextFresh, chunks, size, pushes, hd, succ, idx, arg>>

LinkStore(t) ==
    /\ pc[t] = "link_store"
    /\ next' = [next EXCEPT ![idx[t]] = old[t].idx]
    /\ Goto(t, "link_cas")
    /\ UNCHANGED <<head, value, nextFresh, chunks, size, pushes, locals>>

\* Mutant: a lost compare-and-swap is retried without storing the link again.
LinkRetryStale(t) ==
    /\ pc[t] = "link_cas"
    /\ head[hd[t]] # old[t]
    /\ old' = [old EXCEPT ![t] = head[hd[t]]]
    /\ UNCHANGED <<shared, pushes, pc, hd, succ, idx, arg>>

LinkRetry(t) ==
    /\ pc[t] = "link_cas"
    /\ head[hd[t]] # old[t]
    /\ old' = [old EXCEPT ![t] = head[hd[t]]]
    /\ Goto(t, "link_store")
    /\ UNCHANGED <<shared, pushes, hd, succ, idx, arg>>

\* The last step of push (the node is published) and of pop (it is free).
LinkCas(t) ==
    /\ pc[t] = "link_cas"
    /\ head[hd[t]] = old[t]
    /\ head' = [head EXCEPT ![hd[t]] = Bumped(old[t], idx[t])]
    /\ size' = IF hd[t] = "stack" THEN size + 1 ELSE size - 1
    /\ Return(t)
    /\ UNCHANGED <<next, value, nextFresh, chunks, pushes>>

-----------------------------------------------------------------------------
Step(t) ==
    \/ UnlinkLoad(t) \/ UnlinkNext(t) \/ UnlinkCas(t) \/ UnlinkRetry(t)
    \/ TakeFresh(t) \/ InstallChunk(t)
    \/ LinkLoad(t) \/ LinkStore(t) \/ LinkRetry(t) \/ LinkCas(t)

Next ==
    \E t \in Threads :
        \/ Step(t)
        \/ Pop(t)
        \/ \E v \in Values : Push(t, v)

Spec == Init /\ [][Next]_vars

-----------------------------------------------------------------------------
\* path[k]: the node k links below head h, kNil below the last one.
Path(h) ==
    LET path[k \in 0..Cardinality(Nodes)] ==
          IF k = 0 THEN head[h].idx
          ELSE IF path[k - 1] = kNil THEN kNil
          ELSE next[path[k - 1]]
    IN path

Depth(h) == Cardinality({k \in DOMAIN Path(h) : Path(h)[k] # kNil})

\* The nodes of a list, and of the stack the values, the top last.
Listed(h) == {Path(h)[k] : k \in DOMAIN Path(h)} \ {kNil}
StackValues == [i \in 1..Depth("stack") |-> value[Path("stack")[Depth("stack") - i]]]

\* The fields and locals keep their types, and indices stay in the pool.
TypeOK ==
    /\ head \in [Heads -> [gen : Nat, idx : Nodes \cup {kNil}]]
    /\ next \in [Nodes -> Nodes \cup {kNil}]
    /\ value \in [Nodes -> Values \cup {NoValue}]
    /\ nextFresh \in 0..MaxPushes
    /\ chunks \subseteq {ChunkOf(n) : n \in Nodes}
    /\ size \in Int
    /\ pushes \in 0..MaxPushes
    /\ pc \in [Threads -> {"idle", "unlink_load", "unlink_next", "unlink_cas", "fresh",
                           "chunk", "link_load", "link_store", "link_cas"}]
    /\ hd \in [Threads -> Heads]
    /\ old \in [Threads -> [gen : Nat, idx : Nodes \cup {kNil}]]
    /\ succ \in [Threads -> Nodes \cup {kNil}]
    /\ idx \in [Threads -> Nodes \cup {kNil}]
    /\ arg \in [Threads -> Values \cup {NoValue}]

\* No node is lost, shared or linked twice: every index handed out so far is
\* in exactly one of the stack, the free list and the hands of one thread,
\* and indices stay in the pool.
NodesOwnedOnce ==
    /\ TypeOK
    /\ Listed("stack") \cap Listed("free") = {}
    /\ \A t \in Threads : idx[t] # kNil =>
          /\ idx[t] \notin Listed("stack") \cup Listed("free")
          /\ \A u \in Threads \ {t} : idx[u] # idx[t]
    /\ \A n \in Nodes : n < nextFresh =>
          n \in Listed("stack") \cup Listed("free") \cup {idx[t] : t \in Threads}

\* "Every index a thread can observe was published after its chunk was
\* installed": no thread follows an index into a missing chunk.
ChunksPresent ==
    \A t \in Threads :
        /\ pc[t] = "unlink_next" => ChunkOf(old[t].idx) \in chunks
        /\ pc[t] \in {"link_load", "link_store", "link_cas"} => ChunkOf(idx[t]) \in chunks

Lifo ==
    INSTANCE LifoStack WITH
        stack <- StackValues,
        holding <- [t \in Threads |->
                      IF hd[t] = "free" /\ idx[t] # kNil THEN value[idx[t]] ELSE NoValue]

\* push takes effect at the compare-and-swap of the head, pop at its own, and
\* together they are a last-in-first-out stack: the ABA the generations guard
\* against would show as a step no push or pop of the stack can take.
ImplementsLifo == Lifo!Spec

=============================================================================
