---------------------------- MODULE ModuleTable -----------------------------
(***************************************************************************)
(* Loading Scala modules (src/repl/ModuleTable.cpp and                     *)
(* Session::loadModuleFile in src/repl/Session.cpp): several threads       *)
(* import modules that import others.  A thread's nested loads are a stack *)
(* of frames, innermost first; every operation of the table is one action, *)
(* as it holds mu_ throughout.  What a module defines is left out.         *)
(***************************************************************************)
EXTENDS Integers, Sequences, FiniteSets

CONSTANTS
    Threads,
    Modules,
    Imports,     \* Imports[m]: the modules m imports, in order
    MaxImports,  \* bound on the imports a thread asks for
    NoThread

ASSUME ConstantsAssumption ==
    /\ IsFiniteSet(Modules)
    /\ NoThread \notin Threads
    /\ Imports \in [Modules -> Seq(Modules)]
    /\ MaxImports \in Nat

VARIABLES
    loaded,     \* loaded_: the published modules
    loading,    \* loading_: loading[m] is the thread that claimed m
    stack,      \* each thread's loads
    asked,      \* imports each thread has asked for
    published   \* published[m]: times m was published

vars == <<loaded, loading, stack, asked, published>>

Init ==
    /\ loaded = {}
    /\ loading = [m \in Modules |-> NoThread]
    /\ stack = [t \in Threads |-> <<>>]
    /\ asked = [t \in Threads |-> 0]
    /\ published = [m \in Modules |-> 0]

-----------------------------------------------------------------------------
At(t, l) == stack[t] # <<>> /\ stack[t][1].at = l
Top(t) == stack[t][1]
Load(m) == [m |-> m, at |-> "find", todo |-> <<>>]

Return(t) == stack' = [stack EXCEPT ![t] = Tail(@)]
Become(t, fr) == stack' = [stack EXCEPT ![t] = <<fr>> \o Tail(@)]

\* An exception ends the innermost load; the load that imported it, if any,
\* sees it next.
Throw(t) ==
    stack' = [stack EXCEPT ![t] =
                IF Len(@) = 1 THEN <<>>
                ELSE <<[@[2] EXCEPT !.at = "unwind"]>> \o Tail(Tail(@))]

-----------------------------------------------------------------------------
Import(t, m) ==
    /\ stack[t] = <<>>
    /\ asked[t] < MaxImports
    /\ asked' = [asked EXCEPT ![t] = @ + 1]
    /\ stack' = [stack EXCEPT ![t] = <<Load(m)>>]
    /\ UNCHANGED <<loaded, loading, published>>

Find(t) ==
    /\ At(t, "find")
    /\ IF Top(t).m \in loaded THEN Return(t) ELSE Become(t, [Top(t) EXCEPT !.at = "claim"])
    /\ UNCHANGED <<loaded, loading, asked, published>>

\* Mutant: the load waits for its own thread.
ClaimWaits(t) ==
    /\ At(t, "claim")
    /\ LET m == Top(t).m IN
       \/ /\ loading[m] = NoThread
          /\ loading' = [loading EXCEPT ![m] = t]
          /\ Become(t, [m |-> m, at |-> "compile", todo |-> Imports[m]])
       \/ /\ loading[m] # NoThread
          /\ UNCHANGED loading
          /\ Become(t, [Top(t) EXCEPT !.at = "await"])
    /\ UNCHANGED <<loaded, asked, published>>

\* claim: free, or a cycle within this thread, or another thread's.
Claim(t) ==
    /\ At(t, "claim")
    /\ LET m == Top(t).m IN
       \/ /\ loading[m] = NoThread
          /\ loading' = [loading EXCEPT ![m] = t]
          /\ Become(t, [m |-> m, at |-> "compile", todo |-> Imports[m]])
       \/ /\ loading[m] = t
          /\ UNCHANGED loading
          /\ Throw(t)
       \/ /\ loading[m] \notin {NoThread, t}
          /\ UNCHANGED loading
          /\ Become(t, [Top(t) EXCEPT !.at = "await"])
    /\ UNCHANGED <<loaded, asked, published>>

\* awaitLoaded: the module is there, or its load was abandoned.
AwaitLoaded(t) ==
    /\ At(t, "await")
    /\ loading[Top(t).m] = NoThread
    /\ IF Top(t).m \in loaded THEN Return(t) ELSE Throw(t)
    /\ UNCHANGED <<loaded, loading, asked, published>>

\* Compiling m loads the next module it imports.
CompileImport(t) ==
    /\ At(t, "compile")
    /\ LET fr == Top(t) IN
       /\ fr.todo # <<>>
       /\ stack' = [stack EXCEPT ![t] =
                      <<Load(Head(fr.todo)), [fr EXCEPT !.todo = Tail(@)]>> \o Tail(@)]
    /\ UNCHANGED <<loaded, loading, asked, published>>

\* The file cannot be read or compiled, or its top level throws.
Fail(t) ==
    /\ At(t, "compile")
    /\ Become(t, [Top(t) EXCEPT !.at = "unwind"])
    /\ UNCHANGED <<loaded, loading, asked, published>>

\* Mutant: m is published before what it imports is loaded.
PublishEarly(t) ==
    /\ At(t, "compile")
    /\ LET m == Top(t).m IN
       /\ loaded' = loaded \cup {m}
       /\ loading' = [loading EXCEPT ![m] = NoThread]
       /\ published' = [published EXCEPT ![m] = @ + 1]
    /\ Return(t)
    /\ UNCHANGED asked

\* The module is compiled and its top level run: publish.
Publish(t) ==
    /\ At(t, "compile")
    /\ Top(t).todo = <<>>
    /\ LET m == Top(t).m IN
       /\ loaded' = loaded \cup {m}
       /\ loading' = [loading EXCEPT ![m] = NoThread]
       /\ published' = [published EXCEPT ![m] = @ + 1]
    /\ Return(t)
    /\ UNCHANGED asked

\* Mutant: a failed load keeps its claim.
AbandonNot(t) ==
    /\ At(t, "unwind")
    /\ Throw(t)
    /\ UNCHANGED <<loaded, loading, asked, published>>

\* Guard's destructor: abandon, and the exception goes on.
Abandon(t) ==
    /\ At(t, "unwind")
    /\ loading' = [loading EXCEPT ![Top(t).m] = NoThread]
    /\ Throw(t)
    /\ UNCHANGED <<loaded, asked, published>>

Step(t) ==
    \/ Find(t) \/ Claim(t) \/ AwaitLoaded(t) \/ CompileImport(t) \/ Publish(t)
    \/ Fail(t) \/ Abandon(t)

Next == \E t \in Threads : Step(t) \/ \E m \in Modules : Import(t, m)

Spec == Init /\ [][Next]_vars

-----------------------------------------------------------------------------
\* Types; a chain of loads is never deeper than the modules, as a cycle is
\* refused when it closes.
TypeOK ==
    /\ loaded \subseteq Modules
    /\ loading \in [Modules -> Threads \cup {NoThread}]
    /\ \A t \in Threads : Len(stack[t]) <= Cardinality(Modules) + 1
    /\ \A t \in Threads : \A i \in DOMAIN stack[t] :
          /\ stack[t][i].m \in Modules
          /\ stack[t][i].at \in {"find", "claim", "await", "compile", "unwind"}
          /\ stack[t][i].todo \in Seq(Modules)
    /\ asked \in [Threads -> 0..MaxImports]
    /\ published \in [Modules -> Nat]

\* The loads of t that hold a claim.
Claims(t, m) ==
    {i \in DOMAIN stack[t] : stack[t][i].m = m /\ stack[t][i].at \in {"compile", "unwind"}}

\* A claim is held by exactly one load of the thread it names, and every load
\* past its claim holds it: no path, the failing ones included, leaves a claim
\* behind or loads a module without one, and a chain of loads is never longer
\* than there are modules (TypeOK).
ClaimsMatchLoads ==
    /\ TypeOK
    /\ \A t \in Threads, m \in Modules :
          Cardinality(Claims(t, m)) = IF loading[m] = t THEN 1 ELSE 0

\* A published module's imports are published: nobody can reach a module whose
\* dependencies failed or are still loading.
LoadedIsClosed ==
    \A m \in loaded : \A i \in DOMAIN Imports[m] : Imports[m][i] \in loaded

\* Loading is exactly once per path.
LoadedOnce == \A m \in Modules : published[m] <= 1

-----------------------------------------------------------------------------
\* Every thread is scheduled.
FairSpec == Spec /\ \A t \in Threads : WF_vars(Step(t))

\* Every import ends, with the module or with an error.
ImportsEnd == \A t \in Threads : (stack[t] # <<>>) ~> (stack[t] = <<>>)

=============================================================================
