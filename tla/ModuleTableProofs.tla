------------------------- MODULE ModuleTableProofs --------------------------
(***************************************************************************)
(* What the module table promises, for any number of threads and modules   *)
(* and any import graph, the cyclic ones included.                         *)
(***************************************************************************)
EXTENDS ModuleTable, FiniteSetTheorems, TLAPS

Places == {"find", "claim", "await", "compile", "unwind"}
Frames == [m : Modules, at : Places, todo : Seq(Modules)]

Types ==
    /\ loaded \subseteq Modules
    /\ loading \in [Modules -> Threads \cup {NoThread}]
    /\ stack \in [Threads -> Seq(Frames)]
    /\ asked \in [Threads -> 0..MaxImports]
    /\ published \in [Modules -> Nat]

\* A load past its claim, and the modules the loads of a chain have claimed.
Holds(fr) == fr.at \in {"compile", "unwind"}
HeldBy(s) == {m \in Modules : \E i \in DOMAIN s : Holds(s[i]) /\ s[i].m = m}

\* The loads under the innermost one compile, each module is claimed by one load
\* of the chain, and what a load imports is loaded, still to come, or being
\* loaded by the next load of the chain.
Nested(s) == \A i \in DOMAIN s : i # 1 => s[i].at = "compile"
Single(s) == \A i, j \in DOMAIN s : Holds(s[i]) /\ Holds(s[j]) /\ s[i].m = s[j].m => i = j
Covers(s, L) ==
    \A i \in DOMAIN s : s[i].at = "compile" =>
        \A x \in Modules : (\E j \in DOMAIN Imports[s[i].m] : Imports[s[i].m][j] = x) =>
            \/ x \in L
            \/ \E n \in DOMAIN s[i].todo : s[i].todo[n] = x
            \/ i # 1 /\ s[i - 1].m = x
LoadsOK(s, L) == Nested(s) /\ Single(s) /\ Covers(s, L)

\* The inductive invariant.
IInv ==
    /\ Types
    /\ \A t \in Threads : LoadsOK(stack[t], loaded)
    /\ \A t \in Threads : HeldBy(stack[t]) = {m \in Modules : loading[m] = t}
    /\ LoadedIsClosed

-----------------------------------------------------------------------------
(* Chains of loads.                                                        *)

\* The innermost load goes on elsewhere (Become).
LEMMA Replaced ==
    ASSUME NEW s \in Seq(Frames), s # <<>>, NEW fr \in Frames, NEW r, r = <<fr>> \o Tail(s)
    PROVE  /\ r \in Seq(Frames) /\ r # <<>> /\ DOMAIN r = DOMAIN s /\ 1 \in DOMAIN s
           /\ r[1] = fr /\ \A i \in DOMAIN s : i # 1 => r[i] = s[i]
  OBVIOUS

\* The innermost load returns (Return).
LEMMA Popped ==
    ASSUME NEW s \in Seq(Frames), s # <<>>, NEW r, r = Tail(s)
    PROVE  /\ r \in Seq(Frames) /\ 1 \in DOMAIN s
           /\ \A i \in DOMAIN r : i \in Nat /\ i + 1 \in DOMAIN s /\ r[i] = s[i + 1]
           /\ \A i \in DOMAIN s : i # 1 => i - 1 \in DOMAIN r /\ r[i - 1] = s[i]
  OBVIOUS

\* The innermost load of several ends with an exception, and u is what the one
\* below does about it (Throw).
Unwound(s, r, u) ==
    /\ r \in Seq(Frames)
    /\ \A i \in DOMAIN r : i \in Nat /\ i + 1 \in DOMAIN s
    /\ \A i \in DOMAIN r : i # 1 => r[i] = s[i + 1]
    /\ r[1] = u
    /\ \A i \in DOMAIN s : i # 1 => i - 1 \in DOMAIN r

\* Throw with a load below does that.
LEMMA Thrown ==
    \A s \in Seq(Frames), u \in Frames :
        Len(s) > 1 => \A r : r = <<u>> \o Tail(Tail(s)) => Unwound(s, r, u)
  <1> SUFFICES ASSUME NEW s \in Seq(Frames), NEW u \in Frames, Len(s) > 1
               PROVE  \A r : r = <<u>> \o Tail(Tail(s)) => Unwound(s, r, u)
    BY Zenon
  <1>0. Tail(s) \in Seq(Frames)
    OBVIOUS
  <1>1. PICK q \in Seq(Frames) : q = Tail(s)
    BY <1>0, Zenon
  <1>2. Len(q) = Len(s) - 1
    BY <1>1
  <1>3. q # <<>>
    BY <1>2
  <1>4. /\ DOMAIN q = 1..(Len(s) - 1) /\ \A i \in DOMAIN q : q[i] = s[i + 1]
        /\ DOMAIN s = 1..Len(s) /\ Len(s) \in Nat
    BY <1>1
  <1>5. ASSUME NEW r, r = <<u>> \o Tail(q)
        PROVE  /\ r \in Seq(Frames) /\ DOMAIN r = DOMAIN q
               /\ r[1] = u /\ \A i \in DOMAIN q : i # 1 => r[i] = q[i]
    BY <1>3, <1>5, Replaced
  <1>6. ASSUME NEW r, r = <<u>> \o Tail(Tail(s))
        PROVE  /\ r \in Seq(Frames) /\ DOMAIN r = DOMAIN q
               /\ r[1] = u /\ \A i \in DOMAIN q : i # 1 => r[i] = q[i]
    BY <1>1, <1>5, <1>6, Zenon
  <1>7. ASSUME NEW r, r = <<u>> \o Tail(Tail(s))
        PROVE  Unwound(s, r, u)
    <2>1. /\ r \in Seq(Frames) /\ DOMAIN r = DOMAIN q
          /\ r[1] = u /\ \A i \in DOMAIN q : i # 1 => r[i] = q[i]
      BY <1>6, <1>7, Zenon
    <2> QED
      BY <1>4, <2>1 DEF Unwound
  <1> QED
    BY <1>7, Zenon

\* The innermost load calls a, the load of a module it imports, and goes on as b
\* (CompileImport).
Pushed(s, r, a, b) ==
    /\ r \in Seq(Frames) /\ 1 \in DOMAIN r /\ 2 \in DOMAIN r /\ r[1] = a /\ r[2] = b
    /\ \A i \in DOMAIN r : i \notin {1, 2} => i - 1 \in DOMAIN s /\ i - 1 # 1 /\ r[i] = s[i - 1]
    /\ \A i \in DOMAIN s : i # 1 => i + 1 \in DOMAIN r /\ i + 1 \notin {1, 2} /\ r[i + 1] = s[i]

\* The loads under the innermost one.
LEMMA TailOf ==
    ASSUME NEW s \in Seq(Frames), s # <<>>
    PROVE  \E q \in Seq(Frames) : q = Tail(s)
  <1>1. Tail(s) \in Seq(Frames)
    OBVIOUS
  <1> QED
    BY <1>1, Zenon

\* The chain that CompileImport writes is that one.
LEMMA Called ==
    ASSUME NEW s \in Seq(Frames), s # <<>>, NEW a \in Frames, NEW b \in Frames,
           NEW r, r = <<a, b>> \o Tail(s)
    PROVE  Pushed(s, r, a, b)
  <1>1. PICK q \in Seq(Frames) : q = Tail(s)
    BY TailOf, Zenon
  <1>2. /\ Len(q) = Len(s) - 1 /\ Len(s) \in Nat \ {0} /\ DOMAIN s = 1..Len(s)
        /\ \A i \in 1..Len(q) : q[i] = s[i + 1]
    BY <1>1
  <1>3. r = <<a, b>> \o q
    BY <1>1, Zenon
  <1>4. /\ r \in Seq(Frames) /\ DOMAIN r = 1..(Len(q) + 2) /\ r[1] = a /\ r[2] = b
        /\ \A i \in 1..Len(q) : r[i + 2] = q[i]
    BY <1>3
  <1>5. ASSUME NEW i \in DOMAIN r, i \notin {1, 2}
        PROVE  i - 1 \in DOMAIN s /\ i - 1 # 1 /\ r[i] = s[i - 1]
    <2>1. i - 2 \in 1..Len(q) /\ (i - 2) + 2 = i /\ (i - 2) + 1 = i - 1
      BY <1>2, <1>4, <1>5
    <2>2. r[i] = s[i - 1]
      BY <1>2, <1>4, <2>1
    <2> QED
      BY <1>2, <2>1, <2>2
  <1>6. ASSUME NEW i \in DOMAIN s, i # 1
        PROVE  i + 1 \in DOMAIN r /\ i + 1 \notin {1, 2} /\ r[i + 1] = s[i]
    <2>1. i - 1 \in 1..Len(q) /\ (i - 1) + 2 = i + 1 /\ (i - 1) + 1 = i
      BY <1>2, <1>6
    <2>2. r[i + 1] = s[i]
      BY <1>2, <1>4, <2>1
    <2> QED
      BY <1>2, <1>4, <2>1, <2>2
  <1>7. 1 \in DOMAIN r /\ 2 \in DOMAIN r
    BY <1>2, <1>4
  <1> QED
    BY <1>4, <1>5, <1>6, <1>7, Zenon DEF Pushed

-----------------------------------------------------------------------------
(* What a step does to a chain keeps it in order.                          *)

\* Modules only become loaded.
LEMMA MoreLoaded ==
    ASSUME NEW s, NEW L, NEW K, L \subseteq K, LoadsOK(s, L)
    PROVE  LoadsOK(s, K)
  BY DEF LoadsOK, Covers

\* A chain with a load of some module at each place.
Placed(s) ==
    /\ 1 \in DOMAIN s
    /\ \A i \in DOMAIN s : i \in Nat \ {0} /\ s[i].m \in Modules
    /\ \A i \in DOMAIN s : i # 1 => i - 1 \in DOMAIN s

\* From s to r the innermost load goes on as fr: it keeps its module; what it
\* claims, no other load of the chain holds; and a load that compiles has its
\* imports still to come.
GoesOn(s, r, fr) ==
    /\ Placed(s) /\ DOMAIN r = DOMAIN s
    /\ r[1] = fr /\ \A i \in DOMAIN s : i # 1 => r[i] = s[i]
    /\ fr.m = s[1].m
    /\ Holds(fr) => Holds(s[1]) \/ fr.m \notin HeldBy(s)
    /\ Holds(s[1]) => Holds(fr)
    /\ fr.at = "compile" => fr.todo = Imports[fr.m]

\* A load that goes on keeps the chain in order, and claims its module.
LEMMA GoingOn ==
    ASSUME NEW L, NEW s, NEW r, NEW fr, LoadsOK(s, L), GoesOn(s, r, fr)
    PROVE  /\ LoadsOK(r, L)
           /\ HeldBy(r) = HeldBy(s) \cup (IF Holds(fr) THEN {fr.m} ELSE {})
  <1>0. /\ 1 \in DOMAIN s
        /\ \A i \in DOMAIN s : i \in Nat \ {0} /\ s[i].m \in Modules
        /\ \A i \in DOMAIN s : i # 1 => i - 1 \in DOMAIN s
        /\ DOMAIN r = DOMAIN s
        /\ r[1] = fr /\ \A i \in DOMAIN s : i # 1 => r[i] = s[i]
        /\ fr.m = s[1].m
        /\ Holds(fr) => Holds(s[1]) \/ fr.m \notin HeldBy(s)
        /\ Holds(s[1]) => Holds(fr)
        /\ fr.at = "compile" => fr.todo = Imports[fr.m]
    BY DEF GoesOn, Placed
  <1>1. Nested(r)
    BY <1>0 DEF LoadsOK, Nested
  <1>2. \A i \in DOMAIN r : r[i].m = s[i].m
    BY <1>0
  <1>3. Single(r)
    <2> SUFFICES ASSUME NEW i \in DOMAIN r, NEW j \in DOMAIN r,
                        Holds(r[i]), Holds(r[j]), r[i].m = r[j].m
                 PROVE  i = j
      BY Zenon DEF Single
    <2>1. ASSUME Holds(fr)
          PROVE  Holds(s[1]) \/ \A k \in DOMAIN s : ~(Holds(s[k]) /\ s[k].m = fr.m)
      BY <1>0, <2>1 DEF HeldBy
    <2>2. Holds(s[1]) => i = j
      BY <1>0, <1>2 DEF LoadsOK, Single
    <2>3. ASSUME ~Holds(s[1])  PROVE i = j
      <3>1. i = 1 => j = 1
        BY <1>0, <1>2, <2>1, <2>3
      <3>2. j = 1 => i = 1
        BY <1>0, <1>2, <2>1, <2>3
      <3>3. i # 1 /\ j # 1 => i = j
        BY <1>0, <1>2 DEF LoadsOK, Single
      <3> QED
        BY <3>1, <3>2, <3>3
    <2> QED
      BY <2>2, <2>3
  <1>4. Covers(r, L)
    <2> SUFFICES ASSUME NEW i \in DOMAIN r, r[i].at = "compile", NEW x \in Modules,
                        NEW k \in DOMAIN Imports[r[i].m], Imports[r[i].m][k] = x
                 PROVE  \/ x \in L
                        \/ \E n \in DOMAIN r[i].todo : r[i].todo[n] = x
                        \/ i # 1 /\ r[i - 1].m = x
      BY Zenon DEF Covers
    <2>1. CASE i = 1
      BY <1>0, <2>1
    <2>2. CASE i # 1
      <3>1. r[i] = s[i]
        BY <1>0, <2>2
      <3>2. \/ x \in L
            \/ \E n \in DOMAIN s[i].todo : s[i].todo[n] = x
            \/ i # 1 /\ s[i - 1].m = x
        BY <1>0, <3>1 DEF LoadsOK, Covers
      <3> QED
        BY <1>0, <3>1, <3>2, <1>2
    <2> QED
      BY <2>1, <2>2
  <1>5. HeldBy(r) = HeldBy(s) \cup (IF Holds(fr) THEN {fr.m} ELSE {})
    <2>1. \A m : m \in HeldBy(r) <=> m \in HeldBy(s) \/ (Holds(fr) /\ m = fr.m)
      BY <1>0, <1>2 DEF HeldBy
    <2> QED
      BY <2>1
  <1> QED
    BY <1>1, <1>3, <1>4, <1>5 DEF LoadsOK

\* From s to r the innermost load ends: the one below it goes on when its import
\* is in L, and unwinds otherwise.
Ends(s, r, L) ==
    /\ Placed(s)
    /\ \A i \in DOMAIN r : i \in Nat \ {0} /\ i + 1 \in DOMAIN s
    /\ \A i \in DOMAIN r : i # 1 => r[i] = s[i + 1]
    /\ \A i \in DOMAIN s : i # 1 => i - 1 \in DOMAIN r
    /\ 1 \in DOMAIN r => /\ r[1].m = s[2].m
                         /\ \/ r[1].at = "unwind"
                            \/ r[1] = s[2] /\ s[1].m \in L

\* A load that ends keeps the chain in order, and its claim is gone from it.
LEMMA Ending ==
    ASSUME NEW L, NEW s, NEW r, LoadsOK(s, L), Ends(s, r, L)
    PROVE  /\ LoadsOK(r, L)
           /\ HeldBy(r) = IF Holds(s[1]) THEN HeldBy(s) \ {s[1].m} ELSE HeldBy(s)
  <1>0. /\ 1 \in DOMAIN s
        /\ \A i \in DOMAIN s : i \in Nat \ {0} /\ s[i].m \in Modules
        /\ \A i \in DOMAIN s : i # 1 => i - 1 \in DOMAIN s
        /\ \A i \in DOMAIN r : i \in Nat \ {0} /\ i + 1 \in DOMAIN s
        /\ \A i \in DOMAIN r : i # 1 => r[i] = s[i + 1]
        /\ \A i \in DOMAIN s : i # 1 => i - 1 \in DOMAIN r
        /\ 1 \in DOMAIN r => /\ r[1].m = s[2].m
                             /\ \/ r[1].at = "unwind"
                                \/ r[1] = s[2] /\ s[1].m \in L
    BY DEF Ends, Placed
  <1>1. Nested(r)
    BY <1>0 DEF LoadsOK, Nested
  <1>2. \A i \in DOMAIN s : i # 1 => Holds(s[i])
    BY <1>0 DEF LoadsOK, Nested, Holds
  <1>3. \A i \in DOMAIN r : i + 1 \in DOMAIN s /\ i + 1 # 1 /\ r[i].m = s[i + 1].m
    BY <1>0
  <1>4. \A i \in DOMAIN r : Holds(r[i])
    <2>1. ASSUME NEW i \in DOMAIN r, i # 1  PROVE Holds(r[i])
      BY <1>0, <1>2, <1>3, <2>1
    <2>2. ASSUME 1 \in DOMAIN r  PROVE Holds(r[1])
      <3>1. CASE r[1].at = "unwind"
        BY <1>0, <3>1 DEF Holds
      <3>2. CASE r[1] = s[2]
        BY <1>0, <3>2, <2>2, <1>2, <1>3
      <3> QED
        BY <1>0, <2>2, <3>1, <3>2
    <2> QED
      BY <2>1, <2>2
  <1>5. Single(r)
    BY <1>0, <1>2, <1>3 DEF LoadsOK, Single
  <1>6. Covers(r, L)
    <2> SUFFICES ASSUME NEW i \in DOMAIN r, r[i].at = "compile", NEW x \in Modules,
                        NEW k \in DOMAIN Imports[r[i].m], Imports[r[i].m][k] = x
                 PROVE  \/ x \in L
                        \/ \E n \in DOMAIN r[i].todo : r[i].todo[n] = x
                        \/ i # 1 /\ r[i - 1].m = x
      BY Zenon DEF Covers
    <2>1. r[i] = s[i + 1] /\ i + 1 \in DOMAIN s
      BY <1>0
    <2>2. \/ x \in L
          \/ \E n \in DOMAIN s[i + 1].todo : s[i + 1].todo[n] = x
          \/ s[i].m = x
      BY <1>0, <2>1 DEF LoadsOK, Covers
    <2>3. CASE i = 1
      BY <1>0, <2>1, <2>2, <2>3
    <2>4. CASE i # 1
      <3>1. i - 1 \in DOMAIN r /\ (i - 1) + 1 = i
        <4>1. i \in Nat /\ (i + 1) - 1 = i /\ (i - 1) + 1 = i /\ i + 1 # 1
          BY <1>0
        <4>2. i \in DOMAIN s
          BY <1>0, <2>1, <4>1
        <4> QED
          BY <1>0, <2>4, <4>1, <4>2
      <3>2. r[i - 1].m = s[i].m
        BY <1>0, <3>1, <1>3
      <3> QED
        BY <2>1, <2>2, <2>4, <3>2
    <2> QED
      BY <2>3, <2>4
  <1>7. \A m : m \in HeldBy(r) <=> m \in HeldBy(s) /\ ~(Holds(s[1]) /\ m = s[1].m)
    <2>1. ASSUME NEW m, m \in HeldBy(r)
          PROVE  m \in HeldBy(s) /\ ~(Holds(s[1]) /\ m = s[1].m)
      <3>1. PICK i \in DOMAIN r : r[i].m = m
        BY <2>1, Zenon DEF HeldBy
      <3>2. PICK j \in DOMAIN s : j # 1 /\ s[j].m = m /\ Holds(s[j])
        BY <1>2, <1>3, <3>1, Zenon
      <3>3. m \in HeldBy(s)
        BY <2>1, <3>2, Zenon DEF HeldBy
      <3> QED
        BY <1>0, <3>2, <3>3 DEF LoadsOK, Single
    <2>2. ASSUME NEW m, m \in HeldBy(s), ~(Holds(s[1]) /\ m = s[1].m)
          PROVE  m \in HeldBy(r)
      <3>1. PICK i \in DOMAIN s : i # 1 /\ s[i].m = m
        BY <1>0, <2>2 DEF HeldBy
      <3>2. i - 1 \in DOMAIN r /\ r[i - 1].m = m
        BY <1>0, <3>1, <1>3
      <3> QED
        BY <1>0, <2>2, <3>2, <1>4 DEF HeldBy
    <2> QED
      BY <2>1, <2>2
  <1>8. HeldBy(r) = IF Holds(s[1]) THEN HeldBy(s) \ {s[1].m} ELSE HeldBy(s)
    <2>1. CASE Holds(s[1])
      BY <1>0, <1>7, <2>1
    <2>2. CASE ~Holds(s[1])
      <3>1. HeldBy(r) = HeldBy(s)
        BY <1>7, <2>2, Zenon
      <3> QED
        BY <2>2, <3>1
    <2> QED
      BY <2>1, <2>2
  <1> QED
    BY <1>1, <1>5, <1>6, <1>8 DEF LoadsOK

\* From s to r the innermost load, now b, calls the load a of a module it
\* imports.
Calls(s, r, a, b) ==
    /\ Placed(s)
    /\ 1 \in DOMAIN r /\ 2 \in DOMAIN r /\ r[1] = a /\ r[2] = b
    /\ \A i \in DOMAIN r : i \in Nat \ {0}
    /\ \A i \in DOMAIN r : i \notin {1, 2} => i - 1 \in DOMAIN s /\ i - 1 # 1 /\ r[i] = s[i - 1]
    /\ \A i \in DOMAIN s : i # 1 => i + 1 \in DOMAIN r /\ i + 1 \notin {1, 2} /\ r[i + 1] = s[i]
    /\ a.at = "find" /\ b.at = "compile" /\ s[1].at = "compile" /\ b.m = s[1].m
    /\ \A x : (\E n \in DOMAIN s[1].todo : s[1].todo[n] = x) =>
                  x = a.m \/ \E n \in DOMAIN b.todo : b.todo[n] = x

\* A load that calls another keeps the chain in order, and the same claims.
LEMMA Calling ==
    ASSUME NEW L, NEW s, NEW r, NEW a, NEW b, LoadsOK(s, L), Calls(s, r, a, b)
    PROVE  LoadsOK(r, L) /\ HeldBy(r) = HeldBy(s)
  <1>0. /\ 1 \in DOMAIN s
        /\ \A i \in DOMAIN s : i \in Nat \ {0} /\ s[i].m \in Modules
        /\ \A i \in DOMAIN s : i # 1 => i - 1 \in DOMAIN s
        /\ 1 \in DOMAIN r /\ 2 \in DOMAIN r /\ r[1] = a /\ r[2] = b
        /\ \A i \in DOMAIN r : i \in Nat \ {0}
        /\ \A i \in DOMAIN r : i \notin {1, 2} => i - 1 \in DOMAIN s /\ i - 1 # 1 /\ r[i] = s[i - 1]
        /\ \A i \in DOMAIN s : i # 1 => i + 1 \in DOMAIN r /\ i + 1 \notin {1, 2} /\ r[i + 1] = s[i]
        /\ a.at = "find" /\ b.at = "compile" /\ s[1].at = "compile" /\ b.m = s[1].m
        /\ \A x : (\E n \in DOMAIN s[1].todo : s[1].todo[n] = x) =>
                      x = a.m \/ \E n \in DOMAIN b.todo : b.todo[n] = x
    BY DEF Calls, Placed
  <1>1. Nested(r)
    BY <1>0 DEF LoadsOK, Nested
  <1>2. \A i \in DOMAIN r : i # 1 => /\ i - 1 \in DOMAIN s /\ (i - 1) + 1 = i
                                     /\ r[i].m = s[i - 1].m
                                     /\ Holds(r[i]) /\ Holds(s[i - 1])
    BY <1>0 DEF LoadsOK, Nested, Holds
  <1>3. ~Holds(r[1])
    BY <1>0 DEF Holds
  <1>4. Single(r)
    <2> SUFFICES ASSUME NEW i \in DOMAIN r, NEW j \in DOMAIN r,
                        Holds(r[i]), Holds(r[j]), r[i].m = r[j].m
                 PROVE  i = j
      BY Zenon DEF Single
    <2>1. i # 1 /\ j # 1
      BY <1>0, <1>3
    <2>2. i - 1 = j - 1
      BY <1>0, <1>2, <2>1 DEF LoadsOK, Single
    <2> QED
      BY <1>0, <2>2
  <1>5. Covers(r, L)
    <2> SUFFICES ASSUME NEW i \in DOMAIN r, r[i].at = "compile", NEW x \in Modules,
                        NEW k \in DOMAIN Imports[r[i].m], Imports[r[i].m][k] = x
                 PROVE  \/ x \in L
                        \/ \E n \in DOMAIN r[i].todo : r[i].todo[n] = x
                        \/ i # 1 /\ r[i - 1].m = x
      BY Zenon DEF Covers
    <2>1. i # 1
      BY <1>0
    <2>2. i - 1 \in DOMAIN s /\ r[i].m = s[i - 1].m /\ s[i - 1].at = "compile"
      <3>1. i - 1 \in DOMAIN s /\ r[i].m = s[i - 1].m
        BY <1>2, <2>1, Zenon
      <3>2. \A h \in DOMAIN s : s[h].at = "compile"
        BY <1>0 DEF LoadsOK, Nested
      <3> QED
        BY <3>1, <3>2, Zenon
    <2>3. PICK h \in DOMAIN s : h = i - 1
      BY <1>0, <2>2
    <2>4. \/ x \in L
          \/ \E n \in DOMAIN s[h].todo : s[h].todo[n] = x
          \/ h # 1 /\ s[h - 1].m = x
      BY <1>0, <2>2, <2>3 DEF LoadsOK, Covers
    <2>5. CASE i = 2
      <3>1. h = 1 /\ i - 1 = 1
        BY <1>0, <2>3, <2>5
      <3> QED
        BY <1>0, <2>4, <2>5, <3>1
    <2>6. CASE i # 2
      <3>1. r[i] = s[h] /\ h # 1
        BY <1>0, <2>1, <2>3, <2>6
      <3>2. h - 1 \in DOMAIN s /\ (h - 1) + 1 = h
        BY <1>0, <3>1
      <3>3. r[h].m = s[h - 1].m
        <4>1. CASE h - 1 = 1
          BY <1>0, <3>2, <4>1
        <4>2. CASE h - 1 # 1
          BY <1>0, <3>2, <4>2
        <4> QED
          BY <4>1, <4>2
      <3> QED
        BY <2>1, <2>3, <2>4, <3>1, <3>3
    <2> QED
      BY <2>5, <2>6
  <1>6. \A m : m \in HeldBy(r) <=> m \in HeldBy(s)
    <2>1. ASSUME NEW m, m \in HeldBy(r)  PROVE m \in HeldBy(s)
      BY <1>0, <1>2, <1>3, <2>1 DEF HeldBy
    <2>2. ASSUME NEW m, m \in HeldBy(s)  PROVE m \in HeldBy(r)
      <3>1. PICK i \in DOMAIN s : s[i].m = m
        BY <1>0, <2>2 DEF HeldBy
      <3>2. i + 1 \in DOMAIN r /\ i + 1 # 1 /\ (i + 1) - 1 = i
        BY <1>0
      <3>3. Holds(r[i + 1]) /\ r[i + 1].m = m
        BY <1>0, <1>2, <3>1, <3>2
      <3> QED
        BY <1>0, <2>2, <3>2, <3>3 DEF HeldBy
    <2> QED
      BY <2>1, <2>2
  <1>7. HeldBy(r) = HeldBy(s)
    BY <1>6, Zenon
  <1> QED
    BY <1>1, <1>4, <1>5, <1>7 DEF LoadsOK

-----------------------------------------------------------------------------
\* A load at another place.
LEMMA Elsewhere ==
    \A f \in Frames, l \in Places :
        \E g \in Frames : g = [f EXCEPT !.at = l] /\ g.m = f.m /\ g.at = l /\ g.todo = f.todo
  <1> SUFFICES ASSUME NEW f \in Frames, NEW l \in Places
               PROVE  \E g \in Frames : /\ g = [f EXCEPT !.at = l]
                                        /\ g.m = f.m /\ g.at = l /\ g.todo = f.todo
    OBVIOUS
  <1>1. PICK g : g = [f EXCEPT !.at = l]
    BY Zenon
  <1>2. g \in Frames /\ g.m = f.m /\ g.at = l /\ g.todo = f.todo
    BY <1>1 DEF Frames
  <1> QED
    BY <1>1, <1>2, Zenon

(* The three ways a load of t moves on.                                    *)

\* What is left of a list of imports after the first.
LEMMA HeadOrTail ==
    ASSUME NEW q \in Seq(Modules), q # <<>>
    PROVE  /\ Head(q) \in Modules /\ Tail(q) \in Seq(Modules)
           /\ \A x : (\E n \in DOMAIN q : q[n] = x) =>
                     x = Head(q) \/ \E n \in DOMAIN Tail(q) : Tail(q)[n] = x
  <1>1. Head(q) \in Modules /\ Tail(q) \in Seq(Modules) /\ q[1] = Head(q)
    OBVIOUS
  <1>2. PICK p \in Seq(Modules) : p = Tail(q)
    BY <1>1, Zenon
  <1>3. \A i \in DOMAIN q : i # 1 => i - 1 \in DOMAIN p /\ p[i - 1] = q[i]
    BY <1>2
  <1>4. \A x : (\E n \in DOMAIN q : q[n] = x) => x = q[1] \/ \E n \in DOMAIN p : p[n] = x
    BY <1>3, Zenon
  <1> QED
    BY <1>1, <1>2, <1>4, Zenon

\* A thread between imports has no loads.
LEMMA EmptySeq == <<>> \in Seq(Frames) /\ DOMAIN <<>> = {}
  OBVIOUS

\* The shape of a thread's chain.
LEMMA Chain ==
    ASSUME NEW s \in Seq(Frames)
    PROVE  /\ s # <<>> => Placed(s)
           /\ \A i \in DOMAIN s : i \in Nat \ {0} /\ s[i] \in Frames
           /\ s # <<>> /\ Len(s) # 1 => Len(s) > 1 /\ 2 \in DOMAIN s
           /\ s # <<>> /\ Len(s) = 1 => \A i \in DOMAIN s : i = 1
  <1>1. DOMAIN s = 1..Len(s) /\ Len(s) \in Nat /\ \A i \in DOMAIN s : s[i] \in Frames
    OBVIOUS
  <1>2. s # <<>> => 1 \in DOMAIN s
    OBVIOUS
  <1>3. \A i \in DOMAIN s : i \in Nat \ {0} /\ (i # 1 => i - 1 \in DOMAIN s)
    BY <1>1
  <1>4. \A i \in DOMAIN s : s[i].m \in Modules
    BY <1>1 DEF Frames
  <1>5. s # <<>> /\ Len(s) # 1 => Len(s) > 1 /\ 2 \in DOMAIN s
    BY <1>1, <1>2
  <1>6. Len(s) = 1 => \A i \in DOMAIN s : i = 1
    BY <1>1
  <1> QED
    BY <1>1, <1>2, <1>3, <1>4, <1>5, <1>6, Zenon DEF Placed

\* Become.
LEMMA BecomeKeeps ==
    ASSUME IInv, NEW t \in Threads, stack[t] # <<>>, NEW fr \in Frames, Become(t, fr),
           fr.m = Top(t).m,
           Holds(fr) => Holds(Top(t)) \/ fr.m \notin HeldBy(stack[t]),
           Holds(Top(t)) => Holds(fr),
           fr.at = "compile" => fr.todo = Imports[fr.m]
    PROVE  \E r \in Seq(Frames) :
              /\ stack' = [stack EXCEPT ![t] = r] /\ LoadsOK(r, loaded)
              /\ HeldBy(r) = HeldBy(stack[t]) \cup (IF Holds(fr) THEN {fr.m} ELSE {})
  <1>0. stack[t] \in Seq(Frames) /\ LoadsOK(stack[t], loaded)
    BY DEF IInv, Types
  <1>1. PICK s : s = stack[t] /\ s \in Seq(Frames) /\ s # <<>> /\ LoadsOK(s, loaded)
    BY <1>0, Zenon
  <1>2. PICK r : r = <<fr>> \o Tail(s)
    BY Zenon
  <1>3. stack' = [stack EXCEPT ![t] = r]
    BY <1>1, <1>2, Zenon DEF Become
  <1>4. /\ r \in Seq(Frames) /\ DOMAIN r = DOMAIN s /\ 1 \in DOMAIN s
        /\ r[1] = fr /\ \A i \in DOMAIN s : i # 1 => r[i] = s[i]
    BY <1>1, <1>2, Replaced
  <1>5. Placed(s)
    BY <1>1, Chain, Zenon
  <1>6. GoesOn(s, r, fr)
    BY <1>1, <1>4, <1>5, Zenon DEF GoesOn, Top
  <1>7. LoadsOK(r, loaded) /\ HeldBy(r) = HeldBy(s) \cup (IF Holds(fr) THEN {fr.m} ELSE {})
    BY <1>1, <1>6, GoingOn, Zenon
  <1> QED
    BY <1>1, <1>3, <1>4, <1>7, Zenon

\* Return, when the module is in L.
LEMMA ReturnKeeps ==
    ASSUME IInv, NEW t \in Threads, stack[t] # <<>>, Return(t),
           NEW L, loaded \subseteq L, Top(t).m \in L
    PROVE  \E r \in Seq(Frames) :
              /\ stack' = [stack EXCEPT ![t] = r] /\ LoadsOK(r, L)
              /\ HeldBy(r) = IF Holds(Top(t)) THEN HeldBy(stack[t]) \ {Top(t).m}
                             ELSE HeldBy(stack[t])
  <1>0. stack[t] \in Seq(Frames) /\ LoadsOK(stack[t], loaded)
    BY DEF IInv, Types
  <1>1. PICK s : s = stack[t] /\ s \in Seq(Frames) /\ s # <<>> /\ LoadsOK(s, loaded)
    BY <1>0, Zenon
  <1>2. PICK r : r = Tail(s)
    BY Zenon
  <1>3. stack' = [stack EXCEPT ![t] = r]
    BY <1>1, <1>2, Zenon DEF Return
  <1>4. /\ r \in Seq(Frames) /\ 1 \in DOMAIN s
        /\ \A i \in DOMAIN r : i \in Nat /\ i + 1 \in DOMAIN s /\ r[i] = s[i + 1]
        /\ \A i \in DOMAIN s : i # 1 => i - 1 \in DOMAIN r
    BY <1>1, <1>2, Popped
  <1>5. Placed(s) /\ \A i \in DOMAIN r : i \in Nat \ {0}
    BY <1>1, <1>4, Chain, Zenon
  <1>6. LoadsOK(s, L) /\ Top(t) = s[1]
    BY <1>1, MoreLoaded, Zenon DEF Top
  <1>7. Ends(s, r, L)
    BY <1>4, <1>5, <1>6 DEF Ends
  <1>8. LoadsOK(r, L) /\ HeldBy(r) = IF Holds(s[1]) THEN HeldBy(s) \ {s[1].m} ELSE HeldBy(s)
    BY <1>6, <1>7, Ending, Zenon
  <1> QED
    BY <1>1, <1>3, <1>4, <1>6, <1>8, Zenon

\* Throw.
LEMMA ThrowKeeps ==
    ASSUME IInv, NEW t \in Threads, stack[t] # <<>>, Throw(t)
    PROVE  \E r \in Seq(Frames) :
              /\ stack' = [stack EXCEPT ![t] = r] /\ LoadsOK(r, loaded)
              /\ HeldBy(r) = IF Holds(Top(t)) THEN HeldBy(stack[t]) \ {Top(t).m}
                             ELSE HeldBy(stack[t])
  <1>0. stack[t] \in Seq(Frames) /\ LoadsOK(stack[t], loaded)
    BY DEF IInv, Types
  <1>1. PICK s : s = stack[t] /\ s \in Seq(Frames) /\ s # <<>> /\ LoadsOK(s, loaded)
    BY <1>0, Zenon
  <1>2. Placed(s) /\ \A i \in DOMAIN s : s[i] \in Frames
    BY <1>1, Chain, Zenon
  <1>3. Top(t) = s[1]
    BY <1>1 DEF Top
  <1>4. CASE Len(s) = 1
    <2>1. stack' = [stack EXCEPT ![t] = <<>>]
      BY <1>1, <1>4, Zenon DEF Throw
    <2>2. <<>> \in Seq(Frames) /\ DOMAIN <<>> = {}
      BY EmptySeq
    <2>3. \A i \in DOMAIN s : i = 1
      BY <1>1, <1>4, Chain, Zenon
    <2>4. Ends(s, <<>>, loaded)
      BY <1>2, <2>2, <2>3 DEF Ends
    <2>5. /\ LoadsOK(<<>>, loaded)
          /\ HeldBy(<<>>) = IF Holds(s[1]) THEN HeldBy(s) \ {s[1].m} ELSE HeldBy(s)
      BY <1>1, <2>4, Ending, Zenon
    <2> QED
      BY <1>1, <1>3, <2>1, <2>2, <2>5, Zenon
  <1>5. CASE Len(s) # 1
    <2>1. Len(s) > 1 /\ 2 \in DOMAIN s
      BY <1>1, <1>5, Chain, Zenon
    <2>a. s[2] \in Frames
      BY <1>2, <2>1
    <2>2. PICK u : u \in Frames /\ u = [s[2] EXCEPT !.at = "unwind"] /\ u.m = s[2].m /\ u.at = "unwind"
      <3>1. "unwind" \in Places
        BY DEF Places
      <3> QED
        BY <2>a, <3>1, Elsewhere
    <2>3. PICK r : r = <<u>> \o Tail(Tail(s))
      BY Zenon
    <2>4. stack' = [stack EXCEPT ![t] = r]
      BY <1>1, <1>5, <2>2, <2>3, Zenon DEF Throw
    <2>c. Unwound(s, r, u)
      BY <1>1, <2>1, <2>2, <2>3, Thrown, Zenon
    <2>5. /\ r \in Seq(Frames)
          /\ \A i \in DOMAIN r : i \in Nat /\ i + 1 \in DOMAIN s
          /\ \A i \in DOMAIN r : i # 1 => r[i] = s[i + 1]
          /\ r[1] = u
          /\ \A i \in DOMAIN s : i # 1 => i - 1 \in DOMAIN r
      BY <2>c, Zenon DEF Unwound
    <2>6. \A i \in DOMAIN r : i \in Nat \ {0}
      BY <2>5, Chain, Zenon
    <2>7. Ends(s, r, loaded)
      BY <1>2, <2>2, <2>5, <2>6, Zenon DEF Ends
    <2>8. LoadsOK(r, loaded) /\ HeldBy(r) = IF Holds(s[1]) THEN HeldBy(s) \ {s[1].m} ELSE HeldBy(s)
      BY <1>1, <2>7, Ending, Zenon
    <2> QED
      BY <1>1, <1>3, <2>4, <2>5, <2>8, Zenon
  <1> QED
    BY <1>4, <1>5

-----------------------------------------------------------------------------
(* Every action keeps the invariant.                                       *)

\* It is enough to look at the chain of the thread that moves.
LEMMA Moves ==
    ASSUME IInv, NEW t \in Threads, NEW r \in Seq(Frames), stack' = [stack EXCEPT ![t] = r],
           loaded \subseteq loaded', loaded' \subseteq Modules,
           loading' \in [Modules -> Threads \cup {NoThread}],
           asked' \in [Threads -> 0..MaxImports], published' \in [Modules -> Nat],
           LoadsOK(r, loaded'), HeldBy(r) = {m \in Modules : loading'[m] = t},
           \A u \in Threads, m \in Modules : u # t => (loading'[m] = u <=> loading[m] = u),
           LoadedIsClosed'
    PROVE  IInv'
  <1>1. stack \in [Threads -> Seq(Frames)]
    BY DEF IInv, Types
  <1>2. /\ stack' \in [Threads -> Seq(Frames)]
        /\ stack'[t] = r /\ \A u \in Threads : u # t => stack'[u] = stack[u]
    BY <1>1
  <1>3. Types'
    BY <1>2, Zenon DEF Types
  <1>4. ASSUME NEW u \in Threads
        PROVE  LoadsOK(stack'[u], loaded') /\ HeldBy(stack'[u]) = {m \in Modules : loading'[m] = u}
    <2>1. CASE u = t
      BY <1>2, <2>1, Zenon
    <2>2. CASE u # t
      <3>1. LoadsOK(stack[u], loaded) /\ HeldBy(stack[u]) = {m \in Modules : loading[m] = u}
        BY DEF IInv
      <3>2. LoadsOK(stack[u], loaded')
        BY <3>1, MoreLoaded
      <3>3. {m \in Modules : loading'[m] = u} = {m \in Modules : loading[m] = u}
        BY <2>2
      <3> QED
        BY <1>2, <2>2, <3>1, <3>2, <3>3, Zenon
    <2> QED
      BY <2>1, <2>2
  <1> QED
    BY <1>3, <1>4, Zenon DEF IInv

\* What the invariant says of the thread that acts.
LEMMA Facts ==
    ASSUME IInv, NEW t \in Threads
    PROVE  /\ loaded \subseteq Modules
           /\ loading \in [Modules -> Threads \cup {NoThread}]
           /\ asked \in [Threads -> 0..MaxImports]
           /\ published \in [Modules -> Nat]
           /\ HeldBy(stack[t]) = {m \in Modules : loading[m] = t}
           /\ stack[t] \in Seq(Frames)
           /\ stack[t] # <<>> => /\ Top(t) \in Frames /\ Top(t).m \in Modules
                                 /\ Placed(stack[t])
                                 /\ Holds(Top(t)) => loading[Top(t).m] = t
  <1>1. stack[t] \in Seq(Frames) /\ HeldBy(stack[t]) = {m \in Modules : loading[m] = t}
    BY DEF IInv, Types
  <1>2. ASSUME stack[t] # <<>>
        PROVE  /\ Top(t) \in Frames /\ Top(t).m \in Modules
               /\ Placed(stack[t])
               /\ Holds(Top(t)) => loading[Top(t).m] = t
    <2>1. Placed(stack[t]) /\ \A i \in DOMAIN stack[t] : stack[t][i] \in Frames
      BY <1>1, <1>2, Chain, Zenon
    <2>2. 1 \in DOMAIN stack[t] /\ Top(t) = stack[t][1] /\ Top(t) \in Frames /\ Top(t).m \in Modules
      BY <2>1, Zenon DEF Placed, Top
    <2>3. Holds(Top(t)) => Top(t).m \in HeldBy(stack[t])
      BY <2>2, Zenon DEF HeldBy
    <2> QED
      BY <1>1, <2>1, <2>2, <2>3
  <1>3. /\ loaded \subseteq Modules
        /\ loading \in [Modules -> Threads \cup {NoThread}]
        /\ asked \in [Threads -> 0..MaxImports]
        /\ published \in [Modules -> Nat]
    BY Zenon DEF IInv, Types
  <1> QED
    BY <1>1, <1>2, <1>3, Zenon

\* Load(m), the chain of one fresh load.
LEMMA Fresh ==
    ASSUME NEW m \in Modules, NEW L
    PROVE  /\ Load(m) \in Frames /\ Load(m).m = m /\ Load(m).at = "find"
           /\ <<Load(m)>> \in Seq(Frames)
           /\ LoadsOK(<<Load(m)>>, L) /\ HeldBy(<<Load(m)>>) = {}
  <1>1. Load(m) \in Frames /\ Load(m).m = m /\ Load(m).at = "find"
    BY DEF Load, Frames, Places
  <1>2. PICK fr : fr = Load(m)
    BY Zenon
  <1>3. fr \in Frames /\ fr.at = "find"
    BY <1>1, <1>2, Zenon
  <1>4. <<fr>> \in Seq(Frames) /\ DOMAIN <<fr>> = {1} /\ <<fr>>[1] = fr
    BY <1>3
  <1>5. PICK s : s = <<fr>> /\ DOMAIN s = {1} /\ s[1] = fr
    BY <1>4, Zenon
  <1>6. LoadsOK(s, L) /\ HeldBy(s) = {}
    BY <1>3, <1>5 DEF LoadsOK, Nested, Single, Covers, HeldBy, Holds
  <1> QED
    BY <1>1, <1>2, <1>4, <1>5, <1>6, Zenon

\* Import.
LEMMA ImportKeeps ==
    ASSUME IInv, NEW t \in Threads, NEW m \in Modules, Import(t, m)
    PROVE  IInv'
  <1>1. stack[t] = <<>> /\ UNCHANGED <<loaded, loading, published>>
    BY DEF Import
  <1>2. asked' \in [Threads -> 0..MaxImports]
    BY Facts, ConstantsAssumption DEF Import
  <1>3. stack' = [stack EXCEPT ![t] = <<Load(m)>>]
    BY DEF Import
  <1>4. HeldBy(stack[t]) = {}
    <2>1. stack[t] = <<>> /\ DOMAIN <<>> = {}
      BY <1>1, EmptySeq
    <2> QED
      BY <2>1, Zenon DEF HeldBy
  <1>5. HeldBy(<<Load(m)>>) = {x \in Modules : loading'[x] = t}
    BY <1>1, <1>4, Facts, Fresh, Zenon
  <1>6. LoadsOK(<<Load(m)>>, loaded') /\ <<Load(m)>> \in Seq(Frames)
    BY Fresh, Zenon
  <1>7. LoadedIsClosed'
    BY <1>1 DEF IInv, LoadedIsClosed
  <1> QED
    BY <1>1, <1>2, <1>3, <1>5, <1>6, <1>7, Facts, Moves, Zenon

\* A step that only moves the innermost load of t, and takes or leaves no claim.
LEMMA Moved ==
    ASSUME IInv, NEW t \in Threads, UNCHANGED <<loaded, loading, asked, published>>,
           NEW r \in Seq(Frames), stack' = [stack EXCEPT ![t] = r],
           LoadsOK(r, loaded), HeldBy(r) = HeldBy(stack[t])
    PROVE  IInv'
  <1>1. LoadedIsClosed'
    BY DEF IInv, LoadedIsClosed
  <1>2. HeldBy(r) = {m \in Modules : loading'[m] = t}
    BY Facts, Zenon
  <1> QED
    BY <1>1, <1>2, Facts, Moves, Zenon

\* A load without a claim goes on without one.
LEMMA UnclaimedKeeps ==
    ASSUME IInv, NEW t \in Threads, UNCHANGED <<loaded, loading, asked, published>>,
           stack[t] # <<>>, ~Holds(Top(t)), NEW fr \in Frames, Become(t, fr),
           fr.m = Top(t).m, ~Holds(fr), fr.at # "compile"
    PROVE  IInv'
  <1>1. PICK r \in Seq(Frames) :
              /\ stack' = [stack EXCEPT ![t] = r] /\ LoadsOK(r, loaded)
              /\ HeldBy(r) = HeldBy(stack[t]) \cup (IF Holds(fr) THEN {fr.m} ELSE {})
    BY BecomeKeeps, Zenon
  <1>2. HeldBy(r) = HeldBy(stack[t])
    BY <1>1
  <1> QED
    BY <1>1, <1>2, Moved, Zenon

\* A load without a claim is over, as its module is loaded.
LEMMA ReturnedKeeps ==
    ASSUME IInv, NEW t \in Threads, UNCHANGED <<loaded, loading, asked, published>>,
           stack[t] # <<>>, ~Holds(Top(t)), Top(t).m \in loaded, Return(t)
    PROVE  IInv'
  <1>1. PICK r \in Seq(Frames) :
              /\ stack' = [stack EXCEPT ![t] = r] /\ LoadsOK(r, loaded)
              /\ HeldBy(r) = IF Holds(Top(t)) THEN HeldBy(stack[t]) \ {Top(t).m}
                             ELSE HeldBy(stack[t])
    BY ReturnKeeps, Zenon
  <1>2. HeldBy(r) = HeldBy(stack[t])
    BY <1>1
  <1> QED
    BY <1>1, <1>2, Moved, Zenon

\* A load without a claim ends with an exception.
LEMMA ThrownKeeps ==
    ASSUME IInv, NEW t \in Threads, UNCHANGED <<loaded, loading, asked, published>>,
           stack[t] # <<>>, ~Holds(Top(t)), Throw(t)
    PROVE  IInv'
  <1>1. PICK r \in Seq(Frames) :
              /\ stack' = [stack EXCEPT ![t] = r] /\ LoadsOK(r, loaded)
              /\ HeldBy(r) = IF Holds(Top(t)) THEN HeldBy(stack[t]) \ {Top(t).m}
                             ELSE HeldBy(stack[t])
    BY ThrowKeeps, Zenon
  <1>2. HeldBy(r) = HeldBy(stack[t])
    BY <1>1
  <1> QED
    BY <1>1, <1>2, Moved, Zenon

\* Find.
LEMMA FindKeeps ==
    ASSUME IInv, NEW t \in Threads, Find(t)
    PROVE  IInv'
  <1>1. /\ stack[t] # <<>> /\ Top(t).at = "find" /\ UNCHANGED <<loaded, loading, asked, published>>
        /\ ~Holds(Top(t))
    BY DEF Find, At, Top, Holds
  <1>2. CASE Top(t).m \in loaded
    <2>1. Return(t)
      BY <1>2 DEF Find
    <2> QED
      BY <1>1, <1>2, <2>1, ReturnedKeeps, Zenon
  <1>3. CASE Top(t).m \notin loaded
    <2>1. PICK fr \in Frames : Become(t, fr) /\ fr.m = Top(t).m /\ fr.at = "claim"
      <3>1. Become(t, [Top(t) EXCEPT !.at = "claim"])
        BY <1>3, Zenon DEF Find
      <3>2. "claim" \in Places /\ Top(t) \in Frames
        BY <1>1, Facts DEF Places
      <3>3. PICK g \in Frames : /\ g = [Top(t) EXCEPT !.at = "claim"]
                               /\ g.m = Top(t).m /\ g.at = "claim"
        BY <3>2, Elsewhere
      <3> QED
        BY <3>1, <3>3, Zenon
    <2>2. ~Holds(fr) /\ fr.at # "compile"
      BY <2>1 DEF Holds
    <2> QED
      BY <1>1, <2>1, <2>2, UnclaimedKeeps, Zenon
  <1> QED
    BY <1>2, <1>3

\* Claim.
LEMMA ClaimKeeps ==
    ASSUME IInv, NEW t \in Threads, Claim(t)
    PROVE  IInv'
  <1>1. /\ stack[t] # <<>> /\ Top(t).at = "claim" /\ UNCHANGED <<loaded, asked, published>>
        /\ ~Holds(Top(t))
    BY DEF Claim, At, Top, Holds
  <1>2. Top(t) \in Frames /\ Top(t).m \in Modules
    BY <1>1, Facts
  <1>3. CASE /\ loading[Top(t).m] = NoThread
             /\ loading' = [loading EXCEPT ![Top(t).m] = t]
             /\ Become(t, [m |-> Top(t).m, at |-> "compile", todo |-> Imports[Top(t).m]])
    <2>1. PICK m \in Modules : m = Top(t).m
      BY <1>2, Zenon
    <2>2. PICK fr \in Frames : /\ fr = [m |-> m, at |-> "compile", todo |-> Imports[m]]
                               /\ fr.m = m /\ fr.at = "compile" /\ fr.todo = Imports[m]
      <3>1. Imports[m] \in Seq(Modules)
        BY ConstantsAssumption
      <3>2. PICK g : g = [m |-> m, at |-> "compile", todo |-> Imports[m]]
        BY Zenon
      <3>3. g \in Frames /\ g.m = m /\ g.at = "compile" /\ g.todo = Imports[m]
        BY <3>1, <3>2 DEF Frames, Places
      <3> QED
        BY <3>2, <3>3, Zenon
    <2>3. Become(t, fr) /\ loading[m] = NoThread /\ loading' = [loading EXCEPT ![m] = t]
      BY <1>3, <2>1, <2>2, Zenon
    <2>4. Holds(fr) /\ m \notin HeldBy(stack[t])
      BY <2>2, <2>3, Facts, ConstantsAssumption DEF Holds
    <2>5. PICK r \in Seq(Frames) :
              /\ stack' = [stack EXCEPT ![t] = r] /\ LoadsOK(r, loaded)
              /\ HeldBy(r) = HeldBy(stack[t]) \cup (IF Holds(fr) THEN {fr.m} ELSE {})
      BY <1>1, <2>1, <2>2, <2>3, <2>4, BecomeKeeps, Zenon
    <2>6. HeldBy(r) = HeldBy(stack[t]) \cup {m}
      BY <2>2, <2>4, <2>5
    <2>7. /\ loading \in [Modules -> Threads \cup {NoThread}]
          /\ HeldBy(stack[t]) = {x \in Modules : loading[x] = t}
      BY Facts, Zenon
    <2>8. /\ loading' \in [Modules -> Threads \cup {NoThread}]
          /\ \A u \in Threads, x \in Modules : u # t => (loading'[x] = u <=> loading[x] = u)
      BY <2>3, <2>7, ConstantsAssumption
    <2>9. HeldBy(r) = {x \in Modules : loading'[x] = t}
      BY <2>3, <2>6, <2>7
    <2>10. LoadedIsClosed'
      BY <1>1 DEF IInv, LoadedIsClosed
    <2>11. /\ loaded' = loaded /\ loaded \subseteq loaded' /\ loaded' \subseteq Modules
           /\ asked' \in [Threads -> 0..MaxImports] /\ published' \in [Modules -> Nat]
      BY <1>1, Facts
    <2> QED
      BY <2>5, <2>8, <2>9, <2>10, <2>11, Moves, Zenon
  <1>4. CASE UNCHANGED loading /\ Throw(t)
    BY <1>1, <1>4, ThrownKeeps, Zenon
  <1>5. CASE UNCHANGED loading /\ Become(t, [Top(t) EXCEPT !.at = "await"])
    <2>1. "await" \in Places
      BY DEF Places
    <2>2. PICK g \in Frames : /\ g = [Top(t) EXCEPT !.at = "await"]
                              /\ g.m = Top(t).m /\ g.at = "await"
      BY <1>2, <2>1, Elsewhere
    <2>3. Become(t, g) /\ ~Holds(g) /\ g.at # "compile"
      BY <1>5, <2>2 DEF Holds
    <2> QED
      BY <1>1, <1>5, <2>2, <2>3, UnclaimedKeeps, Zenon
  <1> QED
    BY <1>3, <1>4, <1>5 DEF Claim

\* AwaitLoaded.
LEMMA AwaitLoadedKeeps ==
    ASSUME IInv, NEW t \in Threads, AwaitLoaded(t)
    PROVE  IInv'
  <1>1. /\ stack[t] # <<>> /\ UNCHANGED <<loaded, loading, asked, published>>
        /\ ~Holds(Top(t))
    BY DEF AwaitLoaded, At, Top, Holds
  <1>2. CASE Top(t).m \in loaded /\ Return(t)
    BY <1>1, <1>2, ReturnedKeeps, Zenon
  <1>3. CASE Throw(t)
    BY <1>1, <1>3, ThrownKeeps, Zenon
  <1> QED
    BY <1>2, <1>3 DEF AwaitLoaded

\* Fail: the load keeps its claim until Abandon.
LEMMA FailKeeps ==
    ASSUME IInv, NEW t \in Threads, Fail(t)
    PROVE  IInv'
  <1>1. /\ stack[t] # <<>> /\ UNCHANGED <<loaded, loading, asked, published>>
        /\ Holds(Top(t))
    BY DEF Fail, At, Top, Holds
  <1>2. "unwind" \in Places /\ Top(t) \in Frames /\ Top(t).m \in Modules /\ loading[Top(t).m] = t
    BY <1>1, Facts DEF Places
  <1>3. PICK g \in Frames : /\ g = [Top(t) EXCEPT !.at = "unwind"]
                            /\ g.m = Top(t).m /\ g.at = "unwind"
    BY <1>2, Elsewhere
  <1>4. Become(t, g) /\ Holds(g) /\ g.at # "compile"
    BY <1>3 DEF Fail, Holds
  <1>5. PICK r \in Seq(Frames) :
              /\ stack' = [stack EXCEPT ![t] = r] /\ LoadsOK(r, loaded)
              /\ HeldBy(r) = HeldBy(stack[t]) \cup (IF Holds(g) THEN {g.m} ELSE {})
    BY <1>1, <1>3, <1>4, BecomeKeeps, Zenon
  <1>6. g.m \in HeldBy(stack[t])
    BY <1>2, <1>3, Facts
  <1>7. HeldBy(r) = HeldBy(stack[t])
    BY <1>4, <1>5, <1>6
  <1> QED
    BY <1>1, <1>5, <1>7, Moved, Zenon

\* Abandon: the claim goes with the load.
LEMMA AbandonKeeps ==
    ASSUME IInv, NEW t \in Threads, Abandon(t)
    PROVE  IInv'
  <1>1. /\ stack[t] # <<>> /\ UNCHANGED <<loaded, asked, published>> /\ Throw(t)
        /\ Holds(Top(t))
    BY DEF Abandon, At, Top, Holds
  <1>2. PICK m \in Modules : m = Top(t).m
    BY <1>1, Facts, Zenon
  <1>3. loading' = [loading EXCEPT ![m] = NoThread]
    BY <1>2, Zenon DEF Abandon
  <1>4. PICK r \in Seq(Frames) :
              /\ stack' = [stack EXCEPT ![t] = r] /\ LoadsOK(r, loaded)
              /\ HeldBy(r) = IF Holds(Top(t)) THEN HeldBy(stack[t]) \ {Top(t).m}
                             ELSE HeldBy(stack[t])
    BY <1>1, ThrowKeeps, Zenon
  <1>5. HeldBy(r) = HeldBy(stack[t]) \ {m}
    BY <1>1, <1>2, <1>4
  <1>6. /\ loading \in [Modules -> Threads \cup {NoThread}] /\ loading[m] = t
        /\ HeldBy(stack[t]) = {x \in Modules : loading[x] = t}
    BY <1>1, <1>2, Facts, Zenon
  <1>7. /\ loading' \in [Modules -> Threads \cup {NoThread}]
        /\ \A u \in Threads, x \in Modules : u # t => (loading'[x] = u <=> loading[x] = u)
    BY <1>3, <1>6, ConstantsAssumption
  <1>8. HeldBy(r) = {x \in Modules : loading'[x] = t}
    BY <1>3, <1>5, <1>6, ConstantsAssumption
  <1>9. LoadedIsClosed'
    BY <1>1 DEF IInv, LoadedIsClosed
  <1>10. /\ loaded' = loaded /\ loaded \subseteq loaded' /\ loaded' \subseteq Modules
         /\ asked' \in [Threads -> 0..MaxImports] /\ published' \in [Modules -> Nat]
    BY <1>1, Facts
  <1> QED
    BY <1>4, <1>7, <1>8, <1>9, <1>10, Moves, Zenon

\* Publish: nothing is left to import, and no load is above this one, so that
\* what the module imports is loaded.
LEMMA PublishKeeps ==
    ASSUME IInv, NEW t \in Threads, Publish(t)
    PROVE  IInv'
  <1>1. /\ stack[t] # <<>> /\ UNCHANGED asked /\ Return(t)
        /\ Top(t).at = "compile" /\ Top(t).todo = <<>> /\ Holds(Top(t))
    BY DEF Publish, At, Top, Holds
  <1>2. PICK m \in Modules : m = Top(t).m
    BY <1>1, Facts, Zenon
  <1>3. /\ loaded' = loaded \cup {m}
        /\ loading' = [loading EXCEPT ![m] = NoThread]
        /\ published' = [published EXCEPT ![m] = @ + 1]
    BY <1>2, Zenon DEF Publish
  <1>4. loaded \subseteq loaded' /\ Top(t).m \in loaded'
    BY <1>2, <1>3
  <1>5. PICK r \in Seq(Frames) :
              /\ stack' = [stack EXCEPT ![t] = r] /\ LoadsOK(r, loaded')
              /\ HeldBy(r) = IF Holds(Top(t)) THEN HeldBy(stack[t]) \ {Top(t).m}
                             ELSE HeldBy(stack[t])
    BY <1>1, <1>4, ReturnKeeps, Zenon
  <1>6. HeldBy(r) = HeldBy(stack[t]) \ {m}
    BY <1>1, <1>2, <1>5
  <1>7. /\ loading \in [Modules -> Threads \cup {NoThread}] /\ loading[m] = t
        /\ HeldBy(stack[t]) = {x \in Modules : loading[x] = t}
    BY <1>1, <1>2, Facts, Zenon
  <1>8. /\ loading' \in [Modules -> Threads \cup {NoThread}]
        /\ \A u \in Threads, x \in Modules : u # t => (loading'[x] = u <=> loading[x] = u)
    BY <1>3, <1>7, ConstantsAssumption
  <1>9. HeldBy(r) = {x \in Modules : loading'[x] = t}
    BY <1>3, <1>6, <1>7, ConstantsAssumption
  <1>10. LoadedIsClosed'
    <2>1. ASSUME NEW x \in Modules, NEW k \in DOMAIN Imports[m], Imports[m][k] = x
          PROVE  x \in loaded
      <3>1. 1 \in DOMAIN stack[t] /\ stack[t][1] = Top(t) /\ Covers(stack[t], loaded)
        BY <1>1, Facts DEF Placed, Top, IInv, LoadsOK
      <3>2. DOMAIN Top(t).todo = {}
        BY <1>1, EmptySeq
      <3> QED
        BY <1>1, <1>2, <2>1, <3>1, <3>2 DEF Covers
    <2>2. \A k \in DOMAIN Imports[m] : Imports[m][k] \in Modules
      BY ConstantsAssumption
    <2>3. \A k \in DOMAIN Imports[m] : Imports[m][k] \in loaded
      BY <2>1, <2>2, Zenon
    <2>4. LoadedIsClosed
      BY DEF IInv
    <2> QED
      BY <1>3, <2>3, <2>4 DEF LoadedIsClosed
  <1>11. /\ loaded' \subseteq Modules
         /\ asked' \in [Threads -> 0..MaxImports] /\ published' \in [Modules -> Nat]
    BY <1>1, <1>3, Facts
  <1> QED
    BY <1>4, <1>5, <1>8, <1>9, <1>10, <1>11, Moves, Zenon

\* CompileImport: the module imported next is being loaded, the others are still
\* to come.
LEMMA CompileImportKeeps ==
    ASSUME IInv, NEW t \in Threads, CompileImport(t)
    PROVE  IInv'
  <1>1. /\ stack[t] # <<>> /\ UNCHANGED <<loaded, loading, asked, published>>
        /\ Top(t).at = "compile" /\ Top(t).todo # <<>>
        /\ stack' = [stack EXCEPT ![t] = <<Load(Head(Top(t).todo)),
                                           [Top(t) EXCEPT !.todo = Tail(@)]>> \o Tail(stack[t])]
    BY DEF CompileImport, At, Top
  <1>2. stack[t] \in Seq(Frames) /\ LoadsOK(stack[t], loaded) /\ Top(t) \in Frames /\ Placed(stack[t])
    BY <1>1, Facts DEF IInv
  <1>3. PICK s : s = stack[t]
    BY Zenon
  <1>4. s \in Seq(Frames) /\ s # <<>> /\ LoadsOK(s, loaded) /\ Placed(s) /\ s[1] = Top(t)
    BY <1>1, <1>2, <1>3, Zenon DEF Top
  <1>5. Top(t).todo \in Seq(Modules)
    BY <1>2 DEF Frames
  <1>6. /\ Head(Top(t).todo) \in Modules /\ Tail(Top(t).todo) \in Seq(Modules)
        /\ \A x : (\E n \in DOMAIN Top(t).todo : Top(t).todo[n] = x) =>
                  \/ x = Head(Top(t).todo)
                  \/ \E n \in DOMAIN Tail(Top(t).todo) : Tail(Top(t).todo)[n] = x
    BY <1>1, <1>5, HeadOrTail, Zenon
  <1>7. PICK a : a = Load(Head(Top(t).todo))
    BY Zenon
  <1>8. a \in Frames /\ a.m = Head(Top(t).todo) /\ a.at = "find"
    BY <1>6, <1>7, Fresh, Zenon
  <1>9. PICK b : b = [Top(t) EXCEPT !.todo = Tail(@)]
    BY Zenon
  <1>10. b \in Frames /\ b.m = Top(t).m /\ b.at = "compile" /\ b.todo = Tail(Top(t).todo)
    <2>1. PICK q : q = Tail(Top(t).todo)
      BY Zenon
    <2>2. b = [Top(t) EXCEPT !.todo = q] /\ q \in Seq(Modules)
      BY <1>6, <1>9, <2>1, Zenon
    <2>3. b \in Frames /\ b.m = Top(t).m /\ b.at = "compile" /\ b.todo = q
      BY <1>1, <1>2, <2>2 DEF Frames
    <2> QED
      BY <2>1, <2>3, Zenon
  <1>11. PICK r : r = <<a, b>> \o Tail(s)
    BY Zenon
  <1>12. stack' = [stack EXCEPT ![t] = r]
    BY <1>1, <1>3, <1>7, <1>9, <1>11, Zenon
  <1>13. Pushed(s, r, a, b) /\ r \in Seq(Frames)
    <2>1. Pushed(s, r, a, b)
      BY <1>4, <1>8, <1>10, <1>11, Called, Zenon
    <2> QED
      BY <2>1, Zenon DEF Pushed
  <1>14. \A i \in DOMAIN r : i \in Nat \ {0}
    BY <1>13, Chain, Zenon
  <1>15. \A x : (\E n \in DOMAIN s[1].todo : s[1].todo[n] = x) =>
                  x = a.m \/ \E n \in DOMAIN b.todo : b.todo[n] = x
    BY <1>4, <1>6, <1>8, <1>10, Zenon
  <1>16. Calls(s, r, a, b)
    BY <1>1, <1>4, <1>8, <1>10, <1>13, <1>14, <1>15, Zenon DEF Calls, Pushed
  <1>17. LoadsOK(r, loaded) /\ HeldBy(r) = HeldBy(stack[t])
    BY <1>3, <1>4, <1>16, Calling, Zenon
  <1> QED
    BY <1>1, <1>12, <1>13, <1>17, Moved, Zenon

-----------------------------------------------------------------------------
(* The invariant holds, and with it what the runs check.                   *)

\* No thread has loads at first.
LEMMA InitKeeps == Init => IInv
  <1> SUFFICES ASSUME Init  PROVE IInv
    OBVIOUS
  <1>1. Types
    BY EmptySeq, ConstantsAssumption DEF Init, Types
  <1>2. ASSUME NEW t \in Threads
        PROVE  LoadsOK(stack[t], loaded) /\ HeldBy(stack[t]) = {m \in Modules : loading[m] = t}
    <2>1. DOMAIN stack[t] = {}
      BY EmptySeq DEF Init
    <2>2. LoadsOK(stack[t], loaded) /\ HeldBy(stack[t]) = {}
      BY <2>1 DEF LoadsOK, Nested, Single, Covers, HeldBy
    <2>3. {m \in Modules : loading[m] = t} = {}
      BY ConstantsAssumption DEF Init
    <2> QED
      BY <2>2, <2>3, Zenon
  <1>3. LoadedIsClosed
    BY DEF Init, LoadedIsClosed
  <1> QED
    BY <1>1, <1>2, <1>3, Zenon DEF IInv

\* Every step keeps the invariant.
LEMMA StepKeeps == IInv /\ [Next]_vars => IInv'
  <1> SUFFICES ASSUME IInv, [Next]_vars  PROVE IInv'
    OBVIOUS
  <1>1. CASE UNCHANGED vars
    BY <1>1 DEF vars, IInv, Types, LoadedIsClosed
  <1>2. ASSUME NEW t \in Threads, NEW m \in Modules, Import(t, m)  PROVE IInv'
    BY <1>2, ImportKeeps
  <1>3. ASSUME NEW t \in Threads, Step(t)  PROVE IInv'
    BY <1>3, FindKeeps, ClaimKeeps, AwaitLoadedKeeps, CompileImportKeeps, PublishKeeps,
       FailKeeps, AbandonKeeps, Zenon DEF Step
  <1> QED
    BY <1>1, <1>2, <1>3 DEF Next

\* The invariant of the module table.
THEOREM Invariant == Spec => []IInv
  BY InitKeeps, StepKeeps, PTL DEF Spec

\* LoadedIsClosed for any threads, modules and imports: whatever publish put in
\* loaded_ has its imports there, however loads interleave, fail and close cycles.
THEOREM LoadedIsClosedHolds == Spec => []LoadedIsClosed
  <1>1. IInv => LoadedIsClosed
    BY DEF IInv
  <1> QED
    BY <1>1, Invariant, PTL

\* A chain in order holds each claim once.
LEMMA OneClaim ==
    ASSUME NEW s, Single(s), NEW m \in Modules
    PROVE  LET C == {i \in DOMAIN s : s[i].m = m /\ s[i].at \in {"compile", "unwind"}}
           IN  Cardinality(C) = IF m \in HeldBy(s) THEN 1 ELSE 0
  <1> DEFINE C == {i \in DOMAIN s : s[i].m = m /\ s[i].at \in {"compile", "unwind"}}
  <1>1. \A i : i \in C <=> i \in DOMAIN s /\ s[i].m = m /\ Holds(s[i])
    BY DEF Holds
  <1> HIDE DEF C
  <1>2. CASE m \in HeldBy(s)
    <2>1. PICK i \in DOMAIN s : Holds(s[i]) /\ s[i].m = m
      BY <1>2, Zenon DEF HeldBy
    <2>2. \A j : j \in C <=> j = i
      BY <1>1, <2>1, Zenon DEF Single
    <2>3. C = {i}
      BY <2>2
    <2>4. Cardinality(C) = 1
      BY <2>3, FS_Singleton, Zenon
    <2> QED
      BY <1>2, <2>4 DEF C
  <1>3. CASE m \notin HeldBy(s)
    <2>1. C = {}
      BY <1>1, <1>3, Zenon DEF HeldBy
    <2>2. Cardinality(C) = 0
      BY <2>1, FS_EmptySet, Zenon
    <2> QED
      BY <1>3, <2>2 DEF C
  <1> QED
    BY <1>2, <1>3

\* The loads under the innermost one are of different modules, so that a chain is
\* no longer than there are modules, plus one.
LEMMA ChainBounded ==
    ASSUME NEW s \in Seq(Frames), Nested(s), Single(s)
    PROVE  Len(s) <= Cardinality(Modules) + 1
  <1>1. /\ Len(s) \in Nat /\ DOMAIN s = 1..Len(s) /\ \A i \in DOMAIN s : s[i] \in Frames
    OBVIOUS
  <1>2. \A i \in DOMAIN s : s[i].m \in Modules
    BY <1>1 DEF Frames
  <1>3. Cardinality(Modules) \in Nat
    BY ConstantsAssumption, FS_CardinalityType, Zenon
  <1>4. PICK f : f = [i \in 2..Len(s) |-> s[i].m]
    BY Zenon
  <1>5. \A i \in 2..Len(s) : i \in DOMAIN s /\ i # 1
    BY <1>1
  <1>6. f \in [2..Len(s) -> Modules]
    BY <1>2, <1>4, <1>5
  <1>7. \A i, j \in 2..Len(s) : f[i] = f[j] => i = j
    BY <1>4, <1>5 DEF Nested, Single, Holds
  <1>8. f \in Injection(2..Len(s), Modules)
    BY <1>6, <1>7 DEF Injection, IsInjective
  <1>9. Cardinality(2..Len(s)) <= Cardinality(Modules)
    BY <1>8, ConstantsAssumption, FS_Injection, Zenon
  <1>10. Cardinality(2..Len(s)) = IF 2 > Len(s) THEN 0 ELSE Len(s) - 2 + 1
    BY <1>1, FS_Interval
  <1> QED
    BY <1>1, <1>3, <1>9, <1>10

\* ClaimsMatchLoads for any threads, modules and imports: an entry of loading_ is
\* held by exactly one load of its thread, every load past claim holds one, and
\* no chain of loads is longer than there are modules, plus one.
THEOREM ClaimsMatchLoadsHolds == Spec => []ClaimsMatchLoads
  <1>1. ASSUME IInv  PROVE ClaimsMatchLoads
    <2>1. ASSUME NEW t \in Threads
          PROVE  /\ Len(stack[t]) <= Cardinality(Modules) + 1
                 /\ \A i \in DOMAIN stack[t] : /\ stack[t][i].m \in Modules
                                               /\ stack[t][i].at \in Places
                                               /\ stack[t][i].todo \in Seq(Modules)
      <3>1. stack[t] \in Seq(Frames) /\ Nested(stack[t]) /\ Single(stack[t])
        BY <1>1 DEF IInv, Types, LoadsOK
      <3>2. \A i \in DOMAIN stack[t] : stack[t][i] \in Frames
        BY <3>1, Chain, Zenon
      <3>3. \A fr \in Frames : fr.m \in Modules /\ fr.at \in Places /\ fr.todo \in Seq(Modules)
        BY DEF Frames
      <3> QED
        BY <3>1, <3>2, <3>3, ChainBounded, Zenon
    <2>2. TypeOK
      BY <1>1, <2>1, Zenon DEF TypeOK, IInv, Types, Places
    <2>3. ASSUME NEW t \in Threads, NEW m \in Modules
          PROVE  Cardinality(Claims(t, m)) = IF loading[m] = t THEN 1 ELSE 0
      <3>1. Single(stack[t]) /\ HeldBy(stack[t]) = {x \in Modules : loading[x] = t}
        BY <1>1 DEF IInv, LoadsOK
      <3>2. m \in HeldBy(stack[t]) <=> loading[m] = t
        BY <3>1
      <3>3. Cardinality(Claims(t, m)) = IF m \in HeldBy(stack[t]) THEN 1 ELSE 0
        BY <3>1, OneClaim DEF Claims
      <3> QED
        BY <3>2, <3>3
    <2> QED
      BY <2>2, <2>3 DEF ClaimsMatchLoads
  <1> QED
    BY <1>1, Invariant, PTL
=============================================================================
