-------------------------- MODULE ReadyStackProofs --------------------------
(***************************************************************************)
(* For any number of threads, values and pushes: no node of the pool is    *)
(* lost, shared or linked twice, no thread follows an index into a chunk   *)
(* that is not installed, and the stack implements an atomic last-in-      *)
(* first-out stack.                                                        *)
(*                                                                         *)
(* The argument names the two lists the heads stand for.  L[h] is the      *)
(* sequence of nodes of head h, the top last, and the inductive invariant  *)
(* says that the links spell out L.  A compare-and-swap that succeeds      *)
(* appends to L[h] or drops its last node, and every other step leaves L   *)
(* alone.                                                                  *)
(***************************************************************************)
EXTENDS ReadyStack, FiniteSetTheorems, WellFoundedInduction, TLAPS

\* The nodes of a sequence, and that none is in it twice.
On(s) == {s[i] : i \in 1..Len(s)}
Distinct(s) == \A i, j \in 1..Len(s) : s[i] = s[j] => i = j

\* The nodes of s, the top last, are those found from index i through the
\* links x.
Spells(s, i, x) ==
    /\ i = IF s = <<>> THEN kNil ELSE s[Len(s)]
    /\ \A j \in 1..Len(s) : x[s[j]] = IF j = 1 THEN kNil ELSE s[j - 1]

Linking == {"link_load", "link_store", "link_cas"}
Unlinking == {"unlink_next", "unlink_cas"}

\* The lists, who owns what is in neither, and what a node in a list has.
Lists(L, hs, x) ==
    /\ L \in [Heads -> Seq(Nodes)]
    /\ \A h \in Heads : Spells(L[h], hs[h].idx, x) /\ Distinct(L[h])
    /\ On(L["stack"]) \cap On(L["free"]) = {}

Owners(L, ix, fresh) ==
    /\ \A t \in Threads : ix[t] # kNil =>
          /\ ix[t] < fresh
          /\ \A h \in Heads : ix[t] \notin On(L[h])
          /\ \A u \in Threads : ix[u] = ix[t] => u = t
    /\ \A h \in Heads : \A n \in On(L[h]) : n < fresh
    /\ \A n \in Nodes : n < fresh =>
          (\E h \in Heads : n \in On(L[h])) \/ (\E t \in Threads : ix[t] = n)

Contents(L, c, v, fresh) ==
    /\ \A h \in Heads : \A n \in On(L[h]) : ChunkOf(n) \in c
    /\ \A n \in On(L["stack"]) : v[n] \in Values
    /\ \A n \in Nodes : n >= fresh => v[n] = NoValue

\* A push that has no node yet.
Wants(t) == pc[t] \in {"unlink_load", "fresh"} \cup Unlinking /\ hd[t] = "free"

\* What the locals of a call are at place p of it: the head h, the node i,
\* the argument a and the word o it read, with the values v and the chunks c.
Local(p, h, i, a, o, v, c) ==
    /\ i # kNil <=> p \in Linking \cup {"chunk"}
    /\ p \in {"fresh", "chunk"} => h = "free"
    /\ p \in {"unlink_load", "fresh", "chunk"} \cup Unlinking /\ h = "free" => a \in Values
    /\ p = "link_load" /\ h = "stack" => a \in Values
    /\ p \in Linking /\ (p = "link_load" => h = "free") => v[i] \in Values
    /\ p = "chunk" => v[i] = NoValue
    /\ p \in Linking => ChunkOf(i) \in c
    /\ p \in Unlinking => o.idx # kNil /\ ChunkOf(o.idx) \in c

Locals == \A t \in Threads : Local(pc[t], hd[t], idx[t], arg[t], old[t], value, chunks)

\* What a call at place p knows of the head h it read as o, with s the link it
\* read after it, i its node, hs the heads and x the links: if the generation
\* has not moved neither has the head, and then s is the link of its node still.
View(p, h, i, o, s, hs, x) ==
    /\ p \in {"unlink_next", "unlink_cas", "link_store", "link_cas"} =>
          o.gen <= hs[h].gen /\ (o.gen = hs[h].gen => o = hs[h])
    /\ p = "unlink_cas" /\ o = hs[h] => s = x[o.idx]
    /\ p = "link_cas" => x[i] = o.idx

Views == \A t \in Threads : View(pc[t], hd[t], idx[t], old[t], succ[t], head, next)

\* Every node handed out, and every node a push still wants, is a push begun.
Wanting == {t \in Threads : Wants(t)}
Counted == nextFresh + Cardinality(Wanting) <= pushes

IInv(L) ==
    /\ TypeOK /\ Locals /\ Views /\ Counted
    /\ Lists(L, head, next) /\ Owners(L, idx, nextFresh) /\ Contents(L, chunks, value, nextFresh)

-----------------------------------------------------------------------------
(* Sequences of nodes.                                                     *)

\* Where the elements of a longer and of a shorter sequence are.
LEMMA Appended ==
    ASSUME NEW S, NEW s \in Seq(S), NEW e \in S, e \notin On(s), Distinct(s)
    PROVE  /\ Append(s, e) \in Seq(S)
           /\ On(Append(s, e)) = On(s) \cup {e}
           /\ Distinct(Append(s, e))
  <1> DEFINE r == Append(s, e)
  <1>1. /\ r \in Seq(S) /\ Len(s) \in Nat /\ Len(r) = Len(s) + 1
        /\ r[Len(s) + 1] = e /\ \A i \in 1..Len(s) : r[i] = s[i]
    OBVIOUS
  <1> HIDE DEF r
  <1>2. On(r) = On(s) \cup {e}
    BY <1>1 DEF On
  <1>3. Distinct(r)
    BY <1>1 DEF Distinct, On
  <1> QED
    BY <1>1, <1>2, <1>3, Zenon DEF r

\* A sequence without its last element: its length and its elements.
LEMMA Shorter ==
    ASSUME NEW S, NEW s \in Seq(S), s # <<>>
    PROVE  /\ SubSeq(s, 1, Len(s) - 1) \in Seq(S)
           /\ Len(s) \in Nat \ {0}
           /\ Len(SubSeq(s, 1, Len(s) - 1)) = Len(s) - 1
           /\ SubSeq(s, 1, Len(s) - 1) = <<>> <=> Len(s) = 1
           /\ \A i \in 1..(Len(s) - 1) : SubSeq(s, 1, Len(s) - 1)[i] = s[i]
  <1>1. Len(s) \in Nat \ {0}
    OBVIOUS
  <1>2. \A i \in 1..(Len(s) - 1) : s[i] \in S
    BY <1>1
  <1>3. /\ SubSeq(s, 1, Len(s) - 1) \in Seq(S)
        /\ DOMAIN SubSeq(s, 1, Len(s) - 1) = 1..(Len(s) - 1)
        /\ \A i \in 1..(Len(s) - 1) : SubSeq(s, 1, Len(s) - 1)[i] = s[i]
    BY <1>1, <1>2
  <1>4. ASSUME NEW r \in Seq(S), NEW n \in Nat, DOMAIN r = 1..n
        PROVE  Len(r) = n /\ (r = <<>> <=> n = 0)
    <2>1. Len(r) \in Nat /\ DOMAIN r = 1..Len(r) /\ (r = <<>> <=> Len(r) = 0)
      OBVIOUS
    <2>2. ASSUME 1..Len(r) = 1..n PROVE Len(r) = n
      <3>1. Len(r) > n => Len(r) \in 1..Len(r) /\ Len(r) \notin 1..n
        BY <2>1
      <3>2. n > Len(r) => n \in 1..n /\ n \notin 1..Len(r)
        BY <2>1
      <3>3. ~(Len(r) > n) /\ ~(n > Len(r))
        BY <2>2, <3>1, <3>2, Zenon
      <3>4. \A m \in Nat : ~(m > n) /\ ~(n > m) => m = n
        OBVIOUS
      <3> QED
        BY <2>1, <3>3, <3>4, Zenon
    <2> QED
      BY <1>4, <2>1, <2>2, Zenon
  <1>5. Len(s) - 1 \in Nat /\ (Len(s) - 1 = 0 <=> Len(s) = 1)
    BY <1>1
  <1>6. /\ Len(SubSeq(s, 1, Len(s) - 1)) = Len(s) - 1
        /\ SubSeq(s, 1, Len(s) - 1) = <<>> <=> Len(s) - 1 = 0
    BY <1>3, <1>4, <1>5, Zenon
  <1> QED
    BY <1>1, <1>3, <1>5, <1>6, Zenon

\* Unlinking the last node takes it off the nodes of the list and leaves the
\* others distinct.
LEMMA Shortened ==
    ASSUME NEW S, NEW s \in Seq(S), s # <<>>, Distinct(s)
    PROVE  /\ SubSeq(s, 1, Len(s) - 1) \in Seq(S)
           /\ On(SubSeq(s, 1, Len(s) - 1)) = On(s) \ {s[Len(s)]}
           /\ Distinct(SubSeq(s, 1, Len(s) - 1))
           /\ s[Len(s)] \in On(s)
  <1> DEFINE r == SubSeq(s, 1, Len(s) - 1)
  <1>1. /\ r \in Seq(S) /\ Len(s) \in Nat \ {0} /\ Len(r) = Len(s) - 1
        /\ \A i \in 1..(Len(s) - 1) : r[i] = s[i]
    BY Shorter, Zenon
  <1> HIDE DEF r
  <1>2. On(r) = On(s) \ {s[Len(s)]}
    BY <1>1 DEF On, Distinct
  <1>3. Distinct(r)
    BY <1>1 DEF Distinct
  <1>4. s[Len(s)] \in On(s)
    BY <1>1 DEF On
  <1> QED
    BY <1>1, <1>2, <1>3, <1>4, Zenon DEF r

\* linkFront's compare-and-swap: the head points to a node whose link is the
\* old head.
LEMMA SpellsAppended ==
    ASSUME NEW s \in Seq(Nodes), NEW e \in Nodes, NEW i, NEW x, Spells(s, i, x), x[e] = i
    PROVE  Spells(Append(s, e), e, x)
  <1> DEFINE r == Append(s, e)
  <1>1. /\ Len(s) \in Nat /\ Len(r) = Len(s) + 1 /\ r # <<>> /\ (s = <<>> <=> Len(s) = 0)
        /\ r[Len(s) + 1] = e /\ \A j \in 1..Len(s) : r[j] = s[j]
    OBVIOUS
  <1> HIDE DEF r
  <1>2. ASSUME NEW j \in 1..Len(r) PROVE x[r[j]] = IF j = 1 THEN kNil ELSE r[j - 1]
    <2>1. CASE j = Len(s) + 1
      BY <1>1, <2>1 DEF Spells
    <2>2. CASE j \in 1..Len(s)
      BY <1>1, <2>2 DEF Spells
    <2> QED
      BY <1>1, <2>1, <2>2
  <1> QED
    BY <1>1, <1>2, Zenon DEF Spells, r

\* unlinkFront's compare-and-swap: the head points to what the old top's link
\* named.
LEMMA SpellsShortened ==
    ASSUME NEW s \in Seq(Nodes), NEW i, NEW x, Spells(s, i, x), i # kNil
    PROVE  /\ s # <<>> /\ i = s[Len(s)]
           /\ Spells(SubSeq(s, 1, Len(s) - 1), x[i], x)
  <1> DEFINE r == SubSeq(s, 1, Len(s) - 1)
  <1>1. s # <<>> /\ i = s[Len(s)]
    BY Zenon DEF Spells
  <1>2. /\ Len(s) \in Nat \ {0} /\ Len(r) = Len(s) - 1 /\ (r = <<>> <=> Len(s) = 1)
        /\ \A j \in 1..(Len(s) - 1) : r[j] = s[j]
    BY <1>1, Shorter, Zenon
  <1> HIDE DEF r
  <1>3. x[i] = IF r = <<>> THEN kNil ELSE r[Len(r)]
    BY <1>1, <1>2 DEF Spells
  <1>4. \A j \in 1..Len(r) : x[r[j]] = IF j = 1 THEN kNil ELSE r[j - 1]
    BY <1>2 DEF Spells
  <1> QED
    BY <1>1, <1>3, <1>4, Zenon DEF Spells, r

\* linkFront's store: the link of a node that is in no list may be rewritten.
LEMMA SpellsKept ==
    ASSUME NEW s \in Seq(Nodes), NEW i, NEW x \in [Nodes -> Nodes \cup {kNil}],
           NEW e, NEW y, Spells(s, i, x), e \notin On(s)
    PROVE  Spells(s, i, [x EXCEPT ![e] = y])
  <1>1. \A j \in 1..Len(s) : s[j] # e
    BY Zenon DEF On
  <1>2. \A j \in 1..Len(s) : s[j] \in Nodes
    OBVIOUS
  <1>3. \A j \in 1..Len(s) : [x EXCEPT ![e] = y][s[j]] = x[s[j]]
    BY <1>1, <1>2, Zenon
  <1> QED
    BY <1>3, Zenon DEF Spells

\* What is on a list is a node.
LEMMA OnNodes ==
    ASSUME NEW s \in Seq(Nodes)
    PROVE  /\ \A n \in On(s) : n \in Nodes /\ n # kNil
           /\ \A k \in 1..Len(s) : s[k] \in On(s) /\ s[k] \in Nodes
  BY ConstantsAssumption DEF On, Nodes, kNil

-----------------------------------------------------------------------------
(* The lists the properties read off the heads.                            *)

\* A set of numbers that is not empty has a least one.
LEMMA LeastNat ==
    ASSUME NEW T, T \subseteq Nat, T # {}
    PROVE  \E x \in T : \A y \in T : x <= y
  <1>1. IsWellFoundedOn(OpToRel(<, Nat), Nat)
    BY NatLessThanWellFounded, Zenon
  <1>2. \E x \in T : \A y \in T : ~(<<y, x>> \in OpToRel(<, Nat))
    BY <1>1, WFMin, Zenon
  <1>3. ASSUME NEW x \in Nat, NEW y \in Nat, ~(<<y, x>> \in OpToRel(<, Nat))
        PROVE  x <= y
    BY <1>3 DEF OpToRel
  <1> QED
    BY <1>2, <1>3, Zenon

\* f is the walk from index i through the links x, as Path defines it.
Size == Cardinality(Nodes)
Walks(f, i, x) ==
    f = [k \in 0..Size |-> IF k = 0 THEN i ELSE IF f[k - 1] = kNil THEN kNil ELSE x[f[k - 1]]]
Down(s) == [k \in 0..Size |-> IF k < Len(s) THEN s[Len(s) - k] ELSE kNil]
IsPath(p, i, x) == p = CHOOSE f : Walks(f, i, x)
DepthOf(p) == Cardinality({k \in DOMAIN p : p[k] # kNil})
NodesOf(p) == {p[k] : k \in DOMAIN p} \ {kNil}
Reads(p, s) ==
    /\ DepthOf(p) = Len(s) /\ NodesOf(p) = On(s)
    /\ \A j \in 1..Len(s) : p[Len(s) - j] = s[j]

\* The pool is finite and as large as the number of pushes.
LEMMA SizeIsNat == Size \in Nat /\ IsFiniteSet(Nodes) /\ Size = MaxPushes
  <1>1. 0 \in Int /\ MaxPushes - 1 \in Int /\ MaxPushes \in Nat
    BY ConstantsAssumption
  <1>2. IsFiniteSet(Nodes) /\ Cardinality(Nodes) = IF 0 > MaxPushes - 1 THEN 0 ELSE (MaxPushes - 1) - 0 + 1
    BY <1>1, FS_Interval, Zenon DEF Nodes
  <1> QED
    BY <1>1, <1>2 DEF Size

\* The walk through the links that spell s is s from the top.
LEMMA DownWalks ==
    ASSUME NEW s \in Seq(Nodes), NEW i, NEW x, Spells(s, i, x)
    PROVE  Walks(Down(s), i, x)
  <1>1. /\ Len(s) \in Nat /\ (s = <<>> <=> Len(s) = 0)
        /\ \A j \in 1..Len(s) : s[j] \in Nodes /\ s[j] # kNil
    BY ConstantsAssumption DEF Nodes, kNil
  <1> DEFINE f == Down(s)
  <1>2. /\ \A k \in 0..Size : f[k] = IF k < Len(s) THEN s[Len(s) - k] ELSE kNil
        /\ f = [k \in 0..Size |-> f[k]]
    BY Zenon DEF Down
  <1> HIDE DEF f
  <1>3. ASSUME NEW k \in 0..Size
        PROVE f[k] = IF k = 0 THEN i ELSE IF f[k - 1] = kNil THEN kNil ELSE x[f[k - 1]]
    <2>0. k \in Nat /\ (k # 0 => k - 1 \in 0..Size)
      BY SizeIsNat
    <2>1. CASE k = 0
      BY <1>1, <1>2, <2>1 DEF Spells
    <2>2. CASE k # 0 /\ k - 1 < Len(s)
      <3>1. f[k - 1] = s[Len(s) - (k - 1)] /\ Len(s) - (k - 1) \in 1..Len(s)
        BY <1>1, <1>2, <2>0, <2>2
      <3>2. x[s[Len(s) - (k - 1)]] = IF Len(s) - (k - 1) = 1 THEN kNil ELSE s[Len(s) - (k - 1) - 1]
        BY <3>1, Zenon DEF Spells
      <3>3. (Len(s) - (k - 1) = 1 <=> ~(k < Len(s))) /\ Len(s) - (k - 1) - 1 = Len(s) - k
        BY <1>1, <2>0, <2>2
      <3>4. f[k - 1] # kNil
        BY <1>1, <3>1, Zenon
      <3> QED
        BY <1>2, <2>2, <3>1, <3>2, <3>3, <3>4, Zenon
    <2>3. CASE k # 0 /\ ~(k - 1 < Len(s))
      <3>1. f[k - 1] = kNil
        BY <1>2, <2>0, <2>3, Zenon
      <3>2. ~(k < Len(s))
        BY <1>1, <2>0, <2>3
      <3> QED
        BY <1>2, <2>3, <3>1, <3>2, Zenon
    <2> QED
      BY <2>1, <2>2, <2>3, Zenon
  <1> QED
    BY <1>2, <1>3, Zenon DEF Walks, f

\* There is one walk: two that differed would differ first somewhere.
LEMMA WalksAgree ==
    ASSUME NEW i, NEW x, NEW f, NEW g, Walks(f, i, x), Walks(g, i, x)
    PROVE  f = g
  <1> DEFINE T == {k \in 0..Size : f[k] # g[k]}
  <1>1. SUFFICES ASSUME T # {} PROVE FALSE
    <2>1. f = [k \in 0..Size |-> f[k]] /\ g = [k \in 0..Size |-> g[k]]
      BY Zenon DEF Walks
    <2> QED
      BY <2>1, <1>1, Zenon
  <1>2. PICK k \in T : \A j \in T : k <= j
    <2>1. T \subseteq Nat
      BY SizeIsNat
    <2> HIDE DEF T
    <2> QED
      BY <1>1, <2>1, LeastNat, Zenon
  <1>3. \A j \in 0..Size :
           /\ f[j] = IF j = 0 THEN i ELSE IF f[j - 1] = kNil THEN kNil ELSE x[f[j - 1]]
           /\ g[j] = IF j = 0 THEN i ELSE IF g[j - 1] = kNil THEN kNil ELSE x[g[j - 1]]
    BY Zenon DEF Walks
  <1>4. CASE k = 0
    BY <1>2, <1>3, <1>4, Zenon
  <1>5. CASE k # 0
    <2>1. k - 1 \in 0..Size /\ k - 1 \notin T
      BY <1>2, <1>5, SizeIsNat
    <2>2. f[k - 1] = g[k - 1]
      BY <2>1, Zenon
    <2> QED
      BY <1>2, <1>3, <1>5, <2>2
  <1> QED
    BY <1>4, <1>5, Zenon

\* A list holds no node twice, so it is no longer than the pool.
LEMMA InThePool ==
    ASSUME NEW s \in Seq(Nodes), Distinct(s)
    PROVE  Len(s) \in Nat /\ Len(s) <= Size
  <1>1. Len(s) \in Nat /\ s \in [1..Len(s) -> Nodes]
    OBVIOUS
  <1>2. 1 \in Int /\ Len(s) \in Int
    BY <1>1
  <1>3. IsFiniteSet(1..Len(s)) /\ Cardinality(1..Len(s)) = IF 1 > Len(s) THEN 0 ELSE Len(s) - 1 + 1
    BY <1>2, FS_Interval, Zenon
  <1>4. s \in Injection(1..Len(s), Nodes)
    BY <1>1, Zenon DEF Distinct, Injection, IsInjective
  <1>5. Cardinality(1..Len(s)) <= Size
    BY <1>3, <1>4, SizeIsNat, FS_Injection, Zenon DEF Size
  <1> QED
    BY <1>1, <1>3, <1>5, SizeIsNat

\* What Path, Depth, Listed and StackValues are of a head whose list is s.
LEMMA ListRead ==
    ASSUME NEW s \in Seq(Nodes), NEW i, NEW x, Spells(s, i, x), Distinct(s),
           NEW p, IsPath(p, i, x)
    PROVE  Reads(p, s)
  <1>1. p = Down(s)
    BY DownWalks, WalksAgree, Zenon DEF IsPath
  <1>2. /\ DOMAIN p = 0..Size
        /\ \A k \in 0..Size : p[k] = IF k < Len(s) THEN s[Len(s) - k] ELSE kNil
    BY <1>1, Zenon DEF Down
  <1>3. Len(s) \in Nat /\ Len(s) <= Size /\ Size \in Nat
    BY InThePool, SizeIsNat, Zenon
  <1>4. \A j \in 1..Len(s) : s[j] # kNil
    BY ConstantsAssumption DEF Nodes, kNil
  <1>5. \A k \in 0..Size : p[k] # kNil <=> k < Len(s)
    BY <1>2, <1>3, <1>4
  <1>6. Cardinality({k \in DOMAIN p : p[k] # kNil}) = Len(s)
    <2>0. \A k : k \in 0..(Len(s) - 1) <=> k \in 0..Size /\ k < Len(s)
      BY <1>3
    <2>1. {k \in DOMAIN p : p[k] # kNil} = 0..(Len(s) - 1)
      BY <1>2, <1>5, <2>0, Zenon
    <2>2. 0 \in Int /\ Len(s) - 1 \in Int
      BY <1>3
    <2>3. Cardinality(0..(Len(s) - 1)) = IF 0 > Len(s) - 1 THEN 0 ELSE (Len(s) - 1) - 0 + 1
      BY <2>2, FS_Interval, Zenon
    <2>4. (IF 0 > Len(s) - 1 THEN 0 ELSE (Len(s) - 1) - 0 + 1) = Len(s)
      BY <1>3
    <2> QED
      BY <2>1, <2>3, <2>4, Zenon
  <1>7. \A j \in 1..Len(s) : Len(s) - j \in 0..Size /\ p[Len(s) - j] = s[j]
    BY <1>2, <1>3
  <1>8. {p[k] : k \in DOMAIN p} \ {kNil} = On(s)
    <2>1. ASSUME NEW k \in 0..Size, p[k] # kNil PROVE p[k] \in On(s)
      <3>1. k < Len(s) /\ Len(s) - k \in 1..Len(s)
        BY <1>3, <1>5, <2>1
      <3> QED
        BY <1>2, <3>1, Zenon DEF On
    <2>2. ASSUME NEW j \in 1..Len(s) PROVE \E k \in 0..Size : p[k] = s[j]
      BY <1>7, Zenon
    <2>3. ASSUME NEW n \in {p[k] : k \in DOMAIN p} \ {kNil} PROVE n \in On(s)
      BY <1>2, <2>1, Zenon
    <2>4. ASSUME NEW n \in On(s) PROVE n \in {p[k] : k \in DOMAIN p} \ {kNil}
      <3>1. PICK j \in 1..Len(s) : n = s[j]
        BY Zenon DEF On
      <3>2. PICK k \in 0..Size : p[k] = n
        BY <2>2, <3>1, Zenon
      <3> QED
        BY <1>2, <1>4, <3>1, <3>2, Zenon
    <2> QED
      BY <2>3, <2>4, Zenon
  <1> QED
    BY <1>6, <1>7, <1>8, Zenon DEF DepthOf, NodesOf, Reads

\* Path, before and after a step, is the walk that the lemmas above speak of.
LEMMA PathIs ==
    ASSUME NEW h
    PROVE  IsPath(Path(h), head[h].idx, next) /\ IsPath(Path(h)', head'[h].idx, next')
  BY Zenon DEF Path, IsPath, Walks, Size

-----------------------------------------------------------------------------
(* Counting and types.                                                     *)

\* The steps of thread t, and a push that gets its node or begins.
Does(t) == Step(t) \/ Pop(t) \/ \E v \in Values : Push(t, v)

\* A push that takes a fresh index finds one in the pool: the nodes handed out
\* and the pushes that wait for one are pushes begun.
LEMMA FreshFits ==
    ASSUME TypeOK, Locals, Counted, NEW t \in Threads, pc[t] = "fresh"
    PROVE  nextFresh \in Nodes /\ nextFresh + 1 \in 0..MaxPushes
  <1>1. IsFiniteSet(Wanting)
    BY ConstantsAssumption, FS_Subset, Zenon DEF Wanting
  <1>2. t \in Wanting
    BY Zenon DEF Wanting, Wants, Locals, Local
  <1>3. Cardinality(Wanting) \in Nat /\ Cardinality(Wanting) # 0
    BY <1>1, <1>2, FS_EmptySet, FS_CardinalityType, Zenon
  <1>4. nextFresh \in 0..MaxPushes /\ pushes \in 0..MaxPushes /\ MaxPushes \in Nat
    BY ConstantsAssumption, Zenon DEF TypeOK
  <1> DEFINE c == Cardinality(Wanting)
  <1>5. c \in Nat /\ c # 0 /\ nextFresh + c <= pushes
    BY <1>3, Zenon DEF Counted
  <1> HIDE DEF c
  <1> QED
    BY <1>4, <1>5 DEF Nodes

\* How many threads want a node when only t's place has changed.
LEMMA CountStep ==
    ASSUME NEW W, NEW X, NEW t \in Threads, W \subseteq Threads,
           X = W \/ X = W \ {t} \/ X = W \cup {t}
    PROVE  /\ Cardinality(W) \in Nat /\ Cardinality(X) \in Nat
           /\ Cardinality(X) <= Cardinality(W) + 1
           /\ X \subseteq W => Cardinality(X) <= Cardinality(W)
           /\ X = W \ {t} /\ t \in W => Cardinality(X) + 1 = Cardinality(W)
  <1>1. IsFiniteSet(W) /\ Cardinality(W) \in Nat
    BY ConstantsAssumption, FS_Subset, FS_CardinalityType, Zenon
  <1>2. CASE t \in W
    <2>1. IsFiniteSet(W \ {t}) /\ Cardinality(W \ {t}) = Cardinality(W) - 1
      BY <1>1, <1>2, FS_RemoveElement, Zenon
    <2>2. Cardinality(W \ {t}) \in Nat
      BY <2>1, FS_CardinalityType, Zenon
    <2>3. X = W \/ X = W \ {t}
      BY <1>2, Zenon
    <2> QED
      BY <1>1, <1>2, <2>1, <2>2, <2>3
  <1>3. CASE t \notin W
    <2>1. IsFiniteSet(W \cup {t}) /\ Cardinality(W \cup {t}) = Cardinality(W) + 1
      BY <1>1, <1>3, FS_AddElement
    <2>2. Cardinality(W \cup {t}) \in Nat
      BY <2>1, FS_CardinalityType, Zenon
    <2>3. X = W \/ (X = W \cup {t} /\ ~(X \subseteq W))
      BY <1>3, Zenon
    <2> QED
      BY <1>1, <1>3, <2>1, <2>2, <2>3
  <1> QED
    BY <1>2, <1>3, Zenon

\* The locals of a call that is past a load are indices of the pool.
LEMMA Indices ==
    ASSUME TypeOK, Locals, NEW t \in Threads
    PROVE  /\ pc[t] \in Linking \cup {"chunk"} => idx[t] \in Nodes
           /\ pc[t] \in Unlinking => old[t].idx \in Nodes
           /\ hd[t] \in Heads /\ head[hd[t]].idx \in Nodes \cup {kNil} /\ head[hd[t]].gen \in Nat
           /\ old[t].idx \in Nodes \cup {kNil} /\ old[t].gen \in Nat
           /\ head[hd[t]] \in [gen : Nat, idx : Nodes \cup {kNil}]
           /\ old[t] \in [gen : Nat, idx : Nodes \cup {kNil}]
           /\ arg[t] \in Values \cup {NoValue} /\ succ[t] \in Nodes \cup {kNil}
           /\ kNil \in Nat /\ kNil \notin Nodes
  <1>1. /\ hd[t] \in Heads /\ idx[t] \in Nodes \cup {kNil}
        /\ old[t] \in [gen : Nat, idx : Nodes \cup {kNil}]
        /\ head \in [Heads -> [gen : Nat, idx : Nodes \cup {kNil}]]
        /\ arg[t] \in Values \cup {NoValue} /\ succ[t] \in Nodes \cup {kNil}
    BY Zenon DEF TypeOK
  <1>2. head[hd[t]] \in [gen : Nat, idx : Nodes \cup {kNil}]
    BY <1>1, Zenon
  <1>3. kNil \in Nat /\ kNil \notin Nodes
    BY ConstantsAssumption DEF kNil, Nodes
  <1> QED
    BY <1>1, <1>2, <1>3, Zenon DEF Locals, Local

Words == [gen : Nat, idx : Nodes \cup {kNil}]
Places == {"idle", "unlink_load", "unlink_next", "unlink_cas", "fresh",
           "chunk", "link_load", "link_store", "link_cas"}

\* The shared fields and the locals, apart.
SharedOK ==
    /\ head \in [Heads -> Words] /\ next \in [Nodes -> Nodes \cup {kNil}]
    /\ value \in [Nodes -> Values \cup {NoValue}] /\ nextFresh \in 0..MaxPushes
    /\ chunks \subseteq {ChunkOf(n) : n \in Nodes} /\ size \in Int /\ pushes \in 0..MaxPushes
LocalsOK ==
    /\ pc \in [Threads -> Places] /\ hd \in [Threads -> Heads] /\ old \in [Threads -> Words]
    /\ succ \in [Threads -> Nodes \cup {kNil}] /\ idx \in [Threads -> Nodes \cup {kNil}]
    /\ arg \in [Threads -> Values \cup {NoValue}]

\* The type invariant is that of the shared words and that of the locals.
LEMMA TypeParts == (TypeOK <=> SharedOK /\ LocalsOK) /\ (TypeOK' <=> SharedOK' /\ LocalsOK')
  BY Zenon DEF TypeOK, SharedOK, LocalsOK, Words, Places

\* unlinkFront's two ways on, with the head it has just read.
LEMMA UnlinkTypes ==
    ASSUME SharedOK, LocalsOK, NEW t \in Threads, UNCHANGED <<shared, pushes>>, head[hd[t]] \in Words,
           UnlinkEmpty(t, head[hd[t]]) \/ UnlinkGo(t, head[hd[t]])
    PROVE  SharedOK' /\ LocalsOK'
  <1>1. SharedOK'
    BY Zenon DEF SharedOK, shared
  <1>2. Nowhere \in Words /\ kNil \in Nodes \cup {kNil}
    BY ConstantsAssumption DEF Nowhere, Words
  <1>3. CASE Return(t)
    BY <1>1, <1>2, <1>3, Zenon DEF LocalsOK, Return, Goto, Places, Heads
  <1>4. CASE Goto(t, "fresh") /\ UNCHANGED locals
    BY <1>1, <1>4, Zenon DEF LocalsOK, Goto, locals, Places
  <1>5. CASE UnlinkGo(t, head[hd[t]])
    BY <1>1, <1>5 DEF LocalsOK, UnlinkGo, Goto, Places
  <1> QED
    BY <1>1, <1>3, <1>4, <1>5, Zenon DEF UnlinkEmpty

\* Every step keeps the types.
LEMMA TypesStep ==
    ASSUME NEW L, IInv(L), NEW t \in Threads, Does(t)
    PROVE  TypeOK'
  <1> USE DEF Goto
  <1>1. SharedOK /\ LocalsOK /\ Locals /\ TypeOK /\ Counted
    BY TypeParts, Zenon DEF IInv
  <1>2. /\ hd[t] \in Heads /\ head[hd[t]] \in Words /\ old[t] \in Words /\ succ[t] \in Nodes \cup {kNil}
        /\ arg[t] \in Values \cup {NoValue} /\ old[t].idx \in Nodes \cup {kNil}
        /\ idx[t] \in Nodes \cup {kNil}
    BY <1>1, Indices, Zenon DEF Words, LocalsOK
  <1>3. Nowhere \in Words /\ kNil \in Nodes \cup {kNil}
    BY ConstantsAssumption, Zenon DEF Nowhere, Words
  <1>4. ASSUME NEW n \in Nodes \cup {kNil} PROVE Bumped(old[t], n) \in Words
    BY <1>2 DEF Bumped, Words
  <1>5. pc[t] \in Linking \cup {"chunk"} => idx[t] \in Nodes
    BY <1>1, Indices, Zenon
  <1>6. SUFFICES SharedOK' /\ LocalsOK'
    BY TypeParts, Zenon
  <1>7. CASE \E v \in Values : Push(t, v)
    BY <1>1, <1>7, ConstantsAssumption DEF Push, SharedOK, LocalsOK, shared, Places, Heads
  <1>8. CASE Pop(t)
    BY <1>1, <1>8, Zenon DEF Pop, SharedOK, LocalsOK, shared, Places, Heads
  <1>9. CASE UnlinkLoad(t) \/ UnlinkRetry(t)
    BY <1>1, <1>2, <1>9, UnlinkTypes, Zenon DEF UnlinkLoad, UnlinkRetry
  <1>10. CASE UnlinkNext(t)
    <2>1. next[old[t].idx] \in Nodes \cup {kNil}
      BY <1>1, <1>10, Indices, Zenon DEF UnlinkNext, Unlinking, SharedOK
    <2> QED
      BY <1>1, <1>10, <2>1, Zenon DEF UnlinkNext, SharedOK, LocalsOK, shared, Places
  <1>11. CASE UnlinkCas(t)
    <2>1. Bumped(old[t], succ[t]) \in Words
      BY <1>2, <1>4, Zenon
    <2>2. SharedOK'
      BY <1>1, <1>2, <1>11, <2>1, Zenon DEF UnlinkCas, SharedOK
    <2>3. LocalsOK'
      BY <1>1, <1>2, <1>3, <1>11 DEF UnlinkCas, LocalsOK, Places, Heads
    <2> QED
      BY <2>2, <2>3
  <1>12. CASE TakeFresh(t)
    <2>1. nextFresh \in Nodes /\ nextFresh + 1 \in 0..MaxPushes
      BY <1>1, <1>12, FreshFits, Zenon DEF TakeFresh
    <2> QED
      BY <1>1, <1>12, <2>1 DEF TakeFresh, SharedOK, LocalsOK, Places
  <1>13. CASE InstallChunk(t)
    BY <1>1, <1>5, <1>13 DEF InstallChunk, SharedOK, LocalsOK, Places, Heads
  <1>14. CASE LinkLoad(t)
    BY <1>1, <1>2, <1>14 DEF LinkLoad, SharedOK, LocalsOK, Places
  <1>15. CASE LinkStore(t)
    BY <1>1, <1>2, <1>15, Zenon DEF LinkStore, SharedOK, LocalsOK, Places, locals
  <1>16. CASE LinkRetry(t)
    BY <1>1, <1>2, <1>16 DEF LinkRetry, SharedOK, LocalsOK, Places, shared
  <1>17. CASE LinkCas(t)
    <2>1. Bumped(old[t], idx[t]) \in Words
      BY <1>2, <1>4, Zenon
    <2>2. SharedOK'
      BY <1>1, <1>2, <1>17, <2>1 DEF LinkCas, SharedOK
    <2>3. LocalsOK'
      BY <1>1, <1>3, <1>17 DEF LinkCas, Return, LocalsOK, Places, Heads
    <2> QED
      BY <2>2, <2>3
  <1> QED
    BY <1>7, <1>8, <1>9, <1>10, <1>11, <1>12, <1>13, <1>14, <1>15, <1>16, <1>17, Zenon DEF Does, Step

-----------------------------------------------------------------------------
(* What the steps do to the lists.                                         *)

\* M is L with the list of h one node shorter, or longer by n.
Cut(L, M, h) == M = [L EXCEPT ![h] = SubSeq(@, 1, Len(@) - 1)]
Grown(L, M, h, n) == M = [L EXCEPT ![h] = Append(@, n)]

\* n is the top of the list of h in L; M is without it, or M is with it.
Top(L, h, n) == L[h] # <<>> /\ n = L[h][Len(L[h])]
Took(L, M, h, n) ==
    n \in On(L[h]) /\ On(M[h]) = On(L[h]) \ {n} /\ \A g \in Heads : g # h => M[g] = L[g]
Gave(L, M, h, n) ==
    On(M[h]) = On(L[h]) \cup {n} /\ \A g \in Heads : g # h => M[g] = L[g]

\* unlinkFront's compare-and-swap takes the top: the generation it read is
\* the head's still, so the link it read is the one the list has.
LEMMA Cutting ==
    ASSUME NEW L, IInv(L), NEW t \in Threads, UnlinkCas(t),
           NEW M, Cut(L, M, hd[t])
    PROVE  Lists(M, head', next') /\ Top(L, hd[t], old[t].idx) /\ Took(L, M, hd[t], old[t].idx)
  <1> DEFINE g == hd[t]
             s == L[g]
             r == SubSeq(s, 1, Len(s) - 1)
  <1>1. TypeOK /\ Lists(L, head, next) /\ Locals /\ Views
    BY Zenon DEF IInv
  <1>2. /\ g \in Heads /\ s \in Seq(Nodes) /\ Distinct(s) /\ Spells(s, head[g].idx, next)
        /\ L \in [Heads -> Seq(Nodes)]
    BY <1>1, Indices DEF Lists
  <1>3. pc[t] = "unlink_cas" /\ head[g] = old[t] /\ next' = next /\ old[t].idx # kNil
    BY <1>1, Zenon DEF UnlinkCas, Locals, Local, Unlinking
  <1>4. succ[t] = next[old[t].idx]
    BY <1>1, <1>3, Zenon DEF Views, View
  <1>5. s # <<>> /\ old[t].idx = s[Len(s)] /\ Spells(r, succ[t], next)
    BY <1>2, <1>3, <1>4, SpellsShortened
  <1>6. r \in Seq(Nodes) /\ On(r) = On(s) \ {old[t].idx} /\ Distinct(r) /\ old[t].idx \in On(s)
    BY <1>2, <1>5, Shortened
  <1>7. M[g] = r /\ (\A h \in Heads : h # g => M[h] = L[h]) /\ M \in [Heads -> Seq(Nodes)]
    BY <1>2, <1>6, Zenon DEF Cut
  <1>8. head'[g].idx = succ[t] /\ \A h \in Heads : h # g => head'[h] = head[h]
    BY <1>1, <1>2, Zenon DEF UnlinkCas, Bumped, TypeOK
  <1> HIDE DEF g, s, r
  <1>9. ASSUME NEW h \in Heads PROVE Spells(M[h], head'[h].idx, next') /\ Distinct(M[h])
    <2>1. CASE h = g
      BY <1>3, <1>5, <1>6, <1>7, <1>8, <2>1, Zenon
    <2>2. CASE h # g
      BY <1>1, <1>3, <1>7, <1>8, <2>2, Zenon DEF Lists
    <2> QED
      BY <2>1, <2>2, Zenon
  <1>10. On(M["stack"]) \cap On(M["free"]) = {}
    <2>1. On(L["stack"]) \cap On(L["free"]) = {} /\ "stack" \in Heads /\ "free" \in Heads
      BY <1>1, Zenon DEF Lists, Heads
    <2>2. \A h \in Heads : On(M[h]) \subseteq On(L[h])
      BY <1>6, <1>7, Zenon DEF s
    <2> QED
      BY <2>1, <2>2, Zenon
  <1> QED
    BY <1>5, <1>6, <1>7, <1>9, <1>10, Zenon DEF Lists, Top, Took, g, s, r

\* linkFront's compare-and-swap puts the thread's node on top: its link was
\* stored after the head was read, and the head has not moved since.
LEMMA Growing ==
    ASSUME NEW L, IInv(L), NEW t \in Threads, LinkCas(t),
           NEW M, Grown(L, M, hd[t], idx[t])
    PROVE  Lists(M, head', next') /\ Gave(L, M, hd[t], idx[t])
  <1> DEFINE g == hd[t]
             s == L[g]
             r == Append(s, idx[t])
  <1>1. TypeOK /\ Lists(L, head, next) /\ Owners(L, idx, nextFresh) /\ Locals /\ Views
    BY Zenon DEF IInv
  <1>2. /\ g \in Heads /\ s \in Seq(Nodes) /\ Distinct(s) /\ Spells(s, head[g].idx, next)
        /\ L \in [Heads -> Seq(Nodes)]
    BY <1>1, Indices DEF Lists
  <1>3. pc[t] = "link_cas" /\ head[g] = old[t] /\ next' = next
    BY Zenon DEF LinkCas
  <1>4. idx[t] \in Nodes /\ idx[t] # kNil
    BY <1>1, <1>3, Indices, Zenon DEF Linking
  <1>5. (\A h \in Heads : idx[t] \notin On(L[h])) /\ next[idx[t]] = head[g].idx
    BY <1>1, <1>3, <1>4, Zenon DEF Owners, Views, View
  <1>6. Spells(r, idx[t], next)
    BY <1>2, <1>4, <1>5, SpellsAppended
  <1>7. r \in Seq(Nodes) /\ On(r) = On(s) \cup {idx[t]} /\ Distinct(r)
    BY <1>2, <1>4, <1>5, Appended
  <1>8. M[g] = r /\ (\A h \in Heads : h # g => M[h] = L[h]) /\ M \in [Heads -> Seq(Nodes)]
    BY <1>2, <1>7 DEF Grown
  <1>9. head'[g].idx = idx[t] /\ \A h \in Heads : h # g => head'[h] = head[h]
    BY <1>1, <1>2, Zenon DEF LinkCas, Bumped, TypeOK
  <1> HIDE DEF g, s, r
  <1>10. ASSUME NEW h \in Heads PROVE Spells(M[h], head'[h].idx, next') /\ Distinct(M[h])
    <2>1. CASE h = g
      BY <1>3, <1>6, <1>7, <1>8, <1>9, <2>1, Zenon
    <2>2. CASE h # g
      BY <1>1, <1>3, <1>8, <1>9, <2>2, Zenon DEF Lists
    <2> QED
      BY <2>1, <2>2
  <1>11. On(M["stack"]) \cap On(M["free"]) = {}
    <2>1. On(L["stack"]) \cap On(L["free"]) = {} /\ Heads = {"stack", "free"} /\ "stack" # "free"
      BY <1>1, Zenon DEF Lists, Heads
    <2>2. \A h \in Heads : On(M[h]) = On(L[h]) \/ (h = g /\ On(M[h]) = On(L[h]) \cup {idx[t]})
      BY <1>7, <1>8, Zenon DEF s
    <2> QED
      BY <1>5, <2>1, <2>2, Zenon
  <1> QED
    BY <1>7, <1>8, <1>10, <1>11, Zenon DEF Lists, Gave, g, s, r

\* Every other step leaves the lists as they are; linkFront's store writes
\* the link of a node that only its thread has.
LEMMA Staying ==
    ASSUME NEW L, IInv(L), NEW t \in Threads, LinkStore(t) \/ UNCHANGED <<head, next>>
    PROVE  Lists(L, head', next')
  <1>1. TypeOK /\ Lists(L, head, next) /\ Owners(L, idx, nextFresh) /\ Locals
    BY Zenon DEF IInv
  <1>2. CASE LinkStore(t)
    <2>1. /\ pc[t] = "link_store" /\ head' = head /\ next' = [next EXCEPT ![idx[t]] = old[t].idx]
          /\ idx[t] # kNil
      BY <1>1, <1>2, Zenon DEF LinkStore, Locals, Local, Linking
    <2>2. \A h \in Heads : idx[t] \notin On(L[h])
      BY <1>1, <2>1, Zenon DEF Owners
    <2>3. next \in [Nodes -> Nodes \cup {kNil}]
      BY <1>1, Zenon DEF TypeOK
    <2>4. \A h \in Heads : L[h] \in Seq(Nodes)
      BY <1>1 DEF Lists
    <2>5. \A h \in Heads : Spells(L[h], head'[h].idx, next')
      BY <1>1, <2>1, <2>2, <2>3, <2>4, SpellsKept, Zenon DEF Lists
    <2> QED
      BY <1>1, <2>5, Zenon DEF Lists
  <1>3. CASE UNCHANGED <<head, next>>
    BY <1>1, <1>3, Zenon DEF Lists
  <1> QED
    BY <1>2, <1>3, Zenon

\* The steps that neither take nor give away a node.
Quiet(t) ==
    \/ (\E v \in Values : Push(t, v)) \/ Pop(t) \/ UnlinkLoad(t) \/ UnlinkNext(t) \/ UnlinkRetry(t)
    \/ InstallChunk(t) \/ LinkLoad(t) \/ LinkStore(t) \/ LinkRetry(t)

\* A step that moves neither head leaves the ownership of every node alone, and
\* each of the node's fields is written by one action only.
LEMMA QuietSteps ==
    ASSUME NEW L, IInv(L), NEW t \in Threads, Quiet(t)
    PROVE  /\ idx' = idx /\ nextFresh' = nextFresh /\ head' = head /\ head[hd[t]] \in Words
           /\ LinkStore(t) \/ next' = next
           /\ LinkLoad(t) \/ value' = value
           /\ InstallChunk(t) \/ chunks' = chunks
  <1>1. idx \in [Threads -> Nodes \cup {kNil}] /\ Locals /\ TypeOK
    BY Zenon DEF IInv, TypeOK
  <1>2. head[hd[t]] \in Words
    BY <1>1, Indices, Zenon DEF Words
  <1>3. ASSUME UnlinkEmpty(t, head[hd[t]]) \/ UnlinkGo(t, head[hd[t]]), UNCHANGED <<shared, pushes>>,
               pc[t] \in {"unlink_load", "unlink_cas"}
        PROVE  /\ idx' = idx /\ nextFresh' = nextFresh /\ head' = head /\ next' = next
               /\ value' = value /\ chunks' = chunks
    <2>1. idx[t] = kNil
      BY <1>1, <1>3, Zenon DEF Locals, Local, Linking
    <2>2. Return(t) => idx' = idx
      BY <1>1, <2>1 DEF Return
    <2> QED
      BY <1>3, <2>2, Zenon DEF UnlinkEmpty, UnlinkGo, locals, shared
  <1>4. UnlinkLoad(t) \/ UnlinkRetry(t) =>
           /\ idx' = idx /\ nextFresh' = nextFresh /\ head' = head /\ next' = next
           /\ value' = value /\ chunks' = chunks
    <2>1. pc[t] = "unlink_load" \/ pc[t] = "unlink_cas" => pc[t] \in {"unlink_load", "unlink_cas"}
      BY Zenon
    <2> QED
      BY <1>3, <2>1, Zenon DEF UnlinkLoad, UnlinkRetry
  <1> QED
    BY <1>2, <1>4, Zenon DEF Quiet, Push, Pop, UnlinkNext, InstallChunk, LinkLoad, LinkStore, LinkRetry,
                             shared, locals

\* Nodes change hands one at a time: from the top of a list to a thread, from
\* the pool to a thread, from a thread to the top of a list.
LEMMA OwnersTaken ==
    ASSUME NEW L, IInv(L), NEW t \in Threads, UnlinkCas(t),
           NEW M, Cut(L, M, hd[t])
    PROVE  Owners(M, idx', nextFresh')
  <1> DEFINE n == old[t].idx
             g == hd[t]
  <1>1. TypeOK /\ Lists(L, head, next) /\ Owners(L, idx, nextFresh) /\ Locals
    BY Zenon DEF IInv
  <1>o. /\ \A u \in Threads : idx[u] # kNil => idx[u] < nextFresh
        /\ \A u \in Threads : idx[u] # kNil => \A h \in Heads : idx[u] \notin On(L[h])
        /\ \A u, w \in Threads : idx[u] # kNil /\ idx[w] = idx[u] => w = u
        /\ \A h \in Heads : \A m \in On(L[h]) : m < nextFresh
    BY <1>1, Zenon DEF Owners
  <1>2. /\ n \in On(L[g]) /\ On(M[g]) = On(L[g]) \ {n}
        /\ \A h \in Heads : h # g => M[h] = L[h]
    <2>1. Took(L, M, hd[t], old[t].idx)
      BY Cutting, Zenon
    <2> QED
      BY <2>1 DEF Took
  <1>3. idx' = [idx EXCEPT ![t] = n] /\ nextFresh' = nextFresh /\ idx[t] = kNil
    BY <1>1, Zenon DEF UnlinkCas, Locals, Local, Linking
  <1>4. idx'[t] = n /\ \A u \in Threads : u # t => idx'[u] = idx[u]
    BY <1>1, <1>3, Zenon DEF TypeOK
  <1>5. g \in Heads /\ Heads = {"stack", "free"} /\ On(L["stack"]) \cap On(L["free"]) = {}
    BY <1>1, Indices, Zenon DEF Lists, Heads
  <1> HIDE DEF n, g
  <1>6. \A h \in Heads : n \notin On(M[h]) /\ On(M[h]) \subseteq On(L[h])
    BY <1>2, <1>5, Zenon
  <1>7. \A u \in Threads : idx[u] # n \/ idx[u] = kNil
    BY <1>2, <1>5, <1>o, Zenon
  <1>8. n # kNil /\ n < nextFresh
    BY <1>1, <1>2, <1>5, Indices, Zenon DEF Owners, UnlinkCas, Locals, Local, Unlinking, n
  <1>9. ASSUME NEW u \in Threads, idx'[u] # kNil
        PROVE  /\ idx'[u] < nextFresh
               /\ \A h \in Heads : idx'[u] \notin On(M[h])
               /\ \A w \in Threads : idx'[w] = idx'[u] => w = u
    <2>1. CASE u = t
      BY <1>4, <1>6, <1>7, <1>8, <2>1, Zenon
    <2>2. CASE u # t
      <3>1. idx'[u] = idx[u] /\ idx[u] # kNil /\ idx[u] # n
        BY <1>4, <1>7, <1>9, <2>2, Zenon
      <3>2. \A w \in Threads : idx'[w] = idx'[u] => w = u
        BY <1>4, <1>o, <3>1, Zenon
      <3> QED
        BY <1>6, <1>o, <3>1, <3>2, Zenon
    <2> QED
      BY <2>1, <2>2, Zenon
  <1>10. \A h \in Heads : \A m \in On(M[h]) : m < nextFresh
    BY <1>1, <1>6, Zenon DEF Owners
  <1>11. ASSUME NEW m \in Nodes, m < nextFresh
         PROVE  (\E h \in Heads : m \in On(M[h])) \/ (\E u \in Threads : idx'[u] = m)
    <2>1. CASE m = n
      BY <1>4, <2>1, Zenon
    <2>2. CASE m # n /\ \E h \in Heads : m \in On(L[h])
      BY <1>2, <2>2
    <2>3. CASE \E u \in Threads : idx[u] = m
      <3>1. m # kNil
        BY <1>11, ConstantsAssumption DEF Nodes, kNil
      <3> QED
        BY <1>3, <1>4, <2>3, <3>1, Zenon
    <2> QED
      BY <1>1, <1>11, <2>1, <2>2, <2>3, Zenon DEF Owners
  <1> QED
    BY <1>3, <1>9, <1>10, <1>11, Zenon DEF Owners

\* An index taken from nextFresh was nobody's and is the taker's.
LEMMA OwnersFresh ==
    ASSUME NEW L, IInv(L), NEW t \in Threads, TakeFresh(t)
    PROVE  Owners(L, idx', nextFresh')
  <1> DEFINE n == nextFresh
  <1>1. TypeOK /\ Owners(L, idx, nextFresh) /\ Locals /\ Counted
    BY Zenon DEF IInv
  <1>o. /\ \A u \in Threads : idx[u] # kNil => idx[u] < nextFresh
        /\ \A u \in Threads : idx[u] # kNil => \A h \in Heads : idx[u] \notin On(L[h])
        /\ \A u, w \in Threads : idx[u] # kNil /\ idx[w] = idx[u] => w = u
        /\ \A h \in Heads : \A m \in On(L[h]) : m < nextFresh
    BY <1>1, Zenon DEF Owners
  <1>2. n \in Nodes /\ n # kNil /\ n \in Nat
    BY <1>1, FreshFits, ConstantsAssumption DEF TakeFresh, Nodes, kNil
  <1>3. idx' = [idx EXCEPT ![t] = n] /\ nextFresh' = n + 1 /\ idx[t] = kNil
    BY <1>1, Zenon DEF TakeFresh, Locals, Local, Linking
  <1>4. idx'[t] = n /\ \A u \in Threads : u # t => idx'[u] = idx[u]
    BY <1>1, <1>3, Zenon DEF TypeOK
  <1>5. /\ \A u \in Threads : idx[u] # kNil => idx[u] < n
        /\ \A h \in Heads : \A m \in On(L[h]) : m < n
    BY <1>1, Zenon DEF Owners
  <1> HIDE DEF n
  <1>6. ~(n < n)
    BY <1>2
  <1>7. \A m \in Nodes : (m < n => m < n + 1) /\ (m < n + 1 => m < n \/ m = n)
    BY <1>2, ConstantsAssumption DEF Nodes
  <1>8. (\A u \in Threads : idx[u] \in Nodes \cup {kNil}) /\ \A h \in Heads : On(L[h]) \subseteq Nodes
    <2>1. L \in [Heads -> Seq(Nodes)]
      BY Zenon DEF IInv, Lists
    <2>2. \A h \in Heads : On(L[h]) \subseteq Nodes
      BY <2>1 DEF On
    <2> QED
      BY <1>1, <2>2, Zenon DEF TypeOK
  <1>9. \A h \in Heads : n \notin On(L[h])
    BY <1>5, <1>6, Zenon
  <1>10. ASSUME NEW u \in Threads, idx'[u] # kNil
         PROVE  /\ idx'[u] < nextFresh'
                /\ \A h \in Heads : idx'[u] \notin On(L[h])
                /\ \A w \in Threads : idx'[w] = idx'[u] => w = u
    <2>1. CASE u = t
      <3>1. n < n + 1
        BY <1>2
      <3> QED
        BY <1>2, <1>3, <1>4, <1>5, <1>6, <1>9, <2>1, <3>1, Zenon
    <2>2. CASE u # t
      <3>1. idx'[u] = idx[u] /\ idx[u] # kNil /\ idx[u] < n /\ idx[u] \in Nodes
        BY <1>4, <1>5, <1>8, <1>10, <2>2, Zenon
      <3>2. \A w \in Threads : idx'[w] = idx'[u] => w = u
        BY <1>4, <1>6, <1>o, <3>1, Zenon
      <3> QED
        BY <1>3, <1>7, <1>o, <3>1, <3>2, Zenon
    <2> QED
      BY <2>1, <2>2, Zenon
  <1>11. \A h \in Heads : \A m \in On(L[h]) : m < nextFresh'
    BY <1>3, <1>5, <1>7, <1>8, Zenon
  <1>12. ASSUME NEW m \in Nodes, m < nextFresh'
         PROVE  (\E h \in Heads : m \in On(L[h])) \/ (\E u \in Threads : idx'[u] = m)
    <2>1. CASE m = n
      BY <1>4, <2>1, Zenon
    <2>2. CASE m < n
      <3>1. m # kNil
        BY ConstantsAssumption DEF Nodes, kNil
      <3> QED
        BY <1>1, <1>3, <1>4, <2>2, <3>1, Zenon DEF Owners, n
    <2> QED
      BY <1>3, <1>7, <1>12, <2>1, <2>2, Zenon
  <1> QED
    BY <1>10, <1>11, <1>12, Zenon DEF Owners

\* A compare-and-swap of link hands the node over from the thread to the list.
LEMMA OwnersGiven ==
    ASSUME NEW L, IInv(L), NEW t \in Threads, LinkCas(t),
           NEW M, Grown(L, M, hd[t], idx[t])
    PROVE  Owners(M, idx', nextFresh')
  <1> DEFINE g == hd[t]
  <1>1. TypeOK /\ Owners(L, idx, nextFresh) /\ Locals
    BY Zenon DEF IInv
  <1>o. /\ \A u \in Threads : idx[u] # kNil => idx[u] < nextFresh
        /\ \A u \in Threads : idx[u] # kNil => \A h \in Heads : idx[u] \notin On(L[h])
        /\ \A u, w \in Threads : idx[u] # kNil /\ idx[w] = idx[u] => w = u
        /\ \A h \in Heads : \A m \in On(L[h]) : m < nextFresh
    BY <1>1, Zenon DEF Owners
  <1>2. On(M[g]) = On(L[g]) \cup {idx[t]} /\ \A h \in Heads : h # g => M[h] = L[h]
    <2>1. Gave(L, M, hd[t], idx[t])
      BY Growing, Zenon
    <2> QED
      BY <2>1 DEF Gave
  <1>3. idx' = [idx EXCEPT ![t] = kNil] /\ nextFresh' = nextFresh /\ idx[t] # kNil /\ g \in Heads
    BY <1>1, Indices DEF LinkCas, Return, Locals, Local, Linking
  <1>4. idx'[t] = kNil /\ \A u \in Threads : u # t => idx'[u] = idx[u]
    BY <1>1, <1>3, Zenon DEF TypeOK
  <1> HIDE DEF g
  <1>5. \A h \in Heads : \A m : m \in On(M[h]) <=> m \in On(L[h]) \/ (h = g /\ m = idx[t])
    BY <1>2, Zenon
  <1>6. ASSUME NEW u \in Threads, idx'[u] # kNil
        PROVE  /\ idx'[u] < nextFresh
               /\ \A h \in Heads : idx'[u] \notin On(M[h])
               /\ \A w \in Threads : idx'[w] = idx'[u] => w = u
    <2>1. u # t /\ idx'[u] = idx[u] /\ idx[u] # kNil
      BY <1>4, <1>6, Zenon
    <2>2. \A w \in Threads : idx'[w] = idx'[u] => w = u
      BY <1>4, <1>6, <1>o, <2>1, Zenon
    <2>3. idx[u] # idx[t]
      BY <1>o, <2>1, Zenon
    <2> QED
      BY <1>5, <1>o, <2>1, <2>2, <2>3, Zenon
  <1>7. \A h \in Heads : \A m \in On(M[h]) : m < nextFresh
    <2>1. idx[t] < nextFresh
      BY <1>3, <1>o, Zenon
    <2>2. \A h \in Heads : \A m \in On(L[h]) : m < nextFresh
      BY <1>o, Zenon
    <2> QED
      BY <1>5, <2>1, <2>2, Zenon
  <1>8. \A m \in Nodes : m < nextFresh =>
           (\E h \in Heads : m \in On(M[h])) \/ (\E u \in Threads : idx'[u] = m)
    <2>1. \A m \in Nodes : m < nextFresh =>
             (\E h \in Heads : m \in On(L[h])) \/ (\E u \in Threads : idx[u] = m)
      BY <1>1, Zenon DEF Owners
    <2>2. \A u \in Threads : idx[u] = idx'[u] \/ u = t
      BY <1>4, Zenon
    <2>3. idx[t] \in On(M[g])
      BY <1>2, Zenon
    <2> QED
      BY <1>3, <1>5, <2>1, <2>2, <2>3, Zenon
  <1> QED
    BY <1>3, <1>6, <1>7, <1>8, Zenon DEF Owners

-----------------------------------------------------------------------------
(* Values and chunks.                                                      *)

\* What a step may do to values and chunks: chunks are only added, and the one
\* value written is that of the node its thread is about to link.
LEMMA WritesOwn ==
    ASSUME NEW L, IInv(L), NEW t \in Threads, Does(t)
    PROVE  /\ chunks \subseteq chunks'
           /\ \A n \in Nodes : n # idx[t] => value'[n] = value[n]
           /\ ~LinkLoad(t) => value' = value
  <1>1. TypeOK
    BY Zenon DEF IInv
  <1>2. CASE LinkLoad(t)
    BY <1>1, <1>2, Zenon DEF LinkLoad, TypeOK
  <1>3. CASE Quiet(t) /\ ~LinkLoad(t)
    <2>1. value' = value /\ (InstallChunk(t) \/ chunks' = chunks)
      BY <1>3, QuietSteps, Zenon
    <2> QED
      BY <2>1, Zenon DEF InstallChunk
  <1>4. CASE UnlinkCas(t) \/ TakeFresh(t) \/ LinkCas(t)
    BY <1>4, Zenon DEF UnlinkCas, TakeFresh, LinkCas
  <1> QED
    BY <1>2, <1>3, <1>4, Zenon DEF Does, Step, Quiet

\* A list that holds no node it did not hold keeps its contents in order.
LEMMA ContentsKept ==
    ASSUME NEW L, IInv(L), NEW t \in Threads, Does(t), NEW M,
           \A h \in Heads : On(M[h]) \subseteq On(L[h]),
           nextFresh' = nextFresh \/ (nextFresh' = nextFresh + 1 /\ idx[t] = kNil)
    PROVE  Contents(M, chunks', value', nextFresh')
  <1>1. TypeOK /\ Owners(L, idx, nextFresh) /\ Contents(L, chunks, value, nextFresh)
        /\ L \in [Heads -> Seq(Nodes)] /\ "stack" \in Heads
    BY Zenon DEF IInv, Lists, Heads
  <1>2. \A h \in Heads : On(L[h]) \subseteq Nodes
    BY <1>1 DEF On
  <1>3. \A h \in Heads : idx[t] \notin On(L[h])
    <2>1. kNil \notin Nodes
      BY ConstantsAssumption DEF kNil, Nodes
    <2> QED
      BY <1>1, <1>2, <2>1, Zenon DEF Owners
  <1>4. chunks \subseteq chunks' /\ \A n \in Nodes : n # idx[t] => value'[n] = value[n]
    BY WritesOwn, Zenon
  <1>5. \A h \in Heads : \A n \in On(M[h]) : ChunkOf(n) \in chunks'
    BY <1>1, <1>4, Zenon DEF Contents
  <1>6. \A n \in On(M["stack"]) : value'[n] \in Values
    BY <1>1, <1>2, <1>3, <1>4, Zenon DEF Contents
  <1>7. ASSUME NEW n \in Nodes, n >= nextFresh' PROVE value'[n] = NoValue
    <2>1. nextFresh \in Nat /\ n \in Nat /\ idx[t] \in Nodes \cup {kNil}
      BY <1>1, ConstantsAssumption DEF TypeOK, Nodes
    <2>2. n >= nextFresh /\ ~(n < nextFresh)
      BY <1>7, <2>1
    <2>3. n # idx[t]
      <3>1. n # kNil
        BY ConstantsAssumption DEF Nodes, kNil
      <3> QED
        BY <1>1, <2>2, <3>1, Zenon DEF Owners
    <2> QED
      BY <1>1, <1>4, <2>2, <2>3, Zenon DEF Contents
  <1> QED
    BY <1>5, <1>6, <1>7, Zenon DEF Contents

\* The node that is linked is in an installed chunk, and it has its value when
\* it is the stack's.
LEMMA ContentsGiven ==
    ASSUME NEW L, IInv(L), NEW t \in Threads, LinkCas(t),
           NEW M, Grown(L, M, hd[t], idx[t])
    PROVE  Contents(M, chunks', value', nextFresh')
  <1>1. Gave(L, M, hd[t], idx[t])
    BY Growing, Zenon
  <1>2. chunks' = chunks /\ value' = value /\ nextFresh' = nextFresh /\ pc[t] = "link_cas"
    BY Zenon DEF LinkCas
  <1>3. Contents(L, chunks, value, nextFresh) /\ Locals /\ hd[t] \in Heads /\ "stack" \in Heads
    BY Indices, Zenon DEF IInv, Heads
  <1>4. ChunkOf(idx[t]) \in chunks /\ value[idx[t]] \in Values
    <2>1. pc[t] \in Linking /\ pc[t] # "link_load"
      BY <1>2, Zenon DEF Linking
    <2> QED
      BY <1>3, <2>1, Zenon DEF Locals, Local
  <1>5. \A h \in Heads : \A n \in On(M[h]) : n \in On(L[h]) \/ n = idx[t]
    BY <1>1 DEF Gave, Zenon
  <1> QED
    BY <1>2, <1>3, <1>4, <1>5, Zenon DEF Contents

-----------------------------------------------------------------------------
(* What a thread knows.                                                    *)

\* What a thread knows of its locals survives new chunks, and new values of
\* nodes that are not its own.
LEMMA LocalKept ==
    ASSUME NEW p, NEW h, NEW i, NEW a, NEW o, NEW v, NEW c, NEW w, NEW d,
           Local(p, h, i, a, o, v, c), c \subseteq d, i # kNil => w[i] = v[i]
    PROVE  Local(p, h, i, a, o, w, d)
  <1>1. p \in Linking \/ p = "chunk" => i # kNil
    BY Zenon DEF Local
  <1> QED
    BY <1>1, Zenon DEF Local

\* A step of t changes the locals of no other thread.
LEMMA OtherLocals ==
    ASSUME TypeOK, NEW t \in Threads, Does(t), NEW u \in Threads, u # t
    PROVE  /\ pc'[u] = pc[u] /\ hd'[u] = hd[u] /\ idx'[u] = idx[u]
           /\ arg'[u] = arg[u] /\ old'[u] = old[u] /\ succ'[u] = succ[u]
  <1>1. /\ pc' = pc \/ \E x : pc' = [pc EXCEPT ![t] = x]
        /\ hd' = hd \/ \E x : hd' = [hd EXCEPT ![t] = x]
        /\ idx' = idx \/ \E x : idx' = [idx EXCEPT ![t] = x]
        /\ arg' = arg \/ \E x : arg' = [arg EXCEPT ![t] = x]
        /\ old' = old \/ \E x : old' = [old EXCEPT ![t] = x]
        /\ succ' = succ \/ \E x : succ' = [succ EXCEPT ![t] = x]
    BY Zenon DEF Does, Step, Push, Pop, UnlinkLoad, UnlinkRetry, UnlinkEmpty, UnlinkGo, UnlinkNext, UnlinkCas,
                 TakeFresh, InstallChunk, LinkLoad, LinkStore, LinkRetry, LinkCas, Return, Goto, locals
  <1> QED
    BY <1>1 DEF TypeOK

\* The top of a list, which unlinkFront has just read, is in an installed
\* chunk and on the stack it has a value.
LEMMA TopKnown ==
    ASSUME NEW L, IInv(L), NEW h \in Heads, head[h].idx # kNil
    PROVE  /\ head[h].idx \in On(L[h]) /\ ChunkOf(head[h].idx) \in chunks
           /\ h = "stack" => value[head[h].idx] \in Values
  <1>1. Lists(L, head, next) /\ Contents(L, chunks, value, nextFresh)
    BY Zenon DEF IInv
  <1>2. L[h] \in Seq(Nodes) /\ Distinct(L[h]) /\ Spells(L[h], head[h].idx, next)
    BY <1>1, Zenon DEF Lists
  <1>3. L[h] # <<>> /\ head[h].idx = L[h][Len(L[h])]
    BY <1>2, SpellsShortened
  <1>4. head[h].idx \in On(L[h])
    BY <1>2, <1>3, Shortened
  <1> QED
    BY <1>1, <1>4, Zenon DEF Contents

\* unlinkFront with the head it has just read.
LEMMA UnlinkLocal ==
    ASSUME NEW L, IInv(L), NEW t \in Threads, UNCHANGED <<shared, pushes>>,
           pc[t] \in {"unlink_load", "unlink_cas"},
           UnlinkEmpty(t, head[hd[t]]) \/ UnlinkGo(t, head[hd[t]])
    PROVE  Local(pc'[t], hd'[t], idx'[t], arg'[t], old'[t], value', chunks')
  <1>1. TypeOK /\ Locals /\ value' = value /\ chunks' = chunks
    BY Zenon DEF IInv, shared
  <1>2. hd[t] \in Heads /\ idx[t] = kNil /\ (hd[t] = "free" => arg[t] \in Values)
    BY <1>1, Indices DEF Locals, Local, Linking, Unlinking
  <1>3. /\ pc \in [Threads -> Places] /\ hd \in [Threads -> Heads] /\ old \in [Threads -> Words]
        /\ idx \in [Threads -> Nodes \cup {kNil}] /\ arg \in [Threads -> Values \cup {NoValue}]
    BY <1>1, TypeParts, Zenon DEF LocalsOK
  <1>4. CASE Return(t)
    <2>1. pc'[t] = "idle" /\ idx'[t] = kNil
      BY <1>3, <1>4 DEF Return, Goto
    <2> QED
      BY <2>1 DEF Local, Linking, Unlinking
  <1>5. CASE hd[t] = "free" /\ Goto(t, "fresh") /\ UNCHANGED locals
    <2>1. pc'[t] = "fresh" /\ idx'[t] = kNil /\ hd'[t] = "free" /\ arg'[t] \in Values
      BY <1>2, <1>3, <1>5 DEF Goto, locals
    <2> QED
      BY <2>1, Zenon DEF Local, Linking, Unlinking
  <1>6. CASE UnlinkGo(t, head[hd[t]])
    <2>1. /\ pc'[t] = "unlink_next" /\ idx'[t] = kNil /\ hd'[t] = hd[t] /\ arg'[t] = arg[t]
          /\ old'[t] = head[hd[t]] /\ head[hd[t]].idx # kNil
      BY <1>2, <1>3, <1>6, Zenon DEF Goto, UnlinkGo
    <2>2. ChunkOf(head[hd[t]].idx) \in chunks
      BY <1>2, <2>1, TopKnown, Zenon
    <2> QED
      BY <1>1, <1>2, <2>1, <2>2 DEF Local, Linking, Unlinking
  <1> QED
    BY <1>4, <1>5, <1>6, Zenon DEF UnlinkEmpty

\* A step leaves the locals of the thread that takes it as the place it is at
\* then requires.
LEMMA OwnLocal ==
    ASSUME NEW L, IInv(L), NEW t \in Threads, Does(t)
    PROVE  Local(pc'[t], hd'[t], idx'[t], arg'[t], old'[t], value', chunks')
  <1> USE DEF Goto
  <1>1. TypeOK /\ Locals /\ Counted /\ Contents(L, chunks, value, nextFresh)
    BY Zenon DEF IInv
  <1>2. /\ Local(pc[t], hd[t], idx[t], arg[t], old[t], value, chunks) /\ hd[t] \in Heads
        /\ pc[t] \in Linking \cup {"chunk"} => idx[t] \in Nodes
        /\ pc[t] \in Unlinking => old[t].idx \in Nodes
        /\ kNil \notin Nodes
    BY <1>1, Indices, Zenon DEF Locals
  <1>3. /\ pc \in [Threads -> Places] /\ hd \in [Threads -> Heads] /\ old \in [Threads -> Words]
        /\ idx \in [Threads -> Nodes \cup {kNil}] /\ arg \in [Threads -> Values \cup {NoValue}]
    BY <1>1, TypeParts, Zenon DEF LocalsOK
  <1>4. CASE \E v \in Values : Push(t, v)
    <2>1. pc'[t] = "unlink_load" /\ idx'[t] = kNil /\ hd'[t] = "free" /\ arg'[t] \in Values
      BY <1>2, <1>3, <1>4 DEF Push, Local, Linking
    <2> QED
      BY <2>1 DEF Local, Linking, Unlinking
  <1>5. CASE Pop(t)
    <2>1. pc'[t] = "unlink_load" /\ idx'[t] = kNil /\ hd'[t] = "stack"
      BY <1>2, <1>3, <1>5 DEF Pop, Local, Linking
    <2> QED
      BY <2>1, Zenon DEF Local, Linking, Unlinking
  <1>6. CASE UnlinkLoad(t) \/ UnlinkRetry(t)
    <2>1. pc[t] \in {"unlink_load", "unlink_cas"}
      BY <1>6, Zenon DEF UnlinkLoad, UnlinkRetry
    <2> QED
      BY <1>6, <2>1, UnlinkLocal, Zenon DEF UnlinkLoad, UnlinkRetry
  <1>7. CASE UnlinkNext(t)
    <2>1. /\ pc[t] = "unlink_next" /\ pc'[t] = "unlink_cas" /\ idx'[t] = idx[t] /\ hd'[t] = hd[t]
          /\ arg'[t] = arg[t] /\ old'[t] = old[t] /\ value' = value /\ chunks' = chunks
      BY <1>3, <1>7 DEF UnlinkNext, shared
    <2> QED
      BY <1>2, <2>1 DEF Local, Linking, Unlinking
  <1>8. CASE UnlinkCas(t)
    <2>1. /\ pc[t] = "unlink_cas" /\ pc'[t] = "link_load" /\ idx'[t] = old[t].idx
          /\ hd'[t] = (IF hd[t] = "stack" THEN "free" ELSE "stack")
          /\ arg'[t] = arg[t] /\ value' = value /\ chunks' = chunks /\ head[hd[t]] = old[t]
      BY <1>3, <1>8 DEF UnlinkCas
    <2>2. old[t].idx # kNil /\ ChunkOf(old[t].idx) \in chunks
      BY <1>2, <2>1 DEF Local, Unlinking
    <2>3. hd[t] = "stack" => value[old[t].idx] \in Values
      BY <1>2, <2>1, <2>2, TopKnown, Zenon
    <2>4. hd[t] = "free" => arg[t] \in Values
      BY <1>2, <2>1 DEF Local, Unlinking
    <2> QED
      BY <1>2, <2>1, <2>2, <2>3, <2>4 DEF Local, Linking, Unlinking, Heads
  <1>9. CASE TakeFresh(t)
    <2>1. /\ pc[t] = "fresh" /\ pc'[t] = "chunk" /\ idx'[t] = nextFresh /\ hd'[t] = hd[t]
          /\ arg'[t] = arg[t] /\ value' = value
      BY <1>3, <1>9, Zenon DEF TakeFresh
    <2>2. nextFresh \in Nodes
      BY <1>1, <2>1, FreshFits, Zenon
    <2>3. nextFresh \in Nat /\ nextFresh >= nextFresh
      BY <2>2, ConstantsAssumption DEF Nodes
    <2>4. value[nextFresh] = NoValue
      BY <1>1, <2>2, <2>3, Zenon DEF Contents
    <2> QED
      BY <1>2, <2>1, <2>2, <2>4 DEF Local, Linking, Unlinking
  <1>10. CASE InstallChunk(t)
    <2>1. /\ pc[t] = "chunk" /\ pc'[t] = "link_load" /\ idx'[t] = idx[t] /\ hd'[t] = "stack"
          /\ arg'[t] = arg[t] /\ ChunkOf(idx[t]) \in chunks'
      BY <1>3, <1>10, Zenon DEF InstallChunk
    <2> QED
      BY <1>2, <2>1, Zenon DEF Local, Linking, Unlinking
  <1>11. CASE LinkLoad(t)
    <2>1. /\ pc[t] = "link_load" /\ pc'[t] = "link_store" /\ idx'[t] = idx[t] /\ hd'[t] = hd[t]
          /\ chunks' = chunks
      BY <1>3, <1>11 DEF LinkLoad
    <2>2. idx[t] \in Nodes /\ value \in [Nodes -> Values \cup {NoValue}]
      BY <1>1, <1>2, <2>1, Zenon DEF Linking, TypeOK
    <2>3. value'[idx[t]] \in Values
      BY <1>2, <1>11, <2>1, <2>2 DEF LinkLoad, Local, Linking, Heads
    <2> QED
      BY <1>2, <2>1, <2>2, <2>3 DEF Local, Linking, Unlinking
  <1>12. CASE LinkStore(t) \/ LinkRetry(t)
    <2>1. /\ pc[t] \in {"link_store", "link_cas"} /\ pc'[t] \in {"link_store", "link_cas"}
          /\ idx'[t] = idx[t] /\ hd'[t] = hd[t] /\ chunks' = chunks /\ value' = value
      BY <1>3, <1>12, Zenon DEF LinkStore, LinkRetry, locals, shared
    <2> QED
      BY <1>2, <2>1 DEF Local, Linking, Unlinking
  <1>13. CASE LinkCas(t)
    <2>1. pc'[t] = "idle" /\ idx'[t] = kNil
      BY <1>3, <1>13, Zenon DEF LinkCas, Return
    <2> QED
      BY <2>1 DEF Local, Linking, Unlinking
  <1> QED
    BY <1>4, <1>5, <1>6, <1>7, <1>8, <1>9, <1>10, <1>11, <1>12, <1>13, Zenon DEF Does, Step

\* Every step keeps what the locals of every thread are.
LEMMA LocalsStep ==
    ASSUME NEW L, IInv(L), NEW t \in Threads, Does(t)
    PROVE  Locals'
  <1>1. TypeOK /\ Locals /\ Owners(L, idx, nextFresh)
    BY Zenon DEF IInv
  <1>2. ASSUME NEW u \in Threads, u # t
        PROVE  Local(pc'[u], hd'[u], idx'[u], arg'[u], old'[u], value', chunks')
    <2>1. /\ pc'[u] = pc[u] /\ hd'[u] = hd[u] /\ idx'[u] = idx[u]
          /\ arg'[u] = arg[u] /\ old'[u] = old[u]
      BY <1>1, <1>2, OtherLocals, Zenon
    <2>2. chunks \subseteq chunks' /\ \A n \in Nodes : n # idx[t] => value'[n] = value[n]
      BY WritesOwn, Zenon
    <2>3. idx[u] \in Nodes \cup {kNil}
      BY <1>1 DEF TypeOK
    <2>4. idx[u] # kNil => idx[u] # idx[t]
      BY <1>1, <1>2, Zenon DEF Owners
    <2>5. idx[u] # kNil => value'[idx[u]] = value[idx[u]]
      BY <2>2, <2>3, <2>4, Zenon
    <2>6. Local(pc[u], hd[u], idx[u], arg[u], old[u], value, chunks)
      BY <1>1, Zenon DEF Locals
    <2>7. Local(pc[u], hd[u], idx[u], arg[u], old[u], value', chunks')
      BY <2>2, <2>5, <2>6, LocalKept, Zenon
    <2> QED
      BY <2>1, <2>7, Zenon
  <1> QED
    BY <1>2, OwnLocal, Zenon DEF Locals

\* A head changes only by a compare-and-swap, which raises its generation, and
\* a link only while its node is in no list.
LEMMA HeadMoves ==
    ASSUME NEW L, IInv(L), NEW t \in Threads, Does(t)
    PROVE  /\ \A h \in Heads : head'[h] = head[h] \/ head'[h].gen = head[h].gen + 1
           /\ \A n \in Nodes : n # idx[t] => next'[n] = next[n]
           /\ ~LinkStore(t) => next' = next
           /\ LinkStore(t) => head' = head
  <1>1. TypeOK
    BY Zenon DEF IInv
  <1>2. /\ hd[t] \in Heads /\ old[t].gen \in Nat
        /\ head \in [Heads -> Words] /\ next \in [Nodes -> Nodes \cup {kNil}]
    BY <1>1, TypeParts, Indices DEF SharedOK, IInv
  <1>3. CASE LinkStore(t)
    BY <1>2, <1>3, Zenon DEF LinkStore
  <1>4. CASE Quiet(t) /\ ~LinkStore(t)
    BY <1>4, QuietSteps, Zenon
  <1>8. LinkStore(t) => head' = head
    BY Zenon DEF LinkStore
  <1>0. \A n : Bumped(old[t], n).gen = old[t].gen + 1
    BY Zenon DEF Bumped
  <1>5. CASE UnlinkCas(t)
    <2>1. head[hd[t]] = old[t] /\ head' = [head EXCEPT ![hd[t]] = Bumped(old[t], succ[t])] /\ next' = next
      BY <1>5, Zenon DEF UnlinkCas
    <2>2. head'[hd[t]] = Bumped(old[t], succ[t]) /\ \A h \in Heads : h # hd[t] => head'[h] = head[h]
      BY <1>2, <2>1, Zenon
    <2>3. \A h \in Heads : head'[h] = head[h] \/ head'[h].gen = head[h].gen + 1
      BY <1>0, <2>1, <2>2
    <2> QED
      BY <1>8, <2>1, <2>3, Zenon
  <1>6. CASE LinkCas(t)
    <2>1. head[hd[t]] = old[t] /\ head' = [head EXCEPT ![hd[t]] = Bumped(old[t], idx[t])] /\ next' = next
      BY <1>6, Zenon DEF LinkCas
    <2>2. head'[hd[t]] = Bumped(old[t], idx[t]) /\ \A h \in Heads : h # hd[t] => head'[h] = head[h]
      BY <1>2, <2>1
    <2>3. \A h \in Heads : head'[h] = head[h] \/ head'[h].gen = head[h].gen + 1
      BY <1>0, <2>1, <2>2
    <2> QED
      BY <1>8, <2>1, <2>3, Zenon
  <1>7. CASE TakeFresh(t)
    BY <1>7, Zenon DEF TakeFresh
  <1>9. UnlinkCas(t) \/ LinkCas(t) \/ TakeFresh(t) => next' = next
    BY Zenon DEF UnlinkCas, LinkCas, TakeFresh
  <1> QED
    BY <1>3, <1>4, <1>5, <1>6, <1>7, <1>8, <1>9, Zenon DEF Does, Step, Quiet

\* The other threads: a head that moved has a generation they have not read.
LEMMA OtherViews ==
    ASSUME NEW L, IInv(L), NEW t \in Threads, Does(t), NEW u \in Threads, u # t
    PROVE  View(pc[u], hd[u], idx[u], old[u], succ[u], head', next')
  <1>1. TypeOK /\ Locals /\ Owners(L, idx, nextFresh)
    BY Zenon DEF IInv
  <1>2. View(pc[u], hd[u], idx[u], old[u], succ[u], head, next)
    BY Zenon DEF IInv, Views
  <1> DEFINE p == pc[u]
             h == hd[u]
             o == old[u]
             Seen == p \in {"unlink_next", "unlink_cas", "link_store", "link_cas"}
  <1>3. h \in Heads /\ o.gen \in Nat /\ head[h].gen \in Nat
    BY <1>1, Indices, Zenon
  <1>4. head'[h] = head[h] \/ head'[h].gen = head[h].gen + 1
    BY <1>3, HeadMoves, Zenon
  <1>5. Seen => o.gen <= head[h].gen
    BY <1>2, Zenon DEF View
  <1>6. Seen => o.gen <= head'[h].gen /\ (head'[h] = head[h] \/ o.gen # head'[h].gen)
    BY <1>3, <1>4, <1>5
  <1>7. Seen /\ o.gen = head'[h].gen => o = head'[h]
    BY <1>2, <1>6, Zenon DEF View
  <1>8. p = "unlink_cas" /\ o = head'[h] => succ[u] = next'[o.idx]
    <2>1. SUFFICES ASSUME p = "unlink_cas", o = head'[h] PROVE succ[u] = next'[o.idx]
      BY Zenon
    <2>2. o = head[h]
      BY <1>6, <2>1 DEF Seen
    <2>3. o.idx # kNil /\ o.idx \in Nodes
      BY <1>1, <2>1, Indices, Zenon DEF Locals, Local, Unlinking
    <2>4. o.idx \in On(L[h])
      BY <1>3, <2>2, <2>3, TopKnown, Zenon
    <2>5. o.idx # idx[t]
      BY <1>1, <1>3, <2>3, <2>4, Zenon DEF Owners
    <2>6. next'[o.idx] = next[o.idx]
      BY <2>3, <2>5, HeadMoves, Zenon
    <2> QED
      BY <1>2, <2>1, <2>2, <2>6, Zenon DEF View
  <1>9. p = "link_cas" => next'[idx[u]] = o.idx
    <2>1. SUFFICES ASSUME p = "link_cas" PROVE next'[idx[u]] = o.idx
      BY Zenon
    <2>2. idx[u] \in Nodes /\ idx[u] # kNil
      BY <1>1, <2>1, Indices, Zenon DEF Locals, Local, Linking
    <2>3. idx[u] # idx[t]
      BY <1>1, <2>2, Zenon DEF Owners
    <2> QED
      BY <1>2, <2>1, <2>2, <2>3, HeadMoves, Zenon DEF View
  <1> QED
    BY <1>6, <1>7, <1>8, <1>9, Zenon DEF View

\* The thread that steps.
LEMMA OwnView ==
    ASSUME NEW L, IInv(L), NEW t \in Threads, Does(t)
    PROVE  View(pc'[t], hd'[t], idx'[t], old'[t], succ'[t], head', next')
  <1> USE DEF Goto
  <1>1. TypeOK /\ Locals
    BY Zenon DEF IInv
  <1>2. /\ pc \in [Threads -> Places] /\ hd \in [Threads -> Heads] /\ old \in [Threads -> Words]
        /\ idx \in [Threads -> Nodes \cup {kNil}] /\ succ \in [Threads -> Nodes \cup {kNil}]
        /\ next \in [Nodes -> Nodes \cup {kNil}]
    BY <1>1, TypeParts, Zenon DEF LocalsOK, SharedOK
  <1>3. /\ View(pc[t], hd[t], idx[t], old[t], succ[t], head, next)
        /\ head[hd[t]].gen \in Nat /\ (pc[t] \in Linking => idx[t] \in Nodes)
    BY <1>1, Indices, Zenon DEF IInv, Views
  <1>4. ASSUME pc'[t] \in {"idle", "unlink_load", "fresh", "chunk", "link_load"}
        PROVE  View(pc'[t], hd'[t], idx'[t], old'[t], succ'[t], head', next')
    BY <1>4, Zenon DEF View
  <1>5. CASE \/ (\E v \in Values : Push(t, v)) \/ Pop(t) \/ UnlinkCas(t) \/ TakeFresh(t)
             \/ InstallChunk(t) \/ LinkCas(t)
    <2>1. pc'[t] \in {"idle", "unlink_load", "fresh", "chunk", "link_load"}
      BY <1>2, <1>5 DEF Push, Pop, UnlinkCas, TakeFresh, InstallChunk, LinkCas, Return
    <2> QED
      BY <1>4, <2>1, Zenon
  <1>6. ASSUME UnlinkEmpty(t, head[hd[t]]) \/ UnlinkGo(t, head[hd[t]]), head' = head
        PROVE  View(pc'[t], hd'[t], idx'[t], old'[t], succ'[t], head', next')
    <2>1. CASE UnlinkEmpty(t, head[hd[t]])
      <3>1. pc'[t] \in {"idle", "unlink_load", "fresh", "chunk", "link_load"}
        BY <1>2, <2>1 DEF UnlinkEmpty, Return
      <3> QED
        BY <1>4, <3>1, Zenon
    <2>2. CASE UnlinkGo(t, head[hd[t]])
      <3>1. pc'[t] = "unlink_next" /\ hd'[t] = hd[t] /\ old'[t] = head[hd[t]]
        BY <1>2, <2>2 DEF UnlinkGo
      <3> QED
        BY <1>3, <1>6, <3>1 DEF View
    <2> QED
      BY <1>6, <2>1, <2>2, Zenon
  <1>7. CASE UnlinkLoad(t) \/ UnlinkRetry(t)
    BY <1>6, <1>7, Zenon DEF UnlinkLoad, UnlinkRetry, shared
  <1>8. CASE UnlinkNext(t)
    <2>1. /\ pc[t] = "unlink_next" /\ pc'[t] = "unlink_cas" /\ hd'[t] = hd[t] /\ old'[t] = old[t]
          /\ succ'[t] = next[old[t].idx] /\ head' = head /\ next' = next
      BY <1>2, <1>8 DEF UnlinkNext, shared
    <2> QED
      BY <1>3, <2>1 DEF View
  <1>9. CASE LinkLoad(t) \/ LinkRetry(t)
    <2>1. pc'[t] = "link_store" /\ hd'[t] = hd[t] /\ old'[t] = head[hd[t]] /\ head' = head
      BY <1>2, <1>9 DEF LinkLoad, LinkRetry, shared
    <2> QED
      BY <1>3, <2>1 DEF View
  <1>10. CASE LinkStore(t)
    <2>1. /\ pc[t] = "link_store" /\ pc'[t] = "link_cas" /\ hd'[t] = hd[t] /\ old'[t] = old[t]
          /\ idx'[t] = idx[t] /\ head' = head /\ next' = [next EXCEPT ![idx[t]] = old[t].idx]
      BY <1>2, <1>10 DEF LinkStore, locals
    <2>2. next'[idx[t]] = old[t].idx
      BY <1>2, <1>3, <2>1 DEF Linking
    <2> QED
      BY <1>3, <2>1, <2>2 DEF View
  <1> QED
    BY <1>5, <1>7, <1>8, <1>9, <1>10, Zenon DEF Does, Step

\* Every step keeps what every thread knows of the head it read.
LEMMA ViewsStep ==
    ASSUME NEW L, IInv(L), NEW t \in Threads, Does(t)
    PROVE  Views'
  <1>1. TypeOK
    BY Zenon DEF IInv
  <1>2. ASSUME NEW u \in Threads, u # t
        PROVE  View(pc'[u], hd'[u], idx'[u], old'[u], succ'[u], head', next')
    <2>1. /\ pc'[u] = pc[u] /\ hd'[u] = hd[u] /\ idx'[u] = idx[u] /\ old'[u] = old[u]
          /\ succ'[u] = succ[u]
      BY <1>1, <1>2, OtherLocals, Zenon
    <2>2. View(pc[u], hd[u], idx[u], old[u], succ[u], head', next')
      BY <1>2, OtherViews, Zenon
    <2> QED
      BY <2>1, <2>2, Zenon
  <1> QED
    BY <1>2, OwnView, Zenon DEF Views

-----------------------------------------------------------------------------
(* The count of the pool.                                                  *)

\* Only a push that begins comes to want a node.
LEMMA WantsStep ==
    ASSUME NEW L, IInv(L), NEW t \in Threads, Does(t)
    PROVE  /\ (\E v \in Values : Push(t, v)) \/ (Wants(t)' => Wants(t))
           /\ TakeFresh(t) => Wants(t) /\ ~Wants(t)'
  <1> USE DEF Goto
  <1>1. TypeOK /\ Locals
    BY Zenon DEF IInv
  <1>2. /\ pc \in [Threads -> Places] /\ hd \in [Threads -> Heads]
        /\ Local(pc[t], hd[t], idx[t], arg[t], old[t], value, chunks)
    BY <1>1, TypeParts, Zenon DEF LocalsOK, Locals
  <1>3. ASSUME pc'[t] \notin {"unlink_load", "unlink_next", "unlink_cas", "fresh"} \/ hd'[t] = "stack"
        PROVE  ~Wants(t)'
    BY <1>3 DEF Wants, Unlinking
  <1>4. CASE UnlinkCas(t) \/ TakeFresh(t) \/ InstallChunk(t) \/ LinkLoad(t) \/ LinkStore(t)
             \/ LinkRetry(t) \/ LinkCas(t)
    <2>1. pc'[t] \in {"link_load", "chunk", "link_store", "link_cas", "idle"}
      BY <1>2, <1>4 DEF UnlinkCas, TakeFresh, InstallChunk, LinkLoad, LinkStore, LinkRetry, LinkCas, Return
    <2>2. ~Wants(t)'
      BY <1>3, <2>1
    <2>3. TakeFresh(t) => Wants(t)
      BY <1>2 DEF TakeFresh, Wants, Local
    <2> QED
      BY <2>2, <2>3, Zenon
  <1>5. ~TakeFresh(t) \/ pc[t] = "fresh"
    BY Zenon DEF TakeFresh
  <1>6. CASE Pop(t)
    <2>1. hd'[t] = "stack" /\ pc[t] = "idle"
      BY <1>2, <1>6 DEF Pop
    <2> QED
      BY <1>3, <1>5, <2>1
  <1>7. CASE UnlinkLoad(t) \/ UnlinkRetry(t) \/ UnlinkNext(t)
    <2>1. /\ pc[t] \in {"unlink_load", "unlink_next", "unlink_cas"}
          /\ hd' = hd \/ (Return(t) /\ pc'[t] = "idle")
      BY <1>2, <1>7 DEF UnlinkLoad, UnlinkRetry, UnlinkNext, UnlinkEmpty, UnlinkGo, locals, Return
    <2>2. hd' = hd => (Wants(t)' => Wants(t))
      BY <2>1, Zenon DEF Wants, Unlinking
    <2>3. pc'[t] = "idle" => ~Wants(t)'
      BY <1>3, Zenon
    <2> QED
      BY <1>5, <2>1, <2>2, <2>3
  <1>8. CASE \E v \in Values : Push(t, v)
    <2>1. pc[t] = "idle"
      BY <1>8, Zenon DEF Push
    <2> QED
      BY <1>5, <1>8, <2>1
  <1> QED
    BY <1>4, <1>6, <1>7, <1>8, Zenon DEF Does, Step

\* pushes and nextFresh move with the pushes that begin and the fresh nodes.
LEMMA CountersStep ==
    ASSUME NEW L, IInv(L), NEW t \in Threads, Does(t)
    PROVE  \/ (\E v \in Values : Push(t, v)) /\ pushes' = pushes + 1 /\ nextFresh' = nextFresh
           \/ TakeFresh(t) /\ pushes' = pushes /\ nextFresh' = nextFresh + 1
           \/ ~(\E v \in Values : Push(t, v)) /\ pushes' = pushes /\ nextFresh' = nextFresh
  BY Zenon DEF Does, Step, Push, Pop, UnlinkLoad, UnlinkRetry, UnlinkNext, UnlinkCas, TakeFresh,
               InstallChunk, LinkLoad, LinkStore, LinkRetry, LinkCas, shared

\* Every step keeps the nodes handed out and wanted within the pushes begun.
LEMMA CountedStep ==
    ASSUME NEW L, IInv(L), NEW t \in Threads, Does(t)
    PROVE  Counted'
  <1>1. TypeOK /\ Counted
    BY Zenon DEF IInv
  <1> DEFINE W == Wanting
             X == Wanting'
             w == Cardinality(Wanting)
             x == Cardinality(Wanting')
  <1>2. \A u \in Threads : u # t => (Wants(u)' <=> Wants(u))
    BY <1>1, OtherLocals, Zenon DEF Wants
  <1>3. W \subseteq Threads /\ (t \in W <=> Wants(t)) /\ (t \in X <=> Wants(t)')
    BY Zenon DEF Wanting
  <1>4. \A u : u # t => (u \in X <=> u \in W)
    BY <1>2, Zenon DEF Wanting
  <1>5. X = W \/ X = W \ {t} \/ X = W \cup {t}
    BY <1>4, Zenon
  <1>6. (Wants(t)' => Wants(t)) => X \subseteq W
    BY <1>3, <1>4, Zenon
  <1>7. Wants(t) /\ ~Wants(t)' => X = W \ {t} /\ t \in W
    BY <1>3, <1>4
  <1>8. /\ w \in Nat /\ x \in Nat /\ x <= w + 1
        /\ X \subseteq W => x <= w
        /\ X = W \ {t} /\ t \in W => x + 1 = w
    <2> HIDE DEF W, X
    <2>1. w = Cardinality(W) /\ x = Cardinality(X)
      BY DEF W, X
    <2> HIDE DEF w, x
    <2> QED
      BY <1>3, <1>5, <2>1, CountStep, Zenon
  <1>9. nextFresh \in Nat /\ pushes \in Nat /\ nextFresh + w <= pushes
    BY <1>1, ConstantsAssumption DEF TypeOK, Counted
  <1>10. nextFresh' + x <= pushes'
    <2>1. CASE pushes' = pushes + 1 /\ nextFresh' = nextFresh
      <3> HIDE DEF w, x, W, X
      <3> QED
        BY <1>8, <1>9, <2>1
    <2>2. CASE TakeFresh(t) /\ pushes' = pushes /\ nextFresh' = nextFresh + 1
      <3>1. x + 1 = w
        BY <1>7, <1>8, <2>2, WantsStep, Zenon
      <3> HIDE DEF w, x, W, X
      <3> QED
        BY <1>8, <1>9, <2>2, <3>1
    <2>3. CASE ~(\E v \in Values : Push(t, v)) /\ pushes' = pushes /\ nextFresh' = nextFresh
      <3>1. x <= w
        BY <1>6, <1>8, <2>3, WantsStep, Zenon
      <3> HIDE DEF w, x, W, X
      <3> QED
        BY <1>8, <1>9, <2>3, <3>1
    <2> QED
      BY <2>1, <2>2, <2>3, CountersStep, Zenon
  <1> QED
    BY <1>10, Zenon DEF Counted

-----------------------------------------------------------------------------
(* The invariant.                                                          *)

Inv == \E L : IInv(L)

\* The pool starts empty and so do both lists.
LEMMA InitInv == Init => Inv
  <1> SUFFICES ASSUME Init PROVE Inv
    OBVIOUS
  <1> DEFINE L == [h \in Heads |-> <<>>]
  <1>1. kNil \in Nat /\ Nowhere \in Words /\ Nowhere.idx = kNil
    BY ConstantsAssumption DEF kNil, Nowhere, Words
  <1>2. SharedOK
    BY <1>1, ConstantsAssumption DEF Init, SharedOK
  <1>3. LocalsOK
    BY <1>1, Zenon DEF Init, LocalsOK, Places, Heads
  <1>4. \A t \in Threads : pc[t] = "idle" /\ idx[t] = kNil
    BY Zenon DEF Init
  <1>5. Locals
    BY <1>4 DEF Locals, Local, Linking, Unlinking
  <1>6. Views
    BY <1>4, Zenon DEF Views, View
  <1>7. Counted
    <2>1. Wanting = {}
      BY <1>4 DEF Wanting, Wants, Unlinking
    <2>2. Cardinality(Wanting) = 0
      BY <2>1, FS_EmptySet, Zenon
    <2> QED
      BY <2>2 DEF Counted, Init
  <1>8. L \in [Heads -> Seq(Nodes)] /\ \A h \in Heads : L[h] = <<>> /\ Len(L[h]) = 0 /\ On(L[h]) = {}
    <2>1. \A h \in Heads : L[h] = <<>> /\ <<>> \in Seq(Nodes) /\ Len(<<>>) = 0
      OBVIOUS
    <2> QED
      BY <2>1 DEF On
  <1> HIDE DEF L
  <1>9. Lists(L, head, next)
    <2>1. \A h \in Heads : head[h].idx = kNil
      BY <1>1 DEF Init
    <2> QED
      BY <1>8, <2>1 DEF Lists, Spells, Distinct, Heads
  <1>10. Owners(L, idx, nextFresh)
    <2>1. \A n \in Nodes : ~(n < nextFresh)
      BY ConstantsAssumption DEF Init, Nodes
    <2> QED
      BY <1>4, <1>8, <2>1, Zenon DEF Owners
  <1>11. Contents(L, chunks, value, nextFresh)
    BY <1>8, Zenon DEF Contents, Init, Heads
  <1> QED
    BY <1>2, <1>3, <1>5, <1>6, <1>7, <1>9, <1>10, <1>11, TypeParts, Zenon DEF Inv, IInv

\* The lists after a step: shorter, longer or as they were.
After(L, M, t) ==
    IF UnlinkCas(t) THEN Cut(L, M, hd[t])
    ELSE IF LinkCas(t) THEN Grown(L, M, hd[t], idx[t])
    ELSE M = L

\* Every step keeps the lists, the owners and the contents, with the lists as
\* the step leaves them.
LEMMA StepLists ==
    ASSUME NEW L, IInv(L), NEW t \in Threads, Does(t), NEW M, After(L, M, t)
    PROVE  /\ Lists(M, head', next') /\ Owners(M, idx', nextFresh')
           /\ Contents(M, chunks', value', nextFresh')
  <1>1. /\ Lists(L, head, next) /\ Owners(L, idx, nextFresh) /\ TypeOK /\ Locals
    BY Zenon DEF IInv
  <1>2. CASE UnlinkCas(t)
    <2>1. Cut(L, M, hd[t])
      BY <1>2, Zenon DEF After
    <2>2. Lists(M, head', next') /\ Took(L, M, hd[t], old[t].idx)
      BY <1>2, <2>1, Cutting, Zenon
    <2>3. Owners(M, idx', nextFresh')
      BY <1>2, <2>1, OwnersTaken, Zenon
    <2>4. \A h \in Heads : On(M[h]) \subseteq On(L[h])
      BY <2>2 DEF Took
    <2>5. nextFresh' = nextFresh
      BY <1>2, Zenon DEF UnlinkCas
    <2>6. Contents(M, chunks', value', nextFresh')
      BY <2>4, <2>5, ContentsKept, Zenon
    <2> QED
      BY <2>2, <2>3, <2>6, Zenon
  <1>3. CASE LinkCas(t) /\ ~UnlinkCas(t)
    <2>1. Grown(L, M, hd[t], idx[t])
      BY <1>3, Zenon DEF After
    <2> QED
      BY <1>3, <2>1, Growing, OwnersGiven, ContentsGiven, Zenon
  <1>4. CASE ~UnlinkCas(t) /\ ~LinkCas(t)
    <2>1. M = L /\ \A h \in Heads : On(M[h]) \subseteq On(L[h])
      BY <1>4, Zenon DEF After
    <2>2. Quiet(t) \/ TakeFresh(t)
      BY <1>4, Zenon DEF Does, Step, Quiet
    <2>3. LinkStore(t) \/ UNCHANGED <<head, next>>
      BY <2>2, QuietSteps, Zenon DEF TakeFresh
    <2>4. Lists(L, head', next')
      BY <2>3, Staying, Zenon
    <2>5. CASE Quiet(t)
      <3>1. idx' = idx /\ nextFresh' = nextFresh
        BY <2>5, QuietSteps, Zenon
      <3>2. Contents(M, chunks', value', nextFresh')
        BY <2>1, <3>1, ContentsKept, Zenon
      <3> QED
        BY <1>1, <2>1, <2>4, <3>1, <3>2, Zenon
    <2>6. CASE TakeFresh(t)
      <3>1. nextFresh' = nextFresh + 1 /\ idx[t] = kNil
        BY <1>1, <2>6, Zenon DEF TakeFresh, Locals, Local, Linking
      <3>2. Contents(M, chunks', value', nextFresh')
        BY <2>1, <3>1, ContentsKept, Zenon
      <3>3. Owners(L, idx', nextFresh')
        BY <2>6, OwnersFresh, Zenon
      <3> QED
        BY <2>1, <2>4, <3>2, <3>3, Zenon
    <2> QED
      BY <2>2, <2>5, <2>6, Zenon
  <1> QED
    BY <1>2, <1>3, <1>4, Zenon

\* There are lists for the state after any step.
LEMMA AfterExists == ASSUME NEW L, NEW t PROVE \E M : After(L, M, t)
  BY Zenon DEF After, Cut, Grown

\* Every step keeps the invariant, with the lists it leaves.
LEMMA StepInv ==
    ASSUME Inv, [Next]_vars
    PROVE  Inv'
  <1>1. PICK L : IInv(L)
    BY Zenon DEF Inv
  <1>2. CASE UNCHANGED vars
    <2>1. TypeOK' /\ Locals' /\ Views' /\ Counted'
      BY <1>1, <1>2, Zenon DEF IInv, TypeOK, Locals, Views, Counted, Wanting, Wants, vars, shared, locals
    <2>2. /\ head' = head /\ next' = next /\ idx' = idx /\ nextFresh' = nextFresh
          /\ chunks' = chunks /\ value' = value
      BY <1>2, Zenon DEF vars, shared, locals
    <2> QED
      BY <1>1, <2>1, <2>2, Zenon DEF Inv, IInv
  <1>3. ASSUME NEW t \in Threads, Does(t) PROVE Inv'
    <2>1. PICK M : After(L, M, t)
      BY AfterExists, Zenon
    <2>2. /\ Lists(M, head', next') /\ Owners(M, idx', nextFresh')
          /\ Contents(M, chunks', value', nextFresh')
      BY <1>1, <1>3, <2>1, StepLists, Zenon
    <2>3. TypeOK' /\ Locals' /\ Views' /\ Counted'
      BY <1>1, <1>3, TypesStep, LocalsStep, ViewsStep, CountedStep, Zenon
    <2> QED
      BY <2>2, <2>3, Zenon DEF Inv, IInv
  <1> QED
    BY <1>2, <1>3, Zenon DEF Next, Does

\* The invariant holds for any number of threads, values and pushes: there are
\* two lists that the links spell out, and every node handed out is in one of
\* them or in the hands of one thread.
THEOREM Invariant == Spec => []Inv
  <1>1. Inv /\ [Next]_vars => Inv'
    BY StepInv, Zenon
  <1> QED
    BY <1>1, InitInv, PTL DEF Spec

-----------------------------------------------------------------------------
(* What follows.                                                           *)

Stacked(s, v) == [k \in 1..Len(s) |-> v[s[k]]]

\* Listed and StackValues are the lists, before a step and after it.
LEMMA ListsRead ==
    ASSUME NEW L, Lists(L, head, next)
    PROVE  /\ \A h \in Heads : Listed(h) = On(L[h])
           /\ StackValues = Stacked(L["stack"], value)
  <1>1. ASSUME NEW h \in Heads
        PROVE  /\ Depth(h) = Len(L[h]) /\ Listed(h) = On(L[h])
               /\ \A j \in 1..Len(L[h]) : Path(h)[Len(L[h]) - j] = L[h][j]
    <2>1. L[h] \in Seq(Nodes) /\ Spells(L[h], head[h].idx, next) /\ Distinct(L[h])
      BY DEF Lists
    <2>2. IsPath(Path(h), head[h].idx, next)
      BY PathIs, Zenon
    <2> DEFINE p == Path(h)
    <2>3. Reads(p, L[h])
      <3> HIDE DEF p
      <3>1. IsPath(p, head[h].idx, next)
        BY <2>2, Zenon DEF p
      <3> QED
        BY <2>1, <3>1, ListRead, Zenon
    <2> QED
      BY <2>3, Zenon DEF Depth, Listed, DepthOf, NodesOf, Reads
  <1>2. "stack" \in Heads
    BY Zenon DEF Heads
  <1> QED
    BY <1>1, <1>2, Zenon DEF StackValues, Stacked

\* After a step too, the values on the stack are those of its list.
LEMMA ListsReadNext ==
    ASSUME NEW M, Lists(M, head', next')
    PROVE  StackValues' = Stacked(M["stack"], value')
  <1> DEFINE p == Path("stack")'
             s == M["stack"]
  <1>1. s \in Seq(Nodes) /\ Spells(s, head'["stack"].idx, next') /\ Distinct(s)
    BY DEF Lists, Heads
  <1>2. IsPath(p, head'["stack"].idx, next')
    BY PathIs, Zenon
  <1>3. Reads(p, s)
    <2> HIDE DEF p, s
    <2> QED
      BY <1>1, <1>2, ListRead, Zenon
  <1>4. Depth("stack")' = Len(s)
    BY <1>3, Zenon DEF Depth, DepthOf, Reads
  <1> QED
    BY <1>3, <1>4, Zenon DEF StackValues, Stacked, Reads

\* No node is lost, shared or linked twice, and no index leaves the pool, for
\* any number of threads, values and pushes.
THEOREM NodesOwnedOnceHolds == Spec => []NodesOwnedOnce
  <1>1. Inv => NodesOwnedOnce
    <2> SUFFICES ASSUME Inv PROVE NodesOwnedOnce
      BY Zenon
    <2>1. PICK L : IInv(L)
      BY Zenon DEF Inv
    <2>2. TypeOK /\ Lists(L, head, next) /\ Owners(L, idx, nextFresh)
      BY <2>1, Zenon DEF IInv
    <2>3. /\ Listed("stack") = On(L["stack"]) /\ Listed("free") = On(L["free"])
          /\ Heads = {"stack", "free"}
      BY <2>2, ListsRead DEF Heads
    <2>4. Listed("stack") \cap Listed("free") = {}
      BY <2>2, <2>3, Zenon DEF Lists
    <2>5. \A t \in Threads : idx[t] # kNil =>
            /\ idx[t] \notin Listed("stack") \cup Listed("free")
            /\ \A u \in Threads \ {t} : idx[u] # idx[t]
      BY <2>2, <2>3, Zenon DEF Owners
    <2>6. \A n \in Nodes : n < nextFresh =>
            n \in Listed("stack") \cup Listed("free") \cup {idx[t] : t \in Threads}
      <3>1. \A h \in Heads : On(L[h]) = Listed("stack") \/ On(L[h]) = Listed("free")
        BY <2>3, Zenon
      <3>2. \A n \in Nodes : n < nextFresh =>
               (\E h \in Heads : n \in On(L[h])) \/ (\E t \in Threads : idx[t] = n)
        BY <2>2, Zenon DEF Owners
      <3> QED
        BY <3>1, <3>2
    <2> QED
      BY <2>2, <2>4, <2>5, <2>6, Zenon DEF NodesOwnedOnce
  <1> QED
    BY <1>1, Invariant, PTL

\* No thread follows an index into a chunk that is not installed, for any
\* number of threads and any size of the first chunk.
THEOREM ChunksPresentHolds == Spec => []ChunksPresent
  <1>1. Inv => ChunksPresent
    BY Zenon DEF Inv, IInv, Locals, Local, Linking, Unlinking, ChunksPresent
  <1> QED
    BY <1>1, Invariant, PTL

-----------------------------------------------------------------------------
(* The atomic stack.                                                       *)

\* What a thread whose head is h and whose node is i has popped.
Popped(h, i, v) == IF h = "free" /\ i # kNil THEN v[i] ELSE NoValue

\* The values of a longer and of a shorter list.
LEMMA StackedAppended ==
    ASSUME NEW s \in Seq(Nodes), NEW n \in Nodes, NEW v \in [Nodes -> Values \cup {NoValue}]
    PROVE  Stacked(Append(s, n), v) = Append(Stacked(s, v), v[n])
  <1>1. Len(s) \in Nat /\ \A k \in 1..Len(s) : s[k] \in Nodes
    OBVIOUS
  <1>2. Stacked(s, v) \in Seq(Values \cup {NoValue}) /\ Len(Stacked(s, v)) = Len(s)
    BY <1>1 DEF Stacked
  <1> QED
    BY <1>1, <1>2 DEF Stacked

\* The values of a list without its last node, and the value of that node.
LEMMA StackedShortened ==
    ASSUME NEW s \in Seq(Nodes), s # <<>>, NEW v \in [Nodes -> Values \cup {NoValue}]
    PROVE  /\ Stacked(SubSeq(s, 1, Len(s) - 1), v) = SubSeq(Stacked(s, v), 1, Len(Stacked(s, v)) - 1)
           /\ Stacked(s, v) # <<>> /\ Stacked(s, v)[Len(Stacked(s, v))] = v[s[Len(s)]]
  <1>1. Len(s) \in Nat \ {0} /\ \A k \in 1..Len(s) : s[k] \in Nodes
    OBVIOUS
  <1>2. Stacked(s, v) \in Seq(Values \cup {NoValue}) /\ Len(Stacked(s, v)) = Len(s)
    BY <1>1 DEF Stacked
  <1>3. Stacked(s, v) # <<>> /\ \A k \in 1..Len(s) : Stacked(s, v)[k] = v[s[k]]
    BY <1>1, <1>2, Zenon DEF Stacked
  <1> QED
    BY <1>1, <1>2, <1>3 DEF Stacked

\* A step of t changes what no other thread has popped.
LEMMA OtherPopped ==
    ASSUME NEW L, IInv(L), NEW t \in Threads, Does(t), NEW u \in Threads, u # t
    PROVE  Popped(hd'[u], idx'[u], value') = Popped(hd[u], idx[u], value)
  <1>1. TypeOK /\ Owners(L, idx, nextFresh)
    BY Zenon DEF IInv
  <1>2. hd'[u] = hd[u] /\ idx'[u] = idx[u]
    BY <1>1, OtherLocals, Zenon
  <1>3. idx[u] \in Nodes \cup {kNil}
    BY <1>1, Zenon DEF TypeOK
  <1>4. idx[u] # kNil => idx[u] # idx[t]
    BY <1>1, Zenon DEF Owners
  <1>5. idx[u] # kNil => value'[idx[u]] = value[idx[u]]
    BY <1>3, <1>4, WritesOwn, Zenon
  <1> QED
    BY <1>2, <1>5, Zenon DEF Popped

\* What t has popped changes only at the compare-and-swaps of a pop.
LEMMA OwnPopped ==
    ASSUME NEW L, IInv(L), NEW t \in Threads, Does(t),
           ~(UnlinkCas(t) /\ hd[t] = "stack"), ~(LinkCas(t) /\ hd[t] = "free")
    PROVE  Popped(hd'[t], idx'[t], value') = Popped(hd[t], idx[t], value)
  <1>1. TypeOK /\ Locals /\ Counted /\ Contents(L, chunks, value, nextFresh)
    BY Zenon DEF IInv
  <1>2. /\ hd \in [Threads -> Heads] /\ idx \in [Threads -> Nodes \cup {kNil}] /\ hd[t] \in Heads
        /\ Local(pc[t], hd[t], idx[t], arg[t], old[t], value, chunks)
    BY <1>1, TypeParts, Indices, Zenon DEF LocalsOK, Locals
  <1>3. ASSUME idx[t] = kNil \/ hd[t] = "stack", idx'[t] = kNil \/ hd'[t] = "stack"
        PROVE  Popped(hd'[t], idx'[t], value') = Popped(hd[t], idx[t], value)
    BY <1>3, Zenon DEF Popped
  <1>4. CASE UnlinkCas(t) \/ LinkCas(t)
    <2>1. CASE UnlinkCas(t)
      BY <1>2, <1>3, <2>1 DEF UnlinkCas, Local, Linking, Heads
    <2>2. CASE LinkCas(t)
      BY <1>2, <1>3, <2>2, Zenon DEF LinkCas, Return, Heads
    <2> QED
      BY <1>4, <2>1, <2>2
  <1>5. CASE TakeFresh(t)
    <2>1. /\ idx'[t] = nextFresh /\ hd'[t] = hd[t] /\ value' = value /\ idx[t] = kNil
          /\ pc[t] = "fresh"
      BY <1>2, <1>5 DEF TakeFresh, Local, Linking
    <2>2. nextFresh \in Nodes
      BY <1>1, <2>1, FreshFits, Zenon
    <2>3. nextFresh >= nextFresh
      BY <2>2, ConstantsAssumption DEF Nodes
    <2>4. value[nextFresh] = NoValue
      BY <1>1, <2>2, <2>3, Zenon DEF Contents
    <2> QED
      BY <2>1, <2>4, Zenon DEF Popped
  <1>6. CASE InstallChunk(t)
    <2>1. hd'[t] = "stack" /\ pc[t] = "chunk" /\ value[idx[t]] = NoValue
      BY <1>2, <1>6 DEF InstallChunk, Local
    <2> QED
      BY <2>1, Zenon DEF Popped
  <1>7. CASE LinkLoad(t)
    <2>1. hd'[t] = hd[t] /\ idx'[t] = idx[t]
      BY <1>7, Zenon DEF LinkLoad
    <2>2. hd[t] = "free" => value' = value
      BY <1>7 DEF LinkLoad
    <2> QED
      BY <2>1, <2>2, Zenon DEF Popped
  <1>8. CASE UnlinkLoad(t) \/ UnlinkRetry(t) \/ UnlinkNext(t) \/ Pop(t) \/ \E v \in Values : Push(t, v)
    <2>1. pc[t] \in {"idle", "unlink_load", "unlink_next", "unlink_cas"}
      BY <1>8, Zenon DEF UnlinkLoad, UnlinkRetry, UnlinkNext, Pop, Push
    <2>2. idx[t] = kNil
      BY <1>2, <2>1 DEF Local, Linking
    <2>3. idx' = idx
      BY <1>8, QuietSteps, Zenon DEF Quiet
    <2> QED
      BY <1>3, <2>2, <2>3, Zenon
  <1>9. CASE LinkStore(t) \/ LinkRetry(t)
    BY <1>9, Zenon DEF LinkStore, LinkRetry, locals, shared
  <1> QED
    BY <1>4, <1>5, <1>6, <1>7, <1>8, <1>9, Zenon DEF Does, Step

\* The values on the stack are those it had, unless the stack's own head moved.
LEMMA StackKept ==
    ASSUME NEW L, IInv(L), NEW t \in Threads, Does(t), NEW M, After(L, M, t),
           ~((UnlinkCas(t) \/ LinkCas(t)) /\ hd[t] = "stack")
    PROVE  StackValues' = StackValues
  <1>1. /\ TypeOK /\ Lists(L, head, next) /\ Owners(L, idx, nextFresh)
        /\ L["stack"] \in Seq(Nodes) /\ "stack" \in Heads
    BY DEF IInv, Lists, Heads
  <1>2. M["stack"] = L["stack"]
    <2>1. CASE UnlinkCas(t)
      <3>1. Cut(L, M, hd[t]) /\ hd[t] # "stack"
        BY <2>1, Zenon DEF After
      <3>2. Took(L, M, hd[t], old[t].idx)
        BY <2>1, <3>1, Cutting, Zenon
      <3> QED
        BY <1>1, <3>1, <3>2, Zenon DEF Took
    <2>2. CASE LinkCas(t) /\ ~UnlinkCas(t)
      <3>1. Grown(L, M, hd[t], idx[t]) /\ hd[t] # "stack"
        BY <2>2, Zenon DEF After
      <3>2. Gave(L, M, hd[t], idx[t])
        BY <2>2, <3>1, Growing, Zenon
      <3> QED
        BY <1>1, <3>1, <3>2, Zenon DEF Gave
    <2> QED
      BY <2>1, <2>2, Zenon DEF After
  <1>3. Lists(M, head', next')
    BY StepLists, Zenon
  <1>4. \A k \in 1..Len(L["stack"]) : L["stack"][k] \in On(L["stack"]) /\ L["stack"][k] \in Nodes
    BY <1>1, OnNodes, Zenon
  <1>5. idx[t] \notin On(L["stack"])
    <2>1. \A n \in On(L["stack"]) : n \in Nodes /\ n # kNil
      BY <1>1, OnNodes, Zenon
    <2> QED
      BY <1>1, <2>1, Zenon DEF Owners
  <1>6. \A k \in 1..Len(L["stack"]) : value'[L["stack"][k]] = value[L["stack"][k]]
    BY <1>4, <1>5, WritesOwn, Zenon
  <1>7. Stacked(L["stack"], value') = Stacked(L["stack"], value)
    BY <1>6, Zenon DEF Stacked
  <1>8. StackValues = Stacked(L["stack"], value)
    BY <1>1, ListsRead, Zenon
  <1>9. StackValues' = Stacked(M["stack"], value')
    BY <1>3, ListsReadNext, Zenon
  <1> QED
    BY <1>2, <1>7, <1>8, <1>9, Zenon

\* The stack's own compare-and-swaps: a push puts its value on top, a pop takes
\* the value on top, and nothing else moves.
LEMMA StackMoves ==
    ASSUME NEW L, IInv(L), NEW t \in Threads, Does(t), NEW M, After(L, M, t), hd[t] = "stack"
    PROVE  /\ LinkCas(t) /\ ~UnlinkCas(t) =>
                 /\ value[idx[t]] \in Values /\ StackValues' = Append(StackValues, value[idx[t]])
                 /\ Popped(hd'[t], idx'[t], value') = Popped(hd[t], idx[t], value)
           /\ UnlinkCas(t) =>
                 /\ StackValues # <<>>
                 /\ StackValues' = SubSeq(StackValues, 1, Len(StackValues) - 1)
                 /\ Popped(hd[t], idx[t], value) = NoValue
                 /\ Popped(hd'[t], idx'[t], value') = StackValues[Len(StackValues)]
  <1> DEFINE s == L["stack"]
  <1>1. /\ TypeOK /\ Locals /\ Lists(L, head, next) /\ s \in Seq(Nodes) /\ L \in [Heads -> Seq(Nodes)]
        /\ value \in [Nodes -> Values \cup {NoValue}] /\ "stack" \in Heads
    BY DEF IInv, Lists, Heads, TypeOK
  <1>2. StackValues = Stacked(s, value)
    BY <1>1, ListsRead, Zenon
  <1>3. Lists(M, head', next')
    BY StepLists, Zenon
  <1>4. StackValues' = Stacked(M["stack"], value')
    BY <1>3, ListsReadNext, Zenon
  <1>5. /\ hd \in [Threads -> Heads] /\ idx \in [Threads -> Nodes \cup {kNil}]
        /\ Local(pc[t], hd[t], idx[t], arg[t], old[t], value, chunks)
    BY <1>1, TypeParts, Zenon DEF LocalsOK, Locals
  <1>6. Popped(hd[t], idx[t], value) = NoValue
    BY Zenon DEF Popped
  <1>7. ASSUME LinkCas(t), ~UnlinkCas(t)
        PROVE  /\ value[idx[t]] \in Values /\ StackValues' = Append(StackValues, value[idx[t]])
               /\ Popped(hd'[t], idx'[t], value') = NoValue
    <2>1. pc[t] = "link_cas" /\ value' = value /\ idx'[t] = kNil
      BY <1>5, <1>7, Zenon DEF LinkCas, Return
    <2>2. idx[t] \in Nodes /\ value[idx[t]] \in Values
      BY <1>1, <1>5, <2>1, Indices DEF Local, Linking
    <2>3. Grown(L, M, hd[t], idx[t])
      BY <1>7, Zenon DEF After
    <2>4. M["stack"] = Append(s, idx[t])
      BY <1>1, <2>3, Zenon DEF Grown
    <2>5. Stacked(Append(s, idx[t]), value) = Append(Stacked(s, value), value[idx[t]])
      BY <1>1, <2>2, StackedAppended, Zenon
    <2>6. Popped(hd'[t], idx'[t], value') = NoValue
      BY <2>1 DEF Popped
    <2> QED
      BY <1>2, <1>4, <2>1, <2>2, <2>4, <2>5, <2>6, Zenon
  <1>8. ASSUME UnlinkCas(t)
        PROVE  /\ StackValues # <<>>
               /\ StackValues' = SubSeq(StackValues, 1, Len(StackValues) - 1)
               /\ Popped(hd'[t], idx'[t], value') = StackValues[Len(StackValues)]
    <2>1. /\ pc[t] = "unlink_cas" /\ value' = value /\ idx'[t] = old[t].idx /\ hd'[t] = "free"
          /\ old[t].idx # kNil
      BY <1>5, <1>8 DEF UnlinkCas, Local, Unlinking
    <2>2. Cut(L, M, hd[t])
      BY <1>8, Zenon DEF After
    <2>3. s # <<>> /\ old[t].idx = s[Len(s)]
      <3>1. Top(L, hd[t], old[t].idx)
        BY <1>8, <2>2, Cutting, Zenon
      <3> QED
        BY <3>1, Zenon DEF Top
    <2>4. M["stack"] = SubSeq(s, 1, Len(s) - 1)
      BY <1>1, <2>2 DEF Cut
    <2> DEFINE r == Stacked(s, value)
    <2>5. /\ Stacked(SubSeq(s, 1, Len(s) - 1), value) = SubSeq(r, 1, Len(r) - 1)
          /\ r # <<>> /\ r[Len(r)] = value[s[Len(s)]]
      BY <1>1, <2>3, StackedShortened, Zenon
    <2>6. Popped(hd'[t], idx'[t], value') = value[old[t].idx]
      BY <2>1 DEF Popped
    <2> HIDE DEF r, s
    <2>7. StackValues = r /\ StackValues' = Stacked(SubSeq(s, 1, Len(s) - 1), value)
      BY <1>2, <1>4, <2>1, <2>4, Zenon DEF r, s
    <2> QED
      BY <2>3, <2>5, <2>6, <2>7, Zenon
  <1> QED
    BY <1>6, <1>7, <1>8, Zenon

\* holding, as the mapping defines it, changes where Popped does.
Held == [t \in Threads |-> IF hd[t] = "free" /\ idx[t] # kNil THEN value[idx[t]] ELSE NoValue]

\* The values pops hold, thread by thread.
LEMMA HeldIs ==
    /\ Held = [t \in Threads |-> Popped(hd[t], idx[t], value)]
    /\ Held' = [t \in Threads |-> Popped(hd'[t], idx'[t], value')]
  BY Zenon DEF Held, Popped

\* Every step of the code is a step of the atomic stack or leaves it alone.
LEMMA StepLifo ==
    ASSUME NEW L, IInv(L), NEW t \in Threads, Does(t)
    PROVE  [Lifo!Next]_(Lifo!vars)
  <1>1. PICK M : After(L, M, t)
    BY AfterExists, Zenon
  <1> DEFINE x == Popped(hd'[t], idx'[t], value')
  <1>2. \A u \in Threads : u # t => Popped(hd'[u], idx'[u], value') = Popped(hd[u], idx[u], value)
    BY OtherPopped, Zenon
  <1>3. Held[t] = Popped(hd[t], idx[t], value) /\ Held' = [Held EXCEPT ![t] = x]
    <2> HIDE DEF x
    <2>1. x = Popped(hd'[t], idx'[t], value')
      BY DEF x
    <2> QED
      BY <1>2, <2>1, HeldIs
  <1>4. x = Popped(hd[t], idx[t], value) => Held' = Held
    BY <1>2, HeldIs, Zenon
  <1> HIDE DEF x
  <1>5. hd[t] \in Heads /\ ~(UnlinkCas(t) /\ LinkCas(t)) /\ "free" # "stack"
    BY Indices DEF IInv, UnlinkCas, LinkCas
  <1>6. CASE UnlinkCas(t) /\ hd[t] = "stack"
    <2>1. /\ StackValues # <<>> /\ StackValues' = SubSeq(StackValues, 1, Len(StackValues) - 1)
          /\ Held[t] = NoValue /\ x = StackValues[Len(StackValues)]
      BY <1>1, <1>3, <1>6, StackMoves, Zenon DEF x
    <2>2. Lifo!Pop(t)
      BY <1>3, <2>1, Zenon DEF Lifo!Pop, Held
    <2> QED
      BY <2>2, Zenon DEF Lifo!Next
  <1>7. CASE LinkCas(t) /\ hd[t] = "stack"
    <2>1. /\ value[idx[t]] \in Values /\ StackValues' = Append(StackValues, value[idx[t]])
          /\ x = Popped(hd[t], idx[t], value)
      BY <1>1, <1>5, <1>7, StackMoves, Zenon DEF x
    <2>2. Lifo!Push(value[idx[t]])
      BY <1>4, <2>1, Zenon DEF Lifo!Push, Held
    <2> QED
      BY <2>1, <2>2, Zenon DEF Lifo!Next
  <1>8. CASE LinkCas(t) /\ hd[t] = "free"
    <2>1. StackValues' = StackValues
      BY <1>1, <1>5, <1>8, StackKept, Zenon
    <2>2. x = NoValue /\ Held[t] # NoValue
      <3>1. pc[t] = "link_cas" /\ Local(pc[t], hd[t], idx[t], arg[t], old[t], value, chunks) /\ TypeOK
        BY <1>8, Zenon DEF LinkCas, IInv, Locals
      <3>2. idx[t] # kNil /\ value[idx[t]] \in Values
        BY <3>1, Zenon DEF Local, Linking
      <3>3. idx'[t] = kNil
        BY <1>8, <3>1 DEF LinkCas, Return, TypeOK
      <3> QED
        BY <1>3, <1>8, <3>2, <3>3, ConstantsAssumption DEF Popped, x
    <2>3. Lifo!Return(t)
      BY <1>3, <2>1, <2>2, Zenon DEF Lifo!Return, Held
    <2> QED
      BY <2>3, Zenon DEF Lifo!Next
  <1>9. CASE ~((UnlinkCas(t) \/ LinkCas(t)) /\ hd[t] = "stack") /\ ~(LinkCas(t) /\ hd[t] = "free")
    <2>1. StackValues' = StackValues
      BY <1>1, <1>9, StackKept, Zenon
    <2>2. Held' = Held
      BY <1>4, <1>9, OwnPopped, Zenon DEF x
    <2> QED
      BY <2>1, <2>2, Zenon DEF Lifo!vars, Held
  <1> QED
    BY <1>6, <1>7, <1>8, <1>9, Zenon

\* push and pop are a last-in-first-out stack for any number of threads, values
\* and pushes: each takes effect at one compare-and-swap of the head.
THEOREM LifoHolds == Spec => ImplementsLifo
  <1>1. Init => Lifo!Init
    <2> SUFFICES ASSUME Init PROVE Lifo!Init
      OBVIOUS
    <2>1. \A h \in Heads : head[h].idx = kNil /\ "stack" \in Heads
      BY DEF Init, Nowhere, Heads
    <2> DEFINE L == [h \in Heads |-> <<>>]
    <2>2. L \in [Heads -> Seq(Nodes)] /\ \A h \in Heads : L[h] = <<>> /\ Len(L[h]) = 0 /\ On(L[h]) = {}
      <3>1. \A h \in Heads : L[h] = <<>> /\ <<>> \in Seq(Nodes) /\ Len(<<>>) = 0
        OBVIOUS
      <3> QED
        BY <3>1 DEF On
    <2> HIDE DEF L
    <2>3. Lists(L, head, next)
      BY <2>1, <2>2 DEF Lists, Spells, Distinct, Heads
    <2>4. StackValues = Stacked(L["stack"], value)
      BY <2>3, ListsRead, Zenon
    <2>5. StackValues = <<>>
      BY <2>1, <2>2, <2>4 DEF Stacked, Heads
    <2>6. Held = [t \in Threads |-> NoValue]
      BY DEF Held, Init
    <2> QED
      BY <2>5, <2>6, Zenon DEF Lifo!Init, Held
  <1>2. Inv /\ [Next]_vars => [Lifo!Next]_(Lifo!vars)
    <2> SUFFICES ASSUME Inv, [Next]_vars PROVE [Lifo!Next]_(Lifo!vars)
      BY Zenon
    <2>1. PICK L : IInv(L)
      BY Zenon DEF Inv
    <2>2. CASE UNCHANGED vars
      <3>1. head' = head /\ next' = next /\ value' = value /\ hd' = hd /\ idx' = idx
        BY <2>2, Zenon DEF vars, shared, locals
      <3>2. Lists(L, head, next) /\ Lists(L, head', next')
        BY <2>1, <3>1, Zenon DEF IInv
      <3>3. StackValues = Stacked(L["stack"], value)
        BY <3>2, ListsRead, Zenon
      <3>4. StackValues' = Stacked(L["stack"], value')
        BY <3>2, ListsReadNext, Zenon
      <3>5. Held' = Held
        BY <3>1, Zenon DEF Held
      <3> QED
        BY <3>1, <3>3, <3>4, <3>5, Zenon DEF Lifo!vars, Held
    <2>3. CASE Next
      BY <2>1, <2>3, StepLifo, Zenon DEF Next, Does
    <2> QED
      BY <2>2, <2>3, Zenon
  <1> QED
    BY <1>1, <1>2, Invariant, PTL DEF Spec, ImplementsLifo, Lifo!Spec

=============================================================================
