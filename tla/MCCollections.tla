---------------------------- MODULE MCCollections ---------------------------
(***************************************************************************)
(* Every native of the collections on small receivers, with a program that *)
(* may answer each callback in any way; the result of a call is the        *)
(* receiver of the next.                                                   *)
(*   self  the receiver     call  the native and its arguments             *)
(*   req   where the native stands    log  the callbacks, their answers    *)
(*   twin  the same call on the List of the receiver's elements            *)
(***************************************************************************)
EXTENDS Collections

\* The receivers, the length of a chain of calls, and the operators of
\* Collections: a call, its continuation, == and the result of a constructor.
CONSTANTS Receivers, MaxCalls, CallNative(_, _, _), GoOn(_, _), Same(_, _), Made(_, _)

MCCallNative(v, x, args) == LET r == Native(v, x, args) IN r
MCGoOn(c, v) == LET r == Resume(c, v) IN r
MCSame(v, w) == LET r == Equal(v, w) IN r
MCMade(kind, vs) == LET r == Keyed(kind, vs) IN r.v

VARIABLES self, call, req, twin, log, calls

vars == <<self, call, req, twin, log, calls>>

Ints(ns) == [i \in DOMAIN ns |-> Num(ns[i])] \o <<>>
L(ns) == List(Ints(ns))
Char(n) == <<"Char", n>>
Str(s) == <<"Str", s>>
Fn(arity) == <<"Fn", arity>>
FnArity(f) == f[2]
M(vs) == Made("Map", vs)
KV(k, v) == Pair(Num(k), Num(v))

Seqs == {L(<<>>), L(<<1>>), L(<<2, 1>>), L(<<1, 2, 1>>), Vector(Ints(<<2, 0>>)),
         List(<<Char(97), Str("a"), Num(97)>>), List(<<L(<<1>>), Option(<<Num(2)>>)>>),
         List(<<KV(1, 2), KV(2, 0), KV(1, 0)>>), List(<<Num(1), Str("a")>>)}
Ranges == {RangeV(0, 3, 1, FALSE), RangeV(1, 1, 1, TRUE), RangeV(3, 0, -2, TRUE),
           RangeV(2, -1, -1, FALSE), RangeV(0, 0, 1, FALSE), RangeV(0, 5, 2, TRUE)}
Maps == {M(<<>>), M(<<KV(1, 2)>>), M(<<KV(2, 1), KV(1, 2)>>),
         M(<<Pair(Char(97), Num(1)), Pair(Str("a"), Num(2))>>),
         M(<<Pair(Bool(TRUE), Num(1)), Pair(L(<<1>>), Num(0))>>)}
Sets == {Made("Set", Ints(<<2, 1>>)), Made("Set", <<Str("a"), Num(97)>>)}
MCReceivers == Seqs \cup Ranges \cup Maps \cup Sets

\* The arguments each native is called with.
Functions == {"foreach", "map", "flatMap", "filter", "filterNot", "exists", "forall", "count", "find",
              "partition", "takeWhile", "dropWhile", "groupBy", "reduce", "reduceLeft", "reduceRight",
              "minBy", "maxBy", "sortBy", "sortWith", "withFilter"}
\* Two names of one native are called by one of them.
Aliases == {"size", "toSeq", "iterator", "removed", "isDefinedAt", "|", "&", "&~"}
Natives(kind) == IF kind = "Int" THEN {} ELSE Installed(kind) \ Aliases

FoldNatives == {"foldLeft", "foldRight", "fold"}
Keys == {Num(1), Num(97), Char(1), Str("a"), RangeV(1, 1, 1, TRUE), Bool(TRUE)}
Args(v, x) ==
  CASE x \in NoArgs -> {<<>>}
    [] v[1] = "Fold" -> {<<Fn(2)>>}
    [] x \in Functions -> {<<Fn(1)>>} \cup (IF v[1] = "Map" THEN {<<Fn(2)>>} ELSE {})
    [] x \in FoldNatives -> {<<Num(9)>>, <<Num(9), Fn(2)>>}
    [] v[1] \in {"Map", "Set"} /\ x \in ReadNatives \cup {"-"} ->
         {IF x = "getOrElse" THEN <<k, Num(9)>> ELSE <<k>> : k \in Keys}
    [] v[1] \in {"Map", "Set"} /\ x = "+" -> {<<KV(1, 5)>>, <<Str("a")>>}
    [] v[1] \in {"Map", "Set"} /\ x = "updated" -> {<<k, IF v[1] = "Set" THEN k ELSE Num(7)>> : k \in Keys}
    [] v[1] \in {"Map", "Set"} /\ x \in BulkNatives \cup {"subsetOf"} ->
         {<<v>>, <<List(IF v[1] = "Map" THEN <<KV(1, 4), KV(3, 4)>> ELSE Ints(<<1, 97>>))>>, <<Num(0)>>}
    [] x = "updated" -> {<<Num(i), Num(9)>> : i \in {-1, 0, 2}}
    [] x \in {"apply", "take", "drop", "splitAt", "by"} -> {<<Num(i)>> : i \in {-1, 0, 1, 5}} \cup {<<Str("a")>>}
    [] x \in {"++", "zip"} -> {<<RangeV(0, 2, 1, FALSE)>>, <<Num(0)>>}
    [] OTHER -> {<<k>> : k \in Keys}

Idle == [k |-> "idle"]
Init ==
  /\ self \in Receivers
  /\ call = [x |-> "", args |-> <<>>] /\ req = Idle /\ twin = Idle /\ log = <<>> /\ calls = 0

\* The elements of a Range, by its definition.
Counted(r) ==
  SelectSeq([i \in 1..8 |-> r.start + (i - 1) * r.step],
            LAMBDA n : IF r.step > 0 THEN n < r.end \/ (r.incl /\ n = r.end)
                       ELSE n > r.end \/ (r.incl /\ n = r.end))
Plain(v) == IF v[1] = "Range" THEN L(Counted(v[2])) ELSE List(v[2])

HasTwin(v, x) == v[1] = "Vector" \/ (v[1] = "Range" /\ x # "by")
Start ==
  /\ req = Idle /\ calls < MaxCalls
  /\ \E x \in Natives(self[1]) : \E args \in Args(self, x) :
       /\ call' = [x |-> x, args |-> args]
       /\ req' = CallNative(self, x, args)
       /\ twin' = IF HasTwin(self, x) THEN CallNative(Plain(self), x, args) ELSE Idle
  /\ log' = <<>> /\ calls' = calls + 1 /\ UNCHANGED self

\* What the program's functions may answer.
Answers ==
  LET x == call.x
  IN  CASE req.c.k = "each" /\ req.c.at <= Len(req.c.preds) -> {Bool(TRUE), Bool(FALSE)}
        [] x \in Predicates -> {Bool(TRUE), Bool(FALSE), Num(0)}
        [] x = "sortWith" -> {Bool(TRUE), Bool(FALSE)}
        [] x = "flatMap" -> {L(<<5, 6>>), RangeV(0, 1, 1, FALSE), Option(<<Num(4)>>), Option(<<>>), Num(0)}
        [] x \in {"minBy", "maxBy", "sortBy", "groupBy"} -> {Num(0), Num(1), Str("a")}
        [] OTHER -> {Num(0), KV(1, 3)}

Go(r, v) == IF r.k = "call" THEN GoOn(r.c, v) ELSE r
Reply ==
  /\ req.k = "call"
  /\ \E v \in Answers :
       /\ req' = GoOn(req.c, v)
       /\ twin' = Go(twin, v)
       /\ log' = Append(log, [f |-> req.f, args |-> req.args, v |-> v])
  /\ UNCHANGED <<self, call, calls>>

\* isEmpty and get of an Option.
Content(r) ==
  LET v == r.v[2]
  IN  IF r.k = "send" THEN GoOn(r.c, IF r.x = "isEmpty" THEN Bool(v = <<>>) ELSE v[1]) ELSE r
OptionReply ==
  /\ req.k = "send"
  /\ req' = Content(req) /\ twin' = Content(twin)
  /\ UNCHANGED <<self, call, log, calls>>

\* The result is the next receiver.
Result ==
  /\ req.k = "value" /\ calls < MaxCalls
  /\ Natives(req.v[1]) # {}
  /\ self' = req.v /\ req' = Idle /\ twin' = Idle /\ log' = <<>>
  /\ call' = [x |-> "", args |-> <<>>]
  /\ UNCHANGED calls

Next == Start \/ Reply \/ OptionReply \/ Result
Spec == Init /\ [][Next]_vars
-----------------------------------------------------------------------------
\* What the natives promise, from the elements and the answers alone.
IsSeqCall == self[1] \in {"List", "Vector", "Range"}
Elems == Plain(self)[2]
Fn1 == call.args[1]
A(i) == log[i].v
Asked == DOMAIN log
Yes == {i \in Asked : IsTrue(A(i))}
At1(is) == SetToSortSeq(is, LAMBDA i, j : i < j)
Pick(xs, is) == [i \in DOMAIN At1(is) |-> xs[At1(is)[i]]] \o <<>>
Like(vs) == IF self[1] = "Vector" THEN Vector(vs) ELSE List(vs)

\* The elements a flatMap takes from an answer.
Spread(v) == CASE v[1] = "Range" -> Plain(v)[2] [] OTHER -> v[2]
Spreadable(v) == v[1] \in {"List", "Vector", "Range"} \/ (self[1] # "Range" /\ v[1] = "Option")

\* The keys of a sort or an extremum, and the sequence in their stable order.
SortKeys == IF call.x \in {"sorted", "min", "max"} THEN Elems ELSE [i \in Asked |-> A(i)]
AllComparable(ks) == \A i, j \in DOMAIN ks : Comparable(ks[i], ks[j])
Stable(xs, ks) ==
  LET before(i, j) == Less(ks[i], ks[j]) \/ (~Less(ks[j], ks[i]) /\ i < j)
      p == SetToSortSeq(DOMAIN xs, before)
  IN  [i \in DOMAIN p |-> xs[p[i]]] \o <<>>
Best(ks, least) ==
  CHOOSE i \in DOMAIN ks :
    \A j \in DOMAIN ks \ {i} :
      LET better == IF least THEN Less(ks[i], ks[j]) ELSE Less(ks[j], ks[i])
          worse == IF least THEN Less(ks[j], ks[i]) ELSE Less(ks[i], ks[j])
      IN  better \/ (j > i /\ ~worse)

\* The value a finished loop over a sequence has.
LoopValue(x) ==
  LET no == Asked \ Yes
  IN  CASE x = "foreach" -> Unit
        [] x = "map" -> Like([i \in Asked |-> A(i)] \o <<>>)
        [] x = "flatMap" -> Like(FlattenSeq([i \in Asked |-> Spread(A(i))] \o <<>>))
        [] x = "filter" -> Like(Pick(Elems, Yes))
        [] x = "filterNot" -> Like(Pick(Elems, no))
        [] x = "partition" -> Pair(Like(Pick(Elems, Yes)), Like(Pick(Elems, no)))
        [] x = "exists" -> Bool(Yes # {})
        [] x = "forall" -> Bool(no = {})
        [] x = "count" -> Num(Cardinality(Yes))
        [] x = "find" -> Option(Pick(Elems, Yes))
        [] x = "takeWhile" -> Like(Pick(Elems, Yes))
        [] x = "dropWhile" -> Like(Pick(Elems, DOMAIN Elems \ Yes))
        [] x \in FoldNatives -> IF log = <<>> THEN call.args[1] ELSE Last(log).v
        [] x \in {"reduce", "reduceLeft"} -> IF log = <<>> THEN Head(Elems) ELSE Last(log).v
        [] x = "reduceRight" -> IF log = <<>> THEN Last(Elems) ELSE Last(log).v
        [] OTHER -> Elems[Best(SortKeys, x \in {"min", "minBy"})]
Curried == call.x \in FoldNatives /\ Len(call.args) = 1
Looping ==
  LoopNatives \cup {"partition", "takeWhile", "dropWhile", "reduce", "reduceLeft", "reduceRight",
                    "min", "max", "minBy", "maxBy"} \cup FoldNatives

\* What a finished loop over a sequence answers.
ResultAsDefined ==
  IsSeqCall /\ req.k = "value" =>
    /\ call.x \in Looping /\ ~Curried => req.v = LoopValue(call.x)
    /\ call.x \in {"sorted", "sortBy"} => req.v = Like(IF Len(Elems) < 2 THEN Elems ELSE Stable(Elems, SortKeys))
    /\ call.x = "sortWith" =>
         \A v \in Range(Elems) : Len(SelectSeq(Elems, LAMBDA w : w = v)) = Len(SelectSeq(req.v[2], LAMBDA w : w = v))
    /\ call.x = "groupBy" =>
         \A i \in Asked : \E e \in Range(req.v[2]) :
           Same(e.k, A(i)) /\ e.v = List(Pick(Elems, {j \in Asked : Same(A(j), A(i))}))

-----------------------------------------------------------------------------
\* The loop stops after the answer v.
Stops(x, v) ==
  \/ x \in {"exists", "find"} /\ IsTrue(v)
  \/ x \in {"forall", "takeWhile", "dropWhile"} /\ ~IsTrue(v)
  \/ x \in Predicates /\ self[1] # "Range" /\ v[1] # "Bool"
  \/ x = "flatMap" /\ IsSeqCall /\ ~Spreadable(v)
  \/ x \in {"minBy", "maxBy"} /\ ~AllComparable(<<A(1), v>>)
\* The arguments of the i-th call.
Before(i) == IF i = 1 THEN IF call.x \in {"reduce", "reduceLeft"} THEN Head(Elems)
                           ELSE IF call.x = "reduceRight" THEN Last(Elems) ELSE call.args[1]
             ELSE A(i - 1)
Source == IF self[1] \in {"Map", "Set"} THEN Items(self) ELSE Elems
ArgsOf(i) ==
  LET n == Len(Source)
  IN  CASE call.x \in {"foldLeft", "fold"} -> <<Before(i), Source[i]>>
        [] call.x = "foldRight" -> <<Source[n + 1 - i], Before(i)>>
        [] call.x \in {"reduce", "reduceLeft"} -> <<Before(i), Source[i + 1]>>
        [] call.x = "reduceRight" -> <<Source[n - i], Before(i)>>
        [] self[1] = "Map" /\ FnArity(Fn1) = 2 -> Source[i][2]
        [] OTHER -> <<Source[i]>>
OncePerElement ==
  (Looping \cup {"sortBy", "groupBy"}) \ {"min", "max"}

\* The calls of the program's function so far.
CallsAsDefined ==
  /\ self[1] \in {"List", "Vector", "Range", "Map", "Set"} /\ call.x \in OncePerElement =>
       \A i \in Asked : /\ log[i].args = ArgsOf(i)
                        /\ i < Len(log) => ~Stops(call.x, A(i))
  /\ IsSeqCall /\ call.x \in OncePerElement /\ req.k = "value" /\ ~Curried =>
       \/ log # <<>> /\ Stops(call.x, Last(log).v)
       \/ Len(log) = Len(Elems) - (IF call.x \in {"reduce", "reduceLeft", "reduceRight"} THEN 1 ELSE 0)
       \/ call.x = "sortBy" /\ Len(Elems) < 2
  /\ self[1] = "Filtered" =>
       \A i \in Asked : log[i].f \in Range(self[3]) \/ (i > 1 /\ A(i - 1) = Bool(TRUE) /\ log[i].args = log[i - 1].args)

\* A loop calls the program's function on the elements in order (from the right
\* for foldRight), once for each, with the value of the fold so far where there
\* is one, and never again after the answer that decides the result or is of
\* the wrong type; a filtered receiver calls f only after every guard said true
\* (whilePrefix, foldImpl, callOnEntry, withFilterApply).  What it then answers
\* is what its definition says of the elements and of the answers: no element
\* is lost, taken twice or out of order, and the result is of the receiver's
\* kind.  sortBy and sorted are stable, minBy and maxBy take the first of
\* equals, groupBy keeps the order inside a group (prim_seq_*).
LoopsAsDefined == CallsAsDefined /\ ResultAsDefined

-----------------------------------------------------------------------------
\* Where a Range knowingly differs from the List of its elements.  It is not
\* strict about what a predicate answers, it refuses another wrong answer of
\* flatMap, and its contains answers false to every number that is not a
\* SmallInt, where the List compares with valuesEqual, which widens a Char.
Excused ==
  self[1] = "Range" /\
    \/ \E i \in Asked : \/ call.x \in Predicates /\ A(i)[1] # "Bool"
                        \/ call.x = "flatMap" /\ A(i)[1] \notin {"List", "Vector", "Range"}
    \/ call.x = "contains" /\ IsNumber(call.args[1]) /\ call.args[1][1] # "Int"

\* But for the cases Excused names, a Vector and a Range answer every native as
\* the List of their elements does: with the same callbacks on the same
\* arguments, and with an equal result or the same failure, although a Range
\* computes its answers from its bounds and never builds the elements
\* (RangeView, prim_range_*).
SameAsList ==
  twin # Idle /\ ~Excused =>
    /\ req.k = twin.k
    /\ req.k = "call" => req.args = twin.args
    /\ req.k = "value" => \/ req.v[1] = "Range" /\ Plain(req.v) = Plain(twin.v)
                          \/ req.v[1] = "Fold" /\ twin.v[1] = "Fold"
                          \/ Same(req.v, twin.v)
    /\ req.k = "raise" => req.v = twin.v

-----------------------------------------------------------------------------
\* The values a keyed collection has for a key, found without any hash.
Has(v, k) == {v[2][i].v : i \in {j \in DOMAIN v[2] : Same(v[2][j].k, k)}}
IsKeyed(v) == v[1] \in {"Map", "Set"}
Probes(v) == Keys \cup {v[2][i].k : i \in DOMAIN v[2]}
Other == LET a == call.args[1]
         IN  IF IsKeyed(a) THEN a ELSE Made(self[1], Plain(a)[2])
\* What the result of a native has for k.
Expected(k) ==
  LET x == call.x
      a == call.args
      same == Same(k, a[1])
      mine == Has(self, k)
  IN  CASE x = "updated" -> IF same THEN {a[2]} ELSE mine
        [] x = "-" -> IF same THEN {} ELSE mine
        [] x = "+" /\ self[1] = "Set" -> IF same THEN {a[1]} ELSE mine
        [] x = "+" /\ self[1] = "Map" -> IF Same(k, a[1][2][1]) THEN {a[1][2][2]} ELSE mine
        [] x \in {"++", "union", "|"} -> IF Has(Other, k) # {} THEN Has(Other, k) ELSE mine
        [] x \in {"--", "diff", "&~"} -> IF Has(Other, k) # {} THEN {} ELSE mine
        [] OTHER -> IF Has(Other, k) = {} THEN {} ELSE mine

\* A Map or Set has at most one entry for equal keys, whatever the kinds of the
\* keys ('a' and 97, a Range and the List of its elements), and after any update
\* or set operation a key has the entry that the operation says: looking a key
\* up by its hash finds exactly what comparing it with every key by == would
\* (scalaKeyHash against valuesEqual, bulk, prim_map_*).
KeyedAsDefined ==
  req.k = "value" =>
    /\ IsKeyed(req.v) => \A i, j \in DOMAIN req.v[2] : i # j => ~Same(req.v[2][i].k, req.v[2][j].k)
    /\ IsKeyed(self) /\ call.x \in {"updated", "-", "+"} \cup BulkNatives =>
         \A k \in Probes(req.v) \cup Probes(self) :
           IF self[1] = "Set" THEN Has(req.v, k) = {} <=> Expected(k) = {} ELSE Has(req.v, k) = Expected(k)
    /\ IsKeyed(self) /\ call.x \in ReadNatives =>
         LET here == Has(self, call.args[1])
         IN  IF call.x = "get" THEN Range(req.v[2]) = here
             ELSE IF call.x = "getOrElse" THEN {req.v} = IF here = {} THEN {Num(9)} ELSE here
             ELSE IF call.x = "apply" /\ self[1] = "Map" THEN {req.v} = here
             ELSE req.v = Bool(here # {})
-----------------------------------------------------------------------------
\* "a Set stores its element as both key and value, so one implementation
\* covers both" (CollectionPrimitives.cpp, the table of Map and Set natives):
\* every Set a program can come by holds its elements that way.
SetsHoldElements ==
  self[1] = "Set" => \A i \in DOMAIN self[2] : Same(self[2][i].k, self[2][i].v)

\* Two sequences with equal elements are equal, and so one key of a Map
\* (docs/LANGUAGE.md: the kinds "do compare and hash as Scala Seqs do").
EqualByElements ==
  \A v \in Receivers : IsSeqCall /\ IsSeq(v) /\ Plain(v) = Plain(self) => Same(v, self)
=============================================================================
