----------------------------- MODULE Collections ----------------------------
(***************************************************************************)
(* The natives of Range, List, Vector, Map and Set                         *)
(* (runtime/CollectionPrimitives.cpp, with the list part of Primitives.cpp *)
(* and the equality and hash of Values.cpp).  A value is a tuple whose     *)
(* first component is its kind.  A native either answers at once or calls  *)
(* the program back, so its result is one of                               *)
(*   value  the answer v                                                   *)
(*   raise  the exception of class v                                       *)
(*   call   f(args) is called, and Resume(c, r) goes on with its result r  *)
(*   send   the parameterless x of v is called, and Resume goes on with it *)
(* where c is the state of the native's loop.  Integers are unbounded.     *)
(***************************************************************************)
EXTENDS Integers, Sequences, FiniteSets, TLC, SequencesExt, Bitwise

\* The number of parameters of a function value of the program.
CONSTANT Arity(_)

Num(n) == <<"Int", n>>
Bool(b) == <<"Bool", b>>
Unit == <<"Unit">>
List(vs) == <<"List", vs>>
Vector(vs) == <<"Vector", vs>>
Pair(a, b) == <<"Tuple", <<a, b>>>>
Option(vs) == <<"Option", vs>>
Filtered(xs, preds) == <<"Filtered", xs, preds>>
FoldPartial(xs, seed, left) == <<"Fold", xs, seed, left>>

IsTrue(v) == v[1] = "Bool" /\ v[2]
IsNumber(v) == v[1] \in {"Int", "Char"}

Value(v) == [k |-> "value", v |-> v]
Fails(x) == [k |-> "raise", v |-> x]
Ask(f, args, c) == [k |-> "call", f |-> f, args |-> args, c |-> c]
Send(v, x, c) == [k |-> "send", v |-> v, x |-> x, c |-> c]
WrongType == Fails("ClassCastException")
WrongCount == Fails("IllegalArgumentException")

-----------------------------------------------------------------------------
\* Range: its bounds and step; the elements are arithmetic.
RangeV(start, end, step, incl) ==
  <<"Range", [start |-> start, end |-> end, step |-> step, incl |-> incl]>>
Size(i) == IF i < 0 THEN -i ELSE i
\* C++ division, which truncates.
Quotient(a, b) == IF (a < 0) = (b < 0) THEN Size(a) \div Size(b) ELSE -(Size(a) \div Size(b))
\* Mutant: the last element of an exclusive descending range is not adjusted.
LengthOffByOne(r) ==
  LET last == IF r.incl \/ r.step < 0 THEN r.end ELSE r.end - 1
  IN  IF IF r.step > 0 THEN last < r.start ELSE last > r.start THEN 0
      ELSE Quotient(last - r.start, r.step) + 1
Length(r) ==
  LET last == IF r.incl THEN r.end ELSE IF r.step > 0 THEN r.end - 1 ELSE r.end + 1
  IN  IF IF r.step > 0 THEN last < r.start ELSE last > r.start THEN 0
      ELSE Quotient(last - r.start, r.step) + 1
At(r, i) == r.start + i * r.step

\* seqViewOf, seqElemAt: the elements of any Seq kind.
IsSeq(v) == v[1] \in {"List", "Vector", "Range"}
Elements(v) ==
  IF v[1] = "Range" THEN [i \in 1..Length(v[2]) |-> Num(At(v[2], i - 1))] \o <<>> ELSE v[2]

-----------------------------------------------------------------------------
\* Equality and hash.  A Map or Set holds its entries in the order of their
\* hashes; the keys whose == is identity have slots of their own.
IsIdentityKey(v) == v[1] \in {"Bool", "Null", "Unit", "Fn", "Filtered", "Fold"}

StringCodes == "" :> 0 @@ "a" :> 97 @@ "b" :> 98
Mix(h, e) == (31 * h + e) % 1024
RECURSIVE Hash(_), Equal(_, _), Find(_, _)
\* Mutant: a Range is hashed by its bounds instead of by its elements.
HashByBounds(v) ==
  CASE IsNumber(v) -> v[2]
    [] v[1] = "Str" -> StringCodes[v[2]]
    [] v[1] = "Bool" -> IF v[2] THEN 1231 ELSE 1237
    [] v[1] \in {"Null", "Unit"} -> 0
    [] v[1] = "Range" -> Mix(v[2].start, v[2].end)
    [] v[1] \in {"List", "Vector"} -> FoldLeft(LAMBDA h, x : Mix(h, Hash(x)), 83, v[2])
    [] v[1] \in {"Tuple", "Option"} -> FoldLeft(LAMBDA h, x : Mix(h, Hash(x)), 84, v[2])
    [] OTHER -> FoldLeft(LAMBDA h, x : h ^^ Hash(x.k), 0, v[2])
Hash(v) ==
  CASE IsNumber(v) -> v[2]
    [] v[1] = "Str" -> StringCodes[v[2]]
    [] v[1] = "Bool" -> IF v[2] THEN 1231 ELSE 1237
    [] v[1] \in {"Null", "Unit"} -> 0
    [] IsSeq(v) -> FoldLeft(LAMBDA h, x : Mix(h, Hash(x)), 83, Elements(v))
    [] v[1] \in {"Tuple", "Option"} -> FoldLeft(LAMBDA h, x : Mix(h, Hash(x)), 84, v[2])
    [] v[1] = "Map" -> FoldLeft(LAMBDA h, x : h ^^ (Hash(x.k) * 41 + Hash(x.v)), 0, v[2])
    [] OTHER -> FoldLeft(LAMBDA h, x : h ^^ Hash(x.k), 0, v[2])

\* hashedGet: the indices of the entries of d whose key is k (at most one).
Find(d, k) ==
  {i \in DOMAIN d : IF IsIdentityKey(k) \/ IsIdentityKey(d[i].k) THEN d[i].k = k
                    ELSE Hash(d[i].k) = Hash(k) /\ Equal(d[i].k, k)}
Lookup(d, k) == d[CHOOSE i \in Find(d, k) : TRUE].v

KeyedEqual(a, b) ==
  /\ a[1] = b[1] /\ Len(a[2]) = Len(b[2])
  /\ \A i \in DOMAIN a[2] : /\ Find(b[2], a[2][i].k) # {}
                            /\ a[1] = "Set" \/ Equal(a[2][i].v, Lookup(b[2], a[2][i].k))

\* valuesEqual
Equal(a, b) ==
  LET xs == Elements(a)
      ys == Elements(b)
  IN  CASE IsNumber(a) /\ IsNumber(b) -> a[2] = b[2]
        [] IsSeq(a) /\ IsSeq(b) ->
             /\ Len(xs) = Len(ys)
             /\ IF a[1] = "Range" /\ b[1] = "Range"
                THEN xs = <<>> \/ (a[2].start = b[2].start /\ a[2].step = b[2].step)
                ELSE \A i \in DOMAIN xs : Equal(xs[i], ys[i])
        [] a[1] = b[1] /\ a[1] \in {"Tuple", "Option"} ->
             Len(a[2]) = Len(b[2]) /\ \A i \in DOMAIN a[2] : Equal(a[2][i], b[2][i])
        [] a[1] \in {"Map", "Set"} /\ b[1] \in {"Map", "Set"} -> KeyedEqual(a, b)
        [] OTHER -> a[1] = b[1] /\ a = b

\* hashedPut keeps the stored key of an entry it updates; hashedRemove.
Put(d, k, v) ==
  LET before == IF IsIdentityKey(k) THEN DOMAIN d
                ELSE {i \in DOMAIN d : ~IsIdentityKey(d[i].k) /\ Hash(d[i].k) <= Hash(k)}
      n == Cardinality(before)
  IN  IF Find(d, k) # {} THEN [d EXCEPT ![CHOOSE i \in Find(d, k) : TRUE].v = v]
      ELSE SubSeq(d, 1, n) \o <<[k |-> k, v |-> v]>> \o SubSeq(d, n + 1, Len(d))
Delete(d, k) == SelectSeq(d, LAMBDA x : Find(<<x>>, k) = {})

IsPair(v) == v[1] = "Tuple"
\* The data of the elements vs of a Set, or of the pairs vs of a Map.
PutAll(d, vs, set) ==
  FoldLeft(LAMBDA e, v : IF set THEN Put(e, v, v) ELSE Put(e, v[2][1], v[2][2]), d, vs)
Keyed(kind, vs) ==
  IF kind = "Map" /\ \E i \in DOMAIN vs : ~IsPair(vs[i]) THEN WrongCount
  ELSE Value(<<kind, PutAll(<<>>, vs, kind = "Set")>>)
\* An entry as the program sees it.
Item(kind, x) == IF kind = "Set" THEN x.k ELSE Pair(x.k, x.v)
Items(v) == [i \in DOMAIN v[2] |-> Item(v[1], v[2][i])] \o <<>>

-----------------------------------------------------------------------------
\* compareValues: numbers, strings and booleans are ordered among themselves.
Comparable(a, b) == (IsNumber(a) /\ IsNumber(b)) \/ (a[1] = b[1] /\ a[1] \in {"Str", "Bool"})
Less(a, b) ==
  CASE IsNumber(a) -> a[2] < b[2]
    [] a[1] = "Str" -> StringCodes[a[2]] < StringCodes[b[2]]
    [] OTHER -> ~a[2] /\ b[2]

\* A result of the receiver's own kind: a Vector, otherwise a List.
Rewrap(self, vs) == IF self[1] = "Vector" THEN Vector(vs) ELSE List(vs)

\* The state of a loop over todo: x is the element in hand, at the function to
\* call next of the filters preds and f, acc what the loop has built.  Without
\* f the element itself is what a call would have answered.
NoFn == <<>>
Loop(op, self, f, preds, todo, acc) ==
  [k |-> "each", op |-> op, self |-> self, f |-> f, preds |-> preds, todo |-> todo,
   x |-> Unit, at |-> 1, acc |-> acc]

\* Mutant: foldRight passes its arguments in foldLeft's order.
CallArgsSwapped(c) ==
  CASE c.op \in {"foldLeft", "foldRight"} -> <<c.acc, c.x>>
    [] c.self[1] = "Map" ->
         IF Arity(c.f) = 1 THEN <<Item("Map", c.x)>> ELSE <<c.x.k, c.x.v>>
    [] c.self[1] = "Set" -> <<c.x.k>>
    [] OTHER -> <<c.x>>
\* callOnEntry: the arity of the function decides between k, v and one pair.
CallArgs(c) ==
  CASE c.op = "foldLeft" -> <<c.acc, c.x>>
    [] c.op = "foldRight" -> <<c.x, c.acc>>
    [] c.self[1] = "Map" ->
         IF Arity(c.f) = 1 THEN <<Item("Map", c.x)>> ELSE <<c.x.k, c.x.v>>
    [] c.self[1] = "Set" -> <<c.x.k>>
    [] OTHER -> <<c.x>>
AskNext(c) ==
  IF c.at <= Len(c.preds) THEN Ask(c.preds[c.at], <<c.x>>, c) ELSE Ask(c.f, CallArgs(c), c)

\* The keyed result of map and flatMap: a Set, a Map of pairs, or a List.
Rebuild(self, vs) ==
  IF self[1] = "Map" /\ \E i \in DOMAIN vs : ~IsPair(vs[i]) THEN Value(List(vs))
  ELSE Keyed(self[1], vs)

\* sortSeq merges neighbouring runs of indices, pass by pass: runs are still
\* to merge in this pass, out are merged, l and r are being merged into m.
Sort(self, less, keys) ==
  [k |-> "sort", self |-> self, f |-> less, keys |-> keys, l |-> <<>>, r |-> <<>>, m |-> <<>>,
   runs |-> [i \in DOMAIN keys |-> <<i>>] \o <<>>, out |-> <<>>]

RECURSIVE Drive(_), Answer(_, _), Merge(_)
\* Mutant: the right element goes first unless the left one is smaller.
TakeUnstable(c, before) ==
  IF before THEN [c EXCEPT !.m = Append(@, Head(c.l)), !.l = Tail(@)]
  ELSE [c EXCEPT !.m = Append(@, Head(c.r)), !.r = Tail(@)]
Take(c, before) ==
  IF before THEN [c EXCEPT !.m = Append(@, Head(c.r)), !.r = Tail(@)]
  ELSE [c EXCEPT !.m = Append(@, Head(c.l)), !.l = Tail(@)]
Merge(c) ==
  LET i == Head(c.l)
      j == Head(c.r)
      xs == c.self[2]
  IN  IF c.l # <<>> /\ c.r # <<>>
      THEN IF c.f # NoFn THEN Ask(c.f, <<xs[j], xs[i]>>, c)
           ELSE IF Comparable(c.keys[j], c.keys[i]) THEN Merge(Take(c, Less(c.keys[j], c.keys[i])))
           ELSE WrongCount
      ELSE IF c.l \o c.r \o c.m # <<>>
      THEN Merge([c EXCEPT !.out = Append(@, c.m \o c.l \o c.r), !.l = <<>>, !.r = <<>>, !.m = <<>>])
      ELSE IF Len(c.runs) > 1
      THEN Merge([c EXCEPT !.l = c.runs[1], !.r = c.runs[2], !.runs = SubSeq(@, 3, Len(@))])
      ELSE IF c.runs = <<>> /\ Len(c.out) = 1
      THEN Value(Rewrap(c.self, [k \in DOMAIN xs |-> xs[c.out[1][k]]] \o <<>>))
      ELSE Merge([c EXCEPT !.runs = c.out \o c.runs, !.out = <<>>])

\* What the loop answers when every element has been used.
Finish(c) ==
  CASE c.op = "foreach" -> Value(Unit)
    [] c.op \in {"map", "flatMap"} /\ c.self[1] \notin {"Map", "Set"} -> Value(Rewrap(c.self, c.acc))
    [] c.op \in {"map", "flatMap"} /\ c.self[1] \in {"Map", "Set"} -> Rebuild(c.self, c.acc)
    [] c.op \in {"filter", "filterNot"} ->
         IF c.self[1] \in {"Map", "Set"}
         THEN Value(<<c.self[1], FoldLeft(LAMBDA d, x : Put(d, x.k, x.v), <<>>, c.acc)>>)
         ELSE Value(Rewrap(c.self, c.acc))
    [] c.op = "collect" -> Drive(Loop("flatMap", c.self, NoFn, <<>>, c.acc, <<>>))
    [] c.op = "exists" -> Value(Bool(FALSE))
    [] c.op = "forall" -> Value(Bool(TRUE))
    [] c.op = "count" -> Value(Num(c.acc))
    [] c.op = "find" -> Value(Option(<<>>))
    [] c.op = "partition" -> Value(Pair(Rewrap(c.self, c.acc[1]), Rewrap(c.self, c.acc[2])))
    [] c.op = "takeWhile" -> Value(c.self)
    [] c.op = "dropWhile" -> Value(Rewrap(c.self, <<>>))
    [] c.op \in {"foldLeft", "foldRight"} -> Value(c.acc)
    [] c.op \in {"min", "max"} -> Value(c.acc[1])
    [] c.op = "groupBy" -> Value(<<"Map", c.acc>>)
    [] OTHER -> Merge(Sort(c.self, NoFn, c.acc))

Predicates == {"filter", "filterNot", "exists", "forall", "count", "find", "partition",
               "takeWhile", "dropWhile"}
\* Mutant: an existing group is replaced instead of extended.
GroupReplace(d, k, x) == Put(d, k, List(<<x>>))
GroupAdd(d, k, x) == Put(d, k, List(IF Find(d, k) = {} THEN <<x>> ELSE Append(Lookup(d, k)[2], x)))

\* addFlat: the elements of a Seq, or the content of an Option-like instance.
AddFlat(c, v) ==
  CASE IsSeq(v) -> Drive([c EXCEPT !.acc = @ \o Elements(v)])
    [] ~IsSeq(v) /\ c.self[1] = "Range" -> Fails("IllegalArgumentException")
    [] ~IsSeq(v) /\ c.self[1] # "Range" /\ v[1] \in {"Option", "Obj", "Map", "Set"} ->
         Send(v, "isEmpty", [c EXCEPT !.k = "isEmpty", !.x = v])
    [] OTHER -> WrongType

\* takeWhile and dropWhile when the predicate has rejected the element after n.
WhilePrefix(c, n) ==
  Rewrap(c.self, IF c.op = "takeWhile" THEN SubSeq(c.self[2], 1, n)
                 ELSE SubSeq(c.self[2], n + 1, Len(c.self[2])))

\* A predicate's answer for the element c.x.  A Range takes anything but true
\* for false; the other kinds want a Boolean.
Judge(c, yes) ==
  LET goes(a) == Drive([c EXCEPT !.acc = a])
      n == Len(Elements(c.self)) - Len(c.todo) - 1
      item == IF c.self[1] \in {"Map", "Set"} THEN Item(c.self[1], c.x) ELSE c.x
  IN  CASE c.op \in {"filter", "filterNot"} ->
             goes(IF yes = (c.op = "filter") THEN Append(c.acc, c.x) ELSE c.acc)
        [] c.op = "exists" -> IF yes THEN Value(Bool(TRUE)) ELSE goes(c.acc)
        [] c.op = "forall" -> IF yes THEN goes(c.acc) ELSE Value(Bool(FALSE))
        [] c.op = "find" -> IF yes THEN Value(Option(<<item>>)) ELSE goes(c.acc)
        [] c.op = "count" -> goes(IF yes THEN c.acc + 1 ELSE c.acc)
        [] c.op = "partition" -> goes([c.acc EXCEPT ![IF yes THEN 1 ELSE 2] = Append(@, c.x)])
        [] OTHER -> IF yes THEN goes(c.acc) ELSE Value(WhilePrefix(c, n))

\* The loop goes on with the answer v of the function it called on c.x.
Answer(c, v) ==
  LET goes(a) == Drive([c EXCEPT !.acc = a])
      best == c.acc = <<>> \/ (IF c.op = "max" THEN Less(c.acc[2], v) ELSE Less(v, c.acc[2]))
  IN  CASE c.op \in Predicates ->
             IF v[1] = "Bool" \/ c.self[1] = "Range" THEN Judge(c, IsTrue(v)) ELSE WrongType
        [] c.op \in {"map", "collect", "sortBy"} -> goes(Append(c.acc, v))
        [] c.op = "flatMap" -> AddFlat(c, v)
        [] c.op = "groupBy" -> goes(GroupAdd(c.acc, v, c.x))
        [] c.op \in {"foldLeft", "foldRight"} -> goes(v)
        [] c.op \in {"min", "max"} -> IF c.acc # <<>> /\ ~Comparable(v, c.acc[2]) THEN WrongCount
                                      ELSE goes(IF best THEN <<c.x, v>> ELSE c.acc)
        [] OTHER -> goes(c.acc)

Drive(c) ==
  LET d == [c EXCEPT !.x = Head(c.todo), !.todo = Tail(@), !.at = 1]
  IN  IF c.todo = <<>> THEN Finish(c) ELSE IF c.f = NoFn THEN Answer(d, d.x) ELSE AskNext(d)

\* Goes on with the result v of the call the loop c asked for.
Resume(c, v) ==
  CASE c.k = "each" /\ c.at <= Len(c.preds) ->
         IF v[1] # "Bool" THEN WrongType
         ELSE IF v[2] THEN AskNext([c EXCEPT !.at = @ + 1]) ELSE Drive(c)
    [] c.k = "each" /\ c.at > Len(c.preds) -> Answer(c, v)
    [] c.k = "isEmpty" -> IF IsTrue(v) THEN Drive([c EXCEPT !.k = "each"])
                          ELSE Send(c.x, "get", [c EXCEPT !.k = "get"])
    [] c.k = "get" -> Drive([c EXCEPT !.k = "each", !.acc = Append(@, v)])
    [] OTHER -> IF v[1] = "Bool" THEN Merge(Take(c, v[2])) ELSE WrongType

-----------------------------------------------------------------------------
\* The natives.  Each takes the receiver, its name and its arguments.
NoArgs == {"length", "size", "isEmpty", "nonEmpty", "head", "last", "headOption", "lastOption",
           "tail", "init", "reverse", "zipWithIndex", "distinct", "flatten", "toList", "toSeq",
           "iterator", "toVector", "toMap", "toSet", "sum", "product", "min", "max", "sorted",
           "keys", "values", "keySet"}
TwoArgs == {"updated", "getOrElse"}
RightCount(self, x, args) ==
  CASE x \in NoArgs -> args = <<>>
    [] x \in TwoArgs -> Len(args) = 2
    [] x \in {"foldLeft", "foldRight", "fold"} -> Len(args) \in {1, 2}
    [] OTHER -> Len(args) = 1

\* intArg and clampIndex
Clamp(i, n) == IF i < 0 THEN 0 ELSE IF i > n THEN n ELSE i
IndexNatives == {"apply", "updated", "take", "drop", "splitAt"}
Indexed(self, x, args) ==
  LET xs == self[2]
      n == Len(xs)
      i == args[1][2]
      k == Clamp(i, n)
      low == Rewrap(self, SubSeq(xs, 1, k))
      high == Rewrap(self, SubSeq(xs, k + 1, n))
  IN  IF ~IsNumber(args[1]) THEN WrongType
      ELSE IF x \in {"apply", "updated"} /\ i \notin 0..(n - 1) THEN Fails("IndexOutOfBoundsException")
      ELSE Value(CASE x = "apply" -> xs[i + 1]
                   [] x = "updated" -> Rewrap(self, [xs EXCEPT ![i + 1] = args[2]])
                   [] x = "take" -> low
                   [] x = "drop" -> high
                   [] OTHER -> Pair(low, high))

\* The first, the last, and the rest.
EndNatives == {"head", "last", "headOption", "lastOption", "tail", "init"}
Ends(self, x) ==
  LET xs == self[2]
  IN  IF xs = <<>>
      THEN CASE x \in {"head", "last"} -> Fails("NoSuchElementException")
             [] x \in {"tail", "init"} -> Fails("UnsupportedOperationException")
             [] OTHER -> Value(Option(<<>>))
      ELSE Value(CASE x = "head" -> Head(xs) [] x = "last" -> Last(xs)
                   [] x = "headOption" -> Option(<<Head(xs)>>)
                   [] x = "lastOption" -> Option(<<Last(xs)>>)
                   [] x = "tail" -> Rewrap(self, Tail(xs))
                   [] OTHER -> Rewrap(self, Front(xs)))

\* The natives that build a new sequence without calling back.
Distinct(xs) ==
  FoldLeft(LAMBDA ys, v : IF \E i \in DOMAIN ys : Equal(ys[i], v) THEN ys ELSE Append(ys, v),
           <<>>, xs)
ZipPairs(xs, ys) ==
  [i \in 1..(IF Len(xs) < Len(ys) THEN Len(xs) ELSE Len(ys)) |-> Pair(xs[i], ys[i])] \o <<>>
BuildNatives == {"reverse", "++", ":+", "+:", "::", "zip", "zipWithIndex", "distinct"}
Build(self, x, args) ==
  LET xs == self[2]
      indices == [i \in DOMAIN xs |-> Num(i - 1)]
  IN  IF x \in {"++", "zip"} /\ ~IsSeq(args[1]) THEN WrongType
      ELSE Value(Rewrap(self,
             CASE x = "reverse" -> Reverse(xs)
               [] x = "++" -> xs \o Elements(args[1])
               [] x = ":+" -> Append(xs, args[1])
               [] x \in {"+:", "::"} -> <<args[1]>> \o xs
               [] x = "zip" -> ZipPairs(xs, Elements(args[1]))
               [] x = "zipWithIndex" -> ZipPairs(xs, indices)
               [] OTHER -> Distinct(xs)))

\* size, search, conversions and sums.
Positions(xs, v) == {i \in DOMAIN xs : Equal(xs[i], v)}
AskNatives == {"length", "size", "isEmpty", "nonEmpty", "contains", "indexOf", "toList", "toSeq",
               "iterator", "toVector", "toSet", "toMap", "sum", "product"}
Asks(self, x, args) ==
  LET xs == self[2]
      is == Positions(xs, args[1])
  IN  CASE x \in {"length", "size"} -> Value(Num(Len(xs)))
        [] x = "isEmpty" -> Value(Bool(xs = <<>>))
        [] x = "nonEmpty" -> Value(Bool(xs # <<>>))
        [] x = "contains" -> Value(Bool(is # {}))
        [] x = "indexOf" -> Value(Num(IF is = {} THEN -1 ELSE (CHOOSE i \in is : \A j \in is : i <= j) - 1))
        [] x \in {"toList", "toSeq", "iterator"} -> Value(List(xs))
        [] x = "toVector" -> Value(Vector(xs))
        [] x = "toSet" -> Keyed("Set", xs)
        [] x = "toMap" -> Keyed("Map", xs)
        [] x \in {"sum", "product"} /\ (\E i \in DOMAIN xs : ~IsNumber(xs[i])) -> WrongType
        [] OTHER -> Value(Num(FoldLeft(LAMBDA a, v : IF x = "sum" THEN a + v[2] ELSE a * v[2],
                                       IF x = "sum" THEN 0 ELSE 1, xs)))

\* The loops: the native, its state before the first element.
LoopNatives == {"foreach", "map", "flatMap", "filter", "filterNot", "exists", "forall", "count", "find"}
LoopAcc(x) == IF x = "count" THEN 0 ELSE <<>>
Fold(xs, z, f, left) ==
  Drive(IF left THEN Loop("foldLeft", List(xs), f, <<>>, xs, z)
        ELSE Loop("foldRight", List(xs), f, <<>>, Reverse(xs), z))
\* foldEntry: one argument is the curried spelling.
FoldEntry(self, args, left) ==
  IF Len(args) = 1 THEN Value(FoldPartial(self, args[1], left))
  ELSE Fold(self[2], args[1], args[2], left)
Reduce(xs, f, left) ==
  IF xs = <<>> THEN Fails("UnsupportedOperationException")
  ELSE IF left THEN Fold(Tail(xs), Head(xs), f, TRUE) ELSE Fold(Front(xs), Last(xs), f, FALSE)
Extremum(self, f, op) ==
  IF self[2] = <<>> THEN Fails("UnsupportedOperationException")
  ELSE Drive(Loop(op, self, f, <<>>, self[2], <<>>))

SeqLoop(self, x, args) ==
  LET xs == self[2]
      each(op, f, acc) == Drive(Loop(op, self, f, <<>>, xs, acc))
  IN  CASE x \in LoopNatives \cup {"takeWhile", "dropWhile", "groupBy"} -> each(x, args[1], LoopAcc(x))
        [] x = "partition" -> each(x, args[1], <<<<>>, <<>>>>)
        [] x = "flatten" -> each("flatMap", NoFn, <<>>)
        [] x = "withFilter" -> Value(Filtered(xs, args))
        [] x \in {"foldLeft", "fold"} -> FoldEntry(self, args, TRUE)
        [] x = "foldRight" -> FoldEntry(self, args, FALSE)
        [] x \in {"reduce", "reduceLeft"} -> Reduce(xs, args[1], TRUE)
        [] x = "reduceRight" -> Reduce(xs, args[1], FALSE)
        [] x \in {"min", "max"} -> Extremum(self, NoFn, x)
        [] x \in {"minBy", "maxBy"} -> Extremum(self, args[1], IF x = "minBy" THEN "min" ELSE "max")
        [] x \in {"sorted", "sortBy", "sortWith"} /\ Len(xs) < 2 -> Value(self)
        [] x = "sorted" -> Merge(Sort(self, NoFn, xs))
        [] x = "sortBy" -> each(x, args[1], <<>>)
        [] OTHER -> Merge(Sort(self, args[1], xs))
SeqLoopNatives ==
  LoopNatives \cup {"takeWhile", "dropWhile", "groupBy", "partition", "flatten", "withFilter",
    "foldLeft", "fold", "foldRight", "reduce", "reduceLeft", "reduceRight", "min", "max", "minBy",
    "maxBy", "sorted", "sortBy", "sortWith"}

SeqNative(self, x, args) ==
  CASE x \in IndexNatives -> Indexed(self, x, args)
    [] x \in EndNatives -> Ends(self, x)
    [] x \in BuildNatives -> Build(self, x, args)
    [] x \in AskNatives -> Asks(self, x, args)
    [] OTHER -> SeqLoop(self, x, args)

\* A Range answers from its bounds.
\* Mutant: the index is not checked against the length.
InRangeUnbounded(r, v) ==
  v[1] = "Int" /\ Length(r) # 0 /\ Size(v[2] - r.start) % Size(r.step) = 0
InRange(r, v) ==
  /\ v[1] = "Int" /\ Length(r) # 0 /\ Size(v[2] - r.start) % Size(r.step) = 0
  /\ Quotient(v[2] - r.start, r.step) \in 0..(Length(r) - 1)
RangeSum(r) == IF Length(r) = 0 THEN 0
               ELSE Quotient((r.start + At(r, Length(r) - 1)) * Length(r), 2)
RangeReverse(self) ==
  LET r == self[2]
  IN  IF Length(r) = 0 THEN self ELSE RangeV(At(r, Length(r) - 1), r.start, -r.step, TRUE)
RangeBy(r, step) ==
  IF step[1] # "Int" THEN (IF step[1] = "Char" THEN WrongCount ELSE WrongType)
  ELSE IF step[2] = 0 THEN Fails("IllegalArgumentException")
  ELSE Value(RangeV(r.start, r.end, step[2], r.incl))

RangeLoop(self, x, args) ==
  IF x = "withFilter" THEN Value(Filtered(Elements(self), args))
  ELSE Drive(Loop(x, self, args[1], <<>>, Elements(self), LoopAcc(x)))

RangeNative(self, x, args) ==
  LET r == self[2]
      n == Length(r)
  IN  CASE x = "by" -> RangeBy(r, args[1])
        [] x \in {"length", "size"} -> Value(Num(n))
        [] x = "isEmpty" -> Value(Bool(n = 0))
        [] x = "nonEmpty" -> Value(Bool(n # 0))
        [] x = "apply" -> IF ~IsNumber(args[1]) THEN WrongType
                          ELSE IF args[1][2] \in 0..(n - 1) THEN Value(Num(At(r, args[1][2])))
                          ELSE Fails("IndexOutOfBoundsException")
        [] x \in {"head", "last"} -> IF n = 0 THEN Fails("NoSuchElementException")
                                     ELSE Value(Num(IF x = "head" THEN r.start ELSE At(r, n - 1)))
        [] x = "contains" -> Value(Bool(InRange(r, args[1])))
        [] x = "sum" -> Value(Num(RangeSum(r)))
        [] x = "reverse" -> Value(RangeReverse(self))
        [] x \in {"toList", "toSeq"} -> Value(List(Elements(self)))
        [] x = "toVector" -> Value(Vector(Elements(self)))
        [] x = "toSet" -> Keyed("Set", Elements(self))
        [] OTHER -> RangeLoop(self, x, args)
\* a until b, a to b
RangeOf(a, b, incl) == IF b[1] = "Int" THEN Value(RangeV(a[2], b[2], 1, incl))
                       ELSE IF b[1] = "Char" THEN WrongCount ELSE WrongType

\* withFilter: the predicates run on an element right before f does.
FilteredNative(self, x, args) ==
  IF x = "withFilter" THEN Value(Filtered(self[2], Append(self[3], args[1])))
  ELSE Drive(Loop(x, List(self[2]), args[1], self[3], self[2], <<>>))

\* asKeyedData: a Map or Set as it is, a Seq of elements or of pairs.
KeyedData(v, pairs) ==
  CASE v[1] \in {"Map", "Set"} -> Value(v)
    [] IsSeq(v) -> Keyed(IF pairs THEN "Map" ELSE "Set", Elements(v))
    [] OTHER -> WrongType

\* Mutant: the entries kept are those of the argument.
BulkTheirs(mine, theirs, x) ==
  LET has(d, e) == Find(d, e.k) # {}
  IN  CASE x \in {"++", "union", "|"} -> FoldLeft(LAMBDA d, e : Put(d, e.k, e.v), mine, theirs)
        [] x = "--" -> FoldLeft(LAMBDA d, e : Delete(d, e.k), mine, theirs)
        [] x \in {"intersect", "&"} -> SelectSeq(theirs, LAMBDA e : has(mine, e))
        [] OTHER -> SelectSeq(theirs, LAMBDA e : ~has(mine, e))
Bulk(mine, theirs, x) ==
  LET has(d, e) == Find(d, e.k) # {}
  IN  CASE x \in {"++", "union", "|"} -> FoldLeft(LAMBDA d, e : Put(d, e.k, e.v), mine, theirs)
        [] x = "--" -> FoldLeft(LAMBDA d, e : Delete(d, e.k), mine, theirs)
        [] x \in {"intersect", "&"} -> SelectSeq(mine, LAMBDA e : has(theirs, e))
        [] OTHER -> SelectSeq(mine, LAMBDA e : ~has(theirs, e))
BulkNatives == {"++", "--", "union", "|", "intersect", "&", "diff", "&~"}

ReadNatives == {"apply", "get", "getOrElse", "contains", "isDefinedAt"}
Reads(self, x, args) ==
  LET d == self[2]
      has == Find(d, args[1]) # {}
  IN  CASE x \in {"contains", "isDefinedAt"} \/ (x = "apply" /\ self[1] = "Set") -> Value(Bool(has))
        [] x = "apply" /\ self[1] = "Map" -> IF has THEN Value(Lookup(d, args[1]))
                                             ELSE Fails("NoSuchElementException")
        [] x = "get" -> Value(Option(IF has THEN <<Lookup(d, args[1])>> ELSE <<>>))
        [] OTHER -> Value(IF has THEN Lookup(d, args[1]) ELSE args[2])

Writes(self, x, args) ==
  LET d == self[2]
      kind == self[1]
      pair == args[1][2]
  IN  CASE x = "+" /\ kind = "Map" -> IF IsPair(args[1]) THEN Value(<<kind, Put(d, pair[1], pair[2])>>)
                                      ELSE WrongCount
        [] x = "+" /\ kind = "Set" -> Value(<<kind, Put(d, args[1], args[1])>>)
        [] x = "updated" -> Value(<<kind, Put(d, args[1], args[2])>>)
        [] OTHER -> Value(<<kind, Delete(d, args[1])>>)

\* size and the views of the entries.
ViewNatives == {"size", "length", "isEmpty", "nonEmpty", "toList", "toSeq", "iterator", "keys",
                "values", "head"}
Views(self, x) ==
  LET d == self[2]
      keys == [i \in DOMAIN d |-> d[i].k] \o <<>>
  IN  CASE x \in {"size", "length"} -> Value(Num(Len(d)))
        [] x = "isEmpty" -> Value(Bool(d = <<>>))
        [] x = "nonEmpty" -> Value(Bool(d # <<>>))
        [] x \in {"toList", "toSeq", "iterator"} -> Value(List(Items(self)))
        [] x = "keys" \/ (x = "values" /\ self[1] = "Set") -> Value(List(keys))
        [] x = "values" /\ self[1] = "Map" -> Value(List([i \in DOMAIN d |-> d[i].v] \o <<>>))
        [] OTHER -> IF d = <<>> THEN Fails("NoSuchElementException") ELSE Value(Items(self)[1])

\* The operations with a second collection; only subsetOf never takes pairs.
BulkNative(self, x, args) ==
  LET other == KeyedData(args[1], self[1] = "Map" /\ x # "subsetOf")
      d == self[2]
  IN  IF other.k = "raise" THEN other
      ELSE IF x = "subsetOf" THEN Value(Bool(\A i \in DOMAIN d : Find(other.v[2], d[i].k) # {}))
      ELSE Value(<<self[1], Bulk(d, other.v[2], x)>>)

KeyedLoop(self, x, args) ==
  CASE x = "flatMap" -> Drive(Loop("collect", self, args[1], <<>>, self[2], <<>>))
    [] x = "withFilter" -> Value(Filtered(Items(self), args))
    [] x = "foldLeft" -> FoldEntry(List(Items(self)), args, TRUE)
    [] OTHER -> Drive(Loop(x, self, args[1], <<>>, self[2], LoopAcc(x)))

KeyedNative(self, x, args) ==
  CASE x \in ReadNatives -> Reads(self, x, args)
    [] x \in {"+", "-", "updated", "removed"} -> Writes(self, x, args)
    [] x \in ViewNatives -> Views(self, x)
    [] x \in BulkNatives \cup {"subsetOf"} -> BulkNative(self, x, args)
    [] x = "keySet" -> Keyed("Set", [i \in DOMAIN self[2] |-> self[2][i].k] \o <<>>)
    [] x \in {"toMap", "toSet"} -> Value(<<IF x = "toMap" THEN "Map" ELSE "Set", self[2]>>)
    [] OTHER -> KeyedLoop(self, x, args)

\* installCollectionPrimitives: the natives of each kind of receiver.
Installed(kind) ==
  CASE kind \in {"List", "Vector"} ->
         (IndexNatives \cup EndNatives \cup BuildNatives \cup AskNatives \cup SeqLoopNatives)
         \ (IF kind = "Vector" THEN {"::"} ELSE {})
    [] kind = "Range" ->
         (LoopNatives \ {"filterNot"}) \cup
         {"by", "length", "size", "isEmpty", "nonEmpty", "apply", "head", "last", "contains", "sum",
          "reverse", "toList", "toSeq", "toVector", "toSet", "withFilter"}
    [] kind \in {"Map", "Set"} ->
         ReadNatives \cup ViewNatives \cup BulkNatives \cup LoopNatives \cup
         {"+", "-", "updated", "removed", "keySet", "subsetOf", "withFilter", "foldLeft", "toMap",
          "toSet"}
    [] kind = "Filtered" -> {"withFilter", "map", "flatMap", "foreach"}
    [] kind = "Fold" -> {"apply"}
    [] kind = "Int" -> {"to", "until"}
    [] OTHER -> {}

\* A call of the installed native x of self.
Native(self, x, args) ==
  LET kind == self[1]
  IN  IF ~RightCount(self, x, args) THEN WrongCount
      ELSE CASE kind \in {"List", "Vector"} -> SeqNative(self, x, args)
             [] kind = "Range" -> RangeNative(self, x, args)
             [] kind \in {"Map", "Set"} -> KeyedNative(self, x, args)
             [] kind = "Filtered" -> FilteredNative(self, x, args)
             [] kind = "Fold" -> Fold(self[2][2], self[3], args[1], self[4])
             [] OTHER -> RangeOf(self, args[1], x = "to")
=============================================================================
