------------------------------- MODULE Engine -------------------------------
(***************************************************************************)
(* The bytecode interpreter (runtime/ExecutionEngine.cpp, OpcodeOps.h)     *)
(* running one compiled unit inside an actor's turn:                       *)
(*   prog    the unit, an index of Units                                   *)
(*   code    its compiled functions                                        *)
(*   frames  the activations, the innermost last                           *)
(*   heap    objs: cells, lazies and instances by number; classes by name  *)
(*   globals the global table                                              *)
(*   out     what the program has emitted                                  *)
(*   awaits  how each await so far ended                                   *)
(*   outer   the suspended frames resumeFrames has not re-entered yet      *)
(*   snapshot  the frames the actor keeps (__snapshot__)                   *)
(*   status  running, returning (a value to the engine's own C++),         *)
(*           awaiting, suspended, done, failed, defect                     *)
(* A frame is [mod, pc, slots, stack, ret, pending]: pc is the next        *)
(* instruction, ret what the engine's own C++ does with the result before  *)
(* the calling frame sees it, pending whether the call in flight has a     *)
(* base to resume at.  A C++ call of the engine is an effect: a value, a   *)
(* frame to enter, an exception, or a native's own action.                 *)
(***************************************************************************)
EXTENDS Templates

\* Load(unit): the unit's code, and the heap and globals its prelude set up.
\* Collect(self, x, args) and CollectOn(c, v): a native of a collection, and
\* the rest of it once the program's function has answered.
CONSTANTS Units, Load(_), Collect(_, _, _), CollectOn(_, _)

VARIABLES prog, code, frames, heap, globals, out, awaits, outer, snapshot, status

vars == <<prog, code, frames, heap, globals, out, awaits, outer, snapshot, status>>

-----------------------------------------------------------------------------
\* Values.
BoolV(b) == <<"Bool", b>>
UnitV == <<"Unit">>
NullV == <<"Null">>
\* An integer that was widened; the programs compute with no other.
DoubleV(n) == <<"Double", n>>
ListV(vs) == <<"List", vs>>
TupleV(vs) == <<"Tuple", vs>>
\* A function holds its module, its captures and how many arguments it takes.
FnV(mod, caps, n) == <<"Fn", mod, caps, n>>
BoundV(fn, self) == <<"Bound", fn[2], fn[3], self, fn[4]>>
NativeV(x) == <<"Native", x>>
ClassV(x) == <<"Class", x>>
RefV(tag, id) == <<tag, id>>
\* A ScalaError, materialised: an instance of the prelude class of that name.
ErrV(x) == <<"Err", x>>

\* The prelude's exception classes and the natives the programs use.
Prelude ==
  LET class(x, parent) == TemplateDef("Class", x, <<ValParam("message")>>,
                                      IF parent = "" THEN <<>> ELSE <<parent>>,
                                      IF parent = "" THEN <<>> ELSE << <<Ident("message")>> >>, <<>>)
      plain(t) == [t EXCEPT !.ps = <<Param("message")>>]
  IN  <<class("Throwable", ""), plain(class("Exception", "Throwable")),
        plain(class("Error", "Throwable")), plain(class("RuntimeException", "Exception")),
        plain(class("IllegalStateException", "RuntimeException")),
        plain(class("IllegalArgumentException", "RuntimeException")),
        plain(class("NoSuchElementException", "RuntimeException")),
        plain(class("UnsupportedOperationException", "RuntimeException"))>>
PreludeTypes == DefineTypes(Prelude, BuiltinTypes).types
Natives == {"emit", "await", "List", "__varargs", "__isForeignObject", "__isInstanceOf"}

Compiled(unit) ==
  LET types == PreludeTypes
      builtins == [x \in Natives \cup {"Nil"} |-> [kind |-> "Builtin", masks |-> <<>>]]
      class(t) == [chain |-> Tail(t.lin), mutable |-> FALSE, fields |-> <<>>,
                   members |-> IF t.builtin THEN <<>> ELSE "<init>" :> NativeV("<init>")]
      named(key) == CHOOSE x \in DOMAIN types : TypeKey(x) = key
  IN  [unit |-> CompileUnit(unit, builtins, types),
       heap |-> [objs |-> <<>>, classes |-> [x \in DOMAIN types |-> class(types[x])]],
       globals |-> [key \in {TypeKey(x) : x \in DOMAIN types} |-> ClassV(named(key))]
                   @@ [x \in Natives |-> NativeV(x)] @@ "Nil" :> ListV(<<>>)]
Mod(m) == code[m]

\* The collections.  The natives that answer an Option are left out: it is a
\* class of the prelude.
ArgumentsOf(f) == CASE f[1] = "Fn" -> f[4] [] f[1] = "Bound" -> f[5] [] OTHER -> 1
Coll == INSTANCE Collections WITH Arity <- ArgumentsOf
CollNatives(v) == Coll!Installed(v[1]) \ {"headOption", "lastOption", "find", "get"}

ErrorChain(x) ==
  {"@" \o x, "@Throwable"} \cup
  (IF x = "NoSuchMethodError" THEN {"@Error"} ELSE {"@Exception", "@RuntimeException"})

-----------------------------------------------------------------------------
\* Effects.
Val(v, h) == [k |-> "value", v |-> v, h |-> h, ret |-> <<>>]
Raise(v, h) == [k |-> "raise", v |-> v, h |-> h]
Throws(x, h) == Raise(ErrV(x), h)
Enter(f, h) == [k |-> "enter", f |-> f, h |-> h]
Native(k, v, h) == [k |-> k, v |-> v, h |-> h, ret |-> <<>>]
\* std::logic_error: a defect of the compiler or the VM, which no program catches.
Defect(h) == [k |-> "defect", h |-> h]

\* The heap.
Alloc(o, h) == [h EXCEPT !.objs = Append(@, o)]
Fresh(h) == Len(h.objs) + 1
Cell == [k |-> "Cell", v |-> NullV]
Lazy(thunk) == [k |-> "Lazy", set |-> FALSE, v |-> NullV, thunk |-> thunk]
Instance(c, mut) == [k |-> "Obj", cls |-> c, fields |-> <<>>, mut |-> mut]

Chain(c, h) == <<c>> \o h.classes[c].chain
Defining(chain, x, h) == {i \in DOMAIN chain : x \in DOMAIN h.classes[chain[i]].members}
Missing == [found |-> FALSE, v |-> NullV]
Found(v) == [found |-> TRUE, v |-> v]
InChain(chain, x, h) ==
  LET is == Defining(chain, x, h)
  IN  IF is = {} THEN Missing
      ELSE Found(h.classes[chain[CHOOSE i \in is : \A j \in is : i <= j]].members[x])

\* getAttribute and hasAttribute.
Attr(v, x, h) ==
  CASE v[1] = "Obj" -> IF x \in DOMAIN h.objs[v[2]].fields THEN Found(h.objs[v[2]].fields[x])
                       ELSE InChain(Chain(h.objs[v[2]].cls, h), x, h)
    [] v[1] = "Tuple" -> IF \E k \in DOMAIN v[2] : Field(k) = x
                         THEN Found(v[2][CHOOSE k \in DOMAIN v[2] : Field(k) = x]) ELSE Missing
    [] v[1] \in {"Fn", "Bound", "Native"} -> IF x = "apply" THEN Found(v) ELSE Missing
    [] v[1] \in {"Int", "Double"} /\ x = "toDouble" -> Found(NativeV(x))
    [] OTHER -> IF x \in CollNatives(v) THEN Found(NativeV(x)) ELSE Missing

\* storeField: a mutable instance in place, an immutable one as a new version.
StoreFields(self, fs, h) ==
  LET o == h.objs[self[2]]
      n == [o EXCEPT !.fields = fs @@ @]
  IN  IF o.mut THEN [self |-> self, h |-> [h EXCEPT !.objs[self[2]] = n]]
      ELSE [self |-> RefV("Obj", Fresh(h)), h |-> Alloc(n, h)]

\* TEST_PROTO.
HasProto(v, key, h) ==
  CASE v[1] = "Obj" -> \E i \in DOMAIN Chain(h.objs[v[2]].cls, h) :
                          TypeKey(Chain(h.objs[v[2]].cls, h)[i]) = key
    [] v[1] = "Tuple" -> key = TupleKey(Len(v[2]))
    [] v[1] = "Err" -> key \in ErrorChain(v[2])
    [] OTHER -> FALSE

AnyVal == {"Int", "Double", "Bool", "Unit"}
TestType(t, v) ==
  CASE t = "Integer" -> v[1] = "Int"
    [] t = "Boolean" -> v[1] = "Bool"
    [] t = "String" -> v[1] = "Str"
    [] t = "ConsList" -> v[1] = "List" /\ v[2] # <<>>
    [] t = "Function" -> v[1] \in {"Fn", "Bound", "Native"}
    [] t = "AnyRef" -> v[1] \notin AnyVal \cup {"Null"}
    [] t = "AnyVal" -> v[1] \in AnyVal
    [] t = "NonNull" -> v[1] # "Null"
    [] t = "Nothing" -> FALSE
    [] OTHER -> v[1] = t

-----------------------------------------------------------------------------
\* Calls.  Then(e, ret): the C++ that called e goes on with ret.
RECURSIVE Execute(_, _, _, _, _), Invoke(_, _, _), Dispatch(_, _, _, _, _)

Then(e, ret) ==
  CASE e.k = "enter" -> [e EXCEPT !.f.ret = @ \o ret]
    [] e.k \in {"value", "emit", "await"} -> [e EXCEPT !.ret = @ \o ret]
    [] OTHER -> e

Callable(v) == v[1] \in {"Fn", "Bound", "Native"}

\* A native of a collection, and the calls it makes to the program's functions.
RunNative(r, h) ==
  CASE r.k = "value" -> Val(r.v, h)
    [] r.k = "raise" -> Throws(r.v, h)
    [] r.k = "call" -> Then(Invoke(r.f, r.args, h), <<[k |-> "native", c |-> r.c]>>)
    [] OTHER -> Then(Dispatch(r.v, r.x, <<>>, FALSE, h), <<[k |-> "native", c |-> r.c]>>)

CallNative(x, self, args, h) ==
  CASE x = "toDouble" -> Val(DoubleV(self[2]), h)
    [] x # "toDouble" /\ self[1] \notin {"Unit", "Obj"} -> RunNative(Collect(self, x, args), h)
    [] x \in {"emit", "await"} -> Native(x, IF args = <<>> THEN UnitV ELSE args[1], h)
    [] x \in {"List", "__varargs"} -> Val(ListV(args), h)
    [] x = "<init>" -> LET r == StoreFields(self, "message" :> args[1], h) IN Val(r.self, r.h)
    [] OTHER -> Val(BoolV(FALSE), h)

\* bindKeywordsAndDefaults from the first parameter not yet filled: each default
\* runs as a call of its block with the frame's slots as the arguments.
BindDefaults(f, filled, h) ==
  LET m == Mod(f.mod)
      is == DOMAIN m.names \ filled
      i == CHOOSE j \in is : \A l \in is : j <= l
      d == Mod(m.dflts[i])
  IN  CASE is = {} -> Enter(f, h)
        [] is # {} /\ m.dflts[i] = 0 -> Throws("IllegalArgumentException", h)
        [] OTHER -> Then(Execute(m.dflts[i], [k \in 1..d.arity |-> f.slots[k - 1]], <<>>, <<>>, h),
                         <<[k |-> "default", f |-> f, i |-> i, filled |-> filled \cup {i}]>>)

BindKeywords(f, kws, positional, h) ==
  LET m == Mod(f.mod)
      value(x) == kws[CHOOSE j \in DOMAIN kws : kws[j].x = x].v
      named == {i \in DOMAIN m.names : \E j \in DOMAIN kws : kws[j].x = m.names[i]}
      slots == [k \in {i - 1 : i \in named} |-> value(m.names[k + 1])] @@ f.slots
  IN  IF (\E i \in named : i <= positional) \/ Cardinality(named) # Len(kws)
      THEN Throws("IllegalArgumentException", h)
      ELSE BindDefaults([f EXCEPT !.slots = slots],
                        named \cup {i \in DOMAIN m.names : i <= positional}, h)

\* execute: the arity check, the slots, keywords and defaults, then the body.
Execute(mod, args, caps, kws, h) ==
  LET m == Mod(mod)
      fixed == IF m.variadic THEN m.arity - 1 ELSE m.arity
      hasDefaults == \E i \in DOMAIN m.dflts : m.dflts[i] # 0
      mayBind == ~m.variadic /\ (kws # <<>> \/ hasDefaults)
      n == Len(args)
      ok == CASE m.variadic -> n >= fixed [] mayBind -> n <= m.arity [] OTHER -> n = m.arity
      positional == IF n < fixed THEN n ELSE fixed
      slots == [k \in 0..(positional - 1) |-> args[k + 1]]
               @@ (IF m.variadic THEN fixed :> ListV(SubSeq(args, fixed + 1, n)) ELSE <<>>)
               @@ [k \in {m.caps[j].to : j \in DOMAIN m.caps} |->
                     caps[CHOOSE j \in DOMAIN m.caps : m.caps[j].to = k]]
               @@ [k \in 0..(m.slots - 1) |-> NullV]
      f == [mod |-> mod, pc |-> 1, slots |-> slots, stack |-> <<>>, ret |-> <<>>, pending |-> FALSE]
  IN  IF ~ok THEN Throws("IllegalArgumentException", h)
      ELSE IF Len(caps) # Len(m.caps) THEN Defect(h)
      ELSE IF kws # <<>> \/ (hasDefaults /\ positional < fixed) THEN BindKeywords(f, kws, positional, h)
      ELSE Enter(f, h)

Invoke(v, args, h) ==
  CASE v[1] = "Null" -> Throws("NullPointerException", h)
    [] v[1] = "Fn" -> IF Mod(v[2]).method THEN Defect(h) ELSE Execute(v[2], args, v[3], <<>>, h)
    [] v[1] = "Bound" -> Execute(v[2], <<v[4]>> \o args, v[3], <<>>, h)
    [] v[1] = "Native" -> CallNative(v[2], UnitV, args, h)
    [] OTHER -> Dispatch(v, "apply", args, FALSE, h)

Memo(id) == [k |-> "memo", id |-> id]
\* force and forceMember: the value is stored when the thunk has returned; ran is
\* the effect of running it.
Force(id, ran, h) ==
  IF h.objs[id].set THEN Val(h.objs[id].v, h) ELSE Then(ran, <<Memo(id)>>)

IsMethod(v) == v[1] = "Fn" /\ Mod(v[2]).method

CallMember(m, self, args, applied, h) ==
  LET select == args = <<>> /\ ~applied
  IN  CASE m[1] = "Native" -> CallNative(m[2], self, args, h)
        [] IsMethod(m) ->
             IF select /\ Mod(m[2]).arity > 1 /\ ~Mod(m[2]).variadic THEN Val(BoundV(m, self), h)
             ELSE Execute(m[2], <<self>> \o args, <<>>, <<>>, h)
        [] Callable(m) /\ ~IsMethod(m) -> IF select THEN Val(m, h) ELSE Invoke(m, args, h)
        [] m[1] = "Lazy" ->
             Then(Force(m[2], Execute(h.objs[m[2]].thunk[2], <<self>>, <<>>, <<>>, h), h),
                  IF select THEN <<>> ELSE <<[k |-> "apply", args |-> args]>>)
        [] OTHER -> IF select THEN Val(m, h) ELSE Dispatch(m, "apply", args, FALSE, h)

\* `o.p(args)` on a parameterless member applies the member's result.
Dispatch(self, x, args, applied, h) ==
  LET a == Attr(self, x, h)
  IN  CASE self[1] = "Null" -> Throws("NullPointerException", h)
        [] self[1] # "Null" /\ ~a.found -> Throws("NoSuchMethodError", h)
        [] a.found /\ a.v[1] = "Null" ->
             IF args = <<>> /\ ~applied THEN Val(NullV, h) ELSE Throws("NullPointerException", h)
        [] applied /\ IsMethod(a.v) /\ Mod(a.v[2]).paramless ->
             Then(Execute(a.v[2], <<self>>, <<>>, <<>>, h), <<[k |-> "applyResult", args |-> args]>>)
        [] OTHER -> CallMember(a.v, self, args, applied, h)

\* siteName: the plain name when the receiver lacks the private key.
SiteName(self, site, h) == IF Attr(self, site.key, h).found THEN site.key ELSE site.plain

Instantiate(c, key, args, kws, h) ==
  LET chain == Chain(c, h)
      mut == \E i \in DOMAIN chain : h.classes[chain[i]].mutable
      self == RefV("Obj", Fresh(h))
      g == Alloc(Instance(c, mut), h)
      init == h.classes[c].members[key]
  IN  IF key \notin DOMAIN h.classes[c].members THEN Throws("IllegalArgumentException", g)
      ELSE IF init[1] = "Native" THEN CallNative(init[2], self, args, g)
      ELSE Execute(init[2], <<self>> \o args, <<>>, kws, g)

SuperSend(self, args, site, h) ==
  LET chain == Chain(h.objs[self[2]].cls, h)
      at == {i \in DOMAIN chain : chain[i] = site.owner}
      from == (CHOOSE i \in at : TRUE) + (IF site.exact THEN 0 ELSE 1)
      m == InChain(SubSeq(chain, from, Len(chain)), site.key, h)
  IN  IF at = {} \/ ~m.found THEN Throws("NoSuchMethodError", h)
      ELSE CallMember(m.v, self, args, FALSE, h)

SendKeywords(self, args, kws, site, h) ==
  LET a == Attr(self, SiteName(self, site, h), h)
      m == a.v
  IN  CASE self[1] = "Null" -> Throws("NullPointerException", h)
        [] self[1] # "Null" /\ (~a.found \/ m[1] = "Null") -> Throws("NoSuchMethodError", h)
        [] IsMethod(m) -> Execute(m[2], <<self>> \o args, <<>>, kws, h)
        [] m[1] = "Bound" -> Execute(m[2], <<self>> \o args, m[3], kws, h)
        [] m[1] = "Fn" /\ ~IsMethod(m) -> Execute(m[2], args, m[3], kws, h)
        [] m[1] = "Native" -> CallNative(m[2], self, args, h)
        [] OTHER -> Throws("IllegalArgumentException", h)

CallKeywords(v, args, kws, h) ==
  CASE v[1] = "Null" -> Throws("NullPointerException", h)
    [] v[1] = "Fn" -> IF Mod(v[2]).method THEN Defect(h) ELSE Execute(v[2], args, v[3], kws, h)
    [] v[1] = "Bound" -> Execute(v[2], <<v[4]>> \o args, v[3], kws, h)
    [] v[1] = "Native" -> CallNative(v[2], UnitV, args, h)
    [] OTHER -> SendKeywords(v, args, kws, Site("apply", 0, <<>>), h)

\* show, except for an instance, whose toString is a call.
Show(v) ==
  CASE v[1] = "Str" -> v[2]
    [] v[1] \in {"Int", "Bool"} -> ToString(v[2])
    [] v[1] = "Unit" -> "()"
    [] v[1] = "Null" -> "null"
    [] OTHER -> "<object>"

\* Instances are compared by their equals: the case class's own, field by
\* field, unless the class defines one; other values structurally.
RECURSIVE ValuesEqual(_, _, _)
ValuesEqual(a, b, h) ==
  LET o == h.objs[a[2]]
      p == h.objs[b[2]]
      fs == h.classes[o.cls].fields
  IN  CASE Coll!IsSeq(a) /\ Coll!IsSeq(b) /\ {a[1], b[1]} # {"Range"} ->
             LET xs == Coll!Elements(a)
                 ys == Coll!Elements(b)
             IN  Len(xs) = Len(ys) /\ \A i \in DOMAIN xs : ValuesEqual(xs[i], ys[i], h)
        [] a[1] = b[1] /\ a[1] = "Obj" ->
             \/ a = b
             \/ /\ o.cls = p.cls /\ fs # <<>>
                /\ \A i \in DOMAIN fs : ValuesEqual(o.fields[fs[i]], p.fields[fs[i]], h)
        [] a[1] = b[1] /\ a[1] = "Tuple" ->
             /\ Len(a[2]) = Len(b[2])
             /\ \A i \in DOMAIN a[2] : ValuesEqual(a[2][i], b[2][i], h)
        [] OTHER -> a[1] = b[1] /\ Coll!Equal(a, b)

Equality(a, b, want, h) ==
  IF a[1] = "Obj" /\ Attr(a, "equals", h).found
  THEN Then(Dispatch(a, "equals", <<b>>, FALSE, h), <<[k |-> "eq", want |-> want]>>)
  ELSE Val(BoolV(ValuesEqual(a, b, h) = want), h)

ConcatFrom(s, rest, h) ==
  IF rest = <<>> THEN Val(StrV(s), h)
  ELSE LET v == Head(rest)
           e == IF v[1] = "Obj" /\ Attr(v, "toString", h).found
                THEN Dispatch(v, "toString", <<>>, FALSE, h) ELSE Val(StrV(Show(v)), h)
       IN  Then(e, <<[k |-> "concat", s |-> s, rest |-> Tail(rest)]>>)

\* What the engine's continuation c does with the value v of the call it made.
Continuation(c, v, h) ==
  CASE c.k = "memo" -> Val(v, [h EXCEPT !.objs[c.id].set = TRUE, !.objs[c.id].v = v])
    [] c.k = "apply" -> Invoke(v, c.args, h)
    [] c.k = "applyResult" -> IF v[1] # "Null" /\ (Callable(v) \/ Attr(v, "apply", h).found)
                              THEN Invoke(v, c.args, h) ELSE Throws("NoSuchMethodError", h)
    [] c.k = "default" -> BindDefaults([c.f EXCEPT !.slots[c.i - 1] = v], c.filled, h)
    [] c.k = "eq" -> Val(BoolV((v = BoolV(TRUE)) = c.want), h)
    [] c.k = "concat" -> IF v[1] = "Str" THEN ConcatFrom(c.s \o v[2], c.rest, h)
                         ELSE Throws("ClassCastException", h)
    [] OTHER -> RunNative(CollectOn(c.c, v), h)

Arith(op, a, b, h) ==
  CASE a[1] = "Int" /\ b[1] = "Int" ->
         Val(CASE op = "ADD" -> IntV(a[2] + b[2]) [] op = "SUB" -> IntV(a[2] - b[2])
               [] op = "MUL" -> IntV(a[2] * b[2]) [] op = "LT" -> BoolV(a[2] < b[2])
               [] op = "LE" -> BoolV(a[2] <= b[2]) [] op = "GT" -> BoolV(a[2] > b[2])
               [] OTHER -> BoolV(a[2] >= b[2]), h)
    [] op = "ADD" /\ (a[1] = "Str" \/ b[1] = "Str") -> ConcatFrom("", <<a, b>>, h)
    [] OTHER -> Dispatch(a, CHOOSE x \in DOMAIN FastBinary : FastBinary[x] = op, <<b>>, FALSE, h)

-----------------------------------------------------------------------------
\* The interpreter loop.  Push/Drop/Top work on a frame's operand stack.
Top(f, n) == SubSeq(f.stack, Len(f.stack) - n + 1, Len(f.stack))
Drop(f, n) == [f EXCEPT !.stack = SubSeq(@, 1, Len(@) - n)]
Push(f, v) == [f EXCEPT !.stack = Append(@, v)]
SetSlot(f, k, v) == [f EXCEPT !.slots[k] = v]

Running == status.k = "running"
Frame == Last(frames)
Ins == Mod(Frame.mod).code[Frame.pc]
\* The frame with the instruction fetched and its n operands popped.
Fetched(n) == Drop([Frame EXCEPT !.pc = @ + 1, !.pending = FALSE], n)
InCall(n) == [Fetched(n) EXCEPT !.pending = TRUE]
At(ops) == Running /\ Ins.op \in ops

\* handlerFor: the first entry of the table whose range holds the pc.
HandlersAt(f) == SelectSeq(Mod(f.mod).handlers, LAMBDA h : h.from <= f.pc - 1 /\ f.pc - 1 < h.to)
\* Mutant: the operands the try body had pushed stay.
EnterHandlerKeeping(f, v) ==
  LET h == Head(HandlersAt(f))
  IN  [SetSlot(f, h.slot, v) EXCEPT !.pc = h.body]
EnterHandler(f, v) ==
  LET h == Head(HandlersAt(f))
  IN  [SetSlot(f, h.slot, v) EXCEPT !.stack = SubSeq(@, 1, h.depth), !.pc = h.body]

\* An exception leaves every frame without a handler for its pc.  The frames
\* resumeFrames has not re-entered are not consulted.
Unwind(fs, v) ==
  LET is == {i \in DOMAIN fs : HandlersAt(fs[i]) # <<>>}
      i == CHOOSE j \in is : \A l \in is : l <= j
  IN  IF is = {}
      THEN frames' = <<>> /\ outer' = <<>> /\ status' = [k |-> "failed", v |-> v]
      ELSE /\ frames' = SubSeq(fs, 1, i - 1) \o <<EnterHandler(fs[i], v)>>
           /\ status' = [k |-> "running"] /\ UNCHANGED outer

\* The value v of a call made by frame f: the engine's continuations see it first.
Yields(below, f, v, ret) ==
  /\ frames' = Append(below, IF ret = <<>> THEN Push(f, v) ELSE f)
  /\ status' = IF ret = <<>> THEN [k |-> "running"] ELSE [k |-> "returning", v |-> v, ret |-> ret]
  /\ UNCHANGED outer

\* The effect e of a call made by frame f, whose callers are below.
Deliver(below, f, e) ==
  /\ heap' = e.h
  /\ out' = IF e.k = "emit" THEN Append(out, e.v) ELSE out
  /\ CASE e.k = "value" -> Yields(below, f, e.v, e.ret)
       [] e.k = "emit" -> Yields(below, f, UnitV, e.ret)
       [] e.k = "enter" -> /\ frames' = below \o <<f, e.f>> /\ status' = [k |-> "running"]
                           /\ UNCHANGED outer
       [] e.k = "raise" -> Unwind(Append(below, f), e.v)
       [] e.k = "await" -> /\ frames' = Append(below, f) /\ status' = [k |-> "awaiting", ret |-> e.ret]
                           /\ UNCHANGED outer
       [] OTHER -> status' = [k |-> "defect"] /\ UNCHANGED <<frames, outer>>
  /\ UNCHANGED <<prog, code, globals, awaits, snapshot>>

Does(f, e) == \E g \in {f}, r \in {e} : Deliver(Front(frames), g, r)
\* An instruction that calls nothing and cannot fail: f is the frame after it.
Goes(f, h) ==
  /\ frames' = Append(Front(frames), f) /\ heap' = h
  /\ UNCHANGED <<prog, code, globals, out, awaits, outer, snapshot, status>>

Constants ==
  /\ At({"PUSH_CONST", "PUSH_UNIT", "PUSH_NULL", "PUSH_TRUE", "PUSH_FALSE"})
  /\ Goes(Push(Fetched(0), CASE Ins.op = "PUSH_CONST" -> Ins.a [] Ins.op = "PUSH_UNIT" -> UnitV
                             [] Ins.op = "PUSH_NULL" -> NullV
                             [] OTHER -> BoolV(Ins.op = "PUSH_TRUE")), heap)

StackOps ==
  \/ At({"POP"}) /\ Goes(Fetched(1), heap)
  \/ At({"DUP"}) /\ Goes(Push(Fetched(0), Last(Frame.stack)), heap)

Locals ==
  \/ At({"PUSH_LOCAL"}) /\ Goes(Push(Fetched(0), Frame.slots[Ins.a]), heap)
  \/ At({"STORE_LOCAL"}) /\ Goes(SetSlot(Fetched(1), Ins.a, Last(Frame.stack)), heap)

Cells ==
  LET id == Frame.slots[Ins.a][2]
  IN  \/ /\ At({"MAKE_CELL"})
         /\ Goes(SetSlot(Fetched(0), Ins.a, RefV("Cell", Fresh(heap))), Alloc(Cell, heap))
      \/ At({"PUSH_CELL"}) /\ Goes(Push(Fetched(0), heap.objs[id].v), heap)
      \/ At({"STORE_CELL"}) /\ Goes(Fetched(1), [heap EXCEPT !.objs[id].v = Last(Frame.stack)])

Globals ==
  \/ /\ At({"PUSH_GLOBAL"})
     /\ Does(Fetched(0), IF Ins.a \in DOMAIN globals THEN Val(globals[Ins.a], heap)
                         ELSE Throws("UninitializedFieldError", heap))
  \/ /\ At({"STORE_GLOBAL"})
     /\ globals' = (Ins.a :> Last(Frame.stack)) @@ globals
     /\ frames' = Append(Front(frames), Fetched(1))
     /\ UNCHANGED <<prog, code, heap, out, awaits, outer, snapshot, status>>

MakeFn ==
  /\ At({"MAKE_FN"})
  /\ LET m == Mod(Ins.a.mod)
         n == IF m.method THEN m.arity - 1 ELSE m.arity
     IN  Goes(Push(Fetched(Ins.a.caps), FnV(Ins.a.mod, Top(Frame, Ins.a.caps), n)), heap)

\* The call instructions: the frame after it, and what it calls.
Operands(n) == Top(Frame, n)
Splice1(vs) == Front(vs) \o Last(vs)[2]
KwArgs(vs, site) == [j \in DOMAIN site.names |-> [x |-> site.names[j], v |-> vs[1 + site.n + j]]]
CallEffect ==
  LET a == Ins.a
      op == Ins.op
      n == CASE op = "CALL" -> a + 1 [] op = "CALL_SPREAD" -> a + 2
             [] op \in {"FORCE", "FORCE_THUNK"} -> 1
             [] op \in {"NEW_SPREAD", "INVOKE_INIT"} -> a.n + 2
             [] OTHER -> 1 + a.n + Len(a.names)
      vs == Operands(n)
      args == IF op \in {"SEND_KW", "CALL_KW", "NEW"} THEN SubSeq(vs, 2, 1 + a.n) ELSE Tail(vs)
      spread == Last(vs)[1] = "List"
      init == heap.classes[vs[1][2]].members[a.key]
  IN  [n |-> n, e |->
        CASE op = "CALL" -> Invoke(vs[1], args, heap)
          [] op \in {"CALL_SPREAD", "NEW_SPREAD"} ->
               IF ~spread THEN Throws("ClassCastException", heap)
               ELSE IF op = "CALL_SPREAD" THEN Invoke(vs[1], Splice1(args), heap)
               ELSE Instantiate(vs[1][2], a.key, Splice1(args), <<>>, heap)
          [] op \in {"SEND", "SEND_APPLY"} ->
               Dispatch(vs[1], SiteName(vs[1], a, heap), args, op = "SEND_APPLY", heap)
          [] op = "FORCE" -> IF vs[1][1] # "Lazy" THEN Val(vs[1], heap)
                             ELSE Force(vs[1][2], Invoke(heap.objs[vs[1][2]].thunk, <<>>, heap), heap)
          [] op = "FORCE_THUNK" ->
               IF vs[1][1] = "Fn" /\ ~Mod(vs[1][2]).method /\ Mod(vs[1][2]).arity = 0
               THEN Invoke(vs[1], <<>>, heap) ELSE Val(vs[1], heap)
          [] op = "NEW" -> Instantiate(vs[1][2], a.key, args, KwArgs(vs, a), heap)
          [] op = "INVOKE_INIT" ->
               IF a.key \notin DOMAIN heap.classes[vs[1][2]].members THEN Defect(heap)
               ELSE IF init[1] = "Native" THEN CallNative(init[2], args[1], Tail(args), heap)
               ELSE Execute(init[2], args, <<>>, <<>>, heap)
          [] op = "SEND_SUPER" -> SuperSend(vs[1], args, a, heap)
          [] op = "SEND_KW" -> SendKeywords(vs[1], args, KwArgs(vs, a), a, heap)
          [] OTHER -> CallKeywords(vs[1], args, KwArgs(vs, a), heap)]

CallOps == {"CALL", "CALL_SPREAD", "SEND", "SEND_APPLY", "FORCE", "FORCE_THUNK", "NEW",
            "NEW_SPREAD", "INVOKE_INIT", "SEND_SUPER", "SEND_KW", "CALL_KW"}
Call ==
  /\ At(CallOps)
  /\ \E c \in {CallEffect} : Does(InCall(c.n), c.e)

\* RETURN: the caller goes on with the value; below the bottom frame is the
\* next suspended frame, or the end of the turn.
Returns ==
  /\ At({"RETURN"})
  /\ LET v == Last(Frame.stack)
         below == Front(frames)
     IN  CASE below # <<>> -> Yields(Front(below), Last(below), v, Frame.ret)
           [] below = <<>> /\ outer # <<>> ->
                frames' = <<Push(Last(outer), v)>> /\ outer' = Front(outer) /\ UNCHANGED status
           [] OTHER -> frames' = <<>> /\ status' = [k |-> "done", v |-> v] /\ UNCHANGED outer
  /\ UNCHANGED <<prog, code, heap, globals, out, awaits, snapshot>>

Continue ==
  /\ status.k = "returning"
  /\ Does(Last(frames), Then(Continuation(Head(status.ret), status.v, heap), Tail(status.ret)))

MakeLazy ==
  /\ At({"MAKE_LAZY"})
  /\ Goes(Push(Fetched(1), RefV("Lazy", Fresh(heap))), Alloc(Lazy(Last(Frame.stack)), heap))

Jumps ==
  \/ At({"JUMP", "JUMP_BACK"}) /\ Goes([Frame EXCEPT !.pc = Ins.a], heap)
  \/ /\ At({"JUMP_IF_FALSE", "JUMP_IF_TRUE"})
     /\ LET v == Last(Frame.stack)
        IN  IF v[1] = "Bool"
            THEN Goes(IF v[2] = (Ins.op = "JUMP_IF_TRUE") THEN [Fetched(1) EXCEPT !.pc = Ins.a]
                      ELSE Fetched(1), heap)
            ELSE Does(Fetched(1), Throws("ClassCastException", heap))

Binary ==
  /\ At({"ADD", "SUB", "MUL", "LT", "LE", "GT", "GE", "EQ", "NE"})
  /\ LET vs == Operands(2)
     IN  Does(Fetched(2), IF Ins.op \in {"EQ", "NE"} THEN Equality(vs[1], vs[2], Ins.op = "EQ", heap)
                          ELSE Arith(Ins.op, vs[1], vs[2], heap))

Unary ==
  /\ At({"NEG", "NOT"})
  /\ LET v == Last(Frame.stack)
     IN  Does(Fetched(1), CASE Ins.op = "NEG" /\ v[1] = "Int" -> Val(IntV(-v[2]), heap)
                            [] Ins.op = "NOT" /\ v[1] = "Bool" -> Val(BoolV(~v[2]), heap)
                            [] OTHER -> Dispatch(v, IF Ins.op = "NEG" THEN "unary_-" ELSE "unary_!",
                                                 <<>>, FALSE, heap))

Concat == At({"CONCAT"}) /\ Does(Fetched(Ins.a), ConcatFrom("", Operands(Ins.a), heap))

MakeTuple == At({"MAKE_TUPLE"}) /\ Goes(Push(Fetched(Ins.a), TupleV(Operands(Ins.a))), heap)

MakeClass ==
  /\ At({"MAKE_CLASS"})
  /\ LET a == Ins.a
         n == Len(a.chain)
         m == Len(a.keys)
         vs == Operands(n + m)
         member(x) == vs[n + (CHOOSE i \in DOMAIN a.keys : a.keys[i] = x)]
         class == [chain |-> [i \in 1..n |-> vs[i][2]], members |-> [x \in ToSet(a.keys) |-> member(x)],
                   mutable |-> a.mutable, fields |-> a.fields]
     IN  Goes(Push(Fetched(n + m), ClassV(a.name)),
              [heap EXCEPT !.classes = (a.name :> class) @@ @])

\* The constructor's field stores yield the next version of `this` in slot 0.
StoreField ==
  /\ At({"STORE_FIELD", "STORE_FIELD_IF_NEW", "STORE_FIELDS_IF_NEW"})
  /\ LET keys == IF Ins.op = "STORE_FIELDS_IF_NEW" THEN Ins.a ELSE <<Ins.a>>
         vs == Operands(Len(keys))
         self == Frame.slots[0]
         own == IF Ins.op = "STORE_FIELD" THEN {} ELSE DOMAIN heap.objs[self[2]].fields
         fs == [x \in ToSet(keys) \ own |-> vs[CHOOSE i \in DOMAIN keys : keys[i] = x]]
         r == IF DOMAIN fs = {} THEN [self |-> self, h |-> heap] ELSE StoreFields(self, fs, heap)
     IN  Goes(SetSlot(Fetched(Len(keys)), 0, r.self), r.h)

SetField ==
  /\ At({"SET_FIELD"})
  /\ LET vs == Operands(2)
         r == StoreFields(vs[1], Ins.a :> vs[2], heap)
     IN  IF heap.objs[vs[1][2]].mut THEN Goes(Fetched(2), r.h)
         ELSE Does(Fetched(2), Throws("UnsupportedOperationException", heap))

Tests ==
  /\ At({"TEST_TYPE", "TEST_PROTO"})
  /\ LET v == Last(Frame.stack)
     IN  Goes(Push(Fetched(1), BoolV(IF Ins.op = "TEST_TYPE" THEN TestType(Ins.a, v)
                                     ELSE HasProto(v, Ins.a, heap))), heap)

Extract ==
  LET v == Last(Frame.stack)
      own(x) == IF v[1] = "Tuple" THEN Attr(v, x, heap).v
                ELSE IF x \in DOMAIN heap.objs[v[2]].fields THEN heap.objs[v[2]].fields[x] ELSE NullV
  IN  \/ /\ At({"UNAPPLY_FIELDS"})
         /\ Goes([Fetched(1) EXCEPT !.stack = @ \o [k \in DOMAIN Ins.a |-> own(Ins.a[k])]], heap)
      \/ At({"UNCONS"}) /\ Goes(Push(Push(Fetched(1), Head(v[2])), ListV(Tail(v[2]))), heap)

Throwing ==
  /\ At({"THROW", "RETHROW", "MATCH_ERROR", "CAST_FAIL"})
  /\ LET v == IF Ins.op = "RETHROW" THEN Frame.slots[Ins.a] ELSE Last(Frame.stack)
     IN  Does(Fetched(IF Ins.op = "RETHROW" THEN 0 ELSE 1),
              CASE Ins.op = "MATCH_ERROR" -> Throws("MatchError", heap)
                [] Ins.op = "CAST_FAIL" -> Throws("ClassCastException", heap)
                [] Ins.op = "RETHROW" -> IF v[1] = "Null" THEN Defect(heap) ELSE Raise(v, heap)
                [] OTHER -> IF v[1] = "Null" THEN Throws("NullPointerException", heap)
                            ELSE IF HasProto(v, "@Throwable", heap) THEN Raise(v, heap)
                            ELSE Throws("IllegalArgumentException", heap))

-----------------------------------------------------------------------------
\* await (future_await), called by the innermost frame; status.ret is the C++
\* between the two.
AwaitValue == IntV(7)
AwaitError == ErrV("IllegalStateException")
Settled(ok) == Append(awaits, IF ok THEN "ok" ELSE "fail")
Awaiting == status.k = "awaiting"
\* nativeReentryDepth: a native is running the function that awaits.
InNative == \E c \in ToSet(status.ret) \cup UNION {ToSet(frames[i].ret) : i \in DOMAIN frames} :
              c.k = "native"

\* The future is complete; or it completes before the waiter is registered, and
\* the snapshot that the await opened is taken off again.
AwaitReady(ok) ==
  /\ Awaiting
  /\ snapshot' = snapshot \/ (~InNative /\ snapshot' = <<>>)
  /\ IF ok THEN Yields(Front(frames), Last(frames), AwaitValue, status.ret)
     ELSE Unwind(frames, AwaitError)
  /\ awaits' = Settled(ok)
  /\ UNCHANGED <<prog, code, heap, globals, out>>

\* A pending future inside a native's callback is refused.
AwaitRefused ==
  /\ Awaiting /\ InNative
  /\ Unwind(frames, ErrV("UnsupportedOperationException"))
  /\ awaits' = Append(awaits, "refused")
  /\ UNCHANGED <<prog, code, heap, globals, out, snapshot>>

\* FutureYield passes through the frames, innermost first: each records itself on
\* the actor, and one without a pending call raises instead.  What the frames
\* inside it have recorded stays there, for a later turn of the actor to find
\* (ActorScheduler's StayParked and ResumeTurn).
Recorded(fs) == [j \in DOMAIN fs |-> [fs[j] EXCEPT !.ret = <<>>]]
Suspend ==
  /\ Awaiting /\ ~InNative
  /\ LET fs == frames
         stuck == {i \in DOMAIN fs : ~fs[i].pending}
         i == CHOOSE j \in stuck : \A l \in stuck : l <= j
     IN  IF stuck = {}
         THEN /\ status' = [k |-> "suspended"] /\ snapshot' = Recorded(fs)
              /\ frames' = <<>> /\ outer' = <<>> /\ awaits' = awaits
         ELSE /\ Unwind(SubSeq(fs, 1, i), ErrV("UnsupportedOperationException"))
              /\ snapshot' = Recorded(SubSeq(fs, i + 1, Len(fs)))
              /\ awaits' = Append(awaits, "refused")
  /\ UNCHANGED <<prog, code, heap, globals, out>>

\* resumeFrames: the innermost frame runs first, with the value pushed or the
\* error raised at the pc of its await.
Resume(ok) ==
  /\ status.k = "suspended"
  /\ LET fs == snapshot
     IN  IF ok
         THEN /\ frames' = <<Push(Last(fs), AwaitValue)>>
              /\ outer' = Front(fs) /\ status' = [k |-> "running"]
         ELSE IF HandlersAt(Last(fs)) # <<>>
         THEN /\ frames' = <<EnterHandler(Last(fs), AwaitError)>>
              /\ outer' = Front(fs) /\ status' = [k |-> "running"]
         ELSE frames' = <<>> /\ outer' = <<>> /\ status' = [k |-> "failed", v |-> AwaitError]
  /\ awaits' = Settled(ok) /\ snapshot' = <<>>
  /\ UNCHANGED <<prog, code, heap, globals, out>>

\* The units' prelude is loaded: the exception classes and the natives.
Init ==
  /\ prog \in DOMAIN Units
  /\ \E l \in {Load(Units[prog])} :
       /\ l.unit.err = "" /\ code = l.unit.mods
       /\ heap = l.heap /\ globals = l.globals
  /\ frames = <<[mod |-> Len(code), pc |-> 1, stack |-> <<>>, ret |-> <<>>, pending |-> FALSE,
                 slots |-> [k \in 0..(Last(code).slots - 1) |-> NullV]]>>
  /\ out = <<>> /\ awaits = <<>> /\ outer = <<>> /\ snapshot = <<>>
  /\ status = [k |-> "running"]

Next ==
  \/ Constants \/ StackOps \/ Locals \/ Cells \/ Globals \/ MakeFn \/ Call \/ Returns \/ Continue \/ MakeLazy
  \/ Jumps \/ Binary \/ Unary \/ Concat \/ MakeTuple \/ MakeClass \/ StoreField \/ SetField \/ Tests
  \/ Extract \/ Throwing
  \/ \E ok \in BOOLEAN : AwaitReady(ok) \/ Resume(ok)
  \/ AwaitRefused \/ Suspend

Spec == Init /\ [][Next]_vars /\ WF_vars(Next)
=============================================================================
