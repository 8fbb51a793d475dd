------------------------------ MODULE Compiler ------------------------------
(***************************************************************************)
(* The bytecode compiler (compiler/Compiler.cpp, CompilePatterns.cpp,      *)
(* CompileTailRec.cpp): one operator per compileX method, each taking the  *)
(* node and the compiler's state and returning the state after emission.   *)
(* compileExpr leaves exactly one value on the operand stack.              *)
(***************************************************************************)
EXTENDS Scopes

RECURSIVE CompileExpr(_, _), CompileAll(_, _), CompileFunction(_, _, _, _),
          CompilePattern(_, _, _), CompilePatterns(_, _, _)

\* Every expression of a sequence, in order: n values on the stack.
CompileAll(ns, s) ==
  IF ns = <<>> \/ Abandoned(s) THEN s ELSE CompileAll(Tail(ns), CompileExpr(Head(ns), s))

-----------------------------------------------------------------------------
\* Names.
AfterLoad(kind, s) ==
  CASE kind = "ByNameParam" -> Emit("FORCE_THUNK", 0, s)
    [] kind = "ParamlessDef" -> Emit("CALL", 0, s)
    [] kind \in {"LazyVal", "Object"} -> Emit("FORCE", 0, s)
    [] OTHER -> s

\* A private member of the template is addressed by its class-qualified key,
\* with the plain name as the fallback (selectKey, sendSite).
SendSite(x, n, names, s) ==
  [Site(IF x \in DOMAIN s.tmpl THEN s.tmpl[x].key ELSE x, n, names) EXCEPT !.plain = x]

CompileIdent(x, s) ==
  LET r == Resolve(x, s)
  IN  CASE r.ref = "Member" ->
             LET t == Emit("SEND", SendSite(x, 0, <<>>, s), LoadThis(r.s))
             IN  IF s.tmpl[x].thunk THEN Emit("FORCE_THUNK", 0, t) ELSE t
        [] r.ref = "Local" -> AfterLoad(r.kind, LoadLocal(r.info, r.s))
        [] OTHER -> AfterLoad(r.kind, Emit("PUSH_GLOBAL", r.x, r.s))

CompileSuperSend(x, args, t, s) ==
  LET u == CompileAll(args, LoadThis(Require(t # s.owner, "would call itself", s)))
  IN  Emit("SEND_SUPER", [key |-> x, plain |-> x, n |-> Len(args), names |-> <<>>,
                          owner |-> IF t = "" THEN s.owner ELSE t, exact |-> t # ""], u)

CompileSelect(n, s) ==
  LET t == CompileExpr(n.q, s)
      path == LiftedGlobalPath(n, s)
  IN  CASE n.q.k = "Super" -> CompileSuperSend(n.x, <<>>, n.q.t, s)
        [] path # "" -> CompileIdent(path, s)
        [] n.x = "unary_-" -> Emit("NEG", 0, t)
        [] n.x = "unary_!" -> Emit("NOT", 0, t)
        [] OTHER -> Emit("SEND", SendSite(n.x, 0, <<>>, s), t)

-----------------------------------------------------------------------------
\* Calls.
FastBinary == [o \in {"+", "-", "*", "<", "<=", ">", ">=", "==", "!="} |->
  CASE o = "+" -> "ADD" [] o = "-" -> "SUB" [] o = "*" -> "MUL"
    [] o = "<" -> "LT" [] o = "<=" -> "LE" [] o = ">" -> "GT"
    [] o = ">=" -> "GE" [] o = "==" -> "EQ" [] OTHER -> "NE"]

\* A by-name argument is compiled as a zero-argument function.
CompileByNameArgument(n, s) == CompileFunction(Lambda(<<>>, n), "Lambda", NoTail, s)

RECURSIVE CompileArgs(_, _, _, _)
CompileArgs(args, k, mask, s) ==
  IF k > Len(args) \/ Abandoned(s) THEN s
  ELSE LET a == args[k]
           t == CASE a.k = "Splice" ->
                       Require(k = Len(args) /\ k \notin mask, "a splice must be the last argument",
                               CompileExpr(a.v, s))
                  [] k \in mask -> CompileByNameArgument(a, s)
                  [] OTHER -> CompileExpr(a, s)
       IN  CompileArgs(args, k + 1, mask, t)

HasSplice(args) == \E i \in DOMAIN args : args[i].k = "Splice"

CompileArgsAndCall(args, mask, s) ==
  LET t == CompileArgs(args, 1, mask, s)
  IN  IF args # <<>> /\ Last(args).k = "Splice"
      THEN Emit("CALL_SPREAD", Len(args) - 1, t)
      ELSE Emit("CALL", Len(args), t)

\* splitNamedArgs: the keywords, after the positional arguments.
IsNamed(args) == \E i \in DOMAIN args : args[i].k = "NamedArg"
Positional(args) == Cardinality({i \in DOMAIN args : args[i].k # "NamedArg"})
Keywords(args) == [i \in 1..(Len(args) - Positional(args)) |-> args[Positional(args) + i].x]
WellNamed(args) ==
  /\ \A i \in DOMAIN args : (args[i].k = "NamedArg") <=> i > Positional(args)
  /\ IsInjective(Keywords(args))
  /\ ~HasSplice(args)
ArgValues(args) == [i \in DOMAIN args |-> IF args[i].k = "NamedArg" THEN args[i].v ELSE args[i]]

KwSite(site, args) ==
  IF WellNamed(args) THEN [site EXCEPT !.n = Positional(args), !.names = Keywords(args)]
  ELSE [site EXCEPT !.n = Len(args)]

CompileNamed(op, site, args, s) ==
  Emit(op, KwSite(site, args),
       CompileAll(ArgValues(args), Require(WellNamed(args), "bad named arguments", s)))

\* The constructor an argument count selects.
CtorKeyFor(c, argc) ==
  CASE \/ argc = c.arity
       \/ c.variadic /\ argc + 1 >= c.arity
       \/ argc \in c.minArity..(c.arity - 1) -> "<init>"
    [] argc \in c.aux -> "<init>" \o ToString(argc)
    [] OTHER -> ""

\* new C(args): the class, the arguments, NEW.  A by-name parameter is honoured
\* for positional arguments only.
CompileNewOf(x, args, s) ==
  LET c == s.types[x]
      spread == args # <<>> /\ Last(args).k = "Splice"
      key == CtorKeyFor(c, IF spread THEN c.arity ELSE Len(args))
      t == Emit("PUSH_GLOBAL", c.key,
             Require(/\ c.kind = "Class" /\ ~c.abstract /\ key # ""
                     /\ spread => c.variadic /\ Len(args) = c.arity,
                     "cannot be instantiated", s))
  IN  CASE IsNamed(args) ->
             Emit("NEW", KwSite(Site(key, 0, <<>>), args),
                  CompileArgs(ArgValues(args), 1, c.masks \cap 1..Positional(args),
                              Require(WellNamed(args), "bad named arguments", t)))
        [] spread -> Emit("NEW_SPREAD", Site(key, Len(args) - 1, <<>>),
                          CompileArgs(args, 1, c.masks, t))
        [] OTHER -> Emit("NEW", Site(key, Len(args), <<>>), CompileArgs(args, 1, c.masks, t))

CompileNew(n, s) ==
  LET x == ScopedName(n.t, DOMAIN s.types, s)
  IN  IF x \in DOMAIN s.types THEN CompileNewOf(x, n.args, s)
      ELSE Fail("Not found: type", Emit("PUSH_UNIT", 0, s))

\* C(args) on a case class whose companion apply is the synthesised one.  The
\* class is looked up under the name as written.
IsCaseCompanion(r, x, s) ==
  /\ r.ref = "Global" /\ r.kind = "Object" /\ x \in DOMAIN s.types /\ r.x = x
  /\ s.types[x].isCase /\ s.types[x].kind = "Class"
  /\ "apply" \notin s.types[x].companion

CompileShortCircuit(l, r, isAnd, s) ==
  LET a == CompileExpr(l, s)
      b == CompileExpr(r, Jump(IF isAnd THEN "JUMP_IF_FALSE" ELSE "JUMP_IF_TRUE", a))
      c == Adjust(-1, Patch(Here(a), Jump("JUMP", b)))
  IN  Patch(Here(b), Emit(IF isAnd THEN "PUSH_FALSE" ELSE "PUSH_TRUE", 0, c))

NamedApply(n, s) ==
  IF n.f.k = "Select"
  THEN CompileNamed("SEND_KW", SendSite(n.f.x, 0, <<>>, s), n.args, CompileExpr(n.f.q, s))
  ELSE LET r == IF n.f.k = "Ident" THEN Resolve(n.f.x, s)
                ELSE [ref |-> "Local", kind |-> "Val", s |-> s]
       IN  CASE r.ref = "Member" ->
                  CompileNamed("SEND_KW", SendSite(n.f.x, 0, <<>>, s), n.args, LoadThis(r.s))
             [] n.f.k = "Ident" /\ IsCaseCompanion(r, n.f.x, s) ->
                  CompileNewOf(n.f.x, n.args, r.s)
             [] OTHER -> CompileNamed("CALL_KW", Site("apply", 0, <<>>), n.args, CompileExpr(n.f, s))

SendApply(n, mask, s) ==
  LET sel == n.f
  IN  CASE sel.q.k = "Super" -> CompileSuperSend(sel.x, n.args, sel.q.t, s)
        [] Len(n.args) = 1 /\ sel.x \in {"&&", "||"} ->
             CompileShortCircuit(sel.q, n.args[1], sel.x = "&&", s)
        [] Len(n.args) = 1 /\ ~HasSplice(n.args) /\ sel.x \in DOMAIN FastBinary ->
             Emit(FastBinary[sel.x], 0, CompileAll(<<sel.q, n.args[1]>>, s))
        [] OTHER ->
             Emit("SEND_APPLY", SendSite(sel.x, Len(n.args), <<>>, s),
                  CompileArgs(n.args, 1, mask,
                    Require(~HasSplice(n.args), "splices are only supported in function calls",
                            CompileExpr(sel.q, s))))

PlainApply(n, mask, s) ==
  LET r == IF n.f.k = "Ident" THEN Resolve(n.f.x, s)
           ELSE [ref |-> "Local", kind |-> "Val", s |-> s]
  IN  CASE r.ref = "Member" ->
             Emit("SEND_APPLY", SendSite(n.f.x, Len(n.args), <<>>, s),
                  CompileArgs(n.args, 1, mask,
                    Require(~HasSplice(n.args), "splices are only supported in function calls",
                            LoadThis(r.s))))
        [] n.f.k = "Ident" /\ IsCaseCompanion(r, n.f.x, s) -> CompileNewOf(n.f.x, n.args, r.s)
        [] OTHER -> CompileArgsAndCall(n.args, mask, CompileExpr(n.f, s))

-----------------------------------------------------------------------------
\* @tailrec (CompileTailRec.cpp).
RECURSIVE CollectTail(_), CollectReturns(_, _)

\* The applications whose value is the value of n, n being in tail position.
CollectTail(n) ==
  CASE n.k = "If" -> CollectTail(n.t) \cup CollectTail(n.e)
    [] n.k = "Block" -> IF n.stats = <<>> THEN {}
                        ELSE CollectTail(IF n.discard THEN Head(n.stats) ELSE Last(n.stats))
    [] n.k = "Match" -> UNION {CollectTail(n.cases[i].b) : i \in DOMAIN n.cases}
    [] n.k = "Try" -> IF Given(n.f) THEN {}
                      ELSE UNION {CollectTail(n.cases[i].b) : i \in DOMAIN n.cases}
    [] n.k = "Apply" -> IF n.widening THEN CollectTail(n.f.q)
                        ELSE IF n.f.k = "Select" /\ Len(n.args) = 1 /\ n.f.x \in {"&&", "||"}
                        THEN CollectTail(n.args[1]) ELSE {n}
    [] OTHER -> {}

\* The values of a body's returns are in tail position too, except inside a
\* try body and inside the handlers of a try with a finally.
CollectReturns(n, guarded) ==
  CASE n.k = "Return" -> (IF guarded THEN {} ELSE CollectTail(n.v))
                         \cup CollectReturns(n.v, guarded)
    [] n.k = "Try" ->
         CollectReturns(n.b, TRUE) \cup CollectReturns(n.f, TRUE)
         \cup UNION {CollectReturns(n.cases[i].g, TRUE)
                     \cup CollectReturns(n.cases[i].b, guarded \/ Given(n.f)) : i \in DOMAIN n.cases}
    [] n.k = "Match" ->
         CollectReturns(n.v, guarded)
         \cup UNION {CollectReturns(n.cases[i].g, guarded)
                     \cup CollectReturns(n.cases[i].b, guarded) : i \in DOMAIN n.cases}
    [] n.k = "Block" -> UNION {CollectReturns(n.stats[i], guarded) : i \in DOMAIN n.stats}
    [] n.k = "ValDef" /\ n.kind # "LazyVal" -> CollectReturns(n.rhs, guarded)
    [] n.k \in {"Lambda", "DefDef", "ValDef"} -> {}
    [] OTHER -> UNION {CollectReturns(SubExprs(n)[i], guarded) : i \in DOMAIN SubExprs(n)}

Widens(p) == p.double /\ ~p.byName /\ ~p.rep

RECURSIVE ParamLists(_), ArgLists(_)
ParamLists(b) ==
  IF b.k = "Lambda" /\ b.curried THEN <<b.ps>> \o ParamLists(b.b) ELSE <<>>
ArgLists(n) == IF n.k = "Apply" THEN Append(ArgLists(n.f), n.args) ELSE <<>>

TailTarget(d, kind) == [on |-> TRUE, def |-> d, kind |-> kind]

BeginTailRec(target, body, s) ==
  WithFn(s, [Fn(s) EXCEPT !.tail =
    [on |-> TRUE, target |-> target, owner |-> Len(s.fns), calls |-> 0, other |-> FALSE,
     lists |-> <<target.def.ps>> \o ParamLists(target.def.b),
     sites |-> CollectTail(body) \cup CollectReturns(body, FALSE)]])

\* The local def reaches its own body as a capture of every function from here
\* to the loop's owner; a parameter or local of the same name shadows it.
CapturedUpTo(owner, x, s) ==
  \A i \in owner..Len(s.fns) :
    ScopesWith(s.fns[i], x) # {} /\ FindInFunction(s.fns[i], x).captured

\* this.f(...) keeps the receiver, in slot 0 of the method or in a capture.
ReceiverUpTo(owner, s) ==
  \A i \in owner..Len(s.fns) :
    /\ ScopesWith(s.fns[i], "this") # {}
    /\ LET this == FindInFunction(s.fns[i], "this")
       IN  this.captured \/ (s.fns[i].method /\ this.slot = 0)

\* Whether n calls the method being compiled; s: with what the look-up captures.
\* A send to another receiver is not such a call, but may be one at run time.
MatchSelfCall(n, s) ==
  LET st == Fn(s).tail
      h == CalleeHead(n)
      r == Resolve(h.x, s)
      this == CaptureInto(Len(s.fns), "this", s)
      named == CASE st.target.kind = "Global" -> r.ref = "Global" /\ r.x = h.x
                 [] st.target.kind = "Member" -> r.ref = "Member"
                 [] OTHER -> r.ref = "Local" /\ CapturedUpTo(st.owner, h.x, r.s)
  IN  IF \/ Len(ArgLists(n)) # Len(st.lists)
         \/ h.k \notin {"Ident", "Select"} \/ h.x # st.target.def.x
         \/ h.k = "Select" /\ st.target.kind # "Member"
      THEN [is |-> FALSE, s |-> s]
      ELSE IF h.k = "Ident" THEN [is |-> named, s |-> r.s]
      ELSE IF h.q = Ident("this") /\ this.found /\ ReceiverUpTo(st.owner, this.s)
      THEN [is |-> TRUE, s |-> this.s]
      ELSE [is |-> FALSE, s |-> [s EXCEPT !.fns[st.owner].tail.other = TRUE]]

\* outerParamSlot: a parameter of an outer list lives in the owner's captures.
OuterParamSlot(x, s) ==
  LET f == Fn(s)
  IN  IF x \in DOMAIN f.scopes[1] /\ f.scopes[1][x].captured
      THEN [s |-> s, slot |-> f.scopes[1][x].slot]
      ELSE LET o == CaptureInto(f.parent, x, s)
               g == Fn(o.s)
               mine == [o.info EXCEPT !.slot = g.next, !.captured = TRUE]
           IN  [slot |-> g.next,
                s |-> WithFn(o.s, [g EXCEPT !.next = @ + 1,
                        !.caps = Append(@, [from |-> o.info.slot, to |-> g.next]),
                        !.scopes[1] = (x :> mine) @@ @])]

\* Mutant: the slots of a function that has no receiver are counted from 1.
DestForShifted(list, k, s) ==
  LET st == Fn(s).tail
      p == st.lists[list][k]
      rebound == \E l \in (list + 1)..Len(st.lists) : \E q \in ToSet(st.lists[l]) : q.x = p.x
      outer == OuterParamSlot(p.x, s)
  IN  IF list = Len(st.lists) THEN [s |-> s, slot |-> k, widen |-> FALSE]
      ELSE IF p.x = "_" \/ rebound THEN [s |-> s, slot |-> -1, widen |-> FALSE]
      ELSE [s |-> outer.s, slot |-> outer.slot, widen |-> Widens(p)]
\* Where the value of parameter k of a list goes; -1: no later code reads it.  The
\* prologue widens the innermost list.
DestFor(list, k, s) ==
  LET st == Fn(s).tail
      p == st.lists[list][k]
      rebound == \E l \in (list + 1)..Len(st.lists) : \E q \in ToSet(st.lists[l]) : q.x = p.x
      outer == OuterParamSlot(p.x, s)
  IN  IF list = Len(st.lists)
      THEN [s |-> s, slot |-> (IF Fn(s).method THEN 1 ELSE 0) + k - 1, widen |-> FALSE]
      ELSE IF p.x = "_" \/ rebound THEN [s |-> s, slot |-> -1, widen |-> FALSE]
      ELSE [s |-> outer.s, slot |-> outer.slot, widen |-> Widens(p)]

StoreDest(d, s) ==
  IF d.slot < 0 THEN Emit("POP", 0, s)
  ELSE Emit("STORE_LOCAL", d.slot,
            IF d.widen THEN Emit("SEND", SendSite("toDouble", 0, <<>>, s), s) ELSE s)

\* The parameter an argument of a list is for: its position or its keyword.
ParamOf(ps, args, i) ==
  IF args[i].k # "NamedArg" THEN i
  ELSE IF \E k \in DOMAIN ps : ps[k].x = args[i].x
  THEN CHOOSE k \in DOMAIN ps : ps[k].x = args[i].x ELSE 0
Variadic(ps) == ps # <<>> /\ Last(ps).rep
FixedParams(ps) == Len(ps) - (IF Variadic(ps) THEN 1 ELSE 0)
GoodTailArgs(ps, args) ==
  /\ \A i \in DOMAIN args : i <= FixedParams(ps) => args[i].k # "Splice"
  /\ IF Variadic(ps) THEN ~IsNamed(args)
     ELSE /\ Positional(args) <= Len(ps)
          /\ IsNamed(args) => WellNamed(args)
          /\ \A i \in DOMAIN args : ParamOf(ps, args, i) # 0
          /\ \A i, j \in DOMAIN args : i # j => ParamOf(ps, args, i) # ParamOf(ps, args, j)

\* Step 1: the arguments of every list, in source order, with their slots.  A
\* repeated parameter gets the List of what is left (__varargs).
Destined(list, k, r) ==
  LET d == DestFor(list, k, r.s)
  IN  [s |-> d.s, dests |-> Append(r.dests, [slot |-> d.slot, widen |-> d.widen]),
       given |-> r.given \cup {<<list, k>>}]
PushTailArg(list, args, i, r) ==
  LET ps == Fn(r.s).tail.lists[list]
      k == ParamOf(ps, args, i)
      v == ArgValues(args)[i]
  IN  Destined(list, k, [r EXCEPT !.s = IF ps[k].byName THEN CompileByNameArgument(v, @)
                                        ELSE CompileExpr(v, @)])
PushTailArgs(list, args, r) ==
  LET ps == Fn(r.s).tail.lists[list]
      own == SelectSeq([i \in DOMAIN args |-> i], LAMBDA i : ~Variadic(ps) \/ i <= FixedParams(ps))
      a == FoldLeft(LAMBDA q, i : PushTailArg(list, args, i, q), r, own)
      rest == SubSeq(args, Len(ps), Len(args))
  IN  IF Variadic(ps) /\ Len(args) >= FixedParams(ps)
      THEN Destined(list, Len(ps), [a EXCEPT !.s =
             CompileArgsAndCall(rest, {}, Emit("PUSH_GLOBAL", "__varargs", @))])
      ELSE a

RECURSIVE StoreAll(_, _)
StoreAll(dests, s) ==
  IF dests = <<>> THEN s ELSE StoreAll(Front(dests), StoreDest(Last(dests), s))

\* Step 3: the defaults, in parameter order, after the explicit arguments; a
\* default sees the parameters and captures only, never a local of the body.
CompileTailDefault(list, k, s) ==
  LET p == Fn(s).tail.lists[list][k]
      d == DestFor(list, k, s)
      f == Fn(d.s)
      t == CompileExpr(p.dflt, WithFn(d.s, [f EXCEPT !.scopes = <<@[1]>>, !.tail = NoTail]))
      u == WithFn(t, [Fn(t) EXCEPT !.scopes = Fn(t).scopes \o Tail(f.scopes), !.tail = f.tail])
  IN  StoreDest(d, Require(Given(p.dflt), "missing argument", u))

RECURSIVE TailDefaults(_, _, _, _, _)
TailDefaults(lists, given, list, k, s) ==
  IF list > Len(lists) THEN s
  ELSE IF k > Len(lists[list]) THEN TailDefaults(lists, given, list + 1, 1, s)
  ELSE TailDefaults(lists, given, list, k + 1,
         IF <<list, k>> \in given THEN s
         ELSE IF ~Given(lists[list][k].dflt) THEN Fail("missing argument", s)
         ELSE CompileTailDefault(list, k, s))

RECURSIVE PopAll(_)
PopAll(s) == IF Fn(s).depth = 0 THEN s ELSE PopAll(Emit("POP", 0, s))

CompileTailCall(n, s) ==
  LET st == Fn(s).tail
      args == ArgLists(n)
      r == FoldLeft(LAMBDA q, l : PushTailArgs(l, args[l], q),
             [s |-> WithFn(s, [Fn(s) EXCEPT !.tail.calls = @ + 1]), dests |-> <<>>, given |-> {}],
             [l \in DOMAIN args |-> l])
      t == TailDefaults(st.lists, r.given, 1, 1, StoreAll(r.dests, r.s))
  IN  IF st.owner # Len(s.fns) \/ n \notin st.sites
      THEN Adjust(1, Fail("it is not in tail position", s))
      ELSE IF \E l \in DOMAIN args : ~GoodTailArgs(st.lists[l], args[l])
      THEN Adjust(1, Fail("bad arguments", s))
      ELSE Adjust(1, Emit("JUMP_BACK", 1, PopAll(t)))

CompileApply(n, s) ==
  LET mask == ByNameMaskOfCallee(n.f, s)
      path == LiftedGlobalPath(n.f, s)
      m == IF path = "" THEN n ELSE [n EXCEPT !.f = Ident(path)]
      c == IF Fn(s).tail.on THEN MatchSelfCall(n, s) ELSE [is |-> FALSE, s |-> s]
  IN  CASE c.is -> CompileTailCall(n, c.s)
        [] ~c.is /\ IsNamed(n.args) -> NamedApply(m, c.s)
        [] ~c.is /\ m.f.k = "Select" -> SendApply(m, mask, c.s)
        [] OTHER -> PlainApply(m, mask, c.s)

-----------------------------------------------------------------------------
\* Control and assignment.
CompileAssign(n, s) ==
  LET r == Resolve(n.x, s)
      setter == n.x \o "_="
  IN  IF r.kind # "Var" THEN Fail("Reassignment to val", Emit("PUSH_UNIT", 0, s))
      ELSE IF r.ref = "Member"
      THEN Emit("SEND", SendSite(setter, 1, <<>>, s), CompileExpr(n.v, LoadThis(r.s)))
      ELSE LET v == CompileExpr(n.v, r.s)
           IN  Emit("PUSH_UNIT", 0,
                 IF r.ref = "Local"
                 THEN StoreLocal(r.info, Require(~r.info.captured \/ r.info.boxed,
                                                 "captured var is not boxed", v))
                 ELSE Emit("STORE_GLOBAL", r.x, v))

CompileIf(n, s) ==
  LET a == CompileExpr(n.c, s)
      b == CompileExpr(n.t, Jump("JUMP_IF_FALSE", a))
      c == Adjust(-1, Patch(Here(a), Jump("JUMP", b)))
  IN  Patch(Here(b), CompileExpr(n.e, c))

CompileWhile(n, s) ==
  LET a == CompileExpr(n.c, s)
      b == Emit("POP", 0, CompileExpr(n.b, Jump("JUMP_IF_FALSE", a)))
  IN  Emit("PUSH_UNIT", 0, Patch(Here(a), Emit("JUMP_BACK", Here(s), b)))

\* Every enclosing finally body, innermost first, after the returned value is
\* on the stack; each copy is a hole of its own try's ranges.
RECURSIVE EmitFinallysFrom(_, _)
EmitFinallysFrom(k, s) ==
  IF k = 0 THEN s
  ELSE LET t == Emit("POP", 0, CompileExpr(Fn(s).finallys[k].body, s))
       IN  EmitFinallysFrom(k - 1,
             WithFn(t, [Fn(t) EXCEPT !.finallys[k].holes = Append(@, <<Here(s), Here(t)>>)]))
\* Mutant: a return runs the innermost finally only.
EmitInnermostFinally(s) ==
  LET k == Len(Fn(s).finallys)
  IN  IF k = 0 THEN s ELSE Emit("POP", 0, CompileExpr(Fn(s).finallys[k].body, s))
EmitEnclosingFinallys(s) == EmitFinallysFrom(Len(Fn(s).finallys), s)

CompileReturn(n, s) ==
  IF ~Fn(s).allowsReturn THEN Fail("return outside a method definition", Emit("PUSH_UNIT", 0, s))
  ELSE Adjust(1, Emit("RETURN", 0, EmitEnclosingFinallys(
         IF Given(n.v) THEN CompileExpr(n.v, s) ELSE Emit("PUSH_UNIT", 0, s))))

CompileThrow(n, s) == Emit("PUSH_UNIT", 0, Emit("THROW", 0, CompileExpr(n.v, s)))

CompileTuple(n, s) == Emit("MAKE_TUPLE", Len(n.es), CompileAll(n.es, s))

\* s"...": the non-empty pieces, one CONCAT; a lone piece is joined with "".
CompileInterp(n, s) ==
  LET es == SelectSeq(n.es, LAMBDA e : ~(e.k = "StringLit" /\ e.v = ""))
      t == CompileAll(es, s)
  IN  CASE es = <<>> -> Emit("PUSH_CONST", StrV(""), s)
        [] Len(es) = 1 -> Emit("CONCAT", 2, Emit("PUSH_CONST", StrV(""), t))
        [] OTHER -> Emit("CONCAT", Len(es), t)

-----------------------------------------------------------------------------
\* Blocks: declare every definition (a boxed one gets its cell), then hoist the
\* defs and the lazies' thunks, then run the statements.
IsDefinition(n) == n.k \in {"ValDef", "DefDef"}
KindOf(d) == IF d.k = "ValDef" THEN d.kind ELSE IF d.paramless THEN "ParamlessDef" ELSE "Def"

DeclareDef(d, s) ==
  LET slot == Fn(s).next
      b == d.id \in s.boxed
      t == DeclareLocal(d.x, KindOf(d), b, IF d.k = "DefDef" THEN MasksOfDef(d) ELSE <<>>, s)
  IN  IF b THEN Emit("MAKE_CELL", slot, t) ELSE t

RECURSIVE DeclareAll(_, _)
DeclareAll(stats, s) ==
  IF stats = <<>> \/ Abandoned(s) THEN s
  ELSE DeclareAll(Tail(stats), IF IsDefinition(Head(stats)) THEN DeclareDef(Head(stats), s) ELSE s)

CompileLazyThunk(rhs, s) ==
  Emit("MAKE_LAZY", 0, CompileFunction(Lambda(<<>>, rhs), "Lambda", NoTail, s))

Hoisted(n) == n.k = "DefDef" \/ (n.k = "ValDef" /\ n.kind = "LazyVal")

CompileDef(d, kind, s) ==
  CompileFunction(d, "Def", IF d.tailrec /\ ~d.paramless THEN TailTarget(d, kind) ELSE NoTail, s)

RECURSIVE HoistAll(_, _)
HoistAll(stats, s) ==
  IF stats = <<>> \/ Abandoned(s) THEN s
  ELSE LET d == Head(stats)
           t == IF d.k = "DefDef" THEN CompileDef(d, "Local", s) ELSE CompileLazyThunk(d.rhs, s)
       IN  HoistAll(Tail(stats), IF ~Hoisted(d) THEN s ELSE StoreLocal(FindInFunction(Fn(t), d.x), t))

RECURSIVE RunStats(_, _)
RunStats(stats, s) ==
  IF stats = <<>> \/ Abandoned(s) THEN s
  ELSE LET n == Head(stats)
           t == CompileExpr(IF n.k = "ValDef" THEN n.rhs ELSE n, s)
       IN  RunStats(Tail(stats),
             CASE Hoisted(n) -> s
               [] n.k = "ValDef" -> StoreLocal(FindInFunction(Fn(t), n.x), t)
               [] OTHER -> IF Len(stats) = 1 THEN t ELSE Emit("POP", 0, t))

\* A block whose last statement is a definition (or that has none) is ().
ValueLess(stats) == stats = <<>> \/ IsDefinition(Last(stats))

CompileStats(stats, s) ==
  LET t == RunStats(stats, HoistAll(stats, DeclareAll(stats, PushScope(s))))
  IN  PopScope(IF ValueLess(stats) THEN Emit("PUSH_UNIT", 0, t) ELSE t)

CompileBlock(n, s) ==
  LET defs == {k \in DOMAIN n.stats : IsDefinition(n.stats[k]) /\ n.stats[k].x # "_"}
  IN  CompileStats(n.stats, Require(\A i, j \in defs : n.stats[i].x = n.stats[j].x => i = j,
                                    "already defined", s))

-----------------------------------------------------------------------------
\* Functions.  Finishing one moves its code to mods and, in the enclosing
\* function, pushes the captured slots and emits MAKE_FN.
PushFn(f, s) == [s EXCEPT !.fns = Append(@, f)]
PopFn(s) == [s EXCEPT !.fns = Front(@)]

BindParams(ps, base, byName) ==
  [x \in {ps[i].x : i \in DOMAIN ps} \ {"_"} |->
     LET i == CHOOSE j \in DOMAIN ps : ps[j].x = x /\ \A m \in DOMAIN ps : ps[m].x = x => m <= j
     IN  LocalInfo(base + i - 1, IF byName /\ ps[i].byName THEN "ByNameParam" ELSE "Param", FALSE, <<>>)]

\* Pass 1 over a default, discarded: it only makes the callee capture the
\* enclosing locals the default names.
DefaultPrepass(e, s) ==
  LET t == CompileExpr(e, PushFn(NewFunction(Len(s.fns), FALSE), s))
  IN  [PopFn(t) EXCEPT !.mods = s.mods]

\* Pass 2: a block that mirrors the callee's slots, this parameter and the
\* later ones left out of scope.
CompileDefaultBlock(ps, k, s) ==
  LET f == Fn(s)
      base == IF f.method THEN 1 ELSE 0
      visible == {x \in DOMAIN f.scopes[1] :
                    ~(f.scopes[1][x].slot \in (base + k - 1)..(base + Len(ps) - 1))}
      g == [NewFunction(0, FALSE) EXCEPT !.scopes = <<[x \in visible |-> f.scopes[1][x]]>>,
                                         !.next = f.next]
      t == Emit("RETURN", 0, CompileExpr(ps[k].dflt, PushFn(g, s)))
  IN  [PopFn(t) EXCEPT !.mods = Append(@, [code |-> Fn(t).code, handlers |-> Fn(t).handlers,
         caps |-> <<>>, arity |-> f.next, slots |-> Fn(t).next, max |-> Fn(t).max, names |-> <<>>,
         dflts |-> <<>>, variadic |-> FALSE, method |-> f.method, paramless |-> FALSE])]

RECURSIVE Prepass(_, _, _), DefaultBlocks(_, _, _)
Prepass(ps, k, s) ==
  IF k > Len(ps) \/ Abandoned(s) THEN s
  ELSE Prepass(ps, k + 1, IF Given(ps[k].dflt) THEN DefaultPrepass(ps[k].dflt, s) ELSE s)
\* The index in mods of each parameter's default block, 0 without one.
DefaultBlocks(ps, k, r) ==
  IF k > Len(ps) \/ Abandoned(r.s) THEN r
  ELSE LET t == CompileDefaultBlock(ps, k, r.s)
       IN  DefaultBlocks(ps, k + 1,
             IF Given(ps[k].dflt) THEN [s |-> t, ids |-> Append(r.ids, Len(t.mods))]
             ELSE [r EXCEPT !.ids = Append(@, 0)])

RecordParamsAndDefaults(ps, s) == DefaultBlocks(ps, 1, [s |-> Prepass(ps, 1, s), ids |-> <<>>])

FinishFunction(ps, paramless, s) ==
  IF Abandoned(s) THEN s
  ELSE LET r == RecordParamsAndDefaults(ps, s)
           f == Fn(r.s)
           this == IF f.method THEN <<"this">> ELSE <<>>
       IN  [PopFn(r.s) EXCEPT !.mods = Append(@,
             [code |-> f.code, handlers |-> f.handlers, caps |-> f.caps, arity |-> Len(ps) + Len(this),
              slots |-> f.next, max |-> f.max, names |-> this \o [i \in DOMAIN ps |-> ps[i].x],
              dflts |-> [i \in DOMAIN this |-> 0] \o r.ids, method |-> f.method,
              variadic |-> ps # <<>> /\ Last(ps).rep, paramless |-> paramless])]

RECURSIVE PushCaptures(_, _)
PushCaptures(caps, s) ==
  IF caps = <<>> THEN s ELSE PushCaptures(Tail(caps), Emit("PUSH_LOCAL", Head(caps).from, s))

\* The prologue of a function: an integer argument of a Double parameter is widened.
WidenDoubleParams(ps, base, s) ==
  LET widen(t, k) == LET slot == base + k - 1
                     IN  Emit("STORE_LOCAL", slot, Emit("SEND", SendSite("toDouble", 0, <<>>, t),
                                                        Emit("PUSH_LOCAL", slot, t)))
  IN  FoldLeft(widen, s, SelectSeq([k \in DOMAIN ps |-> k], LAMBDA k : Widens(ps[k])))

\* The body of fn (a Lambda or a DefDef) as a function of the given shape.
CompileBody(fn, shape, byName, tailrec, s) ==
  LET method == shape = "Method"
      base == IF method THEN 1 ELSE 0
      this == IF method THEN "this" :> LocalInfo(0, "Param", FALSE, <<>>) ELSE <<>>
      f == [NewFunction(IF method THEN 0 ELSE Len(s.fns), shape # "Lambda") EXCEPT
              !.method = method, !.next = base + Len(fn.ps),
              !.scopes = <<BindParams(fn.ps, base, byName) @@ this>>]
      a == AnalyseCaptures(fn.ps, fn.b, PushFn(f, s))
      isChain == fn.b.k = "Lambda" /\ fn.b.curried
      b == CASE tailrec.on /\ isChain -> [a EXCEPT !.curried = tailrec]
             [] tailrec.on /\ ~isChain -> BeginTailRec(tailrec, fn.b, a)
             [] shape = "Lambda" -> WithFn(a, [Fn(a) EXCEPT !.tail = Fn(s).tail])
             [] OTHER -> a
      c == CompileExpr(fn.b, WidenDoubleParams(fn.ps, base, b))
      loops == tailrec.on /\ ~isChain
  IN  Emit("RETURN", 0, Require(loops => Fn(c).tail.calls > 0 \/ Fn(c).tail.other, "contains no recursive calls",
                                [c EXCEPT !.curried = s.curried]))

CompileFunctionWith(fn, shape, byName, tailrec, s) ==
  LET ok == ~(fn.ps # <<>> /\ Last(fn.ps).rep /\ \E i \in DOMAIN fn.ps : Given(fn.ps[i].dflt))
            /\ (~byName => MaskOfParams(fn.ps) = {})
      t == FinishFunction(fn.ps, fn.k = "DefDef" /\ fn.paramless,
                          CompileBody(fn, shape, byName, tailrec, Require(ok, "bad parameters", s)))
      caps == Last(t.mods).caps
  IN  IF Abandoned(t) THEN t
      ELSE Emit("MAKE_FN", [mod |-> Len(t.mods), caps |-> Len(caps)], PushCaptures(caps, t))

CompileFunction(fn, shape, tailrec, s) ==
  CompileFunctionWith(fn, shape, shape # "Lambda", tailrec, s)

\* The innermost lambda of a curried def owns its returns and is the body of a
\* curried @tailrec method.
CompileLambda(n, s) ==
  LET owns == n.curried /\ ~(n.b.k = "Lambda" /\ n.b.curried)
  IN  CompileFunctionWith(n, IF owns THEN "Def" ELSE "Lambda", n.curried,
                          IF owns THEN s.curried ELSE NoTail,
                          IF owns THEN [s EXCEPT !.curried = NoTail] ELSE s)

-----------------------------------------------------------------------------
\* Patterns (CompilePatterns.cpp).  r = [s, fail]: the state and the jumps to
\* patch to the next case.
FailJump(op, r) == [s |-> Jump(op, r.s), fail |-> r.fail \cup {Here(r.s)}]
Emits(op, a, r) == [r EXCEPT !.s = Emit(op, a, r.s)]

\* The top of the stack into a fresh slot, whose number is Fn(r.s).next before.
StoreFresh(r) == Emits("STORE_LOCAL", Fn(r.s).next, [r EXCEPT !.s = NewSlot(@)])

BindPattern(x, slot, r) ==
  IF x = "_" THEN r
  ELSE LET t == DeclareLocal(x, "Val", FALSE, <<>>, r.s)
       IN  [r EXCEPT !.s = Emit("STORE_LOCAL", Fn(r.s).next, Emit("PUSH_LOCAL", slot, t))]

EmitProtoTest(key, slot, r) ==
  FailJump("JUMP_IF_FALSE", Emits("TEST_PROTO", key, Emits("PUSH_LOCAL", slot, r)))

RECURSIVE StoreReversed(_, _)
StoreReversed(n, r) == IF n = 0 \/ Abandoned(r.s) THEN r ELSE StoreReversed(n - 1, StoreFresh(r))

\* Fields into fresh slots, last first; then the sub-patterns, in order.
ExtractInto(keys, slot, subs, r) ==
  LET n == Len(keys)
      base == Fn(r.s).next
      t == StoreReversed(n, Emits("UNAPPLY_FIELDS", keys, Emits("PUSH_LOCAL", slot, r)))
  IN  CompilePatterns(subs, [k \in 1..n |-> base + n - k], t)

CompilePatterns(ps, slots, r) ==
  IF ps = <<>> \/ Abandoned(r.s) THEN r
  ELSE CompilePatterns(Tail(ps), Tail(slots), CompilePattern(Head(ps), Head(slots), r))

Field(k) == <<"_1", "_2", "_3">>[k]
TupleKeys(n) == [k \in 1..n |-> Field(k)]
TupleKey(n) == <<"@Tuple1", "@Tuple2", "@Tuple3">>[n]

CompileConsPattern(p, slot, r) ==
  LET a == FailJump("JUMP_IF_FALSE", Emits("TEST_TYPE", "ConsList", Emits("PUSH_LOCAL", slot, r)))
      b == Emits("UNCONS", 0, Emits("PUSH_LOCAL", slot, a))
      tail == Fn(b.s).next
  IN  CompilePatterns(p.args, <<tail + 1, tail>>, StoreFresh(StoreFresh(b)))

RECURSIVE ListElements(_, _, _, _)
ListElements(ps, k, slot, r) ==
  IF k > Len(ps) \/ Abandoned(r.s) THEN r
  ELSE LET t == Emits("SEND", Site("apply", 1, <<>>),
                  Emits("PUSH_CONST", IntV(k - 1), Emits("PUSH_LOCAL", slot, r)))
       IN  ListElements(ps, k + 1, slot, CompilePattern(ps[k], Fn(t.s).next, StoreFresh(t)))

CompileListPattern(p, slot, r) ==
  LET seq == p.args # <<>> /\ Last(p.args).k = "SeqWildcard"
      ps == IF seq THEN Front(p.args) ELSE p.args
      a == FailJump("JUMP_IF_FALSE", Emits("TEST_TYPE", "List", Emits("PUSH_LOCAL", slot, r)))
      b == Emits("PUSH_CONST", IntV(Len(ps)),
             Emits("SEND", Site("length", 0, <<>>), Emits("PUSH_LOCAL", slot, a)))
      c == ListElements(ps, 1, slot,
             FailJump("JUMP_IF_FALSE", Emits(IF seq THEN "GE" ELSE "EQ", 0, b)))
      d == Emits("SEND", Site("drop", 1, <<>>),
             Emits("PUSH_CONST", IntV(Len(ps)), Emits("PUSH_LOCAL", slot, c)))
  IN  IF seq /\ Last(p.args).x # "" THEN BindPattern(Last(p.args).x, Fn(d.s).next, StoreFresh(d))
      ELSE c

\* X.unapply(v): a Boolean for X(), else isEmpty/get.
CompileUnapply(p, slot, r) ==
  LET a == Emits("SEND", Site("unapply", 1, <<>>),
             Emits("PUSH_LOCAL", slot, [r EXCEPT !.s = CompileIdent(p.x, @)]))
      result == Fn(a.s).next
      b == Emits("PUSH_LOCAL", result, StoreFresh(a))
      c == FailJump("JUMP_IF_TRUE", Emits("SEND", Site("isEmpty", 0, <<>>), b))
      d == Emits("SEND", Site("get", 0, <<>>), Emits("PUSH_LOCAL", result, c))
      got == Fn(d.s).next
  IN  CASE p.args = <<>> -> FailJump("JUMP_IF_FALSE", b)
        [] Len(p.args) = 1 -> CompilePattern(p.args[1], got, StoreFresh(d))
        [] OTHER -> ExtractInto(TupleKeys(Len(p.args)), got, p.args, StoreFresh(d))

\* A built-in extractor keeps its fast path while nothing shadows its name.
CompileExtractor(p, slot, r) ==
  LET x == ScopedName(p.x, DOMAIN r.s.types \cup DOMAIN r.s.globals, r.s)
      shadowed == CaptureInto(Len(r.s.fns), x, r.s).found \/ x \in DOMAIN r.s.tmpl
      known == x \in DOMAIN r.s.globals
      userDefined == shadowed \/ (known /\ r.s.globals[x].kind # "Builtin")
      synthesised == ~shadowed /\ x \in DOMAIN r.s.types /\ r.s.types[x].isCase
                     /\ r.s.types[x].kind = "Class" /\ "unapply" \notin r.s.types[x].companion
      c == r.s.types[x]
  IN  CASE x = "::" /\ ~userDefined -> CompileConsPattern(p, slot, r)
        [] x = "List" /\ ~userDefined /\ known -> CompileListPattern(p, slot, r)
        [] synthesised ->
             IF Len(p.args) # Len(c.fields)
             THEN [r EXCEPT !.s = Fail("wrong number of arguments for pattern", @)]
             ELSE ExtractInto(c.fields, slot, p.args, EmitProtoTest(c.key, slot, r))
        [] OTHER -> CompileUnapply(p, slot, r)

BuiltinType == [t \in {"Int", "Long", "String", "Boolean", "Unit", "List", "Function",
                       "AnyRef", "AnyVal", "Null", "Nothing"} |->
                 IF t \in {"Int", "Long"} THEN "Integer" ELSE t]

\* Throwable and Exception also accept the values no Scala class built: in a
\* catch, anything thrown without the Throwable marker.
ForeignTest(slot, s) ==
  LET a == Jump("JUMP_IF_TRUE", Emit("DUP", 0, s))
      at == Here(a) - 1
      b == Emit("POP", 0, a)
      thrown == Emit("NOT", 0, Emit("TEST_PROTO", "@Throwable", Emit("PUSH_LOCAL", slot, b)))
      other == Emit("CALL", 1, Emit("PUSH_LOCAL", slot, CompileIdent("__isForeignObject", b)))
  IN  Patch(at, IF slot = s.catching THEN thrown ELSE other)

\* Whether the type needs a test at all (`case x: Any` does not).
NeedsTest(t, slot, inPattern, s) ==
  ~(inPattern /\ (t = "Any" \/ (t = "Throwable" /\ slot = s.catching)))

\* valueNamedByType: a name that is no type may be a value in scope, whose
\* prototype the test looks for.
RECURSIVE PathNode(_)
PathNode(x) ==
  LET dots == {i \in 1..Len(x) : SubSeq(x, i, i) = "."}
  IN  IF dots = {} THEN Ident(x)
      ELSE Select(PathNode(SubSeq(x, 1, Max(dots) - 1)), SubSeq(x, Max(dots) + 1, Len(x)))
NamesValue(t, s) ==
  LET head == PathHead(PathNode(t))
      g == ScopedName(head, DOMAIN s.globals, s)
  IN  \/ CaptureInto(Len(s.fns), head, s).found \/ head \in DOMAIN s.tmpl
      \/ g \in DOMAIN s.globals /\ s.globals[g].kind # "Builtin"

CompileTypeTest(t, slot, s) ==
  LET a == Emit("PUSH_LOCAL", slot, s)
      b == Emit("TEST_PROTO", s.types[t].key, a)
      c == Emit("PUSH_LOCAL", slot, CompileIdent("__isInstanceOf", s))
  IN  CASE t = "Any" -> Emit("TEST_TYPE", "NonNull", a)
        [] t \in DOMAIN BuiltinType -> Emit("TEST_TYPE", BuiltinType[t], a)
        [] t \in DOMAIN s.types ->
             IF s.types[t].key \in {"@Throwable", "@Exception"} THEN ForeignTest(slot, b) ELSE b
        [] NamesValue(t, s) -> Emit("CALL", 2, CompileExpr(PathNode(t), c))
        [] OTHER -> Fail("Not found: type", a)

CompileInstanceOf(n, s) ==
  LET v == CompileExpr(n.v, s)
      slot == Fn(v).next
      a == Emit("STORE_LOCAL", slot, NewSlot(v))
      b == Jump("JUMP_IF_TRUE", Emit("TEST_TYPE", "Null", Emit("PUSH_LOCAL", slot, a)))
      c == Jump("JUMP_IF_TRUE", CompileTypeTest(n.t, slot, b))
      d == Adjust(-1, Emit("CAST_FAIL", n.t, Emit("PUSH_LOCAL", slot, c)))
  IN  IF ~n.cast THEN CompileTypeTest(n.t, slot, a)
      ELSE Emit("PUSH_LOCAL", slot, PatchAll({Here(b) - 1, Here(c) - 1}, d))

RECURSIVE CompileAlternatives(_, _, _, _)
CompileAlternatives(ps, slot, matched, r) ==
  LET ok == [r EXCEPT !.s = Require(PatternVariables(Head(ps)) = <<>>, "Illegal variable", @)]
      one == CompilePattern(Head(ps), slot, [ok EXCEPT !.fail = {}])
      t == Jump("JUMP", one.s)
      u == CompilePattern(Head(ps), slot, ok)
  IN  IF Len(ps) = 1 THEN [u EXCEPT !.s = PatchAll(matched, @)]
      ELSE CompileAlternatives(Tail(ps), slot, matched \cup {Here(one.s)},
             [s |-> PatchAll(one.fail, t), fail |-> r.fail])

CompilePattern(p, slot, r) ==
  CASE p.k = "Wildcard" \/ Abandoned(r.s) -> r
    [] p.k = "Var" -> BindPattern(p.x, slot, r)
    [] p.k = "Literal" ->
         FailJump("JUMP_IF_FALSE", Emits("EQ", 0,
           Emits("PUSH_LOCAL", slot, [r EXCEPT !.s = CompileExpr(p.e, @)])))
    [] p.k = "Typed" ->
         CompilePattern(p.args[1], slot,
           IF NeedsTest(p.t, slot, TRUE, r.s)
           THEN FailJump("JUMP_IF_FALSE", [r EXCEPT !.s = CompileTypeTest(p.t, slot, @)]) ELSE r)
    [] p.k = "Bind" -> BindPattern(p.x, slot, CompilePattern(p.args[1], slot, r))
    [] p.k = "Alt" -> CompileAlternatives(p.args, slot, {}, r)
    [] p.k = "Tuple" ->
         ExtractInto(TupleKeys(Len(p.args)), slot, p.args,
                     EmitProtoTest(TupleKey(Len(p.args)), slot, r))
    [] p.k = "Extractor" -> CompileExtractor(p, slot, r)
    [] OTHER -> [r EXCEPT !.s = Fail("a sequence wildcard", @)]

CheckDistinctVariables(p, s) ==
  Require(IsInjective(PatternVariables(p)), "duplicate pattern variable", s)

\* One case of a cascade: the pattern, the guard, the body, a jump to the end.
CompileCase(c, slot, catching, s) ==
  LET r == CompilePattern(c.p, slot,
             [s |-> PushScope([CheckDistinctVariables(c.p, s) EXCEPT
                                 !.catching = IF catching THEN slot ELSE @]), fail |-> {}])
      g == [r EXCEPT !.s.catching = s.catching]
      h == IF Given(c.g) THEN FailJump("JUMP_IF_FALSE", [g EXCEPT !.s = CompileExpr(c.g, @)]) ELSE g
      b == CompileExpr(c.b, h.s)
  IN  IF Abandoned(r.s) THEN [s |-> r.s, exit |-> 0]
      ELSE IF Abandoned(b) THEN [s |-> b, exit |-> 0]
      ELSE [s |-> PopScope(PatchAll(h.fail, Adjust(-1, Jump("JUMP", b)))), exit |-> Here(b)]

RECURSIVE CompileCases(_, _, _, _, _)
CompileCases(cases, slot, catching, exits, s) ==
  IF cases = <<>> \/ Abandoned(s) THEN [s |-> s, exits |-> exits]
  ELSE LET c == CompileCase(Head(cases), slot, catching, s)
       IN  CompileCases(Tail(cases), slot, catching, exits \cup {c.exit}, c.s)

CompileMatch(n, s) ==
  LET v == CompileExpr(n.v, s)
      slot == Fn(v).next
      r == CompileCases(n.cases, slot, FALSE, {}, Emit("STORE_LOCAL", slot, NewSlot(v)))
  IN  IF Abandoned(v) THEN v
      ELSE IF Abandoned(r.s) THEN r.s
      ELSE PatchAll(r.exits, Emit("MATCH_ERROR", 0, Emit("PUSH_LOCAL", slot, r.s)))

CompileCatchCases(cases, slot, s) ==
  LET r == CompileCases(cases, slot, TRUE, {}, s)
  IN  PatchAll(r.exits, Adjust(1, Emit("RETHROW", slot, r.s)))

-----------------------------------------------------------------------------
\* try.  A handler is [from, to, body, depth, slot, kind]; the range from..to-1
\* is split around the holes.
RECURSIVE HandlerRanges(_, _, _, _)
HandlerRanges(at, end, holes, h) ==
  IF holes = <<>>
  THEN IF end > at THEN <<[h EXCEPT !.from = at, !.to = end]>> ELSE <<>>
  ELSE LET o == Head(holes)
           rest == HandlerRanges(IF o[2] > at THEN o[2] ELSE at, end, Tail(holes), h)
       IN  IF o[1] >= end \/ o[2] <= h.start THEN HandlerRanges(at, end, Tail(holes), h)
           ELSE IF o[1] > at THEN <<[h EXCEPT !.from = at, !.to = o[1]]>> \o rest
           ELSE rest

AddHandlerRanges(start, end, holes, body, depth, slot, kind, s) ==
  WithFn(s, [Fn(s) EXCEPT !.handlers = @ \o HandlerRanges(start, end, holes,
    [from |-> 0, to |-> 0, start |-> start, body |-> body, depth |-> depth, slot |-> slot, kind |-> kind])])

CompileTry(n, s) ==
  LET depth == Fn(s).depth
      slot == Fn(s).next
      hasF == Given(n.f)
      push == [body |-> n.f, holes |-> <<>>]
      f == Fn(NewSlot(s))
      a == WithFn(s, [f EXCEPT !.finallys = IF hasF THEN Append(@, push) ELSE @])
      b == CompileExpr(n.b, a)
      j == Jump("JUMP", b)
      c == IF n.cases = <<>> THEN j ELSE CompileCatchCases(n.cases, slot, SetDepth(depth, j))
      d == Patch(Here(b), c)
      holes == IF hasF THEN Last(Fn(d).finallys).holes ELSE <<>>
      e == IF n.cases = <<>> THEN d
           ELSE AddHandlerRanges(Here(s), Here(b), holes, Here(j), depth, slot, "Catch", d)
      k == Jump("JUMP", e)
      g == AddHandlerRanges(Here(s), Here(d), holes, Here(k), depth, slot, "Finally", k)
      popped == WithFn(g, [Fn(g) EXCEPT !.finallys = Front(@), !.depth = depth])
      clean == Emit("RETHROW", slot, Emit("POP", 0, CompileExpr(n.f, popped)))
      normal == SetDepth(depth + 1, Patch(Here(e), clean))
  IN  CASE Abandoned(b) -> b
        [] Abandoned(e) \/ ~hasF -> e
        [] OTHER -> Emit("POP", 0, CompileExpr(n.f, normal))

-----------------------------------------------------------------------------
CompileExpr(n, s) ==
  CASE Abandoned(s) -> s
    [] n.k = "IntLit" -> Emit("PUSH_CONST", IntV(n.v), s)
    [] n.k = "StringLit" -> Emit("PUSH_CONST", StrV(n.v), s)
    [] n.k = "BoolLit" -> Emit(IF n.v THEN "PUSH_TRUE" ELSE "PUSH_FALSE", 0, s)
    [] n.k = "NullLit" -> Emit("PUSH_NULL", 0, s)
    [] n.k = "UnitLit" -> Emit("PUSH_UNIT", 0, s)
    [] n.k = "InterpString" -> CompileInterp(n, s)
    [] n.k = "Tuple" -> CompileTuple(n, s)
    [] n.k = "Ident" -> CompileIdent(n.x, s)
    [] n.k = "Select" -> CompileSelect(n, s)
    [] n.k = "Apply" -> CompileApply(n, s)
    [] n.k = "TypeApply" -> CompileInstanceOf(n, s)
    [] n.k = "Assign" -> CompileAssign(n, s)
    [] n.k = "If" -> CompileIf(n, s)
    [] n.k = "While" -> CompileWhile(n, s)
    [] n.k = "Return" -> CompileReturn(n, s)
    [] n.k = "Block" -> CompileBlock(n, s)
    [] n.k = "Lambda" -> CompileLambda(n, s)
    [] n.k = "New" -> CompileNew(n, s)
    [] n.k = "Match" -> CompileMatch(n, s)
    [] n.k = "Try" -> CompileTry(n, s)
    [] n.k = "Throw" -> CompileThrow(n, s)
    [] OTHER -> Fail("not an expression", Emit("PUSH_UNIT", 0, s))
=============================================================================
