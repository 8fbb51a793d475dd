------------------------------ MODULE Semantics -----------------------------
(***************************************************************************)
(* The meaning of a program, stated directly on the parser's tree: the     *)
(* reference the compiled code is checked against.  It knows no desugaring,*)
(* bytecode, slots, captures, handler tables or prototypes.                *)
(*   environment e: vars (name -> location), this, cls (the template the   *)
(*     code is written in), glob (global name -> location), unit           *)
(*   store s: mem (location -> cell), objs, out, aw (await outcomes left)  *)
(* A cell is unset, a value, a lazy or by-name expression with its         *)
(* environment.  A result is [t, v, s] with t one of val, throw, return.   *)
(***************************************************************************)
EXTENDS Syntax, TLC, SequencesExt

R(t, v, s) == [t |-> t, v |-> v, s |-> s]
Ok(v, s) == R("val", v, s)
Error(x, s) == R("throw", <<"Err", x>>, s)
UnitV == <<"Unit">>
NullV == <<"Null">>
Bool(b) == <<"Bool", b>>
AndThen(r, k(_, _)) == IF r.t = "val" THEN k(r.v, r.s) ELSE r

Unset == [k |-> "unset"]
Set(v) == [k |-> "val", v |-> v]
Susp(kind, b, e) == [k |-> kind, b |-> b, e |-> e]

\* Adds a cell for each name of xs and returns the environment and the store.
AddCells(xs, cells, e, s) ==
  LET n == Len(s.mem)
  IN  [e |-> [e EXCEPT !.vars = [x \in ToSet(xs) |->
                n + CHOOSE i \in DOMAIN xs : xs[i] = x /\ \A j \in DOMAIN xs : xs[j] = x => j <= i] @@ @],
       s |-> [s EXCEPT !.mem = @ \o cells]]
Update(loc, c, s) == [s EXCEPT !.mem[loc] = c]

-----------------------------------------------------------------------------
\* Classes.  A companion object is told from its class by the $ of its name.
ObjectName(x) == x \o "$"
TemplateOf(x, unit) ==
  unit[CHOOSE i \in DOMAIN unit : unit[i].k = "Template" /\ unit[i].x = x]
Declared(x, unit) == \E i \in DOMAIN unit : unit[i].k = "Template" /\ unit[i].x = x

ThrowableChain(x) ==
  CASE x = "Throwable" -> <<x>>
    [] x \in {"Exception", "Error"} -> <<x, "Throwable">>
    [] x = "NoSuchMethodError" -> <<x, "Error", "Throwable">>
    [] x = "RuntimeException" -> <<x, "Exception", "Throwable">>
    [] OTHER -> <<x, "RuntimeException", "Exception", "Throwable">>

\* Scala's linearization: the template, then its parents' linearizations, the
\* last parent first; of the occurrences of a type the last one stays.
RECURSIVE Lin(_, _)
Lin(x, unit) ==
  IF ~Declared(x, unit) THEN ThrowableChain(x)
  ELSE LET ps == TemplateOf(x, unit).parents
           all == FlattenSeq([i \in DOMAIN ps |-> Lin(ps[Len(ps) + 1 - i].t.x, unit)])
       IN  <<x>> \o [j \in 1..Cardinality({i \in DOMAIN all : \A l \in DOMAIN all : all[l] = all[i] => l <= i}) |->
             all[CHOOSE i \in DOMAIN all :
               /\ \A l \in DOMAIN all : all[l] = all[i] => l <= i
               /\ j = Cardinality({m \in 1..i : \A l \in DOMAIN all : all[l] = all[m] => l <= m})]]

DefinedNames(d) == CASE d.k \in {"Val", "Def"} -> {d.x}
                     [] d.k = "PatVal" -> ToSet(PatternVariables(d.p))
                     [] OTHER -> {}
OwnNames(t) == {t.ps[i].x : i \in DOMAIN t.ps} \cup
               UNION {DefinedNames(t.body[i]) : i \in DOMAIN t.body}
IsPrivate(t, x) ==
  \/ \E i \in DOMAIN t.ps : t.ps[i].x = x /\ t.ps[i].field = "" /\ ~t.isCase
  \/ \E i \in DOMAIN t.body : t.body[i].k \in {"Val", "Def"} /\ t.body[i].x = x
                              /\ "private" \in t.body[i].mods
MemberNames(cls, unit) ==
  UNION {IF Declared(Lin(cls, unit)[i], unit)
         THEN {x \in OwnNames(TemplateOf(Lin(cls, unit)[i], unit)) :
                 i = 1 \/ ~IsPrivate(TemplateOf(Lin(cls, unit)[i], unit), x)}
         ELSE {"message"} : i \in DOMAIN Lin(cls, unit)}
\* A field's name in the instance: a private one belongs to its class.
Slot(cls, x, unit) ==
  IF Declared(cls, unit) /\ x \in OwnNames(TemplateOf(cls, unit)) /\ IsPrivate(TemplateOf(cls, unit), x)
  THEN <<cls, x>> ELSE <<"", x>>

\* The definitions of method x in a linearization.
MethodsIn(lin, x, unit) ==
  {i \in DOMAIN lin : Declared(lin[i], unit) /\
     \E j \in DOMAIN TemplateOf(lin[i], unit).body :
        LET d == TemplateOf(lin[i], unit).body[j] IN d.k = "Def" /\ d.x = x /\ Given(d.b)}
First(is) == CHOOSE i \in is : \A j \in is : i <= j
MethodOf(cls, x, unit) ==
  LET b == TemplateOf(cls, unit).body
  IN  b[CHOOSE j \in DOMAIN b : b[j].k = "Def" /\ b[j].x = x /\ Given(b[j].b)]
InTemplate(cls, this, e) == [e EXCEPT !.vars = <<>>, !.cls = cls, !.this = this]

-----------------------------------------------------------------------------
RECURSIVE Eval(_, _, _), EvalAll(_, _, _), Call(_, _, _, _), SelectFrom(_, _, _, _, _),
          MatchPattern(_, _, _, _), MatchAll(_, _, _, _), Cases(_, _, _, _, _),
          Initialise(_, _, _, _, _, _)

EvalAll(ns, e, s) ==
  IF ns = <<>> THEN Ok(<<>>, s)
  ELSE AndThen(Eval(Head(ns), e, s), LAMBDA v, t :
         AndThen(EvalAll(Tail(ns), e, t), LAMBDA vs, u : Ok(<<v>> \o vs, u)))

Catching(r) == IF r.t = "return" THEN Ok(r.v, r.s) ELSE r

\* Reading a location.
ReadCell(loc, s) ==
  LET c == s.mem[loc]
  IN  CASE c.k = "unset" -> Error("UninitializedFieldError", s)
        [] c.k = "val" -> Ok(c.v, s)
        [] c.k = "lazy" -> AndThen(Eval(c.b, c.e, s), LAMBDA v, t : Ok(v, Update(loc, Set(v), t)))
        [] OTHER -> Eval(c.b, c.e, s)

\* A function: a lambda, or a def with the parameter lists not yet applied.
Closure(fn, e, isDef) == <<"Clo", fn, e, isDef>>
Paramless(fn) == fn.k = "Def" /\ fn.lists = <<>>
ParamsOf(fn) == IF fn.k = "Lambda" THEN fn.ps ELSE IF fn.lists = <<>> THEN <<>> ELSE Head(fn.lists)
ParamlessClosure(v) == v[1] = "Clo" /\ Paramless(v[2])
\* A value where the type Unit is written is discarded; an integer where Double
\* is written is widened.
Widened(t, v) == IF t = TName("Double") /\ v[1] = "Int" THEN <<"Double", v[2]>> ELSE v
Typed(t, r) == IF r.t = "val" THEN Ok(IF t = TName("Unit") THEN UnitV ELSE Widened(t, r.v), r.s) ELSE r
\* The body of a def, or the function of its next parameter list.
Enter(fn, f, s) ==
  IF fn.k = "Lambda" THEN Eval(fn.b, f, s)
  ELSE IF Len(fn.lists) > 1 THEN Ok(Closure([fn EXCEPT !.lists = Tail(@)], f, TRUE), s)
  ELSE Typed(fn.t, Catching(Eval(fn.b, f, s)))

Global(x, e, s) ==
  IF x \in DOMAIN e.glob
  THEN AndThen(ReadCell(e.glob[x], s), LAMBDA v, t :
         IF ParamlessClosure(v) THEN Call(v, <<>>, <<>>, t) ELSE Ok(v, t))
  ELSE Ok(<<"Native", x>>, s)

Read(x, e, s) ==
  IF x = "this" THEN Ok(e.this, s)
  ELSE IF x \in DOMAIN e.vars
  THEN AndThen(ReadCell(e.vars[x], s), LAMBDA v, t :
         IF ParamlessClosure(v) THEN Call(v, <<>>, <<>>, t) ELSE Ok(v, t))
  ELSE IF e.cls # "" /\ x \in MemberNames(e.cls, e.unit) THEN SelectFrom(e.this, x, FALSE, e, s)
  ELSE Global(x, e, s)

\* The arguments of a call: the cells of a def's by-name parameters are the
\* unevaluated expressions.
ArgCells(args, i, ps, e, s) ==
  LET expr(a) == IF a.k = "NamedArg" THEN a.v ELSE a
      lazyAt(j) == \E k \in DOMAIN ps : ps[k].byName /\
                     (IF args[j].k = "NamedArg" THEN FALSE ELSE k = j)
      step(r, j) == AndThen(r, LAMBDA cs, t :
        IF lazyAt(j) THEN Ok(Append(cs, Susp("byname", args[j], e)), t)
        ELSE IF args[j].k = "Splice"
        THEN AndThen(Eval(args[j].v, e, t), LAMBDA v, u :
               IF v[1] = "List" THEN Ok(cs \o [m \in DOMAIN v[2] |-> Set(v[2][m])], u)
               ELSE Error("ClassCastException", u))
        ELSE AndThen(Eval(expr(args[j]), e, t), LAMBDA v, u : Ok(Append(cs, Set(v)), u)))
  IN  FoldLeft(step, Ok(<<>>, s), [j \in DOMAIN args |-> j])

KeywordsOf(args) ==
  LET p == Cardinality({i \in DOMAIN args : args[i].k # "NamedArg"})
  IN  [j \in 1..(Len(args) - p) |-> args[p + j].x]

\* Binds cells (positional, then one per keyword) to parameters, filling in the
\* defaults in parameter order.
BindParameters(ps, cells, kws, e, s) ==
  LET p == Len(cells) - Len(kws)
      rep == ps # <<>> /\ Last(ps).rep
      fixed == IF rep THEN Len(ps) - 1 ELSE Len(ps)
      kwOf(k) == {j \in DOMAIN kws : kws[j] = ps[k].x}
      good == /\ IF rep THEN p >= fixed ELSE p <= fixed
              /\ \A j \in DOMAIN kws : \E k \in (p + 1)..Len(ps) : ps[k].x = kws[j]
      varargs == Set(<<"List", [i \in 1..(p - fixed) |-> cells[fixed + i].v]>>)
      bind(r, k) == AndThen(r, LAMBDA f, t :
        LET given == CASE k <= p /\ k <= fixed -> cells[k]
                       [] rep /\ k > fixed -> varargs
                       [] kwOf(k) # {} -> cells[p + CHOOSE j \in kwOf(k) : TRUE]
                       [] OTHER -> Unset
        IN  IF given.k # "unset"
            THEN LET cell == IF given.k = "val" THEN Set(Widened(ps[k].t, given.v)) ELSE given
                     a == AddCells(<<ps[k].x>>, <<cell>>, f, t)
                 IN  Ok(a.e, a.s)
            ELSE IF ~Given(ps[k].dflt) THEN Error("IllegalArgumentException", t)
            ELSE AndThen(Eval(ps[k].dflt, f, t), LAMBDA v, u :
                   LET a == AddCells(<<ps[k].x>>, <<Set(Widened(ps[k].t, v))>>, f, u) IN Ok(a.e, a.s)))
      missing == \E k \in (p + 1)..fixed : kwOf(k) = {} /\ ~Given(ps[k].dflt)
  IN  IF ~good THEN Error("IllegalArgumentException", s)
      ELSE IF missing /\ \A k \in DOMAIN ps : ~Given(ps[k].dflt) THEN Error("IllegalArgumentException", s)
      ELSE FoldLeft(bind, Ok(e, s), [k \in DOMAIN ps |-> k])

Call(v, cells, kws, s) ==
  LET vals == [i \in DOMAIN cells |-> cells[i].v]
  IN  CASE v[1] = "Null" -> Error("NullPointerException", s)
        [] v[1] = "Clo" ->
             AndThen(BindParameters(ParamsOf(v[2]), cells, kws, v[3], s), LAMBDA f, t : Enter(v[2], f, t))
        [] v = <<"Native", "emit">> -> Ok(UnitV, [s EXCEPT !.out = Append(@, vals[1])])
        [] v = <<"Native", "List">> -> Ok(<<"List", vals>>, s)
        [] v = <<"Native", "await">> ->
             LET t == [s EXCEPT !.aw = Tail(@)]
             IN  CASE Head(s.aw) = "ok" -> Ok(<<"Int", 7>>, t)
                   [] Head(s.aw) = "fail" -> Error("IllegalStateException", t)
                   [] OTHER -> Error("UnsupportedOperationException", t)
        [] v[1] = "Obj" -> SelectFrom(v, "apply", TRUE, [vars |-> <<>>, this |-> NullV, cls |-> "",
                             glob |-> s.glob, unit |-> s.unit, args |-> cells, kws |-> kws], s)
        [] v[1] = "List" ->
             IF vals[1][2] \in 0..(Len(v[2]) - 1) THEN Ok(v[2][vals[1][2] + 1], s)
             ELSE Error("IndexOutOfBoundsException", s)
        [] OTHER -> Error("NoSuchMethodError", s)

\* v.x (called FALSE) or the function v.x(...) is about to call (called TRUE,
\* with the arguments in e.args and e.kws).
SelectFrom(v, x, called, e, s) ==
  LET call(f, t) == Call(f, e.args, e.kws, t)
      o == s.objs[v[2]]
      key == IF e.cls # "" /\ Slot(e.cls, x, e.unit) \in DOMAIN o.fields THEN Slot(e.cls, x, e.unit)
             ELSE <<"", x>>
      lin == Lin(o.cls, e.unit)
      own == IF e.cls # "" /\ Slot(e.cls, x, e.unit)[1] # "" THEN <<e.cls>> ELSE lin
      ms == MethodsIn(own, x, e.unit)
      m == MethodOf(own[First(ms)], x, e.unit)
      clo == Closure(m, InTemplate(own[First(ms)], v, e), TRUE)
      fs == {k \in 1..3 : <<"_1", "_2", "_3">>[k] = x}
  IN  CASE v[1] = "Null" -> Error("NullPointerException", s)
        [] v[1] = "Obj" ->
             IF key \in DOMAIN o.fields
             THEN LET c == o.fields[key]
                      got == IF c.k = "val" THEN Ok(c.v, s)
                             ELSE AndThen(Eval(c.b, c.e, s), LAMBDA w, t :
                                    Ok(w, IF c.k = "lazy" THEN [t EXCEPT !.objs[v[2]].fields[key] = Set(w)] ELSE t))
                  IN  AndThen(got, LAMBDA w, t : IF called THEN call(w, t) ELSE Ok(w, t))
             ELSE IF ms = {} THEN Error("NoSuchMethodError", s)
             ELSE IF Paramless(m)
             THEN AndThen(Call(clo, <<>>, <<>>, s), LAMBDA w, t :
                    IF ~called THEN Ok(w, t)
                    ELSE IF w[1] \in {"Clo", "Native", "Obj", "List"} THEN call(w, t)
                    ELSE Error("NoSuchMethodError", t))
             ELSE IF called \/ ParamsOf(m) = <<>> THEN (IF called THEN call(clo, s) ELSE Call(clo, <<>>, <<>>, s))
             ELSE Ok(clo, s)
        [] v[1] = "Tuple" -> IF fs # {} THEN Ok(v[2][First(fs)], s) ELSE Error("NoSuchMethodError", s)
        [] v[1] = "List" /\ x = "length" -> Ok(<<"Int", Len(v[2])>>, s)
        [] v[1] = "List" /\ x = "apply" -> call(v, s)
        [] v[1] = "List" /\ x = "isEmpty" -> Ok(Bool(v[2] = <<>>), s)
        [] v[1] = "List" /\ x = "::" -> Ok(<<"List", <<e.args[1].v>> \o v[2]>>, s)
        [] v[1] = "List" /\ x \in {"foreach", "map"} ->
             AndThen(FoldLeft(LAMBDA r, w : AndThen(r, LAMBDA ys, t :
                       AndThen(Call(e.args[1].v, <<Set(w)>>, <<>>, t), LAMBDA y, z : Ok(Append(ys, y), z))),
                       Ok(<<>>, s), v[2]),
                     LAMBDA ys, t : Ok(IF x = "map" THEN <<"List", ys>> ELSE UnitV, t))
        [] v[1] = "Int" /\ x \in {"to", "until"} ->
             LET n == e.args[1].v[2] - v[2] + (IF x = "to" THEN 1 ELSE 0)
             IN  Ok(<<"List", [i \in 1..n |-> <<"Int", v[2] + i - 1>>] \o <<>>>>, s)
        [] v[1] = "Clo" /\ x = "apply" -> call(v, s)
        [] OTHER -> Error("NoSuchMethodError", s)

-----------------------------------------------------------------------------
\* Values.
RECURSIVE Equal(_, _, _)
Equal(a, b, s) ==
  LET o == s.objs[a[2]]
      p == s.objs[b[2]]
      t == TemplateOf(o.cls, s.unit)
  IN  IF a[1] # b[1] THEN FALSE
      ELSE IF a[1] = "Obj"
      THEN \/ a = b
           \/ /\ o.cls = p.cls /\ Declared(o.cls, s.unit) /\ t.isCase
              /\ \A i \in DOMAIN t.ps : Equal(o.fields[<<"", t.ps[i].x>>].v, p.fields[<<"", t.ps[i].x>>].v, s)
      ELSE IF a[1] \in {"List", "Tuple"}
      THEN Len(a[2]) = Len(b[2]) /\ \A i \in DOMAIN a[2] : Equal(a[2][i], b[2][i], s)
      ELSE a = b

Equals(a, b, e, s) ==
  IF a[1] = "Obj" /\ MethodsIn(Lin(s.objs[a[2]].cls, s.unit), "equals", s.unit) # {}
  THEN SelectFrom(a, "equals", TRUE, [e EXCEPT !.cls = "", !.args = <<Set(b)>>, !.kws = <<>>], s)
  ELSE Ok(Bool(Equal(a, b, s)), s)

Text(v, e, s) ==
  CASE v[1] = "Str" -> Ok(v[2], s)
    [] v[1] \in {"Int", "Bool"} -> Ok(ToString(v[2]), s)
    [] v[1] = "Unit" -> Ok("()", s)
    [] v[1] = "Null" -> Ok("null", s)
    [] v[1] = "Obj" -> IF MethodsIn(Lin(s.objs[v[2]].cls, s.unit), "toString", s.unit) = {}
                       THEN Ok("<object>", s)
                       ELSE AndThen(SelectFrom(v, "toString", FALSE, [e EXCEPT !.cls = ""], s),
                              LAMBDA w, t : IF w[1] = "Str" THEN Ok(w[2], t)
                                            ELSE Error("ClassCastException", t))
    [] OTHER -> Ok("<object>", s)
JoinTexts(vs, e, s) ==
  AndThen(FoldLeft(LAMBDA r, v : AndThen(r, LAMBDA x, t :
            AndThen(Text(v, e, t), LAMBDA y, u : Ok(x \o y, u))), Ok("", s), vs),
          LAMBDA x, t : Ok(<<"Str", x>>, t))

BinaryOps == {"+", "-", "*", "<", "<=", ">", ">="}
BinaryOp(o, a, b, e, s) ==
  CASE a[1] = "Int" /\ b[1] = "Int" ->
         Ok(CASE o = "+" -> <<"Int", a[2] + b[2]>> [] o = "-" -> <<"Int", a[2] - b[2]>>
              [] o = "*" -> <<"Int", a[2] * b[2]>> [] o = "<" -> Bool(a[2] < b[2])
              [] o = "<=" -> Bool(a[2] <= b[2]) [] o = ">" -> Bool(a[2] > b[2])
              [] OTHER -> Bool(a[2] >= b[2]), s)
    [] o = "+" /\ (a[1] = "Str" \/ b[1] = "Str") -> JoinTexts(<<a, b>>, e, s)
    [] OTHER -> SelectFrom(a, o, TRUE, [e EXCEPT !.cls = "", !.args = <<Set(b)>>, !.kws = <<>>], s)

IsA(v, t, s) ==
  CASE t \in {"Int", "Long"} -> v[1] = "Int"
    [] t = "Boolean" -> v[1] = "Bool"
    [] t = "String" -> v[1] = "Str"
    [] t \in {"List", "Unit"} -> v[1] = t
    [] t = "Any" -> TRUE
    [] v[1] = "Err" -> t \in ToSet(ThrowableChain(v[2]))
    [] v[1] = "Obj" -> t \in ToSet(Lin(s.objs[v[2]].cls, s.unit))
    [] OTHER -> FALSE

Test(r, k(_, _)) ==
  AndThen(r, LAMBDA v, t : IF v[1] = "Bool" THEN k(v[2], t) ELSE Error("ClassCastException", t))

-----------------------------------------------------------------------------
\* Patterns: the result's value is the sequence of bindings [x, v], or NoMatch.
NoMatch == <<[x |-> "", v |-> NullV]>>
Fails(b) == Len(b) = 1 /\ b[1].x = ""

\* x(ps) takes a case class apart, unless its companion says otherwise.
CompanionDefines(x, m, unit) ==
  Declared(ObjectName(x), unit) /\ m \in OwnNames(TemplateOf(ObjectName(x), unit))
Deconstructs(x, e) ==
  /\ Declared(x, e.unit) /\ TemplateOf(x, e.unit).isCase
  /\ ~CompanionDefines(x, "unapply", e.unit)

MatchPattern(p, v, e, s) ==
  LET fields == LET t == TemplateOf(p.x, e.unit)
                IN  [i \in DOMAIN t.ps |-> s.objs[v[2]].fields[<<"", t.ps[i].x>>].v]
      seq == p.args # <<>> /\ Last(p.args).k = "SeqWildcard"
      n == IF seq THEN Len(p.args) - 1 ELSE Len(p.args)
      plus(r, x, w) == AndThen(r, LAMBDA b, t : Ok(IF Fails(b) \/ x \in {"", "_"} THEN b
                                                   ELSE Append(b, [x |-> x, v |-> w]), t))
  IN  CASE p.k = "Wildcard" -> Ok(<<>>, s)
        [] p.k = "Var" -> plus(Ok(<<>>, s), p.x, v)
        [] p.k \in {"Literal", "Stable"} -> AndThen(Eval(p.e, e, s), LAMBDA w, t :
             AndThen(Equals(w, v, e, t), LAMBDA q, u : Ok(IF q = Bool(TRUE) THEN <<>> ELSE NoMatch, u)))
        [] p.k = "Typed" -> IF IsA(v, p.t.x, s) THEN MatchPattern(p.args[1], v, e, s) ELSE Ok(NoMatch, s)
        [] p.k = "Bind" -> plus(MatchPattern(p.args[1], v, e, s), p.x, v)
        [] p.k = "Alt" ->
             FoldLeft(LAMBDA r, q : AndThen(r, LAMBDA b, t :
                        IF Fails(b) THEN MatchPattern(q, v, e, t) ELSE r), Ok(NoMatch, s), p.args)
        [] p.k = "Tuple" -> IF v[1] = "Tuple" /\ Len(v[2]) = Len(p.args)
                            THEN MatchAll(p.args, v[2], e, s) ELSE Ok(NoMatch, s)
        [] p.k = "Extractor" /\ p.x = "::" ->
             IF v[1] = "List" /\ v[2] # <<>>
             THEN MatchAll(p.args, <<Head(v[2]), <<"List", Tail(v[2])>>>>, e, s) ELSE Ok(NoMatch, s)
        [] p.k = "Extractor" /\ p.x = "List" ->
             IF v[1] = "List" /\ (Len(v[2]) = n \/ (seq /\ Len(v[2]) > n))
             THEN IF seq THEN plus(MatchAll(Front(p.args), SubSeq(v[2], 1, n), e, s), Last(p.args).x,
                                   <<"List", SubSeq(v[2], n + 1, Len(v[2]))>>)
                  ELSE MatchAll(p.args, v[2], e, s)
             ELSE Ok(NoMatch, s)
        [] p.k = "Extractor" /\ p.x \notin {"::", "List"} /\ ~Deconstructs(p.x, e) ->
             LET sel(o, x, cs, t) == SelectFrom(o, x, cs # <<>>, [e EXCEPT !.cls = "", !.args = cs, !.kws = <<>>], t)
             IN  AndThen(Read(p.x, e, s), LAMBDA o, t :
                   AndThen(sel(o, "unapply", <<Set(v)>>, t), LAMBDA w, u :
                     IF p.args = <<>> THEN Ok(IF w = Bool(TRUE) THEN <<>> ELSE NoMatch, u)
                     ELSE AndThen(sel(w, "isEmpty", <<>>, u), LAMBDA none, x :
                       IF none = Bool(TRUE) THEN Ok(NoMatch, x)
                       ELSE AndThen(sel(w, "get", <<>>, x), LAMBDA got, y :
                         IF Len(p.args) = 1 THEN MatchPattern(p.args[1], got, e, y)
                         ELSE MatchAll(p.args, got[2], e, y)))))
        [] OTHER -> IF IsA(v, p.x, s) THEN MatchAll(p.args, fields, e, s) ELSE Ok(NoMatch, s)

MatchAll(ps, vs, e, s) ==
  IF ps = <<>> THEN Ok(<<>>, s)
  ELSE AndThen(MatchPattern(Head(ps), Head(vs), e, s), LAMBDA b, t :
         IF Fails(b) THEN Ok(b, t)
         ELSE AndThen(MatchAll(Tail(ps), Tail(vs), e, t), LAMBDA c, u :
                Ok(IF Fails(c) THEN c ELSE b \o c, u)))

\* What the pattern of a definition binds.
Bindings(p, v, e, s) ==
  AndThen(MatchPattern(p, v, e, s), LAMBDA b, t : IF Fails(b) THEN Error("MatchError", t) ELSE Ok(b, t))

\* The first case whose pattern and guard hold.  A match without one fails, a
\* catch without one passes the exception on.
Cases(cs, v, e, s, how) ==
  IF cs = <<>> THEN (IF how = "match" THEN Error("MatchError", s) ELSE R("throw", v, s))
  ELSE LET c == Head(cs)
           b == MatchPattern(c.p, v, e, s)
           a == AddCells([i \in DOMAIN b.v |-> b.v[i].x], [i \in DOMAIN b.v |-> Set(b.v[i].v)], e, b.s)
           g == IF Given(c.g) THEN Eval(c.g, a.e, a.s) ELSE Ok(Bool(TRUE), a.s)
       IN  IF b.t # "val" THEN b
           ELSE IF Fails(b.v) THEN Cases(Tail(cs), v, e, b.s, how)
           ELSE Test(g, LAMBDA yes, t : IF yes THEN Eval(c.b, a.e, t) ELSE Cases(Tail(cs), v, e, t, how))

-----------------------------------------------------------------------------
\* Instances.
SuperOf(t, unit) ==
  IF t.kind # "Trait" /\ t.parents # <<>>
     /\ (~Declared(t.parents[1].t.x, unit) \/ TemplateOf(t.parents[1].t.x, unit).kind = "Class")
  THEN t.parents[1].t.x ELSE ""
PutField(o, key, c, s) == [s EXCEPT !.objs[o[2]].fields = (key :> c) @@ @]
\* A definition of the class itself never overwrites what a subclass's
\* constructor parameter of the same name already supplied.
PutNew(o, key, c, s) == IF key \in DOMAIN s.objs[o[2]].fields THEN s ELSE PutField(o, key, c, s)

\* The body of template t in source order; its lazies exist from the start.
RunTemplate(t, o, e, s) ==
  LET f == InTemplate(t.x, o, e)
      key(d) == Slot(t.x, d.x, e.unit)
      lazies == FoldLeft(LAMBDA a, d : IF d.k = "Val" /\ d.kind = "LazyVal"
                                       THEN PutNew(o, key(d), Susp("lazy", d.rhs, f), a) ELSE a, s, t.body)
      stat(r, d) == AndThen(r, LAMBDA u, a :
        CASE d.k = "Val" -> IF d.kind = "LazyVal" \/ ~Given(d.rhs) THEN r
                               ELSE AndThen(Typed(d.t, Eval(d.rhs, f, a)), LAMBDA v, b : Ok(o, PutField(o, key(d), Set(v), b)))
          [] d.k = "PatVal" -> AndThen(Eval(d.rhs, f, a), LAMBDA v, b :
               AndThen(Bindings(d.p, v, f, b), LAMBDA xs, c :
                 Ok(o, FoldLeft(LAMBDA z, x : PutField(o, Slot(t.x, x.x, e.unit), Set(x.v), z), c, xs))))
          [] d.k = "Def" -> r
          [] OTHER -> AndThen(Eval(d, f, a), LAMBDA v, b : Ok(o, b)))
  IN  FoldLeft(stat, Ok(o, lazies), t.body)

\* The constructor of template x on instance o: the parameters, the
\* superclass with its arguments, the traits it does not cover in
\* linearization order, the body.
Initialise(x, o, cells, kws, e, s) ==
  LET t == TemplateOf(x, e.unit)
      env == InTemplate(x, o, e)
      aux == {i \in DOMAIN t.body : t.body[i].k = "Def" /\ t.body[i].x = "this"
                                    /\ Len(ParamsOf(t.body[i])) = Len(cells)}
      d == t.body[CHOOSE i \in aux : TRUE]
      first == IF d.b.k = "Block" THEN d.b.stats[1] ELSE d.b
      rest == IF d.b.k = "Block" THEN Block(Tail(d.b.stats)) ELSE UnitLit
      super == SuperOf(t, e.unit)
      covered == IF super = "" THEN {} ELSE ToSet(Lin(super, e.unit))
      lin == Lin(x, e.unit)
      traits == SelectSeq([i \in 1..(Len(lin) - 1) |-> lin[Len(lin) + 1 - i]],
                  LAMBDA y : y \notin covered /\ Declared(y, e.unit) /\ TemplateOf(y, e.unit).kind = "Trait")
      argsOf(y) == t.parents[CHOOSE k \in DOMAIN t.parents : t.parents[k].t.x = y].args
      params(f, a) == FoldLeft(LAMBDA b, p : PutNew(o, Slot(x, p.x, e.unit), b.mem[f.vars[p.x]], b), a, t.ps)
      parent(y, f, a) == AndThen(ArgCells(argsOf(y), 1, <<>>, f, a), LAMBDA cs, b :
        IF Declared(y, e.unit) THEN Initialise(y, o, cs, <<>>, e, b)
        ELSE Ok(o, PutNew(o, <<"", "message">>, cs[1], b)))
      ownTraits(f, r) == FoldLeft(LAMBDA q, y : AndThen(q, LAMBDA v, a :
        AndThen(BindParameters(TemplateOf(y, e.unit).ps, <<>>, <<>>, f, a), LAMBDA g, b :
          RunTemplate(TemplateOf(y, e.unit), o, e, b))), r, traits)
  IN  IF Len(cells) # Len(t.ps) /\ aux # {}
      THEN AndThen(BindParameters(ParamsOf(d), cells, kws, env, s), LAMBDA f, a :
             AndThen(ArgCells(first.args, 1, <<>>, f, a), LAMBDA cs, b :
               AndThen(Initialise(x, o, cs, <<>>, e, b), LAMBDA v, c :
                 AndThen(Eval(rest, f, c), LAMBDA w, z : Ok(o, z)))))
      ELSE AndThen(BindParameters(t.ps, cells, kws, env, s), LAMBDA f, a :
             LET b == params(f, a)
                 r == ownTraits(f, IF super = "" THEN Ok(o, b) ELSE parent(super, f, b))
             IN  AndThen(r, LAMBDA v, c : RunTemplate(t, o, e, c)))

Instantiate(x, cells, kws, e, s) ==
  LET o == <<"Obj", Len(s.objs) + 1>>
      t == [s EXCEPT !.objs = Append(@, [cls |-> x, fields |-> <<>>])]
  IN  IF Declared(x, e.unit) THEN Initialise(x, o, cells, kws, e, t)
      ELSE Ok(o, PutField(o, <<"", "message">>, cells[1], t))

SuperCall(x, cells, t, e, s) ==
  LET lin == Lin(s.objs[e.this[2]].cls, e.unit)
      at == First({i \in DOMAIN lin : lin[i] = IF t = "" THEN e.cls ELSE t})
      rest == SubSeq(lin, IF t = "" THEN at + 1 ELSE at, Len(lin))
      ms == MethodsIn(rest, x, e.unit)
  IN  IF ms = {} THEN Error("NoSuchMethodError", s)
      ELSE Call(Closure(MethodOf(rest[First(ms)], x, e.unit), InTemplate(rest[First(ms)], e.this, e), TRUE),
                cells, <<>>, s)

-----------------------------------------------------------------------------
\* Expressions.
IsMember(x, e) == x \notin DOMAIN e.vars /\ e.cls # "" /\ x \in MemberNames(e.cls, e.unit)
IsCompanion(x, e) ==
  /\ x \notin DOMAIN e.vars /\ Declared(x, e.unit) /\ TemplateOf(x, e.unit).isCase
  /\ ~CompanionDefines(x, "apply", e.unit)

ApplyIdent(n, e, s) ==
  LET x == n.f.x
      ms == MethodsIn(Lin(e.cls, e.unit), x, e.unit)
      ps == IF ms = {} THEN <<>> ELSE ParamsOf(MethodOf(Lin(e.cls, e.unit)[First(ms)], x, e.unit))
  IN  IF IsMember(x, e)
      THEN AndThen(ArgCells(n.args, 1, ps, e, s), LAMBDA cs, t :
             SelectFrom(e.this, x, TRUE, [e EXCEPT !.args = cs, !.kws = KeywordsOf(n.args)], t))
      ELSE IF IsCompanion(x, e)
      THEN AndThen(ArgCells(n.args, 1, <<>>, e, s), LAMBDA cs, t : Instantiate(x, cs, KeywordsOf(n.args), e, t))
      ELSE AndThen(Read(x, e, s), LAMBDA f, t :
             AndThen(ArgCells(n.args, 1, IF f[1] = "Clo" /\ f[4] THEN ParamsOf(f[2]) ELSE <<>>, e, t),
                     LAMBDA cs, u : Call(f, cs, KeywordsOf(n.args), u)))

ApplySelect(n, e, s) ==
  LET q == n.f.q
      x == n.f.x
      one == Len(n.args) = 1
  IN  CASE q.k = "Super" -> AndThen(ArgCells(n.args, 1, <<>>, e, s), LAMBDA cs, t : SuperCall(x, cs, q.t, e, t))
        [] one /\ x \in {"&&", "||"} ->
             Test(Eval(q, e, s), LAMBDA b, t : IF b = (x = "||") THEN Ok(Bool(b), t) ELSE Eval(n.args[1], e, t))
        [] one /\ x \in BinaryOps ->
             AndThen(EvalAll(<<q, n.args[1]>>, e, s), LAMBDA vs, t : BinaryOp(x, vs[1], vs[2], e, t))
        [] one /\ x \in {"==", "!="} ->
             AndThen(EvalAll(<<q, n.args[1]>>, e, s), LAMBDA vs, t :
               AndThen(Equals(vs[1], vs[2], e, t), LAMBDA b, u : Ok(Bool(b[2] = (x = "==")), u)))
        [] OTHER ->
             AndThen(Eval(q, e, s), LAMBDA v, t :
               AndThen(ArgCells(n.args, 1, <<>>, e, t), LAMBDA cs, u :
                 SelectFrom(v, x, TRUE, [e EXCEPT !.args = cs, !.kws = KeywordsOf(n.args)], u)))

\* A block's definitions are in scope in all of it.
CellOf(d, e) == CASE d.k = "Def" -> <<Set(Closure(d, e, TRUE))>>
                  [] d.k = "Val" -> <<IF d.kind = "LazyVal" THEN Susp("lazy", d.rhs, e) ELSE Unset>>
                  [] d.k = "PatVal" -> [i \in DOMAIN PatternVariables(d.p) |-> Unset]
                  [] OTHER -> <<>>
NamesOf(d) == CASE d.k \in {"Def", "Val"} -> <<d.x>>
                [] d.k = "PatVal" -> PatternVariables(d.p)
                [] OTHER -> <<>>
\* A statement whose names have the locations locs.
EvalStat(d, e, locs, s) ==
  CASE d.k \in {"Def", "Template"} -> Ok(UnitV, s)
    [] d.k = "Val" -> IF d.kind = "LazyVal" THEN Ok(UnitV, s)
                      ELSE AndThen(Typed(d.t, Eval(d.rhs, e, s)), LAMBDA v, t : Ok(UnitV, Update(locs[d.x], Set(v), t)))
    [] d.k = "PatVal" -> AndThen(Eval(d.rhs, e, s), LAMBDA v, t :
         AndThen(Bindings(d.p, v, e, t), LAMBDA b, u :
           Ok(UnitV, FoldLeft(LAMBDA z, x : Update(locs[x.x], Set(x.v), z), u, b))))
    [] OTHER -> Eval(d, e, s)
\* Statements one after the other; the value is the last one's.
RECURSIVE EvalStats(_, _, _, _)
EvalStats(ss, e, locs, s) ==
  IF ss = <<>> THEN Ok(UnitV, s)
  ELSE LET r == EvalStats(Front(ss), e, locs, s)
       IN  IF r.t = "val" THEN EvalStat(Last(ss), e, locs, r.s) ELSE r
EvalBlock(n, e, s) ==
  LET ss == n.stats
      f == AddCells(FlattenSeq([i \in DOMAIN ss |-> NamesOf(ss[i])]), <<>>, e, s).e
      cells == FlattenSeq([i \in DOMAIN ss |-> CellOf(ss[i], f)])
  IN  EvalStats(ss, f, f.vars, [s EXCEPT !.mem = @ \o cells])

AssignName(x, v, e, s) ==
  IF x \in DOMAIN e.vars THEN Update(e.vars[x], Set(v), s)
  ELSE IF IsMember(x, e) THEN PutField(e.this, Slot(e.cls, x, e.unit), Set(v), s)
  ELSE Update(e.glob[x], Set(v), s)
AssignField(o, x, v, s) ==
  IF <<"", x>> \in DOMAIN s.objs[o[2]].fields THEN Ok(UnitV, PutField(o, <<"", x>>, Set(v), s))
  ELSE Error("NoSuchMethodError", s)
\* x = v, q.x = v and f(args) = v.
EvalAssign(target, v, e, s) ==
  CASE target.k = "Ident" -> AndThen(Eval(v, e, s), LAMBDA w, t : Ok(UnitV, AssignName(target.x, w, e, t)))
    [] target.k = "Select" ->
         AndThen(EvalAll(<<target.q, v>>, e, s), LAMBDA ws, t : AssignField(ws[1], target.x, ws[2], t))
    [] OTHER -> Eval(Apply(Select(target.f, "update"), Append(target.args, v)), e, s)

\* l op r: op= assigns, an operator that ends in : belongs to its right operand.
EvalInfix(n, e, s) ==
  LET base == SubSeq(n.op, 1, Len(n.op) - 1)
  IN  IF IsAssignmentOperator(n.op) THEN EvalAssign(n.l, Infix(n.l, base, n.r), e, s)
      ELSE IF ~IsRightAssociative(n.op) THEN Eval(Apply(Select(n.l, n.op), <<n.r>>), e, s)
      ELSE AndThen(EvalAll(<<n.l, n.r>>, e, s), LAMBDA vs, t :
             SelectFrom(vs[2], n.op, TRUE, [e EXCEPT !.args = <<Set(vs[1])>>, !.kws = <<>>], t))

EvalTry(n, e, s) ==
  LET r == Eval(n.b, e, s)
      q == IF r.t = "throw" THEN Cases(n.cases, r.v, e, r.s, "catch") ELSE r
      f == Eval(n.f, e, q.s)
  IN  IF ~Given(n.f) THEN q ELSE IF f.t = "val" THEN R(q.t, q.v, f.s) ELSE f

-----------------------------------------------------------------------------
\* For-comprehensions.  rows: the environments of the values generated so far,
\* gs: the guards since, which run on a row right before its next use.
Passes(gs, e, s) ==
  FoldLeft(LAMBDA r, g : AndThen(r, LAMBDA b, t :
             IF b[2] THEN Test(Eval(g, e, t), LAMBDA yes, u : Ok(Bool(yes), u)) ELSE r), Ok(Bool(TRUE), s), gs)
EachRow(rows, gs, s, use(_, _)) ==
  FoldLeft(LAMBDA r, row : AndThen(r, LAMBDA vs, t :
             AndThen(Passes(gs, row, t), LAMBDA b, u :
               IF b[2] THEN AndThen(use(row, u), LAMBDA v, w : Ok(Append(vs, v), w)) ELSE Ok(vs, u))),
           Ok(<<>>, s), rows)
\* The environment with p matched against v, as a sequence of none or one.
Extend(p, v, e, s) ==
  AndThen(MatchPattern(p, v, e, s), LAMBDA b, t :
    IF Fails(b) THEN Ok(<<>>, t)
    ELSE LET a == AddCells([i \in DOMAIN b |-> b[i].x], [i \in DOMAIN b |-> Set(b[i].v)], e, t)
         IN  Ok(<<a.e>>, a.s))
RECURSIVE ForFrom(_, _, _, _), ForRest(_, _, _, _, _)
ForFrom(n, i, e, s) ==
  AndThen(Eval(n.enums[i].e, e, s), LAMBDA xs, t :
    AndThen(FoldLeft(LAMBDA r, v : AndThen(r, LAMBDA rows, u :
              AndThen(Extend(n.enums[i].p, v, e, u), LAMBDA row, w : Ok(rows \o row, w))), Ok(<<>>, t), xs[2]),
            LAMBDA rows, u : ForRest(n, i + 1, rows, <<>>, u)))
ForRest(n, i, rows, gs, s) ==
  IF i > Len(n.enums) THEN EachRow(rows, gs, s, LAMBDA row, t : Eval(n.b, row, t))
  ELSE LET en == n.enums[i]
       IN  CASE en.k = "Guard" -> ForRest(n, i + 1, rows, Append(gs, en.e), s)
             [] en.k = "Value" ->
                  AndThen(EachRow(rows, gs, s, LAMBDA row, t : AndThen(Eval(en.e, row, t), LAMBDA v, u :
                            Extend(en.p, v, row, u))),
                          LAMBDA next, t : ForRest(n, i + 1, FlattenSeq(next), <<>>, t))
             [] OTHER -> AndThen(EachRow(rows, gs, s, LAMBDA row, t : ForFrom(n, i, row, t)),
                                 LAMBDA vss, t : Ok(FlattenSeq(vss), t))

Eval(n, e, s) ==
  CASE n.k = "IntLit" -> Ok(<<"Int", n.v>>, s)
    [] n.k = "StringLit" -> Ok(<<"Str", n.v>>, s)
    [] n.k = "BoolLit" -> Ok(Bool(n.v), s)
    [] n.k = "NullLit" -> Ok(NullV, s)
    [] n.k = "UnitLit" -> Ok(UnitV, s)
    [] n.k = "Ident" -> IF n.x = "Nil" THEN Ok(<<"List", <<>>>>, s) ELSE Read(n.x, e, s)
    [] n.k = "Select" /\ n.q.k = "Super" -> SuperCall(n.x, <<>>, n.q.t, e, s)
    [] n.k = "Select" /\ n.q.k # "Super" -> AndThen(Eval(n.q, e, s), LAMBDA v, t : SelectFrom(v, n.x, FALSE, e, t))
    [] n.k = "Apply" /\ n.f.k = "Ident" -> ApplyIdent(n, e, s)
    [] n.k = "Apply" /\ n.f.k = "Select" -> ApplySelect(n, e, s)
    [] n.k = "Apply" /\ n.f.k \notin {"Ident", "Select"} ->
         AndThen(Eval(n.f, e, s), LAMBDA f, t :
           AndThen(ArgCells(n.args, 1, <<>>, e, t), LAMBDA cs, u : Call(f, cs, KeywordsOf(n.args), u)))
    [] n.k = "Infix" -> EvalInfix(n, e, s)
    [] n.k = "Prefix" ->
         AndThen(Eval(n.e, e, s), LAMBDA v, t :
           CASE n.op = "-" /\ v[1] = "Int" -> Ok(<<"Int", -v[2]>>, t)
             [] n.op = "!" /\ v[1] = "Bool" -> Ok(Bool(~v[2]), t)
             [] OTHER -> SelectFrom(v, "unary_" \o n.op, FALSE, e, t))
    [] n.k = "Parens" -> Eval(n.e, e, s)
    [] n.k = "Ascription" -> Typed(n.t, Eval(n.e, e, s))
    [] n.k = "NewOf" -> AndThen(ArgCells(n.args, 1, <<>>, e, s), LAMBDA cs, t :
                          Instantiate(n.t.x, cs, KeywordsOf(n.args), e, t))
    [] n.k = "Tuple" -> AndThen(EvalAll(n.es, e, s), LAMBDA vs, t : Ok(<<"Tuple", vs>>, t))
    [] n.k = "Interpolation" ->
         AndThen(EvalAll(n.es, e, s), LAMBDA vs, t :
           JoinTexts(FlattenSeq([i \in DOMAIN n.lits |-> <<<<"Str", n.lits[i]>>>>
                                  \o IF i \in DOMAIN vs THEN <<vs[i]>> ELSE <<>>]), e, t))
    [] n.k = "TypeArgs" -> AndThen(Eval(n.f.q, e, s), LAMBDA v, t :
         IF n.f.x = "isInstanceOf" THEN Ok(Bool(IsA(v, n.ts[1].x, t)), t)
         ELSE IF IsA(v, n.ts[1].x, t) \/ v = NullV THEN Ok(v, t) ELSE Error("ClassCastException", t))
    [] n.k = "AssignTo" -> EvalAssign(n.target, n.v, e, s)
    [] n.k = "If" -> Test(Eval(n.c, e, s), LAMBDA b, t :
         IF Given(n.e) THEN Eval(IF b THEN n.t ELSE n.e, e, t)
         ELSE IF b THEN AndThen(Eval(n.t, e, t), LAMBDA v, u : Ok(UnitV, u)) ELSE Ok(UnitV, t))
    [] n.k = "While" -> Test(Eval(n.c, e, s), LAMBDA b, t :
         IF b THEN AndThen(Eval(n.b, e, t), LAMBDA v, u : Eval(n, e, u)) ELSE Ok(UnitV, t))
    [] n.k = "Return" -> IF ~Given(n.v) THEN R("return", UnitV, s)
                         ELSE AndThen(Eval(n.v, e, s), LAMBDA v, t : R("return", v, t))
    [] n.k = "Throw" -> AndThen(Eval(n.v, e, s), LAMBDA v, t :
         IF v = NullV THEN Error("NullPointerException", t)
         ELSE IF IsA(v, "Throwable", t) THEN R("throw", v, t) ELSE Error("IllegalArgumentException", t))
    [] n.k = "Block" -> EvalBlock(n, e, s)
    [] n.k = "Match" -> AndThen(Eval(n.v, e, s), LAMBDA v, t : Cases(n.cases, v, e, t, "match"))
    [] n.k = "Try" -> EvalTry(n, e, s)
    [] n.k = "For" -> AndThen(ForFrom(n, 1, e, s), LAMBDA vs, t : Ok(IF n.yield THEN <<"List", vs>> ELSE UnitV, t))
    [] OTHER -> Ok(Closure(n, e, FALSE), s)

\* The name by which an outcome is compared: an exception by its class.
Outcome(r) == IF r.t = "throw" /\ r.v[1] = "Obj" THEN <<"Err", r.s.objs[r.v[2]].cls>> ELSE r.v

\* A whole unit, given how its awaits end.
Run(source, aw) ==
  LET isObject(d) == d.k = "Template" /\ d.kind = "Object"
      unit == [i \in DOMAIN source |-> IF isObject(source[i]) THEN [source[i] EXCEPT !.x = ObjectName(@)] ELSE source[i]]
      names(d) == IF isObject(d) THEN <<d.x>> ELSE NamesOf(d)
      xs == FlattenSeq([i \in DOMAIN source |-> names(source[i])])
      glob == [x \in ToSet(xs) |-> CHOOSE i \in DOMAIN xs : xs[i] = x]
      e == [vars |-> <<>>, this |-> NullV, cls |-> "", glob |-> glob, unit |-> unit, args |-> <<>>, kws |-> <<>>]
      cells(d) == IF isObject(d) THEN <<Susp("lazy", NewOf(TName(d.x), <<>>), e)>> ELSE CellOf(d, e)
      s == [mem |-> FlattenSeq([i \in DOMAIN unit |-> cells(unit[i])]), objs |-> <<>>, out |-> <<>>, aw |-> aw,
            glob |-> glob, unit |-> unit]
  IN  EvalStats(unit, e, glob, s)
=============================================================================
