------------------------------ MODULE Desugar -------------------------------
(***************************************************************************)
(* The desugarer (frontend/Desugar.cpp): the parser's tree into the one    *)
(* the compiler reads.  Templates come first: enums become classes and     *)
(* companions, templates nested in objects move to the top under a dotted  *)
(* name, case classes get a companion; then every expression is rewritten. *)
(* A fresh name and the identity of a definition are made from the place   *)
(* `at` of the node in the tree, which is unique as the counters are.      *)
(***************************************************************************)
EXTENDS Syntax, SequencesExt, TLC

Call(receiver, x, arg) == Apply(Select(receiver, x), <<arg>>)
Fresh(prefix, at) == "<" \o prefix \o at \o ">"

-----------------------------------------------------------------------------
\* Written types.  Only Unit and the floating-point types change the tree.
IsUnitType(t) == t.k = "Name" /\ t.x \in {"Unit", "scala.Unit"}
IsDoubleType(t) == t.k = "Name" /\ t.x \in {"Double", "scala.Double", "Float", "scala.Float"}
WidenToDouble(e) == [Apply(Select(e, "toDouble"), <<>>) EXCEPT !.widening = TRUE]

RECURSIVE YieldsUnit(_)
YieldsUnit(n) ==
  CASE n.k = "If" -> YieldsUnit(n.t) /\ YieldsUnit(n.e)
    [] n.k = "Block" -> \/ n.stats = <<>>
                        \/ Last(n.stats).k \in {"ValDef", "DefDef", "Import"}
                        \/ YieldsUnit(Last(n.stats))
    [] OTHER -> n.k \in {"UnitLit", "While", "Assign", "Return"}
DiscardValue(e) == IF YieldsUnit(e) THEN e ELSE [Block(<<e, UnitLit>>) EXCEPT !.discard = TRUE]

\* An expression whose expected type is written.
AtType(t, e) ==
  CASE ~Given(e) -> e
    [] Given(e) /\ IsUnitType(t) -> DiscardValue(e)
    [] Given(e) /\ IsDoubleType(t) -> WidenToDouble(e)
    [] OTHER -> e

\* The node n with F(child, place) for each child expression.
Each(ns, F(_, _), place) == [i \in DOMAIN ns |-> F(ns[i], place \o ToString(i))] \o <<>>
EachCase(cs, F(_, _)) ==
  [i \in DOMAIN cs |-> [cs[i] EXCEPT !.g = F(@, "g" \o ToString(i)), !.b = F(@, "b" \o ToString(i))]]
  \o <<>>
MapChildren(n, F(_, _)) ==
  CASE n.k = "Select" -> [n EXCEPT !.q = F(@, "q")]
    [] n.k = "Apply" -> [n EXCEPT !.f = F(@, "f"), !.args = Each(@, F, "a")]
    [] n.k = "New" -> [n EXCEPT !.args = Each(@, F, "a")]
    [] n.k \in {"TypeApply", "Splice", "NamedArg", "Throw", "Return", "Assign"} ->
         [n EXCEPT !.v = F(@, "v")]
    [] n.k = "If" -> [n EXCEPT !.c = F(@, "c"), !.t = F(@, "t"), !.e = F(@, "e")]
    [] n.k = "While" -> [n EXCEPT !.c = F(@, "c"), !.b = F(@, "b")]
    [] n.k = "Block" -> [n EXCEPT !.stats = Each(@, F, "s")]
    [] n.k = "Lambda" -> [n EXCEPT !.b = F(@, "b")]
    [] n.k = "Tuple" -> [n EXCEPT !.es = Each(@, F, "e")]
    [] n.k = "ValDef" -> [n EXCEPT !.rhs = F(@, "r")]
    [] n.k = "Match" -> [n EXCEPT !.v = F(@, "v"), !.cases = EachCase(@, F)]
    [] n.k = "Try" -> [n EXCEPT !.b = F(@, "t"), !.cases = EachCase(@, F), !.f = F(@, "f")]
    [] OTHER -> n

\* The returns of a def declared Unit discard their value; those of a nested def
\* are its own.
RECURSIVE DiscardReturnValues(_)
DiscardReturnValues(n) ==
  LET m == MapChildren(n, LAMBDA c, i : DiscardReturnValues(c))
  IN  IF n.k = "Return" /\ Given(n.v) THEN [m EXCEPT !.v = DiscardValue(@)] ELSE m

-----------------------------------------------------------------------------
\* Patterns.  Types keep the name a run-time test asks about; a stable path is
\* compared like a literal.
RECURSIVE ErasePattern(_)
ErasePattern(p) ==
  LET q == IF PatternArgs(p) = <<>> THEN p
           ELSE [p EXCEPT !.args = [i \in DOMAIN @ |-> ErasePattern(@[i])] \o <<>>]
  IN  CASE p.k = "Typed" -> [q EXCEPT !.t = p.t.x]
        [] p.k = "Stable" -> LitPat(p.e)
        [] OTHER -> q

RECURSIVE Irrefutable(_)
Irrefutable(p) ==
  \/ p.k \in {"Wildcard", "Var"}
  \/ p.k \in {"Bind", "Tuple"} /\ \A i \in DOMAIN p.args : Irrefutable(p.args[i])

\* p => body: x => body, _ => body, or <p> => <p> match { case p => body }.
MatchLambda(x, cases) == Lambda(<<TParam(x, NoType)>>, Match(Ident(x), cases))
LambdaFor(p, body, at) ==
  CASE p.k = "Var" -> Lambda(<<TParam(p.x, NoType)>>, body)
    [] p.k = "Wildcard" -> Lambda(<<TParam("_", NoType)>>, body)
    [] OTHER -> MatchLambda(Fresh("p", at), <<CaseDef(p, Null, body)>>)
MatchesLambda(p, at) ==
  MatchLambda(Fresh("p", at), <<CaseDef(p, Null, BoolLit(TRUE)),
                                CaseDef(Wildcard, Null, BoolLit(FALSE))>>)

\* The pattern with a name for the whole value it matches.
BindsWhole(p) == (p.k = "Var" /\ p.x # "_") \/ p.k = "Bind"
Bound(p, at) == IF BindsWhole(p) THEN p ELSE BindPat(Fresh("b", at), p)

-----------------------------------------------------------------------------
\* For-comprehensions.  A guard and a value definition attach to the generator
\* before them.
AddEnumerator(gens, en, at) ==
  LET g == Last(gens)
      filtered(src, f) == Call(src, "withFilter", f)
      p1 == Bound(g.p, at \o "l")
      p2 == Bound(en.p, at \o "r")
      val == IF p2.k = "Var" THEN Val("Val", p2.x, NoType, en.e) ELSE PatVal("Val", p2, en.e)
      both == Block(<<val, Tuple(<<Ident(p1.x), Ident(p2.x)>>)>>)
  IN  CASE en.k = "Generator" ->
             Append(gens, [p |-> en.p, src |-> IF en.case \/ ~Irrefutable(en.p)
                                               THEN filtered(en.e, MatchesLambda(en.p, at)) ELSE en.e])
        [] en.k = "Guard" -> Append(Front(gens), [g EXCEPT !.src = filtered(@, LambdaFor(g.p, en.e, at))])
        [] OTHER -> Append(Front(gens), [p |-> TuplePat(<<p1, p2>>),
                                         src |-> Call(g.src, "map", LambdaFor(p1, both, at))])

RECURSIVE FoldGenerators(_, _, _, _)
FoldGenerators(gens, body, yield, at) ==
  LET last == Len(gens) = 1
      inner == IF last THEN body ELSE FoldGenerators(Tail(gens), body, yield, at \o "i")
      method == IF ~yield THEN "foreach" ELSE IF last THEN "map" ELSE "flatMap"
  IN  Call(Head(gens).src, method, LambdaFor(Head(gens).p, inner, at))

ForExpr(n, at) ==
  LET add(gens, i) == AddEnumerator(gens, n.enums[i], at \o "n" \o ToString(i))
  IN  FoldGenerators(FoldLeft(add, <<>>, [i \in DOMAIN n.enums |-> i]), n.b, n.yield, at)

\* val p = e: one match, whose variables are then selected from its tuple.
ExpandPatternVal(v, at) ==
  LET xs == PatternVariables(v.p)
      ids == [i \in DOMAIN xs |-> Ident(xs[i])] \o <<>>
      value == CASE xs = <<>> -> UnitLit [] Len(xs) = 1 -> ids[1] [] OTHER -> Tuple(ids)
      m == Match(v.rhs, <<CaseDef(v.p, Null, value)>>)
      kind == IF v.kind = "Var" THEN "Var" ELSE "Val"
      val(x, rhs) == [Val(kind, x, NoType, rhs) EXCEPT !.mods = v.mods]
      temp == Fresh("t", at)
  IN  CASE xs = <<>> -> <<m>>
        [] Len(xs) = 1 -> <<val(xs[1], m)>>
        [] OTHER -> <<val(temp, m)>> \o
                    [i \in DOMAIN xs |-> val(xs[i], Select(Ident(temp), "_" \o ToString(i)))]
ExpandPatternVals(ss, at) ==
  FlattenSeq([i \in DOMAIN ss |-> IF ss[i].k = "PatVal" THEN ExpandPatternVal(ss[i], at \o ToString(i))
                                  ELSE <<ss[i]>>])

-----------------------------------------------------------------------------
\* Operators.  Both operands are desugared.
RECURSIVE IsSimplePath(_)
IsSimplePath(n) == n.k = "Ident" \/ (n.k = "Select" /\ IsSimplePath(n.q))
IsSimpleOperand(n) ==
  n.k \in {"Ident", "IntLit", "FloatLit", "StringLit", "CharLit", "BoolLit", "NullLit"}

\* Mutant: a right-associative operator evaluates its right operand first.
InfixOfRightFirst(l, op, r, at) ==
  LET base == SubSeq(op, 1, Len(op) - 1)
  IN  CASE IsAssignmentOperator(op) /\ l.k = "Ident" -> Assign(l.x, Call(l, base, r))
        [] IsAssignmentOperator(op) /\ l.k = "Select" /\ IsSimplePath(l) ->
             Call(l.q, l.x \o "_=", Call(l, base, r))
        [] ~IsAssignmentOperator(op) /\ IsRightAssociative(op) -> Call(r, op, l)
        [] OTHER -> Call(l, op, r)
InfixOf(l, op, r, at) ==
  LET base == SubSeq(op, 1, Len(op) - 1)
      temp == Fresh("ra", at)
  IN  CASE IsAssignmentOperator(op) /\ l.k = "Ident" -> Assign(l.x, Call(l, base, r))
        [] IsAssignmentOperator(op) /\ l.k = "Select" /\ IsSimplePath(l) ->
             Call(l.q, l.x \o "_=", Call(l, base, r))
        [] ~IsAssignmentOperator(op) /\ IsRightAssociative(op) ->
             IF IsSimpleOperand(l) THEN Call(r, op, l)
             ELSE Block(<<Shadow(ValDef(temp, l), temp), Call(r, op, Ident(temp))>>)
        [] OTHER -> Call(l, op, r)

\* s, raw and f strings keep their pieces; any other interpolator is a method of
\* a StringContext.
RECURSIVE Pieces(_, _)
Pieces(lits, es) ==
  (IF Head(lits) = "" THEN <<>> ELSE <<StringLit(Head(lits))>>)
  \o IF es = <<>> THEN <<>> ELSE <<Head(es)>> \o Pieces(Tail(lits), Tail(es))
InterpolationOf(n, es) ==
  IF n.x \in {"s", "raw", "f"} THEN InterpString(Pieces(n.lits, es))
  ELSE Apply(Select(New("StringContext", [i \in DOMAIN n.lits |-> StringLit(n.lits[i])] \o <<>>), n.x), es)

-----------------------------------------------------------------------------
RECURSIVE Expr(_, _)

Params(ps, at) ==
  [i \in DOMAIN ps |->
    [x |-> ps[i].x, byName |-> ps[i].byName, rep |-> ps[i].rep, field |-> ps[i].field,
     double |-> IsDoubleType(ps[i].t), mods |-> ps[i].mods, dflt |-> Expr(ps[i].dflt, at \o "p" \o ToString(i))]] \o <<>>
Exprs(ns, at) == Each(ns, Expr, at)
Stats(ss, at) == Exprs(ExpandPatternVals(ss, at), at)

\* def f(a)(b)(c) = e: def f(a) = (b) => (c) => e.
DefOf(d, at) ==
  LET b == Expr(d.b, at \o "b")
      body == AtType(d.t, IF IsUnitType(d.t) THEN DiscardReturnValues(b) ELSE b)
      lists == [i \in DOMAIN d.lists |-> Params(d.lists[i], at \o ToString(i))] \o <<>>
  IN  IF lists = <<>>
      THEN [ParamlessDef(d.x, body) EXCEPT !.id = @ \o at, !.mods = d.mods]
      ELSE [DefDef(d.x, lists[1], FoldRight(CurriedLambda, Tail(lists), body)) EXCEPT
              !.id = @ \o at, !.mods = d.mods, !.tailrec = "tailrec" \in ToSet(d.notes)]

TemplateOf(t, at) ==
  LET args == [k \in DOMAIN t.parents |-> Exprs(t.parents[k].args, at \o "x" \o ToString(k))]
      names == [k \in DOMAIN t.parents |-> t.parents[k].t.x]
  IN  [TemplateDef(t.kind, t.x, Params(t.ps, at), names \o <<>>, args \o <<>>, Stats(t.body, at)) EXCEPT
         !.isCase = t.isCase, !.mods = t.mods]

AssignOf(target, v, at) ==
  CASE target.k = "Select" -> Expr(Call(target.q, target.x \o "_=", v), at)
    [] target.k = "Apply" -> Expr(Apply(Select(target.f, "update"), Append(target.args, v)), at)
    [] OTHER -> Assign(target.x, Expr(v, at \o "v"))

TypeArgsOf(n, at) ==
  IF n.f.k = "Select" /\ n.f.x \in {"isInstanceOf", "asInstanceOf"}
  THEN [IsInstance(Expr(n.f.q, at \o "q"), n.ts[1].x) EXCEPT !.cast = n.f.x = "asInstanceOf"]
  ELSE Expr(n.f, at \o "f")

\* The rewriting of a node in place: every kind not named here keeps its shape.
Expr(n, at) ==
  LET e(c, i) == Expr(c, at \o i)
      m == MapChildren(n, e)
      erased(cs) == [i \in DOMAIN cs |-> [cs[i] EXCEPT !.p = ErasePattern(@)]] \o <<>>
  IN  CASE n.k = "Infix" -> InfixOf(e(n.l, "l"), n.op, e(n.r, "r"), at)
        [] n.k = "Prefix" -> Select(e(n.e, "e"), "unary_" \o n.op)
        [] n.k = "Parens" -> e(n.e, "e")
        [] n.k = "Ascription" -> AtType(n.t, e(n.e, "e"))
        [] n.k = "If" /\ ~Given(n.e) -> If(m.c, DiscardValue(m.t), UnitLit)
        [] n.k = "TypeArgs" -> TypeArgsOf(n, at)
        [] n.k = "AssignTo" -> AssignOf(n.target, n.v, at)
        [] n.k = "Block" -> Block(Stats(n.stats, at \o "s"))
        [] n.k = "Lambda" -> [m EXCEPT !.ps = Params(@, at)]
        [] n.k = "Val" -> [ValDef(n.x, AtType(n.t, e(n.rhs, "r"))) EXCEPT
                             !.kind = n.kind, !.id = @ \o at, !.mods = n.mods]
        [] n.k = "Def" -> DefOf(n, at)
        [] n.k = "Template" -> TemplateOf(n, at)
        [] n.k = "NewOf" -> New(n.t.x, Exprs(n.args, at))
        [] n.k \in {"Match", "Try"} -> [m EXCEPT !.cases = erased(@)]
        [] n.k = "For" -> Expr(ForExpr(n, at), at)
        [] n.k = "Interpolation" -> InterpolationOf(n, Exprs(n.es, at))
        [] OTHER -> m

-----------------------------------------------------------------------------
\* Enums: a sealed class with the marker trait Enum, and a companion with a case
\* object or a case class per case and the methods values, valueOf, fromOrdinal.
IsTemplate(n) == n.k = "Template"
IsObject(n) == IsTemplate(n) /\ n.kind = "Object"

\* if (tests[1]) cs[1] else ... else e.
Chain(cs, tests, e) == FoldRightDomain(LAMBDA i, rest : If(tests[i], Ident(cs[i]), rest), cs, e)
Failure(t, text, x) == Throw(NewOf(TName(t), <<Infix(StringLit(text), "+", Ident(x))>>))
GeneratedMethods(x, singletons, all) ==
  LET listed == FoldRight(LAMBDA c, rest : Infix(Ident(c), "::", rest), singletons, Ident("Nil"))
      named == [i \in DOMAIN singletons |-> Infix(Ident("name"), "==", StringLit(singletons[i]))]
      numbered == [i \in DOMAIN singletons |->
                     Infix(Ident("n"), "==", Select(Ident(singletons[i]), "ordinal"))]
      valueOf == Chain(singletons, named, Failure("IllegalArgumentException",
                                                  "enum " \o x \o " has no case with name: ", "name"))
      fromOrdinal == Chain(singletons, numbered,
                           Failure("NoSuchElementException",
                                   "enum " \o x \o " has no case with ordinal: ", "n"))
  IN  (IF all THEN <<Def("values", <<>>, TApplied("List", <<TName(x)>>), listed),
                     Def("valueOf", <<<<TParam("name", TName("String"))>>>>, TName(x), valueOf)>>
       ELSE <<>>)
      \o <<Def("fromOrdinal", <<<<TParam("n", TName("Int"))>>>>, TName(x), fromOrdinal)>>

ExpandEnum(e) ==
  LET cases == e.cases
      singleton(c) == c.ps = <<>> /\ ~c.parens
      template(i) ==
        [Template(IF singleton(cases[i]) THEN "Object" ELSE "Class", cases[i].x, cases[i].ps,
                  <<Parent(TName(e.x), cases[i].args)>>,
                  <<Val("Val", "ordinal", TName("Int"), IntLit(i - 1))>>) EXCEPT !.isCase = TRUE]
      singletons == SelectSeq(cases, singleton)
      names == [i \in DOMAIN singletons |-> singletons[i].x]
  IN  <<[e EXCEPT !.kind = "Class", !.mods = @ \cup {"abstract", "sealed"}, !.cases = <<>>,
                  !.parents = Append(@, Parent(TName("@Enum"), <<>>))],
        [Template("Object", e.x, <<>>, <<>>,
                  [i \in DOMAIN cases |-> template(i)]
                  \o GeneratedMethods(e.x, names, Len(singletons) = Len(cases)))
           EXCEPT !.mods = {"enumCompanion"}]>>

\* The generated companion absorbs the object of its name.
MergeEnumCompanions(ss) ==
  LET generated(i) == IsObject(ss[i]) /\ "enumCompanion" \in ss[i].mods
      users(i) == {j \in DOMAIN ss : IsObject(ss[j]) /\ ss[j].x = ss[i].x /\ ~generated(j)}
      absorbs == {i \in DOMAIN ss : generated(i) /\ users(i) # {}}
      user(i) == ss[Min(users(i))]
      absorbed == {Min(users(i)) : i \in absorbs}
  IN  FlattenSeq([i \in DOMAIN ss |->
        CASE i \in absorbed -> <<>>
          [] i \in absorbs -> <<[ss[i] EXCEPT !.mods = user(i).mods, !.isCase = user(i).isCase,
                                              !.self = user(i).self, !.parents = user(i).parents,
                                              !.body = @ \o user(i).body]>>
          [] OTHER -> <<ss[i]>>])

RECURSIVE ExpandEnums(_)
ExpandEnums(ss) ==
  MergeEnumCompanions(FlattenSeq([i \in DOMAIN ss |->
    IF ~IsTemplate(ss[i]) THEN <<ss[i]>>
    ELSE IF ss[i].kind = "Enum" THEN ExpandEnum(ss[i])
    ELSE <<[ss[i] EXCEPT !.body = ExpandEnums(@)]>>]))

-----------------------------------------------------------------------------
\* A template nested in an object moves to the top as O.C, before the object.
TemplateNames(ss) == {ss[i].x : i \in {j \in DOMAIN ss : IsTemplate(ss[j])}}

\* A parent named like a template of an enclosing scope, the innermost first.
QualifySibling(t, scopes) ==
  LET known == {i \in DOMAIN scopes : t.x \in scopes[i].names}
  IN  IF t.k \notin {"Name", "Applied"} \/ known = {} \/ scopes[Max(known)].prefix = "" THEN t
      ELSE [t EXCEPT !.x = scopes[Max(known)].prefix \o "." \o @]

\* err: a class or a trait nests a template.
RECURSIVE LiftFrom(_, _)
LiftFrom(t, enclosing) ==
  LET scopes == Append(enclosing, [prefix |-> t.x, names |-> TemplateNames(t.body)])
      qualified(n) ==
        [n EXCEPT !.x = t.x \o "." \o @,
                  !.parents = [k \in DOMAIN @ |-> [@[k] EXCEPT !.t = QualifySibling(@, scopes)]] \o <<>>]
      lift(acc, n) ==
        IF ~IsTemplate(n) THEN [acc EXCEPT !.t.body = Append(@, n)]
        ELSE LET r == LiftFrom(qualified(n), scopes)
             IN  [acc EXCEPT !.err = @ \/ t.kind # "Object" \/ r.err, !.out = @ \o Append(r.out, r.t)]
  IN  FoldLeft(lift, [err |-> FALSE, out |-> <<>>, t |-> [t EXCEPT !.body = <<>>]], t.body)

LiftNestedTemplates(ss) ==
  LET unit == <<[prefix |-> "", names |-> TemplateNames(ss)]>>
      lift(acc, n) ==
        IF ~IsTemplate(n) THEN [acc EXCEPT !.stats = Append(@, n)]
        ELSE LET r == LiftFrom(n, unit)
             IN  [err |-> acc.err \/ r.err, out |-> acc.out \o r.out, stats |-> Append(acc.stats, r.t)]
      all == FoldLeft(lift, [err |-> FALSE, out |-> <<>>, stats |-> <<>>], ss)
  IN  [err |-> all.err, stats |-> all.out \o all.stats]

-----------------------------------------------------------------------------
\* The companion of a case class, with apply and unapply unless it defines them.
Synthetic(d) == [d EXCEPT !.mods = {"synthetic"}]
SyntheticApply(c) ==
  LET p(i) == [TParam(c.ps[i].x, c.ps[i].t) EXCEPT !.rep = c.ps[i].rep]
      arg(i) == IF c.ps[i].rep THEN Splice(Ident(c.ps[i].x)) ELSE Ident(c.ps[i].x)
  IN  Synthetic(Def("apply", <<[i \in DOMAIN c.ps |-> p(i)] \o <<>>>>, NoType,
                    NewOf(TName(c.x), [i \in DOMAIN c.ps |-> arg(i)] \o <<>>)))
SyntheticUnapply == Synthetic(Def("unapply", <<<<TParam("<u>", NoType)>>>>, NoType, Ident("<u>")))

SynthesizeCompanion(ss, c) ==
  LET companions(s) == {i \in DOMAIN s : IsObject(s[i]) /\ s[i].x = c.x}
      at == CHOOSE i \in DOMAIN ss : IsTemplate(ss[i]) /\ ss[i].kind = "Class" /\ ss[i].x = c.x
      with == IF companions(ss) # {} THEN ss
              ELSE InsertAt(ss, at + 1, Template("Object", c.x, <<>>, <<>>, <<>>))
      companion == Max(companions(with))
      defines(x) == \E i \in DOMAIN with[companion].body :
                      with[companion].body[i].k = "Def" /\ with[companion].body[i].x = x
      missing(x, d) == IF defines(x) THEN <<>> ELSE <<d>>
  IN  [with EXCEPT ![companion].body = @ \o missing("apply", SyntheticApply(c))
                                         \o missing("unapply", SyntheticUnapply)]
SynthesizeCompanions(ss) ==
  FoldLeft(SynthesizeCompanion, ss,
           SelectSeq(ss, LAMBDA n : IsTemplate(n) /\ n.isCase /\ n.kind = "Class"))

\* desugar: an error, or the statements for the compiler.
DesugarUnit(unit) ==
  LET lifted == LiftNestedTemplates(ExpandEnums(unit))
  IN  [err |-> lifted.err, stats |-> Stats(SynthesizeCompanions(lifted.stats), "")]
=============================================================================
