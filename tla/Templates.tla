----------------------------- MODULE Templates ------------------------------
(***************************************************************************)
(* Classes, traits and objects (compiler/CompileTemplates.cpp, ClassInfo.h,*)
(* frontend/Linearizer.cpp) and the compilation of a whole unit            *)
(* (Compiler::compileUnit).  A type is known by its name; the class of     *)
(* object O is "O.type".  A type key is the name with '@' before it.       *)
(***************************************************************************)
EXTENDS Compiler

TypeKey(x) == "@" \o x
PrivateKey(type, x) == type \o "::" \o x
SetterName(x) == x \o "_="

\* linearize: self first, then the later parents before the earlier ones, each
\* type once, at its last possible place.
RECURSIVE MergeParents(_, _)
MergeParents(lins, acc) ==
  IF lins = <<>> THEN acc
  ELSE MergeParents(Tail(lins), SelectSeq(Head(lins), LAMBDA x : x \notin ToSet(acc)) \o acc)
Linearize(self, lins) ==
  <<self>> \o SelectSeq(IF lins = <<>> THEN <<>> ELSE MergeParents(Tail(lins), Head(lins)),
                        LAMBDA x : x # self)

BuiltinType0(x, kind, lin) ==
  [name |-> x, key |-> TypeKey(x), kind |-> kind, isCase |-> FALSE, abstract |-> TRUE,
   final |-> FALSE, builtin |-> TRUE, mutable |-> FALSE, hasInit |-> FALSE,
   lin |-> lin, fields |-> <<>>, arity |-> 0, minArity |-> 0, variadic |-> FALSE, masks |-> {},
   aux |-> {}, members |-> <<>>, companion |-> {}]

Member(kind, key, concrete, masks, thunk) ==
  [kind |-> kind, key |-> key, concrete |-> concrete, masks |-> masks, thunk |-> thunk]

\* Every enum has the trait Enum, known by its key alone, which leaves ordinal to
\* the cases.
BuiltinTypes ==
  [x \in {"Any", "AnyRef", "Product", "@Enum"} |->
    CASE x = "Any" -> BuiltinType0("Any", "Class", <<"Any">>)
      [] x = "AnyRef" -> BuiltinType0("AnyRef", "Class", <<"AnyRef", "Any">>)
      [] x = "Product" -> BuiltinType0("Product", "Trait", <<"Product", "AnyRef", "Any">>)
      [] OTHER -> [BuiltinType0("@Enum", "Trait", <<"@Enum", "AnyRef", "Any">>) EXCEPT
                     !.members = "ordinal" :> Member("ParamlessDef", "ordinal", FALSE, <<>>, FALSE)]]

-----------------------------------------------------------------------------
\* buildClassInfo.
TypeName(t) == IF t.kind = "Object" THEN t.x \o ".type" ELSE t.x

\* The first class of a linearization after the type itself: its superclass.
SuperclassOf(lin, types) ==
  LET is == {i \in 2..Len(lin) : types[lin[i]].kind = "Class" /\ ~types[lin[i]].builtin}
  IN  IF is = {} THEN "" ELSE lin[CHOOSE i \in is : \A j \in is : i <= j]

LegalParents(t, types) ==
  \A k \in DOMAIN t.parents :
    LET p == types[t.parents[k]]
    IN  /\ p.kind # "Object" /\ ~p.final
        /\ k > 1 => p.kind = "Trait"
        /\ ~(t.isCase /\ p.isCase /\ p.kind = "Class")
        /\ t.args # <<>> /\ t.args[k] # <<>> =>
             t.kind # "Trait" /\ (p.kind = "Trait" => p.arity > 0)

\* The classes among the base types form one chain.
SingleSuperclass(t, lin, types) ==
  LET base == IF t.parents # <<>> /\ types[t.parents[1]].kind = "Class" THEN t.parents[1]
              ELSE SuperclassOf(lin, types)
  IN  \A i \in 2..Len(lin) :
        types[lin[i]].kind = "Class" /\ ~types[lin[i]].builtin
        => base # "" /\ lin[i] \in ToSet(types[base].lin)

PublicMembers(c) == {x \in DOMAIN c.members : c.members[x].key = x}
InheritedMembers(lin, types) ==
  LET has(x) == {i \in 2..Len(lin) : x \in PublicMembers(types[lin[i]])}
      first(x) == CHOOSE i \in has(x) : \A j \in has(x) : i <= j
  IN  [x \in UNION {PublicMembers(types[lin[i]]) : i \in 2..Len(lin)} |->
        [types[lin[first(x)]].members[x] EXCEPT
           !.concrete = \E i \in has(x) : types[lin[i]].members[x].concrete]]

\* What the template itself declares: [x, kind, public, concrete, member, ...].
Own(x, kind, mods, public, concrete, member, masks, thunk) ==
  [x |-> x, kind |-> kind, mods |-> mods, public |-> public, concrete |-> concrete,
   member |-> member, masks |-> masks, thunk |-> thunk]

OwnOfParam(t, p) ==
  LET isMember == p.field # "" \/ t.isCase
      public == isMember /\ "private" \notin p.mods
      kind == IF p.field = "Var" THEN "Var" ELSE "Val"
  IN  <<Own(p.x, kind, p.mods, public, TRUE, isMember, <<>>, p.byName)>>
      \o IF kind = "Var" THEN <<Own(SetterName(p.x), "Def", p.mods, public, TRUE, FALSE, <<>>, FALSE)>>
         ELSE <<>>

OwnOfStat(n) ==
  LET public == "private" \notin n.mods
  IN  CASE n.k = "ValDef" ->
             <<Own(n.x, n.kind, n.mods, public, Given(n.rhs), TRUE, <<>>, FALSE)>>
             \o IF n.kind = "Var"
                THEN <<Own(SetterName(n.x), "Def", n.mods, public, Given(n.rhs), FALSE, <<>>, FALSE)>>
                ELSE <<>>
        [] n.k = "DefDef" /\ n.x # "this" ->
             <<Own(n.x, KindOf(n), n.mods, public, Given(n.b), TRUE,
                   IF Given(n.b) THEN MasksOfDef(n) ELSE <<>>, FALSE)>>
        [] OTHER -> <<>>

OwnMembers(t) ==
  FlattenSeq([i \in DOMAIN t.ps |-> OwnOfParam(t, t.ps[i])])
  \o FlattenSeq([i \in DOMAIN t.body |-> OwnOfStat(t.body[i])])

\* addOwn's rules for a member that takes an inherited one's place.
LegalOverride(o, inh) ==
  LET m == inh[o.x]
      isDef == o.kind \in {"Def", "ParamlessDef"}
      stable == m.kind \in {"Val", "Var", "LazyVal"}
  IN  o.x \in DOMAIN inh =>
        /\ "private" \notin o.mods
        /\ o.member =>
             /\ (isDef \/ o.kind = "Var") /\ stable => o.kind = "Var" /\ m.kind = "Var"
             /\ o.kind = "Var" => "override" \notin o.mods /\ ~m.concrete
             /\ m.concrete => "override" \in o.mods

AddOwn(type, own, inh) ==
  LET info(o) == Member(o.kind, IF o.public THEN o.x ELSE PrivateKey(type, o.x),
                        o.concrete \/ (o.x \in DOMAIN inh /\ inh[o.x].concrete), o.masks, o.thunk)
  IN  [x \in {own[i].x : i \in DOMAIN own} |->
         info(own[CHOOSE i \in DOMAIN own : own[i].x = x])] @@ inh

AuxDefs(t) == SelectSeq(t.body, LAMBDA n : n.k = "DefDef" /\ n.x = "this")
ProductMembers(fields) ==
  [x \in {Field(k) : k \in DOMAIN fields} |-> Member("ParamlessDef", x, TRUE, <<>>, FALSE)]

IsStatement(n) == n.k \notin {"ValDef", "DefDef"}
BuildClassInfo(t, types) ==
  LET x == TypeName(t)
      lin == Linearize(x, IF t.parents = <<>> THEN <<<<"AnyRef", "Any">>>>
                          ELSE [k \in DOMAIN t.parents |-> types[t.parents[k]].lin])
      inh == InheritedMembers(lin, types)
      own == OwnMembers(t)
      mem == AddOwn(x, own, inh)
      fields == IF t.isCase THEN [i \in DOMAIN t.ps |-> mem[t.ps[i].x].key] ELSE <<>>
      members == IF t.isCase /\ t.kind = "Class" THEN ProductMembers(fields) @@ mem ELSE mem
      aux == AuxDefs(t)
      arity == Len(t.ps)
      trailing == {i \in 0..arity : \A j \in (i + 1)..arity : Given(t.ps[j].dflt)}
      abstract == "abstract" \in t.mods \/ t.kind = "Trait"
      hasVar == \E i \in DOMAIN own : own[i].kind = "Var"
      ok == /\ LegalParents(t, types)
            /\ SingleSuperclass(t, lin, types)
            /\ \A i, j \in DOMAIN own : own[i].x = own[j].x => i = j
            /\ \A i \in DOMAIN own : LegalOverride(own[i], inh)
            /\ \A i \in DOMAIN t.ps : t.ps[i].byName => t.ps[i].field = "" /\ ~t.isCase
            /\ aux # <<>> => t.kind = "Class"
            /\ \A i, j \in DOMAIN aux : Len(aux[i].ps) = Len(aux[j].ps) => i = j
            /\ \A i \in DOMAIN aux : Len(aux[i].ps) # arity
            /\ abstract \/ \A m \in DOMAIN members : members[m].concrete
  IN  [ok |-> ok, info |->
        [name |-> x, key |-> TypeKey(x), kind |-> t.kind, isCase |-> t.isCase,
         abstract |-> abstract, final |-> "final" \in t.mods \/ t.kind = "Object", builtin |-> FALSE,
         mutable |-> hasVar \/ \E i \in 2..Len(lin) : types[lin[i]].mutable,
         hasInit |-> \/ t.kind # "Trait" \/ t.ps # <<>>
                     \/ \E i \in DOMAIN t.body : IsStatement(t.body[i]) \/
                          (t.body[i].k = "ValDef" /\ Given(t.body[i].rhs)),
         lin |-> lin, fields |-> fields, arity |-> arity,
         minArity |-> CHOOSE i \in trailing : \A j \in trailing : i <= j,
         variadic |-> t.ps # <<>> /\ Last(t.ps).rep, masks |-> MaskOfParams(t.ps),
         aux |-> {Len(aux[i].ps) : i \in DOMAIN aux}, members |-> members, companion |-> {}]]

\* sortTemplates: parents first; a cycle is an error (no order exists).
RECURSIVE Visit(_, _, _)
Visit(x, ts, r) ==
  LET is == {i \in DOMAIN ts : ts[i].kind # "Object" /\ ts[i].x = x}
      t == ts[CHOOSE i \in is : TRUE]
      visit(acc, p) == Visit(p, ts, acc)
  IN  IF is = {} \/ x \in r.done THEN r
      ELSE IF x \in r.visiting THEN [r EXCEPT !.cyclic = TRUE]
      ELSE LET q == FoldLeft(visit, [r EXCEPT !.visiting = @ \cup {x}], t.parents)
           IN  [q EXCEPT !.done = @ \cup {x}, !.out = Append(@, t)]
SortTemplates(ts) ==
  LET visit(acc, t) == IF t.kind # "Object" THEN Visit(t.x, ts, acc)
                       ELSE LET q == FoldLeft(LAMBDA a, p : Visit(p, ts, a), acc, t.parents)
                            IN  [q EXCEPT !.out = Append(@, t)]
  IN  FoldLeft(visit, [done |-> {}, visiting |-> {}, cyclic |-> FALSE, out |-> <<>>], ts)

\* linkCompanions: what the companion object defines itself.
LinkCompanions(ts, types) ==
  LET companions(x) == {i \in DOMAIN ts : ts[i].kind = "Object" /\ ts[i].x = x}
      written(body) == {body[j].x : j \in {k \in DOMAIN body : body[k].k = "DefDef"
                                                            /\ "synthetic" \notin body[k].mods}}
  IN  [x \in DOMAIN types |-> [types[x] EXCEPT !.companion =
                                UNION {written(ts[i].body) : i \in companions(x)}]]

\* The prototype chain: Product's natives go right before AnyRef.
RuntimeChain(c, types) ==
  LET chain == Tail(c.lin)
      product == c.isCase \/ \E i \in DOMAIN chain : types[chain[i]].isCase
      at == CHOOSE i \in DOMAIN chain : chain[i] = "AnyRef"
  IN  IF product /\ "Product" \notin ToSet(chain)
      THEN SubSeq(chain, 1, at - 1) \o <<"Product">> \o SubSeq(chain, at, Len(chain)) ELSE chain

-----------------------------------------------------------------------------
\* compileTemplate and what it is made of.
CompileMethod(d, s) ==
  LET overridable == "private" \notin d.mods /\ "final" \notin d.mods
                     /\ s.types[s.owner].kind # "Object" /\ ~s.types[s.owner].final
      tailrec == d.tailrec /\ ~d.paramless
  IN  CompileFunction(d, "Method", IF tailrec THEN TailTarget(d, "Member") ELSE NoTail,
                      Require(~(tailrec /\ overridable), "it can be overridden", s))

\* x_=(this, v): a finished module without captures, pushed as a function.
RawFunction(code, arity, slots, max) ==
  [code |-> code, handlers |-> <<>>, caps |-> <<>>, arity |-> arity, slots |-> slots, max |-> max,
   names |-> <<>>, dflts |-> <<>>, method |-> TRUE, variadic |-> FALSE, paramless |-> FALSE]
PushRaw(mod, s) ==
  LET t == [s EXCEPT !.mods = Append(@, mod)]
  IN  Emit("MAKE_FN", [mod |-> Len(t.mods), caps |-> 0], t)
Instr(op, a, d) == [op |-> op, a |-> a, d |-> d]

CompileSetter(key, s) ==
  PushRaw(RawFunction(<<Instr("PUSH_LOCAL", 0, 0), Instr("PUSH_LOCAL", 1, 1),
                        Instr("SET_FIELD", key, 2), Instr("PUSH_UNIT", 0, 0),
                        Instr("RETURN", 0, 1)>>, 2, 2, 2), s)

\* object O: a lazy whose thunk instantiates the class.
CompileObjectHolder(x, s) ==
  Emit("STORE_GLOBAL", x, Emit("MAKE_LAZY", 0,
    PushRaw([RawFunction(<<Instr("PUSH_GLOBAL", TypeKey(x \o ".type"), 0),
                           Instr("NEW", Site("<init>", 0, <<>>), 1),
                           Instr("RETURN", 0, 1)>>, 0, 0, 1) EXCEPT !.method = FALSE], s)))

\* target.<init>(this, args); the `this` it returns replaces slot 0.
CompileInitCall(x, args, s) ==
  LET c == s.types[x]
      key == IF c.kind = "Trait" THEN "<init>" ELSE CtorKeyFor(c, Len(args))
      t == CompileAll(args, Emit("PUSH_LOCAL", 0, Emit("PUSH_GLOBAL", c.key, s)))
  IN  Emit("STORE_LOCAL", 0, Emit("INVOKE_INIT", Site(key, Len(args), <<>>),
        Require(key # "" /\ ~HasSplice(args) /\ ~IsNamed(args), "constructor arguments", t)))

StoreOwn(op, key, slot, s) == Emit(op, key, Emit("PUSH_LOCAL", slot, s))

RECURSIVE PushSlots(_, _, _)
PushSlots(k, n, s) == IF k > n THEN s ELSE PushSlots(k + 1, n, Emit("PUSH_LOCAL", k, s))

\* The parameter fields, before the superclass's constructor: one group when
\* there are two or more.
StoreParamFields(t, c, s) ==
  LET keys == [k \in DOMAIN t.ps |-> c.members[t.ps[k].x].key]
  IN  CASE keys = <<>> -> s
        [] Len(keys) = 1 -> StoreOwn("STORE_FIELD_IF_NEW", keys[1], 1, s)
        [] OTHER -> Emit("STORE_FIELDS_IF_NEW", keys, PushSlots(1, Len(keys), s))

ArgsFor(t, x) ==
  IF t.args # <<>> /\ \E k \in DOMAIN t.parents : t.parents[k] = x
  THEN t.args[CHOOSE k \in DOMAIN t.parents : t.parents[k] = x] ELSE <<>>

\* The superclass's initialiser, then those of the traits it does not cover,
\* the least specific first.
InitChain(t, c, s) ==
  LET super == SuperclassOf(c.lin, s.types)
      covered == IF super = "" THEN {} ELSE ToSet(s.types[super].lin)
      isTrait(x) == s.types[x].kind = "Trait" /\ s.types[x].hasInit
      traits == SelectSeq(Reverse(Tail(c.lin)), LAMBDA x : x \notin covered /\ isTrait(x))
      direct == t.parents # <<>> /\ t.parents[1] = super
      a == IF super = "" THEN s
           ELSE CompileInitCall(super, IF direct THEN ArgsFor(t, super) ELSE <<>>, s)
      init(acc, x) == CompileInitCall(x, ArgsFor(t, x),
                        Require(Len(ArgsFor(t, x)) = s.types[x].arity, "trait arguments", acc))
  IN  IF t.kind = "Trait" THEN s ELSE FoldLeft(init, a, traits)

\* A public parameter field that overrides a concrete inherited member is
\* stored again after the chain.
Reassigned(t, c, types) ==
  SelectSeq([k \in DOMAIN t.ps |-> k], LAMBDA k :
    /\ c.members[t.ps[k].x].key = t.ps[k].x
    /\ \E j \in 2..Len(c.lin) : LET m == types[c.lin[j]].members
                                IN  /\ t.ps[k].x \in PublicMembers(types[c.lin[j]])
                                    /\ m[t.ps[k].x].concrete)

LazyHolder(c, n, s) ==
  IF n.k = "ValDef" /\ n.kind = "LazyVal"
  THEN Emit("STORE_FIELD", c.members[n.x].key, Emit("MAKE_LAZY", 0,
         CompileFunctionWith(Lambda(<<>>, n.rhs), "Method", FALSE, NoTail, s)))
  ELSE s
TemplateStat(c, n, s) ==
  CASE n.k = "ValDef" /\ n.kind # "LazyVal" /\ Given(n.rhs) ->
         Emit("STORE_FIELD", c.members[n.x].key, CompileExpr(n.rhs, s))
    [] IsStatement(n) -> Emit("POP", 0, CompileExpr(n, s))
    [] OTHER -> s

\* What the constructor's own frame evaluates, for the capture analysis.
ConstructorExprs(t) ==
  FlattenSeq(t.args) \o
  FlattenSeq([i \in DOMAIN t.body |->
    LET n == t.body[i]
    IN  CASE n.k = "ValDef" -> IF n.kind # "LazyVal" /\ Given(n.rhs) THEN <<n.rhs>> ELSE <<>>
          [] IsStatement(n) -> <<n>>
          [] OTHER -> <<>>])

ConstructorFn(ps, byName) ==
  [NewFunction(0, FALSE) EXCEPT !.method = TRUE, !.next = 1 + Len(ps),
     !.scopes = <<BindParams(ps, 1, byName) @@ ("this" :> LocalInfo(0, "Param", FALSE, <<>>))>>]

FinishConstructor(ps, s) ==
  IF Abandoned(s) THEN s
  ELSE LET t == FinishFunction(ps, FALSE, Emit("RETURN", 0, Emit("PUSH_LOCAL", 0, s)))
       IN  Emit("MAKE_FN", [mod |-> Len(t.mods), caps |-> 0], t)

RECURSIVE LazyHolders(_, _, _), TemplateStats(_, _, _)
LazyHolders(c, body, s) ==
  IF body = <<>> \/ Abandoned(s) THEN s ELSE LazyHolders(c, Tail(body), LazyHolder(c, Head(body), s))
TemplateStats(c, body, s) ==
  IF body = <<>> \/ Abandoned(s) THEN s ELSE TemplateStats(c, Tail(body), TemplateStat(c, Head(body), s))

RECURSIVE AnalyseAll(_, _, _)
AnalyseAll(ps, es, s) ==
  IF es = <<>> \/ Abandoned(s) THEN s ELSE AnalyseAll(ps, Tail(es), AnalyseCaptures(ps, Head(es), s))

CompileConstructor(t, c, s) ==
  IF Abandoned(s) THEN s
  ELSE LET a == AnalyseAll(t.ps, ConstructorExprs(t), PushFn(ConstructorFn(t.ps, TRUE), s))
           b == InitChain(t, c, StoreParamFields(t, c, WidenDoubleParams(t.ps, 1, a)))
           d == FoldLeft(LAMBDA acc, k : StoreOwn("STORE_FIELD", t.ps[k].x, k, acc),
                         b, Reassigned(t, c, s.types))
       IN  FinishConstructor(t.ps, TemplateStats(c, t.body, LazyHolders(c, t.body, d)))

\* def this(ps) = { this(args); stats }.
CompileAuxConstructor(d, c, s) ==
  IF Abandoned(s) THEN s
  ELSE LET block == d.b.k = "Block"
           first == IF block THEN d.b.stats[1] ELSE d.b
           ok == first.k = "Apply" /\ first.f = Ident("this") /\ Len(first.args) # Len(d.ps)
           a == AnalyseCaptures(d.ps, d.b, PushFn(ConstructorFn(d.ps, FALSE), s))
           b == CompileInitCall(c.name, first.args, Require(ok, "must begin with this(...)", a))
           e == IF block THEN Emit("POP", 0, CompileStats(Tail(d.b.stats), b)) ELSE b
           plain == [i \in DOMAIN d.ps |-> [d.ps[i] EXCEPT !.dflt = Null]]
       IN  FinishConstructor(plain, e)

Vars(t) ==
  [i \in DOMAIN SelectSeq(t.ps, LAMBDA p : p.field = "Var") |->
     SelectSeq(t.ps, LAMBDA p : p.field = "Var")[i].x]
  \o LET ns == SelectSeq(t.body, LAMBDA n : n.k = "ValDef" /\ n.kind = "Var")
     IN  [i \in DOMAIN ns |-> ns[i].x]

RECURSIVE CompileMethods(_, _)
CompileMethods(defs, s) ==
  IF defs = <<>> \/ Abandoned(s) THEN s ELSE CompileMethods(Tail(defs), CompileMethod(Head(defs), s))

CompileTemplate(t, s0) ==
  LET c == s0.types[TypeName(t)]
      s == [s0 EXCEPT !.owner = c.name, !.tmpl = c.members]
      chain == RuntimeChain(c, s.types)
      methods == SelectSeq(t.body, LAMBDA n : n.k = "DefDef" /\ n.x # "this" /\ Given(n.b))
      a == FoldLeft(LAMBDA acc, x : Emit("PUSH_GLOBAL", TypeKey(x), acc), s, chain)
      b == CompileMethods(methods, a)
      d == FoldLeft(LAMBDA acc, x : CompileSetter(c.members[x].key, acc), b, Vars(t))
      e == IF c.hasInit THEN CompileConstructor(t, c, d) ELSE d
      f == FoldLeft(LAMBDA acc, x : CompileAuxConstructor(x, c, acc), e, AuxDefs(t))
      keys == [i \in DOMAIN methods |-> c.members[methods[i].x].key]
              \o [i \in DOMAIN Vars(t) |-> c.members[SetterName(Vars(t)[i])].key]
              \o (IF c.hasInit THEN <<"<init>">> ELSE <<>>)
              \o [i \in DOMAIN AuxDefs(t) |-> "<init>" \o ToString(Len(AuxDefs(t)[i].ps))]
      g == Emit("MAKE_CLASS", [name |-> c.name, chain |-> chain, keys |-> keys,
                               fields |-> c.fields, mutable |-> c.mutable], f)
  IN  [Emit("STORE_GLOBAL", c.key, g) EXCEPT !.owner = "", !.tmpl = <<>>]

-----------------------------------------------------------------------------
\* compileUnit: declare, describe the templates, hoist, then run the statements.
DeclareGlobals(stats) ==
  LET defs == {i \in DOMAIN stats : stats[i].k \in {"ValDef", "DefDef"} \/
                 (stats[i].k = "TemplateDef" /\ stats[i].kind = "Object")}
      of(i) == LET d == stats[i]
               IN  CASE d.k = "ValDef" -> [kind |-> d.kind, masks |-> <<>>]
                     [] d.k = "DefDef" -> [kind |-> KindOf(d), masks |-> MasksOfDef(d)]
                     [] OTHER -> [kind |-> "Object", masks |-> <<>>]
  IN  [x \in {stats[i].x : i \in defs} |-> of(CHOOSE i \in defs : stats[i].x = x)]

\* Adds the type of every template, parents first.
DefineTypes(ts, types) ==
  LET add(acc, t) ==
        IF ~acc.ok \/ ~(ToSet(t.parents) \subseteq DOMAIN acc.types) THEN [acc EXCEPT !.ok = FALSE]
        ELSE LET b == BuildClassInfo(t, acc.types)
             IN  [ok |-> b.ok, types |-> (b.info.name :> b.info) @@ acc.types]
  IN  FoldLeft(add, [ok |-> TRUE, types |-> types], ts)

UnitStat(n, s) ==
  CASE n.k \in {"DefDef", "TemplateDef"} \/ Hoisted(n) -> s
    [] n.k = "ValDef" -> Emit("STORE_GLOBAL", n.x, CompileExpr(n.rhs, s))
    [] OTHER -> Emit("POP", 0, CompileExpr(n, s))

HoistGlobal(n, s) ==
  CASE n.k = "DefDef" -> Emit("STORE_GLOBAL", n.x, CompileDef(n, "Global", s))
    [] Hoisted(n) -> Emit("STORE_GLOBAL", n.x, CompileLazyThunk(n.rhs, s))
    [] OTHER -> s

AnalyseTop(n, s) ==
  CASE n.k = "TemplateDef" \/ Hoisted(n) -> s
    [] OTHER -> AnalyseCaptures(<<>>, IF n.k = "ValDef" THEN n.rhs ELSE n, s)

RECURSIVE CompileTemplates(_, _), HoistGlobals(_, _), AnalyseTops(_, _), UnitStats(_, _)
AnalyseTops(stats, s) ==
  IF stats = <<>> \/ Abandoned(s) THEN s ELSE AnalyseTops(Tail(stats), AnalyseTop(Head(stats), s))
CompileTemplates(ts, s) ==
  IF ts = <<>> \/ Abandoned(s) THEN s ELSE CompileTemplates(Tail(ts), CompileTemplate(Head(ts), s))
HoistGlobals(stats, s) ==
  IF stats = <<>> \/ Abandoned(s) THEN s ELSE HoistGlobals(Tail(stats), HoistGlobal(Head(stats), s))
UnitStats(stats, s) ==
  IF stats = <<>> \/ Abandoned(s) THEN s ELSE UnitStats(Tail(stats), UnitStat(Head(stats), s))

CompileUnit(stats, globals, types) ==
  LET ts == SelectSeq(stats, LAMBDA n : n.k = "TemplateDef")
      sorted == SortTemplates(ts)
      defined == DefineTypes(sorted.out, types)
      a == Start(DeclareGlobals(stats) @@ globals, LinkCompanions(sorted.out, defined.types))
      b == CompileTemplates(sorted.out, a)
      c == FoldLeft(LAMBDA acc, t : IF t.kind = "Object" THEN CompileObjectHolder(t.x, acc) ELSE acc,
                    b, sorted.out)
      d == HoistGlobals(stats, c)
      e == AnalyseTops(stats, d)
      f == UnitStats(stats, e)
      g == FinishFunction(<<>>, FALSE, Emit("RETURN", 0, Emit("PUSH_UNIT", 0, f)))
      distinct == \A i, j \in DOMAIN ts : TypeName(ts[i]) = TypeName(ts[j]) => i = j
  IN  IF sorted.cyclic \/ ~distinct \/ ~defined.ok
      THEN [mods |-> <<>>, err |-> "illegal template", types |-> types]
      ELSE IF Abandoned(b) \/ Abandoned(d) \/ Abandoned(f) \/ Abandoned(g)
      THEN [mods |-> <<>>, err |-> g.err, types |-> types]
      ELSE [mods |-> g.mods, err |-> "", types |-> g.types]
=============================================================================
