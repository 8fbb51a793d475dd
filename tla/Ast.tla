-------------------------------- MODULE Ast ---------------------------------
(***************************************************************************)
(* The desugared syntax tree the compiler reads (frontend/AST.h): one      *)
(* constructor per node kind that survives Desugar.  A node is a record    *)
(* whose field k is its NodeKind.  Types are the names a run-time test can *)
(* still ask about; every other type is erased.                            *)
(***************************************************************************)
EXTENDS Integers, Sequences, FiniteSets

\* A child that the source leaves null: no guard, no default, no finally.
Null == [k |-> "null"]

Given(n) == n.k # "null"

IntLit(v) == [k |-> "IntLit", v |-> v]
StringLit(v) == [k |-> "StringLit", v |-> v]
BoolLit(v) == [k |-> "BoolLit", v |-> v]
NullLit == [k |-> "NullLit"]
UnitLit == [k |-> "UnitLit"]

Ident(x) == [k |-> "Ident", x |-> x]
Select(q, x) == [k |-> "Select", q |-> q, x |-> x]
Super(t) == [k |-> "Super", t |-> t]
\* widening: the call of toDouble that a written type adds (doubleWidening).
Apply(f, args) == [k |-> "Apply", f |-> f, args |-> args, widening |-> FALSE]
New(t, args) == [k |-> "New", t |-> t, args |-> args]
NamedArg(x, v) == [k |-> "NamedArg", x |-> x, v |-> v]
Splice(v) == [k |-> "Splice", v |-> v]
Tuple(es) == [k |-> "Tuple", es |-> es]
InterpString(es) == [k |-> "InterpString", es |-> es]
IsInstance(v, t) == [k |-> "TypeApply", v |-> v, t |-> t, cast |-> FALSE]
AsInstance(v, t) == [k |-> "TypeApply", v |-> v, t |-> t, cast |-> TRUE]

Assign(x, v) == [k |-> "Assign", x |-> x, v |-> v]
If(c, t, e) == [k |-> "If", c |-> c, t |-> t, e |-> e]
While(c, b) == [k |-> "While", c |-> c, b |-> b]
Return(v) == [k |-> "Return", v |-> v]
Throw(v) == [k |-> "Throw", v |-> v]
\* discard: the block { e; () } that a written Unit adds (valueDiscard).
Block(stats) == [k |-> "Block", stats |-> stats, discard |-> FALSE]
Match(v, cases) == [k |-> "Match", v |-> v, cases |-> cases]
Try(b, cases, f) == [k |-> "Try", b |-> b, cases |-> cases, f |-> f]

\* A parameter: by name, repeated, of a floating-point type, its default value and
\* (constructors) the field it declares: "Val", "Var" or "" for a plain one.
Param(x) == [x |-> x, byName |-> FALSE, rep |-> FALSE, double |-> FALSE, dflt |-> Null,
             field |-> "", mods |-> {}]
ByName(x) == [Param(x) EXCEPT !.byName = TRUE]
Repeated(x) == [Param(x) EXCEPT !.rep = TRUE]
Default(x, e) == [Param(x) EXCEPT !.dflt = e]
ValParam(x) == [Param(x) EXCEPT !.field = "Val"]
VarParam(x) == [Param(x) EXCEPT !.field = "Var"]

\* fromCurriedDef: the lambda of a later parameter list of a curried def.
Lambda(ps, b) == [k |-> "Lambda", ps |-> ps, b |-> b, curried |-> FALSE]
CurriedLambda(ps, b) == [Lambda(ps, b) EXCEPT !.curried = TRUE]

\* A definition carries an identity, which stands for the node's address: two
\* definitions of one name in nested blocks are told apart by it.
\* mods: the modifiers private and override.  A definition without a right-hand
\* side (Null) is abstract.
ValDef(x, rhs) == [k |-> "ValDef", x |-> x, rhs |-> rhs, kind |-> "Val", id |-> x,
                   mods |-> {}]
VarDef(x, rhs) == [ValDef(x, rhs) EXCEPT !.kind = "Var"]
LazyDef(x, rhs) == [ValDef(x, rhs) EXCEPT !.kind = "LazyVal"]
Shadow(d, id) == [d EXCEPT !.id = id]
With(mods, d) == [d EXCEPT !.mods = mods]

\* paramless: written without a parameter list; tailrec: annotated @tailrec.
DefDef(x, ps, b) == [k |-> "DefDef", x |-> x, ps |-> ps, b |-> b, id |-> x,
                     paramless |-> FALSE, tailrec |-> FALSE, mods |-> {}]
ParamlessDef(x, b) == [DefDef(x, <<>>, b) EXCEPT !.paramless = TRUE]
TailRecDef(x, ps, b) == [DefDef(x, ps, b) EXCEPT !.tailrec = TRUE]

\* A class, trait or object: constructor parameters, parents (in source order)
\* with the arguments of each, and the body.  mods: abstract, final.
TemplateDef(kind, x, ps, parents, args, body) ==
  [k |-> "TemplateDef", kind |-> kind, x |-> x, ps |-> ps, parents |-> parents,
   args |-> args, body |-> body, isCase |-> FALSE, mods |-> {}]
CaseClass(x, ps) == [TemplateDef("Class", x, ps, <<>>, <<>>, <<>>)
                       EXCEPT !.isCase = TRUE]

\* Patterns.  An extractor's x is the path as written.
Wildcard == [k |-> "Wildcard"]
VarPat(x) == [k |-> "Var", x |-> x]
LitPat(e) == [k |-> "Literal", e |-> e]
TypedPat(t, p) == [k |-> "Typed", t |-> t, args |-> <<p>>]
BindPat(x, p) == [k |-> "Bind", x |-> x, args |-> <<p>>]
AltPat(ps) == [k |-> "Alt", args |-> ps]
TuplePat(ps) == [k |-> "Tuple", args |-> ps]
Extractor(x, ps) == [k |-> "Extractor", x |-> x, args |-> ps]
SeqWildcard(x) == [k |-> "SeqWildcard", x |-> x]
CaseDef(p, g, b) == [p |-> p, g |-> g, b |-> b]

PatternArgs(p) ==
  IF p.k \in {"Typed", "Bind", "Alt", "Tuple", "Extractor"} THEN p.args ELSE <<>>

\* patternVariables: the names a pattern binds, in order.  Alternatives
\* bind none: the compiler refuses a variable in one.
RECURSIVE PatternVariables(_), FlatVariables(_)
PatternVariables(p) ==
  CASE p.k \in {"Var", "SeqWildcard"} -> IF p.x = "_" THEN <<>> ELSE <<p.x>>
    [] p.k = "Bind" -> <<p.x>> \o FlatVariables(p.args)
    [] p.k = "Alt" -> <<>>
    [] OTHER -> FlatVariables(PatternArgs(p))
FlatVariables(ps) ==
  IF ps = <<>> THEN <<>>
  ELSE PatternVariables(Head(ps)) \o FlatVariables(Tail(ps))

\* The sub-expressions of a node that run in the node's own frame and scope,
\* in evaluation order.  Blocks, functions, definitions and cases open scopes
\* and are walked by their own rules.
SubExprs(n) ==
  CASE n.k \in {"Return", "Throw", "Splice", "NamedArg", "TypeApply"} -> <<n.v>>
    [] n.k = "Assign" -> <<Ident(n.x), n.v>>
    [] n.k = "Select" -> <<n.q>>
    [] n.k = "If" -> <<n.c, n.t, n.e>>
    [] n.k = "While" -> <<n.c, n.b>>
    [] n.k \in {"Tuple", "InterpString"} -> n.es
    [] n.k = "New" -> n.args
    [] n.k = "Apply" -> <<n.f>> \o n.args
    [] OTHER -> <<>>
=============================================================================
