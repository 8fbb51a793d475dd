------------------------------- MODULE Syntax -------------------------------
(***************************************************************************)
(* The syntax tree as the parser builds it (frontend/AST.h): the nodes of  *)
(* Ast that need no rewriting, and the ones that Desugar removes.          *)
(***************************************************************************)
EXTENDS Ast

\* A TypeTree: kind, name and arguments.
Ty(k, x, args) == [k |-> k, x |-> x, args |-> args]
TName(x) == Ty("Name", x, <<>>)
TApplied(x, args) == Ty("Applied", x, args)
TFunction(args, r) == Ty("Function", "", Append(args, r))
TTuple(args) == Ty("Tuple", "", args)
TByName(t) == Ty("ByName", "", <<t>>)
TRepeated(t) == Ty("Repeated", "", <<t>>)
TWildcard == Ty("Wildcard", "", <<>>)
TInfix(op, l, r) == Ty("Infix", op, <<l, r>>)
NoType == Ty("null", "", <<>>)

\* Literals with no counterpart in Ast: their text.
FloatLit(v) == [k |-> "FloatLit", v |-> v]
CharLit(v) == [k |-> "CharLit", v |-> v]

Infix(l, op, r) == [k |-> "Infix", l |-> l, op |-> op, r |-> r]
Prefix(op, e) == [k |-> "Prefix", op |-> op, e |-> e]
Parens(e) == [k |-> "Parens", e |-> e]
Ascription(e, t) == [k |-> "Ascription", e |-> e, t |-> t]
AssignTo(target, v) == [k |-> "AssignTo", target |-> target, v |-> v]
TypeArgs(f, ts) == [k |-> "TypeArgs", f |-> f, ts |-> ts]
NewOf(t, args) == [k |-> "NewOf", t |-> t, args |-> args]

\* id"lit{es}lit": one literal more than there are holes, one specifier a hole.
Interpolation(x, lits, es, specs) ==
  [k |-> "Interpolation", x |-> x, lits |-> lits, es |-> es, specs |-> specs]

\* A for-comprehension and its enumerators.
Generator(case, p, e) == [k |-> "Generator", case |-> case, p |-> p, e |-> e]
Guard(e) == [k |-> "Guard", e |-> e]
Value(p, e) == [k |-> "Value", case |-> FALSE, p |-> p, e |-> e]
For(enums, body, yield) == [k |-> "For", enums |-> enums, b |-> body, yield |-> yield]

StablePat(path) == [k |-> "Stable", e |-> path]

\* A parameter with its type.
TParam(x, t) == [x |-> x, t |-> t, byName |-> FALSE, rep |-> FALSE, dflt |-> Null,
                 field |-> "", mods |-> {}]

\* Definitions.  kind: "Val", "Var" or "LazyVal"; a pattern definition has a
\* pattern p instead of a name.
Val(kind, x, t, rhs) == [k |-> "Val", kind |-> kind, x |-> x, t |-> t, rhs |-> rhs,
                         mods |-> {}]
PatVal(kind, p, rhs) == [k |-> "PatVal", kind |-> kind, p |-> p, rhs |-> rhs, mods |-> {}]
Def(x, lists, t, b) == [k |-> "Def", x |-> x, lists |-> lists, t |-> t, b |-> b,
                        mods |-> {}, notes |-> <<>>]

\* A class, trait, object or enum.  A parent is a type with its arguments.
Parent(t, args) == [t |-> t, args |-> args, hasArgs |-> args # <<>>]
EnumCase(x, ps, parens, args) == [x |-> x, ps |-> ps, parens |-> parens, args |-> args]
Template(kind, x, ps, parents, body) ==
  [k |-> "Template", kind |-> kind, x |-> x, ps |-> ps, parents |-> parents, body |-> body,
   isCase |-> FALSE, mods |-> {}, self |-> "", cases |-> <<>>]

Extension(x, t, members) == [k |-> "Extension", x |-> x, t |-> t, members |-> members]
TypeDef(x, t) == [k |-> "TypeDef", x |-> x, t |-> t, mods |-> {}]

\* An import: its path, its selectors [x, alias, kind] with kind "name",
\* "wildcard" or "none" (no binding), and the alias of the module itself.
Import(path, sels, alias) == [k |-> "Import", path |-> path, sels |-> sels, alias |-> alias]

\* Operators that assign, and operators that take their operands from the right.
OperatorChars == {"|", "^", "&", "=", "!", "<", ">", ":", "+", "-", "*", "/", "%", "#",
                  "@", "?", "~"}
Char(s, n) == SubSeq(s, n, n)
IsAssignmentOperator(op) ==
  /\ Len(op) >= 2 /\ Char(op, Len(op)) = "=" /\ Char(op, 1) # "="
  /\ op \notin {"<=", ">=", "!="}
  /\ \A n \in 1..Len(op) : Char(op, n) \in OperatorChars

IsRightAssociative(op) == Char(op, Len(op)) = ":"
=============================================================================
