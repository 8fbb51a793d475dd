----------------------------- MODULE MCFrontEnd -----------------------------
(***************************************************************************)
(* Layout and Parser on generated source texts.  A source is written       *)
(* together with the tree it means, by combinators that put one construct  *)
(* into another in every style the language has: on one line, indented, in *)
(* braces, with `then` and `do` or with parentheses, with an end marker.   *)
(***************************************************************************)
EXTENDS Layout, FrontEndSamples, FiniteSets

CONSTANTS Units, Source(_), Parse(_)

VARIABLE unit

-----------------------------------------------------------------------------
(* Sources: [d, v], a text and its tree.                                   *)

Name(x) == [d |-> Line(<<x>>), v |-> Ident(x)]
Styles == {"line", "indent", "braces"}

\* The body b, a construct of its own, after the text head.
Body(head, b, style) ==
  CASE style = "line" -> [d |-> Join(head, b.d), v |-> b.v]
    [] style = "indent" -> [d |-> Under(head, b.d), v |-> Block(<<b.v>>)]
    [] style = "braces" -> [d |-> Under(Join(head, Line(<<"{">>)), b.d) \o Line(<<"}">>),
                            v |-> Block(<<b.v>>)]

\* The text after a body: on the line of its closing brace, or on a new line.
After(b, style, ws) == IF style = "indent" THEN b.d \o Line(ws) ELSE Join(b.d, Line(ws))

Cond(old, word, rest) == IF old THEN <<word, "(", "c", ")">> ELSE <<word, "c", rest>>

IfOf(b, style, old) ==
  LET t == Body(Line(Cond(old, "if", "then")), b, style)
      e == Body(After(t, style, <<"else">>), Name("e"), style)
  IN [d |-> e.d, v |-> If(Ident("c"), t.v, e.v)]
IfOnly(b, style, old) ==
  LET t == Body(Line(Cond(old, "if", "then")), b, style)
  IN [d |-> t.d, v |-> If(Ident("c"), t.v, Null)]
WhileOf(b, style, old) ==
  LET t == Body(Line(Cond(old, "while", "do")), b, style)
  IN [d |-> t.d, v |-> While(Ident("c"), t.v)]
ForOf(b, style, old) ==
  LET head == IF old THEN <<"for", "(", "x", "<-", "xs", "if", "c", ")", "yield">>
              ELSE <<"for", "x", "<-", "xs", "if", "c", "yield">>
      t == Body(Line(head), b, style)
  IN [d |-> t.d, v |-> For(<<Generator(FALSE, VarPat("x"), Ident("xs")), Guard(Ident("c"))>>,
                           t.v, TRUE)]
TryOf(b, style, old) ==
  LET t == Body(Line(<<"try">>), b, style)
      f == Body(After(t, style, <<"finally">>), Name("e"), style)
  IN [d |-> f.d, v |-> Try(t.v, <<>>, f.v)]
ValOf(b, style, old) ==
  LET t == Body(Line(<<"val", "x", "=">>), b, style)
  IN [d |-> t.d, v |-> Val("Val", "x", NoType, t.v)]
DefOf(b, style, old) ==
  LET t == Body(Line(<<"def", "f", "(", "x", ":", "T", ")", "=">>), b, style)
  IN [d |-> IF old THEN t.d ELSE t.d \o Line(<<"end", "f">>),
      v |-> Def("f", <<<<TParam("x", TName("T"))>>>>, NoType, t.v)]
LambdaOf(b, style, old) ==
  LET t == Body(Line(<<"val", "g", "=", "x", "=>">>), b, style)
  IN [d |-> t.d, v |-> Val("Val", "g", NoType, Lambda(<<TParam("x", NoType)>>, t.v))]

Constructs == {"if", "ifonly", "while", "for", "try", "val", "def", "lambda"}
Make(c, b, style, old) ==
  CASE c = "if" -> IfOf(b, style, old)
    [] c = "ifonly" -> IfOnly(b, style, old)
    [] c = "while" -> WhileOf(b, style, old)
    [] c = "for" -> ForOf(b, style, old)
    [] c = "try" -> TryOf(b, style, old)
    [] c = "val" -> ValOf(b, style, old)
    [] c = "def" -> DefOf(b, style, old)
    [] c = "lambda" -> LambdaOf(b, style, old)

\* A construct in a construct: what, style and old or new of each.
NestedUnits ==
  {<<"one", c, style, old>> : c \in Constructs, style \in Styles, old \in BOOLEAN}
  \cup {<<"two", c, style, old, c2, style2, old2>> :
          c \in Constructs, style \in Styles \ {"line"}, old \in BOOLEAN,
          c2 \in Constructs, style2 \in Styles, old2 \in BOOLEAN}
Nested(u) ==
  LET inner == IF u[1] = "one" THEN Name("a") ELSE Make(u[5], Name("a"), u[6], u[7])
  IN Make(u[2], inner, u[3], u[4])

-----------------------------------------------------------------------------
(* Operator sequences a op b op c op d, and the grouping Scala gives them. *)

\* The operators, from the loosest level to the tightest.
Levels == <<{"+="}, {"m"}, {"|"}, {"=="}, {"<"}, {"::", ":+"}, {"+", "+:"}, {"*"}, {"~>"}>>
Operators == UNION {Levels[n] : n \in DOMAIN Levels}
LevelOf(op) == CHOOSE n \in DOMAIN Levels : op \in Levels[n]
Operands == <<"a", "b", "c", "d">>
InfixUnits == {<<"infix", o1, o2, o3>> : o1 \in Operators, o2 \in Operators, o3 \in Operators}

\* The operators lo..hi - 1 between the operands lo..hi: the loosest level is
\* split last, at its last operator, or at its first if they associate to the
\* right; Null if the level mixes both.
RightOperators == {"::", "+:"}
RECURSIVE Grouped(_, _, _)
Grouped(ops, lo, hi) ==
  IF lo = hi THEN Ident(Operands[lo])
  ELSE LET level == CHOOSE l \in DOMAIN Levels :
                      /\ \E n \in lo..hi - 1 : LevelOf(ops[n]) = l
                      /\ \A n \in lo..hi - 1 : LevelOf(ops[n]) >= l
           at == {n \in lo..hi - 1 : LevelOf(ops[n]) = level}
           right == \A n \in at : ops[n] \in RightOperators
           left == \A n \in at : ops[n] \notin RightOperators
           split == CHOOSE n \in at : \A q \in at : IF right THEN n <= q ELSE n >= q
           l == Grouped(ops, lo, split)
           r == Grouped(ops, split + 1, hi)
       IN IF ~(left \/ right) \/ ~Given(l) \/ ~Given(r) THEN Null ELSE Infix(l, ops[split], r)

InfixSource(u) ==
  LET ops == Tail(u)
      tree == Grouped(ops, 1, 4)
  IN [d |-> Line(<<"a", ops[1], "b", ops[2], "c", ops[3], "d">>),
      want |-> IF Given(tree) THEN [err |-> "", v |-> <<tree>>] ELSE [err |-> "error", v |-> Null]]

-----------------------------------------------------------------------------
MCUnits == NestedUnits \cup InfixUnits \cup {<<"text", n>> : n \in DOMAIN Samples}

\* [raw, want]: the tokens of a unit and what parsing them must give.
Written(u) ==
  CASE u[1] = "infix" -> LET s == InfixSource(u) IN [raw |-> Raw(s.d), want |-> s.want]
    [] u[1] = "text" -> [raw |-> Raw(Document(Samples[u[2]].t)), want |-> Samples[u[2]].want]
    [] OTHER -> LET s == Nested(u)
                IN [raw |-> Raw(s.d), want |-> [err |-> "", v |-> <<s.v>>]]

ParseText(ts) == LET r == ParseUnit(ts) IN r

FInit == unit \in Units /\ Init({Source(unit).raw})
FNext == Step /\ UNCHANGED unit
FSpec == FInit /\ [][FNext]_<<lvars, unit>>

\* Every text is read as the tree it was written from, or refused: by the
\* layout pass, or by the parser, as wrong or as not yet complete.
ReadBy(P(_)) ==
  LET want == Source(unit).want
  IN CASE want.err = "layout" -> outcome = "error"
       [] want.err = "open" -> outcome = "incomplete"
       [] OTHER -> outcome = "done" /\ P(out).err = want.err
                     /\ (want.err = "" => P(out).v = want.v)
ReadsBack == outcome # "" => ReadBy(Parse)
=============================================================================
