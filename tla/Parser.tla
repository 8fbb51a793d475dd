------------------------------- MODULE Parser -------------------------------
(***************************************************************************)
(* The recursive-descent parser (frontend/Parser.cpp) over laid-out        *)
(* tokens.  The parser's state p is a record that every operator takes and *)
(* returns, with what it parsed in p.v:                                    *)
(*                                                                         *)
(*    ts, i     the tokens, the last one "eof", and the next one           *)
(*    err       "", "error", or "incomplete": the input ended too early    *)
(*    ph        placeholderFrames_, the names of the `_` of each open Expr *)
(*    fresh     placeholderCounter_ and caseLambdaCounter_                 *)
(*    tmpl      inTemplateBody_: abstract members are allowed              *)
(*    enum      enumTarget_ is set; cases: the enum cases it has so far    *)
(*                                                                         *)
(* A failure moves i to the end of the input, where every loop stops, so   *)
(* that the first failure is the one reported, as the exception is.        *)
(***************************************************************************)
EXTENDS Syntax, SequencesExt, TLC

Start(ts) == [ts |-> ts, i |-> 1, err |-> "", v |-> Null, ph |-> <<>>,
              fresh |-> [placeholder |-> 0, caseLambda |-> 0],
              tmpl |-> FALSE, enum |-> FALSE, cases |-> <<>>]

\* peek, at, advance, atIdent.
Tk(p, n) == p.ts[IF p.i + n <= Len(p.ts) THEN p.i + n ELSE Len(p.ts)]
At(p, k) == Tk(p, 0).k = k
AtAny(p, ks) == Tk(p, 0).k \in ks
Next1(p) == Tk(p, 1).k
Adv(p) == [p EXCEPT !.i = IF @ < Len(p.ts) THEN @ + 1 ELSE @]
AtIdent(p, s) == At(p, "id") /\ ~Tk(p, 0).quoted /\ Tk(p, 0).text = s
AtSameLine(p, k) == At(p, k) /\ ~Tk(p, 0).first
Yield(p, v) == IF p.err # "" THEN p ELSE [p EXCEPT !.v = v]

\* fail: an error on the layout tokens before the end of the input means that
\* the input is incomplete.
InputEndsAt(ts, j) ==
  \E e \in j..Len(ts) : /\ ts[e].k = "eof"
                        /\ \A q \in j..e - 1 : ts[q].k \in {"Newline", "Outdent"}
FailAt(p, j) ==
  IF p.err # "" THEN p
  ELSE [p EXCEPT !.err = IF InputEndsAt(p.ts, j) THEN "incomplete" ELSE "error",
                 !.i = Len(p.ts), !.v = Null]
Fail(p) == FailAt(p, p.i)
\* unsupported, notImplemented: an error wherever it is met.
Refuse(p) == IF p.err # "" THEN p
             ELSE [p EXCEPT !.err = "error", !.i = Len(p.ts), !.v = Null]

Expect(p, k) == IF At(p, k) THEN Yield(Adv(p), Tk(p, 0).text) ELSE Fail(p)
\* The value parsed so far is kept across a closing token.
Close(p, k) == IF At(p, k) THEN Adv(p) ELSE Fail(p)
Skip(p, ks) == IF AtAny(p, ks) THEN Adv(p) ELSE p
RECURSIVE SkipAll(_, _)
SkipAll(p, ks) == IF AtAny(p, ks) THEN SkipAll(Adv(p), ks) ELSE p
Separators == {"Newline", ";"}
LayoutTokens == {"Newline", "Indent", "Outdent", "EndMarker", "ColonEol"}

-----------------------------------------------------------------------------
(* Operators: Scala's precedence by the first character.                   *)

IsLetterStart(c) == c \notin OperatorChars

Precedence(op) ==
  LET c == Char(op, 1) IN
  CASE IsAssignmentOperator(op) -> 0
    [] ~IsAssignmentOperator(op) /\ IsLetterStart(c) -> 1
    [] c = "|" -> 2
    [] c = "^" -> 3
    [] c = "&" -> 4
    [] c \in {"=", "!"} -> 5
    [] c \in {"<", ">"} -> 6
    [] c = ":" -> 7
    [] c \in {"+", "-"} -> 8
    [] c \in {"*", "/", "%"} -> 9
    [] OTHER -> 10

LowerCase == "abcdefghijklmnopqrstuvwxyz_"
IsVarId(t) ==
  /\ t.k = "id" /\ ~t.quoted /\ ~t.op
  /\ \E n \in 1..Len(LowerCase) : Char(LowerCase, n) = Char(t.text, 1)

-----------------------------------------------------------------------------
(* What lies ahead.                                                        *)

\* sameLineAhead: k at bracket depth 0 before the end of the current line.
RECURSIVE AheadFrom(_, _, _, _)
AheadFrom(p, k, n, depth) ==
  LET t == Tk(p, n)
      inner == depth + (IF t.k \in {"(", "[", "{"} THEN 1 ELSE 0)
                     - (IF t.k \in {")", "]", "}"} THEN 1 ELSE 0)
  IN CASE t.k = "eof" \/ t.k \in LayoutTokens \/ (n > 0 /\ t.first) -> FALSE
       [] depth = 0 /\ t.k = k -> TRUE
       [] depth = 0 /\ t.k \in {"else", "if", "while", "then", "do", "=>"} -> FALSE
       [] OTHER -> inner >= 0 /\ AheadFrom(p, k, n + 1, inner)
SameLineAhead(p, k) == AheadFrom(p, k, 0, 0)

\* closingParen_: the parenthesis that closes the one at j, 0 if none does.
RECURSIVE ClosingFrom(_, _, _)
ClosingFrom(ts, j, depth) ==
  LET inner == depth + (IF ts[j].k = "(" THEN 1 ELSE 0) - (IF ts[j].k = ")" THEN 1 ELSE 0)
  IN IF inner = 0 THEN j ELSE IF j = Len(ts) THEN 0 ELSE ClosingFrom(ts, j + 1, inner)

LambdaAhead(p) ==
  LET t == Tk(p, 0) IN
  IF (t.k = "id" /\ ~t.op) \/ t.k = "_" THEN Next1(p) = "=>"
  ELSE /\ t.k = "("
       /\ LET close == ClosingFrom(p.ts, p.i, 0)
          IN close # 0 /\ close < Len(p.ts) /\ p.ts[close + 1].k = "=>"

IsSoftModifier(t) ==
  t.k = "id" /\ ~t.quoted /\ t.text \in {"open", "inline", "transparent", "infix", "opaque"}
HardModifiers == {"private", "protected", "final", "override", "abstract", "sealed"}
DefinitionKeywords ==
  HardModifiers \cup {"val", "var", "def", "lazy", "import", "implicit", "given", "class",
                      "object", "trait", "enum", "case", "type", "package", "export"}
AtExtension(p) == AtIdent(p, "extension") /\ Next1(p) \in {"(", "["}

RECURSIVE AfterSoftModifiers(_)
AfterSoftModifiers(p) == IF IsSoftModifier(Tk(p, 0)) THEN AfterSoftModifiers(Adv(p)) ELSE p
AtDefinitionStart(p) ==
  \/ AtAny(p, {"@"} \cup DefinitionKeywords)
  \/ AtExtension(p)
  \/ IsSoftModifier(Tk(p, 0)) /\ AtAny(AfterSoftModifiers(p), DefinitionKeywords)

-----------------------------------------------------------------------------
RECURSIVE ParseExpr(_), ParseExprOrIndented(_), ParseInfix(_, _, _), InfixLoop(_, _, _)
RECURSIVE ParseSimple(_), SimpleLoop(_), ParseType(_), ParsePattern(_), ParsePattern1(_)
RECURSIVE ParseInfixPattern(_, _, _), InfixPatternLoop(_, _, _), Cases(_, _, _, _)
RECURSIVE Item(_, _), Items(_, _, _, _), Stats(_, _, _, _), ParseDefinition(_)
RECURSIVE ParsePrefix(_), ParseBlockStat(_, _), ParseTemplateStat(_), ExtensionMember(_)
RECURSIVE ParseModifiers(_, _)

NoneSeen == [l \in 0..10 |-> ""]


\* A comma-separated list.  Up to an end token it may be empty or end in a comma.
Items(p, what, end, acc) ==
  LET x == Item(p, what)
      got == Append(acc, x.v)
  IN IF At(p, end) THEN Yield(p, acc)
     ELSE IF At(x, ",") THEN Items(Adv(x), what, end, got)
     ELSE Yield(x, got)
Items1(p, what) == Items(p, what, "", <<>>)

\* Names and types in brackets that the parser reads and erases.
RECURSIVE SkipBracketed(_, _, _, _)
SkipBracketed(p, open, close, depth) ==
  LET inner == depth + (IF At(p, open) THEN 1 ELSE 0) - (IF At(p, close) THEN 1 ELSE 0)
  IN IF At(p, "eof") THEN Fail(p)
     ELSE IF inner = 0 THEN Adv(p) ELSE SkipBracketed(Adv(p), open, close, inner)
RECURSIVE TypeBounds(_)
TypeBounds(p) == IF AtAny(p, {"<:", ">:", ":"}) THEN TypeBounds(ParseType(Adv(p))) ELSE p
TypeList(p) == Close(Items1(p, "type"), "]")
ParseTypeParams(p) ==
  IF At(p, "[") THEN Close(Items(Adv(p), "type parameter", "]", <<>>), "]") ELSE p
Dotted(p) == At(p, ".") /\ Next1(p) = "id"
RECURSIVE DottedRest(_)
DottedRest(p) ==
  IF Dotted(p) THEN DottedRest(Yield(Adv(Adv(p)), p.v \o "." \o Tk(p, 1).text)) ELSE p

-----------------------------------------------------------------------------
(* Types.                                                                  *)

ParseSimpleType(p) ==
  LET x == DottedRest(Yield(Adv(p), Tk(p, 0).text))
      args == TypeList(Adv(x))
  IN IF At(p, "_") /\ AtIdent(Adv(p), "*") THEN Yield(Adv(Adv(p)), TRepeated(TWildcard))
     ELSE IF At(p, "_") \/ AtIdent(p, "?") THEN Yield(Adv(p), TWildcard)
     ELSE IF ~At(p, "id") THEN Fail(p)
     ELSE IF At(x, "[") THEN Yield(args, TApplied(x.v, args.v))
     ELSE Yield(x, TName(x.v))

RECURSIVE InfixTypeRest(_, _)
InfixTypeRest(p, ops) ==
  LET r == ParseSimpleType(Adv(p))
  IN IF \E op \in ops : AtIdent(p, op)
     THEN InfixTypeRest(Yield(r, TInfix(Tk(p, 0).text, p.v, r.v)), ops) ELSE p
ParseInfixType(p) == InfixTypeRest(ParseSimpleType(p), {"|", "&"})

ParseType(p) ==
  LET byName == ParseType(Adv(p))
      elems == Close(IF Next1(p) = ")" THEN Yield(Adv(p), <<>>) ELSE Items1(Adv(p), "type"),
                     ")")
      one == ParseInfixType(p)
      Fun(q, args) == LET r == ParseType(Adv(q)) IN Yield(r, TFunction(args, r.v))
  IN IF At(p, "=>") THEN Yield(byName, TByName(byName.v))
     ELSE IF ~At(p, "(") THEN IF At(one, "=>") THEN Fun(one, <<one.v>>) ELSE one
     ELSE IF At(elems, "=>") THEN Fun(elems, elems.v)
     ELSE IF elems.err # "" \/ elems.v = <<>> THEN Fail(elems)
     ELSE Yield(elems, IF Len(elems.v) = 1 THEN elems.v[1] ELSE TTuple(elems.v))

-----------------------------------------------------------------------------
(* Patterns.                                                               *)

RECURSIVE AltLoop(_, _)
AltLoop(p, acc) ==
  LET q == ParsePattern1(Adv(p))
  IN IF AtIdent(p, "|") THEN AltLoop(q, Append(acc, q.v)) ELSE Yield(p, AltPat(acc))
ParsePattern(p) ==
  LET q == ParsePattern1(p) IN IF AtIdent(q, "|") THEN AltLoop(q, <<q.v>>) ELSE q

\* The type of a typed pattern: `|` and `=>` after it belong to the case.
ParsePatternType(p) ==
  LET elems == Close(Items1(Adv(p), "type"), ")")
      t == IF ~At(p, "(") THEN ParseSimpleType(p)
           ELSE IF elems.err # "" THEN elems
           ELSE Yield(elems, IF Len(elems.v) = 1 THEN elems.v[1] ELSE TTuple(elems.v))
  IN InfixTypeRest(t, {"&"})

ParsePattern2(p) ==
  LET q == ParseInfixPattern(Adv(Adv(p)), 0, -1)
  IN IF IsVarId(Tk(p, 0)) /\ Next1(p) = "@" THEN Yield(q, BindPat(Tk(p, 0).text, q.v))
     ELSE ParseInfixPattern(p, 0, -1)

ParsePattern1(p) ==
  LET t == ParsePatternType(Adv(Adv(p)))
      name == IF At(p, "_") THEN Wildcard ELSE VarPat(Tk(p, 0).text)
  IN IF (IsVarId(Tk(p, 0)) \/ At(p, "_")) /\ Next1(p) = ":"
     THEN Yield(t, TypedPat(t.v, name)) ELSE ParsePattern2(p)

\* A sequence wildcard may only be the last argument.
ParsePatternArgs(p) ==
  LET as == Close(Items(p, "pattern argument", ")", <<>>), ")")
  IN IF as.err = "" /\ \E n \in 1..Len(as.v) - 1 : as.v[n].k = "SeqWildcard"
     THEN Fail(as) ELSE as

RECURSIVE PathRest(_)
PathRest(p) == IF Dotted(p) THEN PathRest(Yield(Adv(Adv(p)), Select(p.v, Tk(p, 1).text))) ELSE p

\* A stable path or an extractor; its type arguments are erased.
PathPattern(p) ==
  LET path == PathRest(Yield(Adv(p), Ident(Tk(p, 0).text)))
      text == DottedRest(Yield(Adv(p), Tk(p, 0).text)).v
      q == IF At(path, "[") THEN TypeList(Adv(path)) ELSE path
      as == ParsePatternArgs(Adv(q))
  IN IF AtSameLine(q, "(") THEN Yield(as, Extractor(text, as.v))
     ELSE Yield(q, StablePat(path.v))

Literals == {"IntLit", "FloatLit", "StringLit", "CharLit", "BoolLit", "NullLit"}
LiteralPattern(p, e, kinds) ==
  IF e.err = "" /\ e.v.k \notin kinds THEN FailAt(e, p.i) ELSE Yield(e, LitPat(e.v))

ParensPattern(p) ==
  LET ps == Close(Items1(Adv(p), "pattern"), ")")
  IN IF Next1(p) = ")" THEN Yield(Adv(Adv(p)), LitPat(UnitLit))
     ELSE IF ps.err # "" THEN ps
     ELSE Yield(ps, IF Len(ps.v) = 1 THEN ps.v[1] ELSE TuplePat(ps.v))

ParseInfixPattern(p, min, assoc) ==
  LET t == Tk(p, 0)
      applied == Next1(p) = "(" /\ ~Tk(p, 1).first
      minus == AtIdent(p, "-") /\ Next1(p) \in {"int", "float"}
      seqEnd == AtIdent(Adv(p), "*") /\ Tk(p, 2).k \in {")", ","}
      simple ==
        IF At(p, "_") THEN IF seqEnd THEN Yield(Adv(Adv(p)), SeqWildcard("_"))
                           ELSE Yield(Adv(p), Wildcard)
        ELSE IF AtAny(p, {"int", "float", "str", "char", "true", "false", "null"})
             THEN LiteralPattern(p, ParseSimple(p), Literals)
        ELSE IF At(p, "(") THEN ParensPattern(p)
        ELSE IF minus THEN LiteralPattern(p, ParsePrefix(p), {"IntLit", "FloatLit"})
        ELSE IF IsVarId(t) /\ Next1(p) # "." /\ ~applied THEN Yield(Adv(p), VarPat(t.text))
        ELSE IF ~At(p, "id") \/ (t.op /\ ~t.quoted) THEN Fail(p)
        ELSE PathPattern(p)
  IN InfixPatternLoop(simple, min, assoc)

\* The left operand is p.v: `h :: t` is the extractor ::(h, t).
InfixPatternLoop(p, min, assoc) ==
  LET t == Tk(p, 0)
      level == Precedence(t.text)
      right == IsRightAssociative(t.text)
      r == IF right THEN ParseInfixPattern(Adv(p), level, level)
           ELSE ParseInfixPattern(Adv(p), level + 1, -1)
  IN IF /\ t.k = "id" /\ t.op /\ ~t.quoted /\ t.text # "|"
        /\ ~(t.text = "*" /\ Next1(p) = ")")
        /\ level >= min /\ ~(assoc = level /\ ~right)
     THEN InfixPatternLoop(Yield(r, Extractor(t.text, <<p.v, r.v>>)), min, assoc)
     ELSE p

-----------------------------------------------------------------------------
(* Expressions.                                                            *)

ParseBlock(p, end) ==
  LET b == Stats([p EXCEPT !.tmpl = FALSE], end, "block", <<>>)
  IN Yield([b EXCEPT !.tmpl = p.tmpl], Block(b.v))
ParseIndentedBlock(p) == Close(ParseBlock(Adv(p), "Outdent"), "Outdent")
ParseExprOrIndented(p) == IF At(p, "Indent") THEN ParseIndentedBlock(p) ELSE ParseExpr(p)

Params(names) == [n \in DOMAIN names |-> TParam(names[n], NoType)]

\* parseCaseLambda: { case p => e ... } is x => x match { case p => e ... }.
ParseCaseLambda(p, end) ==
  LET n == p.fresh.caseLambda + 1
      x == "x$" \o ToString(n)
      cs == Cases([p EXCEPT !.fresh.caseLambda = n], end, 0, <<>>)
  IN Yield(cs, Lambda(Params(<<x>>), Match(Ident(x), cs.v)))

ParseBlockExpr(p) ==
  LET q == SkipAll(Adv(p), {"Newline"})
  IN Close(IF At(q, "case") THEN ParseCaseLambda(q, "}") ELSE ParseBlock(q, "}"), "}")

\* `( e )`, a tuple or unit.
ParseParensExpr(p) ==
  LET es == Close(Items1(Adv(p), "expr"), ")")
  IN IF Next1(p) = ")" THEN Yield(Adv(Adv(p)), UnitLit)
     ELSE IF es.err # "" THEN es
     ELSE Yield(es, IF Len(es.v) = 1 THEN Parens(es.v[1]) ELSE Tuple(es.v))

\* Arguments after the parenthesis, and the argument lists that follow in all.
ParseArgs(p) == Close(IF At(p, ")") THEN Yield(p, <<>>) ELSE Items1(p, "argument"), ")")
RECURSIVE ArgLists(_, _)
ArgLists(p, acc) ==
  LET as == ParseArgs(Adv(p))
  IN IF ~AtSameLine(p, "(") THEN Yield(p, acc)
     ELSE IF as.err # "" THEN as ELSE ArgLists(as, acc \o as.v)

\* new T(args): an anonymous class body is refused.
ParseNew(p) ==
  LET t == ParseSimpleType(Adv(p))
      as == ArgLists(t, <<>>)
  IN IF (At(as, "Newline") /\ Next1(as) = "{") \/ AtSameLine(as, "{")
        \/ AtAny(as, {"ColonEol", "with"})
     THEN Refuse(as) ELSE Yield(as, NewOf(t.v, as.v))

\* The condition of an if (word "then") or a while ("do"): parenthesised, with
\* more of it on the same line before the word, or anything up to the word.
Condition(p, word) ==
  LET c == ParseParensExpr(p)
      newline == At(c, "Newline") /\ (word = "do" \/ Next1(c) # "else")
  IN IF ~At(p, "(") THEN Close(ParseExprOrIndented(p), word)
     ELSE IF At(c, word) THEN Adv(c)
     ELSE IF SameLineAhead(c, word) THEN Close(InfixLoop(SimpleLoop(c), 0, NoneSeen), word)
     ELSE Yield(IF newline THEN Adv(c) ELSE c, IF c.v.k = "Parens" THEN c.v.e ELSE c.v)

ParseIf(p) ==
  LET c == Condition(Adv(p), "then")
      t == ParseExprOrIndented(c)
      else == Skip(t, Separators)
      e == ParseExprOrIndented(Adv(else))
  IN IF At(else, "else") THEN Yield(e, If(c.v, t.v, e.v)) ELSE Yield(t, If(c.v, t.v, Null))

ParseWhile(p) ==
  LET c == Condition(Adv(p), "do")
      b == ParseExprOrIndented(c)
  IN Yield(b, While(c.v, b.v))

ParseReturn(p) ==
  LET e == ParseExprOrIndented(Adv(p))
  IN IF Next1(p) \in {"Newline", ";", "Outdent", "}", ")", "else", "eof"}
     THEN Yield(Adv(p), Return(Null)) ELSE Yield(e, Return(e.v))

ParseThrow(p) == LET e == ParseExprOrIndented(Adv(p)) IN Yield(e, Throw(e.v))

\* A separator is stepped over only before one of words.
RECURSIVE SkipBefore(_, _)
SkipBefore(p, words) ==
  IF AtAny(p, Separators) /\ Next1(p) \in words THEN SkipBefore(Adv(p), words) ELSE p

\* catchHandlerCase: `catch h` is `catch case e => h(e)`.
CatchHandlerCase(p) ==
  LET h == ParseExprOrIndented(p)
      n == h.fresh.caseLambda + 1
      x == "e$" \o ToString(n)
  IN Yield([h EXCEPT !.fresh.caseLambda = n],
           <<CaseDef(VarPat(x), Null, Apply(h.v, <<Ident(x)>>))>>)

\* The pattern and the guard of a case, up to its arrow.
CaseHead(p) ==
  LET pat == ParsePattern(Adv(p))
      g == IF At(pat, "if") THEN ParseInfix(Adv(pat), 0, -1) ELSE Yield(pat, Null)
  IN Close(Yield(g, [p |-> pat.v, g |-> g.v]), "=>")

RECURSIVE CatchLines(_, _)
CatchLines(p, acc) ==
  LET h == CaseHead(p)
      b == ParseExprOrIndented(h)
  IN IF ~At(p, "case") THEN Yield(p, acc)
     ELSE IF h.err # "" THEN h
     ELSE CatchLines(Skip(b, {";"}), Append(acc, CaseDef(h.v.p, h.v.g, b.v)))

ParseCatchCases(p) ==
  LET q == SkipAll(Adv(p), Separators)
      end == IF At(p, "{") THEN "}" ELSE "Outdent"
  IN IF AtAny(p, {"{", "Indent"}) /\ At(q, "case") THEN Close(Cases(q, end, 0, <<>>), end)
     ELSE IF At(p, "case") THEN CatchLines(p, <<>>)
     ELSE CatchHandlerCase(p)

ParseTry(p) ==
  LET b == ParseExprOrIndented(Adv(p))
      b1 == SkipBefore(b, {"catch", "finally"})
      c == IF At(b1, "catch") THEN SkipBefore(ParseCatchCases(Adv(b1)), {"finally"})
           ELSE Yield(b1, <<>>)
      f == IF At(c, "finally") THEN ParseExprOrIndented(Adv(c)) ELSE Yield(c, Null)
  IN IF f.err # "" THEN f
     ELSE IF c.v = <<>> /\ ~Given(f.v) THEN FailAt(f, p.i)
     ELSE Yield(f, Try(b.v, c.v, f.v))

ParseLambdaParams(p) ==
  LET one == Item(p, "lambda parameter")
  IN Close(IF ~At(p, "(") THEN Yield(one, <<one.v>>)
           ELSE IF Next1(p) = ")" THEN Yield(Adv(Adv(p)), <<>>)
           ELSE Close(Items1(Adv(p), "lambda parameter"), ")"), "=>")
ParseLambda(p) ==
  LET ps == ParseLambdaParams(p)
      b == ParseExprOrIndented(ps)
  IN Yield(b, Lambda(ps.v, b.v))

\* The enumerators of a for; without delimiters (end is "eof") they end with
\* the line.
ParseGeneratorOrValue(p) ==
  LET pat == ParsePattern1(Skip(p, {"case"}))
      e == ParseExprOrIndented(Adv(pat))
  IN IF At(pat, "<-") THEN Yield(e, Generator(At(p, "case"), pat.v, e.v))
     ELSE IF At(pat, "=") THEN Yield(e, [Value(pat.v, e.v) EXCEPT !.case = At(p, "case")])
     ELSE Fail(pat)
RECURSIVE Enumerators(_, _, _)
Enumerators(p, end, acc) ==
  LET g == ParseInfix(Adv(p), 0, -1)
      q == SkipAll(Adv(p), Separators)
      en == ParseGeneratorOrValue(q)
  IN IF At(p, "if") THEN Enumerators(g, end, Append(acc, Guard(g.v)))
     ELSE IF ~(At(p, ";") \/ (At(p, "Newline") /\ end # "eof")) THEN Yield(p, acc)
     ELSE IF At(q, end) THEN Yield(q, acc)
     ELSE IF At(q, "if") THEN Enumerators(q, end, acc)
     ELSE Enumerators(en, end, Append(acc, en.v))
ParseEnumerators(p, end) ==
  LET first == ParseGeneratorOrValue(SkipAll(p, {"Newline"}))
  IN IF first.err = "" /\ first.v.k # "Generator" THEN Fail(first)
     ELSE Enumerators(first, end, <<first.v>>)

ForEnd(p) == CASE At(p, "(") -> ")" [] At(p, "{") -> "}" [] At(p, "Indent") -> "Outdent"
               [] OTHER -> "eof"
ParseFor(p) ==
  LET q == Adv(p)
      end == ForEnd(q)
      es == IF end = "eof" THEN ParseEnumerators(q, end)
            ELSE Close(ParseEnumerators(Adv(q), end), end)
      word == IF At(es, "Newline") /\ Next1(es) \in {"yield", "do"} THEN Adv(es) ELSE es
      b == ParseExprOrIndented(Skip(word, {"yield", "do"}))
  IN IF end = "eof" /\ ~AtAny(word, {"yield", "do"}) THEN Fail(word)
     ELSE Yield(b, For(es.v, b.v, At(word, "yield")))

\* parseMatch, on the scrutinee p.v.
ParseMatch(p) ==
  LET open == Adv(p)
      first == SkipAll(Adv(open), Separators)
      end == IF At(open, "{") THEN "}" ELSE "Outdent"
      cs == Close(Cases(first, end, 0, <<>>), end)
  IN IF ~AtAny(open, {"{", "Indent"}) THEN Fail(open)
     ELSE IF ~At(first, "case") THEN Fail(first)
     ELSE Yield(cs, Match(p.v, cs.v))
RECURSIVE MatchLoop(_)
MatchLoop(p) == IF At(p, "match") THEN MatchLoop(ParseMatch(p)) ELSE p

ParseExprNoPlaceholders(p) ==
  LET e == MatchLoop(ParseInfix(p, 0, -1))
      v == ParseExprOrIndented(Adv(e))
      t == ParseType(Adv(e))
  IN CASE At(p, "if") -> ParseIf(p)
       [] At(p, "while") -> ParseWhile(p)
       [] At(p, "return") -> ParseReturn(p)
       [] At(p, "do") -> Fail(p)
       [] At(p, "throw") -> ParseThrow(p)
       [] At(p, "try") -> ParseTry(p)
       [] At(p, "for") -> ParseFor(p)
       [] OTHER ->
            IF LambdaAhead(p) THEN ParseLambda(p)
            ELSE IF At(e, "=")
                 THEN IF e.v.k \in {"Ident", "Select", "Apply"} THEN Yield(v, AssignTo(e.v, v.v))
                      ELSE Fail(e)
            ELSE IF At(e, ":") THEN Yield(t, Ascription(e.v, t.v))
            ELSE e

\* The expression under ascriptions and parentheses.
RECURSIVE Bare(_)
Bare(e) == IF e.k \in {"Ascription", "Parens"} THEN Bare(e.e) ELSE e

\* A `_` that this Expr properly contains becomes a parameter of a lambda around
\* it; a bare one belongs to the enclosing Expr.
ParseExpr(p) ==
  LET e == ParseExprNoPlaceholders([p EXCEPT !.ph = Append(@, <<>>)])
      names == Last(e.ph)
      q == [e EXCEPT !.ph = Front(@)]
      bare == Len(names) = 1 /\ Bare(e.v) = Ident(names[1])
  IN IF e.err # "" \/ names = <<>> THEN q
     ELSE IF ~bare THEN Yield(q, Lambda(Params(names), e.v))
     ELSE IF q.ph = <<>> THEN Fail(q)
     ELSE [q EXCEPT !.ph[Len(q.ph)] = Append(@, names[1])]

Placeholder(p) ==
  LET n == p.fresh.placeholder + 1
      x == "_$" \o ToString(n)
  IN IF p.ph = <<>> THEN Fail(p)
     ELSE [Adv(p) EXCEPT !.fresh.placeholder = n, !.ph[Len(p.ph)] = Append(@, x),
                         !.v = Ident(x)]

\* seen: the associativity met at each level, which a looser operator resets.
\* The left operand is p.v.
InfixLoop(p, min, seen) ==
  LET op == Tk(p, 0).text
      level == Precedence(op)
      right == IsRightAssociative(op)
      side == IF right THEN "right" ELSE "left"
      q == Skip(Adv(p), {"Newline"})
      r == IF right THEN ParseInfix(q, level, level) ELSE ParseInfix(q, level + 1, -1)
  IN IF \/ ~At(p, "id")
        \/ op = "*" /\ Next1(p) = ")"
        \/ level < min
     THEN p
     ELSE IF seen[level] \notin {"", side} THEN Fail(p)
     ELSE IF AtAny(q, {")", "}", "Outdent", ","}) THEN Fail(q)
     ELSE InfixLoop(Yield(r, Infix(p.v, op, r.v)), min,
                    [l \in 0..10 |-> IF l < level THEN seen[l]
                                     ELSE IF l = level THEN side ELSE ""])

\* right: the level of the right-associative operator this is the operand of.
ParseInfix(p, min, right) ==
  InfixLoop(ParsePrefix(p), min, [l \in 0..10 |-> IF l = right THEN "right" ELSE ""])

\* `-5` is a literal, with the sign on the literal under any suffix of it.
RECURSIVE Negated(_)
Negated(e) ==
  CASE e.k = "Select" -> [e EXCEPT !.q = Negated(@)]
    [] e.k \in {"Apply", "TypeArgs"} -> [e EXCEPT !.f = Negated(@)]
    [] e.k = "IntLit" -> IntLit(-e.v)
    [] e.k = "FloatLit" -> FloatLit("-" \o e.v)
    [] OTHER -> e
ParsePrefix(p) ==
  LET t == Tk(p, 0)
      adjacent == ~t.spaced /\ ~Tk(p, 1).first
      e == ParseSimple(Adv(p))
  IN IF ~(t.k = "id" /\ ~t.quoted /\ t.text \in {"-", "+", "!", "~"}) THEN ParseSimple(p)
     ELSE IF t.text = "-" /\ adjacent /\ Next1(p) \in {"int", "float"}
          THEN Yield(e, Negated(e.v))
     ELSE Yield(e, Prefix(t.text, e.v))

\* The format specifier a text after a hole starts with: its length, or 0.
RECURSIVE Span(_, _, _)
Span(s, n, cs) == IF n <= Len(s) /\ Char(s, n) \in cs THEN Span(s, n + 1, cs) ELSE n
Digits == {"0", "1", "2", "3", "4", "5", "6", "7", "8", "9"}
FormatSpecLength(s) ==
  LET width == Span(s, Span(s, 2, {"-", "+", " ", "0", ",", "#"}), Digits)
      n == IF width <= Len(s) /\ Char(s, width) = "." THEN Span(s, width + 1, Digits) ELSE width
  IN IF Len(s) < 2 \/ Char(s, 1) # "%" \/ Char(s, 2) = "%" \/ n > Len(s) THEN 0 ELSE n

\* A hole is one expression, read by a parser of its own over its own tokens.
ParseHole(ts) ==
  LET e == ParseExpr(SkipAll(Start(ts), {"Newline", "Indent"}))
      q == SkipAll(e, {"Newline", "Outdent"})
  IN IF At(q, "eof") THEN q ELSE Refuse(q)
RECURSIVE Parts(_, _, _)
Parts(p, parts, acc) ==
  LET part == Head(parts)
      hole == ParseHole(part.ts)
      afterHole == acc.es # <<>> /\ acc.fresh
      n == IF acc.x = "f" /\ afterHole THEN FormatSpecLength(part.text) ELSE 0
  IN IF parts = <<>>
     THEN Yield(p, Interpolation(acc.x, Append(acc.lits, acc.text), acc.es, acc.specs))
     ELSE IF part.hole
     THEN IF hole.err # "" THEN [Refuse(p) EXCEPT !.err = hole.err]
          ELSE Parts(p, Tail(parts),
                     [acc EXCEPT !.lits = Append(@, acc.text), !.es = Append(@, hole.v),
                                 !.specs = Append(@, ""), !.text = "", !.fresh = TRUE])
     ELSE Parts(p, Tail(parts),
                [acc EXCEPT !.text = @ \o SubSeq(part.text, n + 1, Len(part.text)),
                            !.specs = IF n = 0 THEN @
                                      ELSE Append(Front(@), SubSeq(part.text, 1, n)),
                            !.fresh = FALSE])
ParseInterpolation(p) ==
  Parts(Adv(p), Tk(p, 0).parts, [x |-> Tk(p, 0).text, lits |-> <<>>, es |-> <<>>,
                                 specs |-> <<>>, text |-> "", fresh |-> FALSE])

\* super or super[T], which a dot must follow.
ParseSuper(p) ==
  LET x == Expect(Adv(Adv(p)), "id")
      q == IF Next1(p) = "[" THEN Close(x, "]") ELSE Yield(Adv(p), "")
  IN IF At(q, ".") THEN Yield(q, Super(q.v)) ELSE Fail(q)

ParseSimple(p) ==
  LET t == Tk(p, 0) IN
  SimpleLoop(CASE t.k = "int" -> Yield(Adv(p), IntLit(t.text))
               [] t.k = "float" -> Yield(Adv(p), FloatLit(t.text))
               [] t.k = "str" -> Yield(Adv(p), StringLit(t.text))
               [] t.k = "char" -> Yield(Adv(p), CharLit(t.text))
               [] t.k = "interp" -> ParseInterpolation(p)
               [] t.k = "id" -> Yield(Adv(p), Ident(t.text))
               [] t.k \in {"true", "false"} -> Yield(Adv(p), BoolLit(t.k = "true"))
               [] t.k = "null" -> Yield(Adv(p), NullLit)
               [] t.k = "(" -> ParseParensExpr(p)
               [] t.k = "{" -> ParseBlockExpr(p)
               [] t.k = "new" -> ParseNew(p)
               [] t.k = "this" -> Yield(Adv(p), Ident("this"))
               [] t.k = "super" -> ParseSuper(p)
               [] t.k = "_" -> Placeholder(p)
               [] OTHER -> Fail(p))

\* Selections, applications and type arguments of p.v.
SimpleLoop(p) ==
  LET x == Expect(Adv(p), "id")
      as == ParseArgs(Adv(p))
      b == ParseBlockExpr(p)
      ts == TypeList(Adv(p))
  IN CASE At(p, ".") -> SimpleLoop(Yield(x, Select(p.v, x.v)))
       [] AtSameLine(p, "(") -> SimpleLoop(Yield(as, Apply(p.v, as.v)))
       [] AtSameLine(p, "{") -> SimpleLoop(Yield(b, Apply(p.v, <<b.v>>)))
       [] At(p, "[") -> SimpleLoop(Yield(ts, TypeArgs(p.v, ts.v)))
       [] OTHER -> p

-----------------------------------------------------------------------------
(* Cases.  r counts the regions of case bodies that later cases continued  *)
(* in, which Layout leaves open.                                           *)

RECURSIVE OneLineBody(_, _, _, _)
OneLineBody(p, end, r, acc) ==
  LET s == ParseBlockStat(p, end)
      inRegion(q) == r > 0 /\ At(q, "Outdent")
      stops == {"case", end, "eof", "EndMarker"}
      single == Len(acc) = 1 /\ acc[1].k \notin {"Val", "PatVal", "Def"}
      done == [b |-> IF single THEN acc[1] ELSE Block(acc), r |-> r]
  IN IF AtAny(p, stops) \/ inRegion(p) THEN Yield(p, done)
     ELSE IF AtAny(p, Separators)
     THEN IF Next1(p) \in {"case", end} THEN Yield(Adv(p), done)
          ELSE OneLineBody(Adv(p), end, r, acc)
     ELSE IF AtAny(s, Separators \cup stops) \/ inRegion(s)
     THEN OneLineBody(s, end, r, Append(acc, s.v))
     ELSE Fail(s)

ParseCaseBody(p, end, r) ==
  LET inner == [p EXCEPT !.tmpl = FALSE]
      b == Stats(Adv(inner), "Outdent", "case", <<>>)
      indented == IF At(b, "Outdent") THEN Yield(Adv(b), [b |-> Block(b.v), r |-> r])
                  ELSE Yield(b, [b |-> Block(b.v), r |-> r + 1])
      body == IF At(p, "Indent") THEN indented ELSE OneLineBody(inner, end, r, <<>>)
  IN [body EXCEPT !.tmpl = p.tmpl]

Cases(p, end, r, acc) ==
  LET h == CaseHead(p)
      b == ParseCaseBody(h, end, r)
  IN IF At(p, "case")
     THEN IF h.err # "" \/ b.err # "" THEN b
          ELSE Cases(SkipAll(b, Separators), end, b.v.r, Append(acc, CaseDef(h.v.p, h.v.g, b.v.b)))
     ELSE IF r > 0 /\ At(p, "Outdent") THEN Cases(SkipAll(Adv(p), Separators), end, r - 1, acc)
     ELSE Yield(p, acc)

-----------------------------------------------------------------------------
(* Statements.                                                             *)

\* checkEndMarker: what `end d` may follow.
Closes(stat, d) ==
  CASE stat.k = "If" -> d = "if"
    [] stat.k = "While" -> d = "while"
    [] stat.k = "Match" -> d = "match"
    [] stat.k = "For" -> d = "for"
    [] stat.k \in {"Def", "Template"} -> d = stat.x
    [] stat.k = "Val" -> d \in {"val", stat.x}
    [] stat.k = "PatVal" -> d = "val"
    [] OTHER -> FALSE

\* A block lambda's body is the rest of the block.
ParseBlockStat(p, end) ==
  LET ps == ParseLambdaParams(p)
      b == IF At(ps, "Indent") THEN ParseIndentedBlock(ps) ELSE ParseBlock(ps, end)
  IN IF AtDefinitionStart(p) THEN ParseDefinition(p)
     ELSE IF LambdaAhead(p) THEN Yield(b, Lambda(ps.v, b.v))
     ELSE ParseExpr(p)

\* The statements up to end.  what is "block", "case" (the body of a case, which
\* a case ends too), "template" or "extension".  An enum case is no statement.
Stats(p, end, what, acc) ==
  LET q == SkipAll(p, Separators)
      s == IF what = "template" THEN ParseTemplateStat(q)
           ELSE IF what = "extension" THEN ExtensionMember(q)
           ELSE ParseBlockStat(q, end)
  IN IF At(q, end) \/ (what = "case" /\ At(q, "case")) THEN Yield(q, acc)
     ELSE IF At(q, "eof") THEN Fail(q)
     ELSE IF At(q, "EndMarker") /\ what # "extension"
     THEN IF acc # <<>> /\ Closes(Last(acc), Tk(q, 0).text) THEN Stats(Adv(q), end, what, acc)
          ELSE Fail(q)
     ELSE IF ~AtAny(s, Separators \cup {end}) THEN Fail(s)
     ELSE Stats(s, end, what, IF s.v.k = "null" THEN acc ELSE Append(acc, s.v))

-----------------------------------------------------------------------------
(* Definitions.                                                            *)

\* Annotations, whose arguments a definition skips.
RECURSIVE Annotations(_, _, _)
Annotations(p, args, acc) ==
  LET x == DottedRest(Expect(Adv(p), "id"))
      q == IF args /\ AtSameLine(x, "(") THEN SkipBracketed(x, "(", ")", 0) ELSE x
  IN IF At(p, "@") THEN Annotations(SkipAll(q, {"Newline"}), args, Append(acc, x.v))
     ELSE Yield(p, acc)

\* v: the hard modifiers, `lazy` among them; soft ones are ignored.
ParseModifiers(p, acc) ==
  LET t == Tk(p, 0)
      q == Adv(p)
      scope == IF t.k \in {"private", "protected"} /\ At(q, "[")
               THEN Close(IF Next1(q) = "this" THEN Adv(Adv(q)) ELSE Expect(Adv(q), "id"), "]")
               ELSE q
  IN IF t.k \in {"implicit", "given"} THEN Fail(p)
     ELSE IF t.k \in HardModifiers \cup {"lazy"} THEN ParseModifiers(scope, acc \cup {t.k})
     ELSE IF IsSoftModifier(t) THEN ParseModifiers(q, acc)
     ELSE Yield(p, acc)

\* After val or var: a name is defined, anything else is matched.
ParseValDef(p, kind) ==
  LET next == Next1(p)
      simpleName == /\ At(p, "id") /\ ~Tk(p, 0).op
                    /\ next \in {":", "=", "Newline", "eof", ";"}
      pat == ParsePattern2(p)
      patType == IF At(pat, ":") THEN ParseType(Adv(pat)) ELSE pat
      patRhs == ParseExprOrIndented(Close(patType, "="))
      x == Tk(p, 0).text
      t == IF next = ":" THEN ParseType(Adv(Adv(p))) ELSE Yield(Adv(p), NoType)
      rhs == ParseExprOrIndented(Adv(t))
  IN IF At(p, "eof") THEN Fail(p)
     ELSE IF ~simpleName
     THEN IF (At(p, "id") /\ next = ",") \/ kind = "LazyVal" THEN Refuse(p)
          ELSE Yield(patRhs, PatVal(kind, pat.v, patRhs.v))
     ELSE IF ~At(t, "=")
     THEN IF t.err = "" /\ t.tmpl /\ t.v # NoType THEN Yield(t, Val(kind, x, t.v, Null))
          ELSE Fail(t)
     ELSE IF kind = "Var" /\ Next1(t) = "_" THEN Fail(Adv(t))
     ELSE Yield(rhs, Val(kind, x, t.v, rhs.v))

\* A clause of method or class parameters; a using or implicit one is refused.
ParamClause(p, what) ==
  LET q == Adv(p)
  IN IF At(q, "implicit") \/ (AtIdent(q, "using") /\ Next1(q) # ":") THEN Fail(q)
     ELSE Close(Items(q, what, ")", <<>>), ")")
RECURSIVE ParamClauses(_, _, _)
ParamClauses(p, what, acc) ==
  LET c == ParamClause(p, what)
  IN IF ~AtSameLine(p, "(") THEN Yield(p, acc)
     ELSE IF c.err # "" THEN c ELSE ParamClauses(c, what, Append(acc, c.v))

\* Constructor parameter lists concatenate.
ParseCtorParams(p) ==
  LET cs == ParamClauses(p, "class parameter", <<>>)
  IN IF cs.err # "" THEN cs ELSE Yield(cs, FlattenSeq(cs.v))

ParseDefDef(p, notes) ==
  LET x == IF At(p, "this") /\ p.tmpl THEN Yield(Adv(p), "this") ELSE Expect(p, "id")
      lists == ParamClauses(ParseTypeParams(x), "parameter", <<>>)
      t == IF At(lists, ":") THEN ParseType(Adv(lists)) ELSE Yield(lists, NoType)
      b == ParseExprOrIndented(Adv(t))
      def == [Def(x.v, lists.v, t.v, Null) EXCEPT !.notes = notes]
  IN IF At(t, "{") THEN Fail(t)
     ELSE IF At(t, "=") THEN Yield(b, [def EXCEPT !.b = b.v])
     ELSE IF t.err = "" /\ t.tmpl /\ x.v # "this" THEN Yield(t, def)
     ELSE Fail(t)

\* A selector [x, alias, kind]; `given` and `x => _` bind nothing.
IsImportWildcard(t) == t.k = "_" \/ (t.k = "id" /\ t.op /\ ~t.quoted /\ t.text = "*")
Selector(x, alias, kind) == [x |-> x, alias |-> alias, kind |-> kind]
ParseImportSelector(p) ==
  LET q == Adv(p)
      renamed == AtIdent(q, "as") \/ At(q, "=>")
      x == Tk(p, 0).text
  IN IF At(p, "given")
     THEN Yield(IF At(q, "id") /\ Tk(q, 0).text # "as" THEN Adv(q) ELSE q,
                Selector("", "", "none"))
     ELSE IF IsImportWildcard(Tk(p, 0)) THEN Yield(q, Selector("*", "", "wildcard"))
     ELSE IF ~AtAny(p, {"id", "this"}) THEN Fail(p)
     ELSE IF ~renamed THEN Yield(q, Selector(x, "", "name"))
     ELSE IF IsImportWildcard(Tk(q, 1)) THEN Yield(Adv(Adv(q)), Selector("", "", "none"))
     ELSE IF Next1(q) # "id" THEN Fail(Adv(q))
     ELSE Yield(Adv(Adv(q)), Selector(x, Tk(q, 1).text, "name"))
RECURSIVE ImportSelectors(_, _)
ImportSelectors(p, acc) ==
  LET q == SkipAll(p, LayoutTokens)
      s == ParseImportSelector(q)
      r == SkipAll(s, LayoutTokens)
      got == Append(acc, s.v)
  IN IF At(q, "}") THEN Yield(Adv(q), acc)
     ELSE IF At(r, ",") THEN ImportSelectors(Adv(r), got)
     ELSE Close(Yield(r, got), "}")

\* The rest of an import after path.
RECURSIVE ImportRest(_, _)
ImportRest(p, path) ==
  LET here == Append(path, Tk(p, 0).text)
      dot == Adv(p)
      q == Adv(dot)
      sels == ImportSelectors(Adv(q), <<>>)
      alias == Expect(q, "id")
  IN IF ~AtAny(p, {"id", "this"}) THEN Fail(p)
     ELSE IF At(dot, ".")
     THEN CASE At(q, "{") -> Yield(sels, Import(here, sels.v, ""))
            [] IsImportWildcard(Tk(q, 0)) \/ At(q, "given") ->
                 LET s == ParseImportSelector(q)
                 IN Yield(Adv(q), Import(here, <<s.v>>, ""))
            [] OTHER -> ImportRest(q, here)
     ELSE IF AtIdent(dot, "as") THEN Yield(alias, Import(here, <<>>, alias.v))
     ELSE Yield(dot, Import(here, <<>>, ""))
ParseImport(p) == ImportRest(Adv(p), <<>>)

\* The right-hand side is kept, bounds are erased.
ParseTypeDef(p) ==
  LET x == Expect(Adv(p), "id")
      q == ParseTypeParams(x)
      t == ParseType(Adv(q))
      Bound(r) == IF AtAny(r, {"<:", ">:"}) THEN ParseType(Adv(r)) ELSE r
  IN IF At(q, "=") THEN Yield(t, TypeDef(x.v, t.v))
     ELSE Yield(Bound(Bound(q)), TypeDef(x.v, NoType))

-----------------------------------------------------------------------------
(* Templates.                                                              *)

RECURSIVE ParseParents(_, _)
ParseParents(p, acc) ==
  LET t == ParseSimpleType(p)
      as == IF AtSameLine(t, "(") THEN ParseArgs(Adv(t)) ELSE Yield(t, <<>>)
      got == Append(acc, [Parent(t.v, as.v) EXCEPT !.hasArgs = AtSameLine(t, "(")])
  IN IF AtSameLine(t, "(") /\ AtSameLine(as, "(") THEN Refuse(as)
     ELSE IF AtAny(as, {"with", ","}) THEN ParseParents(Adv(as), got)
     ELSE Yield(as, got)
Parents(p) == IF At(p, "extends") THEN ParseParents(Adv(p), <<>>) ELSE Yield(p, <<>>)

\* Where a body may begin: after erased derivations, on the next line for `{`.
AtBody(p) == AtAny(p, {"{", "ColonEol"}) \/ (At(p, ":") /\ Next1(p) = "eof")
BeforeBody(p) ==
  LET q == IF AtIdent(p, "derives") THEN Items1(Adv(p), "type") ELSE p
  IN IF At(q, "Newline") /\ Next1(q) = "{" THEN Adv(q) ELSE q

\* `self =>` or `self: T =>`; v is the alias, "" for `this` or when there is none.
SelfAlias(p) ==
  LET named == AtAny(p, {"id", "this"})
      x == IF At(p, "id") THEN Tk(p, 0).text ELSE ""
      t == ParseInfixType(Adv(Adv(p)))
  IN IF named /\ Next1(p) = "=>" THEN Yield(Adv(Adv(p)), x)
     ELSE IF named /\ Next1(p) = ":" /\ t.err = "" /\ At(t, "=>") THEN Yield(Adv(t), x)
     ELSE Yield(p, "")

\* v: the alias and the statements.  After an alias, Layout may have opened a
\* region that holds the members.
ParseTemplateBody(p) ==
  LET end == IF At(p, "{") THEN "}" ELSE "Outdent"
      open == IF At(p, "{") THEN Adv(p) ELSE Close(Adv(p), "Indent")
      first == SkipAll(open, Separators)
      alias == SelfAlias(first)
      region == alias.i # first.i /\ At(alias, "Indent")
      start == IF region THEN Adv(alias) ELSE alias
      stats == Stats([start EXCEPT !.tmpl = TRUE], IF region THEN "Outdent" ELSE end,
                     "template", <<>>)
      out == IF region THEN SkipAll(Close(stats, "Outdent"), Separators) ELSE stats
      body == Yield(out, [self |-> alias.v, stats |-> stats.v])
  IN [Close(body, end) EXCEPT !.tmpl = p.tmpl]

WithBody(p, node) ==
  LET b == ParseTemplateBody(p)
  IN IF b.err # "" THEN b
     ELSE Yield(b, [node EXCEPT !.body = b.v.stats, !.self = b.v.self])

TemplateKind(word) ==
  CASE word = "class" -> "Class" [] word = "trait" -> "Trait" [] OTHER -> "Object"
ParseTemplateDef(p) ==
  LET case == At(p, "case")
      word == Skip(p, {"case"})
      x == Expect(Adv(word), "id")
      q == ParseTypeParams(x)
      access == IF AtAny(q, {"private", "protected"}) /\ Next1(q) = "(" THEN Adv(q) ELSE q
      ps == IF At(word, "object") THEN Yield(q, <<>>) ELSE ParseCtorParams(access)
      parents == Parents(ps)
      body == BeforeBody(parents)
      node == [Template(TemplateKind(Tk(word, 0).k), x.v, ps.v, parents.v, <<>>)
                 EXCEPT !.isCase = case]
  IN IF ~AtAny(word, {"class", "trait", "object"}) THEN Fail(word)
     ELSE IF case /\ At(word, "class") /\ ps.err = "" /\ ~AtSameLine(access, "(")
     THEN FailAt(ps, p.i)
     ELSE IF AtBody(body) THEN WithBody(body, node) ELSE Yield(body, node)

\* The cases of an enum, after `case`, go to the enum that is open.
RECURSIVE EnumCases(_, _)
EnumCases(p, kw) ==
  LET x == Expect(p, "id")
      q == ParseTypeParams(x)
      parens == AtSameLine(q, "(")
      ps == ParseCtorParams(q)
      parents == Parents(ps)
      args == IF parents.err # "" \/ parents.v = <<>> THEN <<>> ELSE parents.v[1].args
      bare == ~parens /\ (parents.v = <<>> \/ ~parents.v[1].hasArgs)
      c == [parents EXCEPT !.cases = Append(@, EnumCase(x.v, ps.v, parens, args))]
  IN IF parents.err # "" THEN parents
     ELSE IF Len(parents.v) > 1 THEN FailAt(parents, kw)
     ELSE IF ~At(c, ",") THEN Yield(c, Null)
     ELSE IF ~bare THEN FailAt(c, kw)
     ELSE EnumCases(Adv(c), kw)

ParseTemplateStat(p) ==
  IF p.enum /\ At(p, "case") /\ Next1(p) \notin {"class", "object"} THEN EnumCases(Adv(p), p.i)
  ELSE IF AtDefinitionStart(p) THEN ParseDefinition(p)
  ELSE ParseExpr(p)

ParseEnumDef(p) ==
  LET x == Expect(Adv(p), "id")
      ps == ParseCtorParams(ParseTypeParams(x))
      parents == Parents(ps)
      body == BeforeBody(parents)
      b == WithBody([body EXCEPT !.enum = TRUE, !.cases = <<>>],
                    Template("Enum", x.v, ps.v, parents.v, <<>>))
  IN IF body.err # "" \/ ~AtBody(body) THEN FailAt(body, p.i)
     ELSE IF b.err # "" THEN b
     ELSE IF b.cases = <<>> THEN FailAt(b, p.i)
     ELSE [b EXCEPT !.enum = p.enum, !.cases = p.cases, !.v = [@ EXCEPT !.cases = b.cases]]

ExtensionMember(p) ==
  LET notes == Annotations(p, FALSE, <<>>)
      mods == ParseModifiers(notes, {})
      d == ParseDefDef(Adv(mods), notes.v)
  IN IF mods.err # "" THEN mods
     ELSE IF "lazy" \in mods.v \/ ~At(mods, "def") THEN Fail(mods)
     ELSE IF d.err # "" THEN d
     ELSE Yield(d, [d.v EXCEPT !.mods = mods.v])

ParseExtension(p) ==
  LET x == Expect(Close(ParseTypeParams(Adv(p)), "("), "id")
      t == ParseType(Close(x, ":"))
      q == ParseTypeParams(Close(t, ")"))
      end == IF At(q, "{") THEN "}" ELSE "Outdent"
      one == ExtensionMember(q)
      ms == IF AtAny(q, {"{", "Indent"}) THEN Close(Stats(Adv(q), end, "extension", <<>>), end)
            ELSE Yield(one, <<one.v>>)
  IN IF AtAny(q, {"ColonEol", ":"}) THEN Fail(q)
     ELSE IF ms.err = "" /\ ms.v = <<>> THEN FailAt(ms, p.i)
     ELSE Yield(ms, Extension(x.v, t.v, ms.v))

\* The definition of mods and the word that follows them.
ParseDefinition(p) ==
  LET notes == Annotations(p, TRUE, <<>>)
      ms == ParseModifiers(notes, {})
      lazy == "lazy" \in ms.v
      mods == ms.v \ {"lazy"}
      d == CASE At(ms, "val") -> ParseValDef(Adv(ms), IF lazy THEN "LazyVal" ELSE "Val")
             [] At(ms, "var") -> ParseValDef(Adv(ms), "Var")
             [] At(ms, "def") -> ParseDefDef(Adv(ms), notes.v)
             [] AtAny(ms, {"case", "class", "object", "trait"}) -> ParseTemplateDef(ms)
             [] At(ms, "enum") -> ParseEnumDef(ms)
             [] At(ms, "type") -> ParseTypeDef(ms)
             [] OTHER -> Fail(ms)
      plain == ~lazy /\ notes.v = <<>>
  IN IF ms.err # "" THEN ms
     ELSE IF lazy /\ ~At(ms, "val") THEN Fail(ms)
     ELSE IF At(ms, "import") THEN IF plain THEN ParseImport(ms) ELSE Fail(ms)
     ELSE IF AtAny(ms, {"package", "export"}) THEN Refuse(ms)
     ELSE IF AtExtension(ms) THEN IF plain THEN ParseExtension(ms) ELSE Fail(ms)
     ELSE IF At(ms, "case") /\ Next1(ms) \notin {"class", "object"} THEN Fail(ms)
     ELSE IF d.err # "" THEN d
     ELSE Yield(d, [d.v EXCEPT !.mods = mods])

-----------------------------------------------------------------------------
\* One item of a list.
TypedParam(p, field, mods) ==
  LET x == Expect(p, "id")
      t == ParseType(Close(x, ":"))
      rep == AtIdent(t, "*")
      q == IF rep THEN Adv(t) ELSE t
      d == IF At(q, "=") THEN ParseExpr(Adv(q)) ELSE Yield(q, Null)
  IN Yield(d, [TParam(x.v, t.v) EXCEPT !.byName = t.v.k = "ByName", !.rep = rep,
                                       !.dflt = d.v, !.field = field, !.mods = mods])
ClassParam(p) ==
  LET ms == ParseModifiers(p, {})
      field == CASE At(ms, "val") -> "Val" [] At(ms, "var") -> "Var" [] OTHER -> ""
  IN IF ms.err # "" THEN ms
     ELSE IF "lazy" \in ms.v THEN Fail(ms)
     ELSE TypedParam(Skip(ms, {"val", "var"}), field, ms.v)
LambdaParam(p) ==
  LET x == IF At(p, "_") THEN Yield(Adv(p), "_") ELSE Expect(p, "id")
      t == IF At(x, ":") THEN ParseType(Adv(x)) ELSE Yield(x, NoType)
  IN Yield(t, [TParam(x.v, t.v) EXCEPT !.byName = t.v.k = "ByName"])
TypeParam(p) ==
  LET q == IF AtIdent(p, "+") \/ AtIdent(p, "-") THEN Adv(p) ELSE p
      x == IF At(q, "_") THEN Adv(q) ELSE Expect(q, "id")
  IN TypeBounds(IF At(x, "[") THEN SkipBracketed(x, "[", "]", 0) ELSE x)
Argument(p) ==
  LET named == ParseExpr(Adv(Adv(p)))
      e == ParseExpr(p)
  IN IF At(p, "id") /\ Next1(p) = "=" THEN Yield(named, NamedArg(Tk(p, 0).text, named.v))
     ELSE IF AtIdent(e, "*") /\ Next1(e) = ")" THEN Yield(Adv(e), Splice(e.v))
     ELSE IF e.v.k = "Ascription" /\ e.v.t = TRepeated(TWildcard) THEN Yield(e, Splice(e.v.e))
     ELSE e
\* `rest*` and `rest @ _*` end the arguments of an extractor.
PatternArgument(p) ==
  LET named == IsVarId(Tk(p, 0))
      star(n) == AtIdent([p EXCEPT !.i = @ + n], "*") /\ Tk(p, n + 1).k = ")"
  IN IF named /\ Tk(p, 1).k = "id" /\ star(1)
     THEN Yield(Adv(Adv(p)), SeqWildcard(Tk(p, 0).text))
     ELSE IF named /\ Tk(p, 1).k = "@" /\ Tk(p, 2).k = "_" /\ Tk(p, 3).k = "id" /\ star(3)
     THEN Yield(Adv(Adv(Adv(Adv(p)))), SeqWildcard(Tk(p, 0).text))
     ELSE ParsePattern(p)

Item(p, what) ==
  CASE what = "type" -> ParseType(p)
    [] what = "type parameter" -> TypeParam(p)
    [] what = "expr" -> ParseExpr(p)
    [] what = "argument" -> Argument(p)
    [] what = "pattern" -> ParsePattern(p)
    [] what = "pattern argument" -> PatternArgument(p)
    [] what = "parameter" -> TypedParam(p, "", {})
    [] what = "class parameter" -> ClassParam(p)
    [] what = "lambda parameter" -> LambdaParam(p)

\* parseCompilationUnit: [err, v], v the statements.
ParseUnit(ts) == LET p == Stats(Start(ts), "eof", "block", <<>>) IN [err |-> p.err, v |-> p.v]
=============================================================================
