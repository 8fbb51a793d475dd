-------------------------- MODULE FrontEndSamples ---------------------------
(***************************************************************************)
(* Source texts for the runs of the front end, as tokens, and texts        *)
(* written by hand with the trees they stand for.                          *)
(***************************************************************************)
EXTENDS Parser

-----------------------------------------------------------------------------
(* Texts: a sequence of lines [w, blank, ws] of words at an indentation.   *)

Line(ws) == <<[w |-> 0, blank |-> FALSE, ws |-> ws]>>
Shift(d) == [n \in DOMAIN d |-> [d[n] EXCEPT !.w = @ + 2]] \o <<>>
\* The last line of d goes on with the first of e.
Join(d, e) ==
  Front(d) \o <<[Last(d) EXCEPT !.ws = @ \o Head(e).ws]>> \o Tail(e)
Under(d, e) == d \o Shift(e)

\* A text written as strings, words apart, indented by blanks; "" is a blank line.
Indentation(s) == Span(s, 1, {" "}) - 1
RECURSIVE Words(_, _)
Words(s, n) ==
  LET from == Span(s, n, {" "})
      ends == {m \in from + 1..Len(s) + 1 : m = Len(s) + 1 \/ Char(s, m) = " "}
      to == CHOOSE m \in ends : \A q \in ends : m <= q
  IN IF from > Len(s) THEN <<>> ELSE <<SubSeq(s, from, to - 1)>> \o Words(s, to)
RECURSIVE LinesFrom(_, _)
LinesFrom(t, n) ==
  IF n > Len(t) THEN <<>>
  ELSE IF t[n] = "" THEN LinesFrom(t, n + 1)
  ELSE <<[w |-> Indentation(t[n]), blank |-> n > 1 /\ t[n - 1] = "",
          ws |-> Words(t[n], 1)]>> \o LinesFrom(t, n + 1)
Document(t) == LinesFrom(t, 1)

Keywords == {"if", "then", "else", "while", "do", "for", "yield", "match", "case", "try",
             "catch", "finally", "throw", "return", "def", "val", "var", "lazy", "class",
             "trait", "object", "enum", "export", "implicit", "extends", "with", "new", "this", "super", "true",
             "false", "null", "private", "override", "abstract", "type", "import", "_"}
Punctuation == {"(", ")", "[", "]", "{", "}", ",", ";", ".", ":", "=", "=>", "<-", "@", "<:"}
Numbers == "0" :> 0 @@ "1" :> 1 @@ "2" :> 2 @@ "3" :> 3

\* Interpolated strings: s"v=${v + 1}!" and f"$v%-5.2d|".
Plain(k, text) == [k |-> k, text |-> text, line |-> 1, w |-> 0, first |-> FALSE, blank |-> FALSE,
                   spaced |-> TRUE, op |-> FALSE, quoted |-> FALSE]
Piece(hole, text, ts) == [hole |-> hole, text |-> text, ts |-> ts]
EofToken == Plain("eof", "")
Interpolated ==
  "s\"a\"" :> [x |-> "s", parts |-> <<Piece(FALSE, "v=", <<>>),
       Piece(TRUE, "", <<Plain("id", "v"), [Plain("id", "+") EXCEPT !.op = TRUE],
                         Plain("int", 1), EofToken>>), Piece(FALSE, "!", <<>>)>>]
  @@ "f\"b\"" :> [x |-> "f", parts |-> <<Piece(TRUE, "", <<Plain("id", "v"), EofToken>>),
                                         Piece(FALSE, "%-5.2d|", <<>>)>>]

\* "-'" is a minus with no blank after it, "''" an empty character literal and
\* "/*" a comment the text does not close.
Errors == "''" :> "bad" @@ "/*" :> "open"
Token(word, line, n) ==
  LET base == [Plain("id", word) EXCEPT !.line = n, !.w = line.w]
  IN IF word \in DOMAIN Interpolated
     THEN [base EXCEPT !.k = "interp", !.text = Interpolated[word].x]
            @@ [parts |-> Interpolated[word].parts]
     ELSE IF word \in Keywords \cup Punctuation THEN [base EXCEPT !.k = word]
     ELSE IF word \in DOMAIN Numbers THEN [base EXCEPT !.k = "int", !.text = Numbers[word]]
     ELSE IF word \in DOMAIN Errors THEN [base EXCEPT !.k = "Error", !.text = Errors[word]]
     ELSE IF word = "-'" THEN [base EXCEPT !.text = "-", !.spaced = FALSE, !.op = TRUE]
     ELSE [base EXCEPT !.op = ~IsLetterStart(Char(word, 1))]

LineTokens(line, n) ==
  [m \in DOMAIN line.ws |->
     [Token(line.ws[m], line, n) EXCEPT !.first = m = 1, !.blank = m = 1 /\ line.blank]]

RECURSIVE TokensOf(_, _)
TokensOf(d, n) ==
  IF n > Len(d) THEN <<[EofToken EXCEPT !.line = n, !.first = TRUE]>>
  ELSE LineTokens(d[n], n) \o TokensOf(d, n + 1)
Raw(d) == TokensOf(d, 1)

-----------------------------------------------------------------------------
(* Texts with the trees they stand for.                                    *)

Reads(t, v) == [t |-> t, want |-> [err |-> "", v |-> v]]
Fails(t, err) == [t |-> t, want |-> [err |-> err, v |-> Null]]

I(x) == Ident(x)
One(x) == <<TParam(x, NoType)>>
XInt == TParam("x", TName("Int"))
Gen(x, e) == Generator(FALSE, VarPat(x), I(e))
Case(p, b) == CaseDef(p, Null, b)

Samples ==
  << \* Expressions.
  Reads(<<"f ( a , b = c , xs * ) . g [ T ] ( )">>,
    <<Apply(TypeArgs(Select(Apply(I("f"), <<I("a"), NamedArg("b", I("c")), Splice(I("xs"))>>),
                            "g"), <<TName("T")>>), <<>>)>>),
  Reads(<<"f ( _ + 1 , _ )">>,
    <<Lambda(One("_$2"), Apply(I("f"), <<Lambda(One("_$1"), Infix(I("_$1"), "+", IntLit(1))),
                                         I("_$2")>>))>>),
  Reads(<<"- a + -' 1 . m + - 2">>,
    <<Infix(Infix(Prefix("-", I("a")), "+", Select(IntLit(-1), "m")), "+",
            Prefix("-", IntLit(2)))>>),
  Reads(<<"( a , ( b ) , ( ) )">>, <<Tuple(<<I("a"), Parens(I("b")), UnitLit>>)>>),
  Reads(<<"a . b = c", "a ( 1 ) = ( x : Int , _ ) => x">>,
    <<AssignTo(Select(I("a"), "b"), I("c")),
      AssignTo(Apply(I("a"), <<IntLit(1)>>),
               Lambda(<<XInt, TParam("_", NoType)>>, I("x")))>>),
  Reads(<<"f ( xs : _ * )", "x : ( A , B ) => C">>,
    <<Apply(I("f"), <<Splice(I("xs"))>>),
      Ascription(I("x"), TFunction(<<TName("A"), TName("B")>>, TName("C")))>>),
  Reads(<<"new C [ T ] ( a ) ( b )", "super [ T ] . m", "this . x">>,
    <<NewOf(TApplied("C", <<TName("T")>>), <<I("a"), I("b")>>), Select(Super("T"), "m"),
      Select(I("this"), "x")>>),
  Reads(<<"f { x =>", "  a", "  b", "}", "g { case 0 => a", "case _ => b }">>,
    <<Apply(I("f"), <<Block(<<Lambda(One("x"), Block(<<I("a"), I("b")>>))>>)>>),
      Apply(I("g"), <<Lambda(One("x$1"), Match(I("x$1"), <<Case(LitPat(IntLit(0)), I("a")),
                                                           Case(Wildcard, I("b"))>>))>>)>>),
  Reads(<<"s\"a\"", "f\"b\"">>,
    <<Interpolation("s", <<"v=", "!">>, <<Infix(I("v"), "+", IntLit(1))>>, <<"">>),
      Interpolation("f", <<"", "|">>, <<I("v")>>, <<"%-5.2d">>)>>),
  \* Lines: a leading infix operator goes on, a blank line ends the statement.
  Reads(<<"a", "+ b", "", "+ c">>, <<Infix(I("a"), "+", I("b")), Prefix("+", I("c"))>>),
  Reads(<<"a +", "b", ". m">>, <<Infix(I("a"), "+", Select(I("b"), "m"))>>),
  Reads(<<"f", "( a )">>, <<I("f"), Parens(I("a"))>>),
  Reads(<<"if ( a ) | b then c", "else d">>, <<If(Infix(Parens(I("a")), "|", I("b")), I("c"), I("d"))>>),
  Reads(<<"if a then", "  b", "  c", "end if", "while", "  a", "do", "  b", "end while">>,
    <<If(I("a"), Block(<<I("b"), I("c")>>), Null), While(Block(<<I("a")>>), Block(<<I("b")>>))>>),
  Reads(<<"return", "throw a ; return b">>, <<Return(Null), Throw(I("a")), Return(I("b"))>>),
  \* Try.
  Reads(<<"try a", "catch case e : E => b", "finally c">>,
    <<Try(I("a"), <<Case(TypedPat(TName("E"), VarPat("e")), I("b"))>>, I("c"))>>),
  Reads(<<"try", "  a", "catch", "  case _ : ( E | F ) =>", "    b", "  case e if c => d", "e">>,
    <<Try(Block(<<I("a")>>),
          <<Case(TypedPat(TInfix("|", TName("E"), TName("F")), Wildcard), Block(<<I("b")>>)),
            CaseDef(VarPat("e"), I("c"), I("d"))>>, Null), I("e")>>),
  Reads(<<"try { a } catch h">>,
    <<Try(Block(<<I("a")>>), <<Case(VarPat("e$1"), Apply(I("h"), <<I("e$1")>>))>>, Null)>>),
  \* For.
  Reads(<<"for", "  ( a , b ) <- xs", "  c = a", "  if c", "  case D ( d ) <- c", "yield",
          "  d">>,
    <<For(<<Generator(FALSE, TuplePat(<<VarPat("a"), VarPat("b")>>), I("xs")),
            Value(VarPat("c"), I("a")), Guard(I("c")),
            Generator(TRUE, Extractor("D", <<VarPat("d")>>), I("c"))>>,
          Block(<<I("d")>>), TRUE)>>),
  Reads(<<"for { x <- xs ; y <- ys } do f ( x )", "for ( x <- xs ) y">>,
    <<For(<<Gen("x", "xs"), Gen("y", "ys")>>, Apply(I("f"), <<I("x")>>), FALSE),
      For(<<Gen("x", "xs")>>, I("y"), FALSE)>>),
  \* Match and patterns.
  Reads(<<"x match", "  case a :: b :: c => a ; b", "  case D . E | 1 =>", "    a", "    b",
          "  case F ( _ , r @ _ * ) => c", "end match">>,
    <<Match(I("x"),
       <<Case(Extractor("::", <<VarPat("a"), Extractor("::", <<VarPat("b"), VarPat("c")>>)>>),
              Block(<<I("a"), I("b")>>)),
         Case(AltPat(<<StablePat(Select(I("D"), "E")), LitPat(IntLit(1))>>),
              Block(<<I("a"), I("b")>>)),
         Case(Extractor("F", <<Wildcard, SeqWildcard("r")>>), I("c"))>>)>>),
  Reads(<<"x match { case p @ G [ T ] ( r * ) => val y = p", "  case ( ) =>", "  case -' 1 => a }">>,
    <<Match(I("x"),
       <<Case(BindPat("p", Extractor("G", <<SeqWildcard("r")>>)),
              Block(<<Val("Val", "y", NoType, I("p"))>>)),
         Case(LitPat(UnitLit), Block(<<>>)), Case(LitPat(IntLit(-1)), I("a"))>>)>>)  ,
  \* Definitions.
  Reads(<<"@ a . b ( 1 ) @ tailrec", "private [ C ] def f [ A <: B , F [ _ ] ] ( x : => Int , y : Int * = 1 ) ( z : A ) : List [ A ] = z">>,
    <<[Def("f", <<<<[TParam("x", TByName(TName("Int"))) EXCEPT !.byName = TRUE],
                    [TParam("y", TName("Int")) EXCEPT !.rep = TRUE, !.dflt = IntLit(1)]>>,
                  <<TParam("z", TName("A"))>>>>, TApplied("List", <<TName("A")>>), I("z"))
        EXCEPT !.mods = {"private"}, !.notes = <<"a.b", "tailrec">>]>>),
  Reads(<<"val ( a , X ) : T = c", "lazy val b : Int = a", "var d = a", "val X = d", "type N [ A ] = A | B">>,
    <<PatVal("Val", TuplePat(<<VarPat("a"), StablePat(I("X"))>>), I("c")),
      Val("LazyVal", "b", TName("Int"), I("a")), Val("Var", "d", NoType, I("a")),
      Val("Val", "X", NoType, I("d")),
      TypeDef("N", TInfix("|", TName("A"), TName("B")))>>),
  Reads(<<"import a . b . { c => d , e as f , g => _ , * }", "import a . _", "import a . b as c", "import a">>,
    <<Import(<<"a", "b">>, <<Selector("c", "d", "name"), Selector("e", "f", "name"),
                             Selector("", "", "none"), Selector("*", "", "wildcard")>>, ""),
      Import(<<"a">>, <<Selector("*", "", "wildcard")>>, ""),
      Import(<<"a", "b">>, <<>>, "c"), Import(<<"a">>, <<>>, "")>>),
  Reads(<<"abstract class C [ + A ] private ( override val x : Int , var y : A = z ) extends B ( x ) with T :",
          "  self =>", "  def f : Int", "  val g : Int", "  def this ( ) = a", "  open def h = b", "end C">>,
    <<[Template("Class", "C",
                <<[XInt EXCEPT !.field = "Val", !.mods = {"override"}],
                  [TParam("y", TName("A")) EXCEPT !.field = "Var", !.dflt = I("z")]>>,
                <<Parent(TName("B"), <<I("x")>>), Parent(TName("T"), <<>>)>>,
                <<Def("f", <<>>, TName("Int"), Null), Val("Val", "g", TName("Int"), Null),
                  Def("this", <<<<>>>>, NoType, I("a")), Def("h", <<>>, NoType, I("b"))>>)
        EXCEPT !.mods = {"abstract"}, !.self = "self"]>>),
  Reads(<<"trait T { this : A =>", "  def f : Int", "  a", "}", "case object O", "case class D ( x : Int ) extends T", "{", "  a", "}">>,
    <<Template("Trait", "T", <<>>, <<>>, <<Def("f", <<>>, TName("Int"), Null), I("a")>>),
      [Template("Object", "O", <<>>, <<>>, <<>>) EXCEPT !.isCase = TRUE],
      [Template("Class", "D", <<XInt>>, <<Parent(TName("T"), <<>>)>>, <<I("a")>>)
         EXCEPT !.isCase = TRUE]>>),
  Reads(<<"enum E ( x : Int ) derives A , B :", "  case A extends E ( 1 )", "  case B ( x : Int ) extends E ( x )", "  def f = x",
          "enum G { case P , Q ; case class K ( ) }">>,
    <<[Template("Enum", "E", <<XInt>>, <<>>, <<Def("f", <<>>, NoType, I("x"))>>)
         EXCEPT !.cases = <<EnumCase("A", <<>>, FALSE, <<IntLit(1)>>),
                            EnumCase("B", <<XInt>>, TRUE, <<I("x")>>)>>],
      [Template("Enum", "G", <<>>, <<>>, <<[Template("Class", "K", <<>>, <<>>, <<>>)
                                             EXCEPT !.isCase = TRUE]>>)
         EXCEPT !.cases = <<EnumCase("P", <<>>, FALSE, <<>>), EnumCase("Q", <<>>, FALSE, <<>>)>>]>>),
  Reads(<<"extension ( x : Int )", "  @ a", "  def f = x", "  def g = x",
          "extension [ A ] ( x : Int ) def h = x", "extension ( x : Int ) {", "  def k = x", "}", "a">>,
    <<Extension("x", TName("Int"), <<[Def("f", <<>>, NoType, I("x")) EXCEPT !.notes = <<"a">>],
                                     Def("g", <<>>, NoType, I("x"))>>),
      Extension("x", TName("Int"), <<Def("h", <<>>, NoType, I("x"))>>),
      Extension("x", TName("Int"), <<Def("k", <<>>, NoType, I("x"))>>), I("a")>>),
  \* Texts that are refused, and texts that have only begun.
  Fails(<<"if a then", "    b", "  c">>, "layout"),
  Fails(<<"f ( a ] )">>, "layout"),
  Fails(<<"f ( a ,">>, "open"), Fails(<<"a /*">>, "open"), Fails(<<"a = ''">>, "layout"),
  Fails(<<"if a then">>, "incomplete"), Fails(<<"a match">>, "incomplete"),
  Fails(<<"def f ( x : Int ) =">>, "incomplete"), Fails(<<"class C :">>, "incomplete"),
  Fails(<<"val x">>, "incomplete"), Fails(<<"a +">>, "incomplete"),
  Fails(<<"for x <- xs">>, "incomplete"), Fails(<<"@ a">>, "incomplete"),
  Fails(<<"while a do", "  b", "end if">>, "error"), Fails(<<"end f">>, "error"),
  Fails(<<"a b">>, "incomplete"), Fails(<<"case class C">>, "error"),
  Fails(<<"class C :", "  case A">>, "error"), Fails(<<"def f">>, "incomplete"),
  Fails(<<"do a">>, "error"), Fails(<<"1 = a">>, "error"), Fails(<<"lazy def f = a">>, "error"),
  Fails(<<"val a , b = c">>, "error"), Fails(<<"new C { }">>, "error"),
  Fails(<<"def f ( using x : Int ) = a">>, "error"), Fails(<<"export a">>, "error"),
  Fails(<<"x match { case F ( _ * , a ) => b }">>, "error"),
  Fails(<<"enum E { def f = a }">>, "error"), Fails(<<"extension ( x : Int ) : ", "  def f = x">>, "error"),
  Fails(<<"( a + )">>, "error"), Fails(<<"super">>, "incomplete"), Fails(<<"try a", "b">>, "error")
  >>
=============================================================================
