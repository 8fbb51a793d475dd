------------------------------ MODULE Programs ------------------------------
(***************************************************************************)
(* Small programs, as the parser reads them, for the compiler and the      *)
(* engine: each is built for one hazard of the translation.  A unit has the*)
(* tree that is compiled and the tree its meaning is taken from, the same  *)
(* unless the meaning of a construct is given by writing it out.           *)
(***************************************************************************)
EXTENDS Syntax

I(n) == IntLit(n)
S(x) == StringLit(x)
V(x) == Ident(x)
C(f, args) == Apply(V(f), args)
Say(e) == C("emit", <<e>>)
Wait == C("await", <<I(0)>>)
Dot(a, x) == Select(a, x)
Send(a, x, args) == Apply(Select(a, x), args)
B(stats) == Block(stats)
Make(x, args) == NewOf(TName(x), args)
Fail1(x) == Throw(Make(x, <<S("m")>>))
Put(x, v) == AssignTo(V(x), v)
IsOf(v, t) == TypeArgs(Select(v, "isInstanceOf"), <<TName(t)>>)
AsOf(v, t) == TypeArgs(Select(v, "asInstanceOf"), <<TName(t)>>)

OfType(t, p) == TypedPat(TName(t), p)
Case(p, b) == CaseDef(p, Null, b)
Catch(x, b) == <<Case(OfType(x, VarPat("e")), b)>>

P(x) == TParam(x, NoType)
ByNameP(x) == [P(x) EXCEPT !.byName = TRUE]
RepP(x) == [P(x) EXCEPT !.rep = TRUE]
DefaultP(x, e) == [P(x) EXCEPT !.dflt = e]
ValP(x) == [P(x) EXCEPT !.field = "Val"]
VarP(x) == [P(x) EXCEPT !.field = "Var"]

Let(x, rhs) == Val("Val", x, NoType, rhs)
Var(x, rhs) == Val("Var", x, NoType, rhs)
LazyLet(x, rhs) == Val("LazyVal", x, NoType, rhs)
Fn(x, ps, b) == Def(x, <<ps>>, NoType, b)
Get(x, b) == Def(x, <<>>, NoType, b)
TailRec(x, ps, b) == [Fn(x, ps, b) EXCEPT !.notes = <<"tailrec">>]
Parents(names, args) ==
  [i \in DOMAIN names |-> Parent(TName(names[i]), IF args = <<>> THEN <<>> ELSE args[i])]
Class(x, ps, parents, args, body) == Template("Class", x, ps, Parents(parents, args), body)
Trait(x, parents, body) == Template("Trait", x, <<>>, Parents(parents, <<>>), body)
Object(x, body) == Template("Object", x, <<>>, <<>>, body)
CaseC(x, ps) == [Class(x, ps, <<>>, <<>>, <<>>) EXCEPT !.isCase = TRUE]

\* Functions, closures and captures.
Closures == <<
  \* a captured var is shared by two closures
  <<Fn("f", <<P("n")>>, B(<<Var("c", V("n")),
      Let("inc", Lambda(<<>>, B(<<Put("c", Infix(V("c"), "+", I(1))), V("c")>>))),
      C("inc", <<>>), Say(C("inc", <<>>)), V("c")>>)),
    Say(C("f", <<I(4)>>))>>,
  \* local defs see each other and share a boxed var with their parent
  <<Fn("f", <<P("a")>>, B(<<Var("t", I(1)),
      Fn("up", <<>>, B(<<Put("t", Infix(V("t"), "+", V("a"))), C("down", <<>>)>>)),
      Fn("down", <<>>, V("t")), C("up", <<>>)>>)),
    Say(C("f", <<I(2)>>))>>,
  \* each turn of a loop closes over its own variable
  <<Var("fs", C("List", <<>>)), Var("i", I(0)),
    Fn("g", <<P("x")>>, B(<<Var("y", V("x")), Lambda(<<>>, B(<<Put("y", Infix(V("y"), "+", I(1))), V("y")>>))>>)),
    Let("p", C("g", <<I(1)>>)), Let("q", C("g", <<I(5)>>)),
    Say(C("p", <<>>)), Say(C("q", <<>>)), Say(C("p", <<>>))>>,
  \* by-name parameters: evaluated once per use, not at the call
  <<Var("n", I(0)), Fn("next", <<>>, B(<<Put("n", Infix(V("n"), "+", I(1))), V("n")>>)),
    Fn("twice", <<ByNameP("x")>>, B(<<V("x"), V("x")>>)),
    Fn("never", <<ByNameP("x"), P("y")>>, V("y")),
    Let("r", C("twice", <<C("next", <<>>)>>)), Say(V("r")), Say(C("never", <<C("next", <<>>), I(9)>>)), Say(V("n"))>>,
  \* defaults see earlier parameters; named arguments in any order
  <<Fn("f", <<P("a"), DefaultP("b", Infix(V("a"), "+", I(1))), DefaultP("c", Infix(V("a"), "*", V("b")))>>,
      Tuple(<<V("a"), V("b"), V("c")>>)),
    Say(C("f", <<I(2)>>)), Say(C("f", <<I(2), NamedArg("c", I(0))>>)),
    Say(C("f", <<NamedArg("c", I(1)), NamedArg("a", I(3))>>))>>,
  \* repeated parameters and splices
  <<Fn("f", <<P("a"), RepP("xs")>>, Infix(V("a"), "+", Dot(V("xs"), "length"))),
    Say(C("f", <<I(1)>>)), Say(C("f", <<I(1), I(2), I(3)>>)),
    Say(C("f", <<I(5), Splice(C("List", <<I(1), I(2)>>))>>)), C("f", <<I(5), Splice(I(0))>>)>>,
  \* curried definitions and eta: a def is a value
  <<Def("add", <<<<P("a")>>, <<P("b")>>>>, NoType, Return(Infix(V("a"), "-", V("b")))),
    Let("h", C("add", <<I(9)>>)), Say(Apply(V("h"), <<I(2)>>)), Say(Apply(C("add", <<I(1)>>), <<I(1)>>))>>,
  \* lazies are evaluated at most once, at their first use, also when recursive scopes see them
  <<Fn("f", <<>>, B(<<LazyLet("z", B(<<Say(S("z")), I(3)>>)), Say(S("a")),
      Let("g", Lambda(<<>>, Infix(V("z"), "+", V("z")))), C("g", <<>>)>>)),
    Say(C("f", <<>>)), LazyLet("w", B(<<Say(S("w")), I(1)>>)), Say(Infix(V("w"), "+", V("w")))>>,
  \* wrong arity, a null callee, an unset global
  <<Fn("f", <<P("a")>>, V("a")),
    Try(C("f", <<>>), Catch("RuntimeException", Say(S("arity"))), Null),
    Try(Apply(NullLit, <<>>), Catch("Exception", Say(S("null"))), Null),
    Fn("r", <<>>, V("late")), Try(C("r", <<>>), Catch("Throwable", Say(S("late"))), Null),
    Let("late", I(1)), Say(C("r", <<>>)), Send(I(1), "nope", <<>>)>>,
  \* tail calls: parameters are all read before any is written
  <<TailRec("go", <<P("a"), P("b"), P("n")>>,
      If(Infix(V("n"), "==", I(0)), Tuple(<<V("a"), V("b")>>), C("go", <<V("b"), V("a"), Infix(V("n"), "-", I(1))>>))),
    Say(C("go", <<I(1), I(2), I(1)>>))>>,
  \* a tail call under a closure that captured the parameter
  <<Var("k", NullLit),
    TailRec("go", <<P("n")>>, B(<<If(Infix(V("n"), "==", I(1)), Put("k", Lambda(<<>>, V("n"))), UnitLit),
      If(Infix(V("n"), "==", I(0)), C("k", <<>>), C("go", <<Infix(V("n"), "-", I(1))>>))>>)),
    Say(C("go", <<I(1)>>))>>,
  \* a tail call under a discarded value, and one that rebinds a repeated parameter
  <<[TailRec("go", <<P("n")>>, If(Infix(V("n"), "==", I(0)), Say(S("end")), C("go", <<Infix(V("n"), "-", I(1))>>)))
       EXCEPT !.t = TName("Unit")],
    Say(C("go", <<I(1)>>)),
    TailRec("rep", <<P("n"), RepP("xs")>>,
      If(Infix(V("n"), "==", I(0)), V("xs"),
         If(Infix(V("n"), "==", I(1)), C("rep", <<I(0), S("a"), Splice(V("xs"))>>),
            C("rep", <<I(1), V("n"), V("n")>>)))),
    Say(C("rep", <<I(2)>>))>>,
  \* a tail call of a curried method that widens, drops and keeps outer parameters
  <<[Def("go", <<<<P("_"), TParam("x", TName("Double")), P("y"), P("n")>>, <<P("n"), TParam("z", TName("Double"))>>>>,
         TName("Double"),
         If(Infix(V("n"), "==", I(0)), B(<<Say(V("y")), Say(V("z")), V("x")>>),
            Apply(C("go", <<I(0), V("n"), V("x"), I(4)>>), <<Infix(V("n"), "-", I(1)), I(5)>>)))
       EXCEPT !.notes = <<"tailrec">>],
    Say(Apply(C("go", <<I(1), I(2), I(3), I(9)>>), <<I(1), I(6)>>))>>,
  \* this.f(...) in tail position keeps the receiver; one on another does not loop
  <<Class("K", <<ValP("k")>>, <<>>, <<>>,
      <<With({"final"}, TailRec("go", <<P("n")>>, If(Infix(V("n"), "==", I(0)), V("k"),
          Send(V("this"), "go", <<Infix(V("n"), "-", I(1))>>)))),
        With({"final"}, TailRec("to", <<P("o"), P("n")>>, If(Infix(V("n"), "==", I(0)), V("k"),
          Send(V("o"), "to", <<V("this"), Infix(V("n"), "-", I(1))>>))))>>),
    Let("a", Make("K", <<I(1)>>)), Say(Send(V("a"), "go", <<I(1)>>)),
    Say(Send(V("a"), "to", <<Make("K", <<I(2)>>), I(1)>>))>> >>

\* Exceptions, finally and return.
Control == <<
  \* the finally runs once on each way out
  <<Fn("f", <<P("n")>>, Try(B(<<If(Infix(V("n"), "==", I(0)), Return(S("r")), UnitLit),
        If(Infix(V("n"), "==", I(1)), Fail1("RuntimeException"), UnitLit), S("b")>>),
      Catch("Exception", S("c")), Say(V("n")))),
    Say(C("f", <<I(0)>>)), Say(C("f", <<I(1)>>)), Say(C("f", <<I(2)>>))>>,
  \* an exception of a handler, and one no case takes, still run the finally
  <<Fn("f", <<P("x")>>, Try(Throw(V("x")), Catch("RuntimeException", Fail1("Error")), Say(S("fin")))),
    Try(C("f", <<Make("RuntimeException", <<S("m")>>)>>), Catch("Error", Say(S("error"))), Null),
    C("f", <<Make("Exception", <<S("m")>>)>>)>>,
  \* nested handlers: the inner one first, its own failure goes to the outer
  <<Say(Try(Try(Fail1("Exception"), Catch("Error", I(1)), Null), Catch("Exception", I(2)), Null)),
    Say(Try(Try(Fail1("Error"), Catch("Error", Fail1("Exception")), Null), Catch("Exception", I(3)), Null))>>,
  \* a return through two finallys runs both, inner first
  <<Fn("f", <<>>, Try(Try(Return(I(1)), <<>>, Say(S("in"))), <<>>, Say(S("out")))), Say(C("f", <<>>))>>,
  \* the operand stack under a try is kept, what the body pushed is dropped
  <<Fn("f", <<>>, Fail1("Exception")),
    Say(Infix(I(10), "+", Try(Infix(I(1), "+", C("f", <<>>)), Catch("Exception", I(5)), Null)))>>,
  \* the value of a try with a finally is the body's
  <<Var("n", I(0)), Say(Try(V("n"), <<>>, Put("n", I(1)))), Say(V("n"))>>,
  \* catch by alternative, by guard, and everything
  <<Fn("f", <<P("x")>>, Try(Throw(V("x")),
      <<Case(AltPat(<<OfType("Error", Wildcard), OfType("RuntimeException", Wildcard)>>), I(1)),
        CaseDef(OfType("Exception", VarPat("e")), Infix(Dot(V("e"), "message"), "==", S("m")), I(2)),
        Case(VarPat("_"), I(3))>>, Null)),
    Say(C("f", <<Make("Error", <<S("z")>>)>>)), Say(C("f", <<Make("Exception", <<S("m")>>)>>)),
    Say(C("f", <<Make("Exception", <<S("z")>>)>>))>>,
  \* a throw of something else, of null; the depth of the loop's stack
  <<Try(Throw(I(1)), Catch("RuntimeException", Say(I(1))), Null),
    Try(Throw(NullLit), Catch("Exception", Say(I(2))), Null),
    Var("i", I(0)), While(Infix(V("i"), "<", I(2)), B(<<Put("i", Infix(V("i"), "+", I(1))), Say(V("i"))>>))>>,
  \* short circuits and non-Boolean conditions
  <<Fn("t", <<P("x")>>, B(<<Say(V("x")), BoolLit(TRUE)>>)),
    Say(Infix(C("t", <<I(1)>>), "||", C("t", <<I(2)>>))), Say(Infix(C("t", <<I(3)>>), "&&", Prefix("!", C("t", <<I(4)>>)))),
    If(I(0), I(1), I(2))>> >>

\* Patterns.
Patterns == <<
  <<Fn("f", <<P("v")>>, Match(V("v"), <<
      Case(LitPat(I(0)), S("zero")), CaseDef(OfType("Int", VarPat("n")), Infix(V("n"), ">", I(5)), S("big")),
      Case(OfType("Int", Wildcard), S("int")), Case(OfType("String", VarPat("s")), V("s")),
      Case(TuplePat(<<VarPat("a"), LitPat(I(2))>>), V("a")),
      Case(Extractor("::", <<VarPat("h"), VarPat("t")>>), Tuple(<<V("h"), V("t")>>))>>)),
    Say(C("f", <<I(0)>>)), Say(C("f", <<I(9)>>)), Say(C("f", <<I(3)>>)), Say(C("f", <<S("s")>>)),
    Say(C("f", <<Tuple(<<I(1), I(2)>>)>>)), Say(C("f", <<C("List", <<I(1), I(4)>>)>>)), C("f", <<BoolLit(TRUE)>>)>>,
  <<CaseC("P", <<P("a"), P("b")>>),
    Fn("f", <<P("v")>>, Match(V("v"), <<
      Case(Extractor("P", <<LitPat(I(1)), VarPat("x")>>), V("x")),
      Case(BindPat("w", Extractor("P", <<Wildcard, Extractor("P", <<VarPat("y"), Wildcard>>)>>)), Infix(V("y"), "+", Dot(V("w"), "a"))),
      Case(Extractor("List", <<VarPat("x"), SeqWildcard("r")>>), Tuple(<<V("x"), V("r")>>)),
      Case(AltPat(<<LitPat(I(3)), Extractor("List", <<>>)>>), S("alt"))>>)),
    Say(C("f", <<C("P", <<I(1), I(7)>>)>>)), Say(C("f", <<C("P", <<I(2), C("P", <<I(3), I(4)>>)>>)>>)),
    Say(C("f", <<C("List", <<I(1), I(2), I(3)>>)>>)), Say(C("f", <<C("List", <<>>)>>)),
    Say(Infix(C("P", <<I(1), I(2)>>), "==", C("P", <<I(1), I(2)>>))), C("f", <<C("P", <<I(0), I(0)>>)>>)>>,
  \* a user extractor: its result is asked isEmpty, then get
  <<Class("Opt", <<ValP("isEmpty"), ValP("get")>>, <<>>, <<>>, <<>>),
    Object("Half", <<Fn("unapply", <<P("n")>>, Make("Opt", <<Infix(V("n"), "<", I(4)), Infix(V("n"), "-", I(1))>>))>>),
    Object("Neg", <<Fn("unapply", <<P("n")>>, Infix(V("n"), "<", I(0)))>>),
    Fn("f", <<P("v")>>, Match(V("v"), <<Case(Extractor("Half", <<VarPat("h")>>), V("h")),
      Case(Extractor("Neg", <<>>), S("neg")), Case(Wildcard, S("no"))>>)),
    Say(C("f", <<I(6)>>)), Say(C("f", <<Prefix("-", I(2))>>)), Say(C("f", <<I(1)>>))>>,
  <<Let("v", I(3)), Say(IsOf(V("v"), "Int")), Say(AsOf(V("v"), "Int")),
    Say(Interpolation("s", <<"v=", "", "">>, <<V("v"), BoolLit(TRUE)>>, <<"", "">>)), Say(AsOf(V("v"), "String"))>> >>

\* Templates.
Objects == <<
  \* initialisers: superclass, then the traits least specific first, then the class
  <<Trait("A", <<>>, <<Say(S("A"))>>), Trait("B1", <<"A">>, <<Say(S("B"))>>), Trait("C1", <<"A">>, <<Say(S("C"))>>),
    Class("D", <<P("n")>>, <<"A">>, <<>>, <<Say(V("n"))>>),
    Class("E", <<>>, <<"D", "B1", "C1">>, << <<I(7)>>, <<>>, <<>> >>, <<Say(S("E"))>>), Make("E", <<>>), Make("E", <<>>)>>,
  \* super walks the linearization of the instance
  <<Trait("A", <<>>, <<Fn("m", <<P("x")>>, V("x"))>>),
    Trait("B1", <<"A">>, <<With({"override"}, Fn("m", <<P("x")>>, Infix(Send(Super(""), "m", <<V("x")>>), "+", I(1))))>>),
    Trait("C1", <<"A">>, <<With({"override"}, Fn("m", <<P("x")>>, Infix(Send(Super(""), "m", <<V("x")>>), "*", I(10))))>>),
    Class("D", <<>>, <<"B1", "C1">>, <<>>, <<>>), Class("F", <<>>, <<"C1", "B1">>, <<>>, <<>>),
    Let("d", Make("D", <<>>)), Let("f", Make("F", <<>>)), Let("x", Send(V("d"), "m", <<I(1)>>)),
    Let("y", Send(V("f"), "m", <<I(1)>>)), Say(Tuple(<<V("x"), V("y")>>))>>,
  \* fields: plain parameters stay private, vars have setters, lazies run once
  <<Class("K", <<P("a"), VarP("b")>>, <<>>, <<>>, <<Var("n", V("a")), LazyLet("z", B(<<Say(S("z")), V("n")>>)),
      Fn("inc", <<>>, B(<<Put("n", Infix(V("n"), "+", I(1))), V("n")>>))>>),
    Let("k", Make("K", <<I(3), I(4)>>)), Send(V("k"), "inc", <<>>), Say(Dot(V("k"), "z")), Send(V("k"), "inc", <<>>),
    Say(Dot(V("k"), "z")), Say(Dot(V("k"), "n")), Say(Dot(V("k"), "b"))>>,
  \* a private member is not the subclass's member of the same name
  <<Class("A", <<>>, <<>>, <<>>, <<With({"private"}, Let("s", I(1))), Fn("g", <<>>, V("s"))>>),
    Class("D", <<>>, <<"A">>, <<>>, <<Let("s", I(2))>>),
    Let("d", Make("D", <<>>)), Say(Send(V("d"), "g", <<>>)), Say(Dot(V("d"), "s"))>>,
  \* an overriding parameter field is visible to the superclass
  <<Class("A", <<ValP("x")>>, <<>>, <<>>, <<Say(Dot(V("this"), "x")), Get("y", Infix(V("x"), "+", I(1)))>>),
    Class("D", <<[ValP("x") EXCEPT !.mods = {"override"}]>>, <<"A">>, << <<I(9)>> >>, <<>>),
    Say(Dot(Make("D", <<I(5)>>), "y"))>>,
  \* auxiliary constructors and constructor defaults
  <<Class("A", <<ValP("x"), DefaultP("y", V("x"))>>, <<>>, <<>>,
      <<Fn("this", <<P("p"), P("q"), P("r")>>, B(<<C("this", <<V("p"), V("r")>>), Say(V("q"))>>)),
        Get("s", Tuple(<<V("x"), V("y")>>))>>),
    Say(Dot(Make("A", <<I(1), I(2), I(3)>>), "s")), Say(Dot(Make("A", <<I(4)>>), "s")),
    Say(Dot(Make("A", <<NamedArg("y", I(0)), NamedArg("x", I(6))>>), "s"))>>,
  \* methods as values, applied results of parameterless members, fields that hold functions
  <<Class("A", <<ValP("f")>>, <<>>, <<>>, <<Fn("m", <<P("x")>>, Infix(V("x"), "+", I(1))), Get("p", V("f"))>>),
    Let("a", Make("A", <<Lambda(<<P("x")>>, Infix(V("x"), "*", I(2)))>>)), Let("m", Dot(V("a"), "m")),
    Say(C("m", <<I(1)>>)), Say(Send(V("a"), "p", <<I(3)>>)), Say(Send(V("a"), "f", <<I(4)>>)),
    Say(Send(V("a"), "m", <<NamedArg("x", I(5))>>))>>,
  \* objects are initialised at their first use, once; equals and toString are called
  <<Object("O", <<Say(S("O")), Var("n", I(1)), Fn("up", <<>>, Put("n", Infix(V("n"), "+", I(1))))>>),
    Class("Q", <<ValP("a")>>, <<>>, <<>>, <<Fn("equals", <<P("o")>>, BoolLit(TRUE)), Fn("toString", <<>>, S("q"))>>),
    Say(S("start")), Send(V("O"), "up", <<>>), Say(Dot(V("O"), "n")),
    Say(Infix(Make("Q", <<I(1)>>), "!=", I(2))), Say(Infix(S("<"), "+", Make("Q", <<I(1)>>)))>> >>

\* await, in one frame, under a native, through a chain of frames and below an
\* operator, whose frame cannot be suspended.
Awaits == <<
  <<Say(Wait), Say(Try(Wait, Catch("IllegalStateException", I(0)), Say(S("fin"))))>>,
  <<Fn("f", <<P("x")>>, Infix(Wait, "+", V("x"))), Say(C("f", <<I(1)>>)), Say(S("end"))>>,
  <<Send(C("List", <<I(1), I(2)>>), "foreach", <<Lambda(<<P("x")>>,
      Say(Try(Wait, Catch("UnsupportedOperationException", V("x")), Null)))>>)>>,
  <<Try(Say(Infix(Wait, "+", Wait)), Catch("Exception", Say(S("failed"))), Null)>>,
  <<Class("A", <<>>, <<>>, <<>>, <<Fn("+", <<P("o")>>, B(<<Say(Wait), V("o")>>))>>),
    Try(Say(Infix(Make("A", <<>>), "+", I(1))), Catch("RuntimeException", Say(S("refused"))), Null),
    Say(Wait)>> >>

\* A function that awaits, called inside the try of its caller.
Chained == << <<Fn("f", <<>>, Wait),
                Try(Say(C("f", <<>>)), Catch("Exception", Say(S("caught"))), Null)>> >>

\* A return through two finallys, the outer of which raises.
Leaving == << <<Fn("f", <<>>, Try(Try(Return(I(1)), <<>>, Say(S("in"))), <<>>,
                                  B(<<Say(S("out")), Fail1("Exception")>>))),
                Say(C("f", <<>>))>> >>

-----------------------------------------------------------------------------
\* What Desugar rewrites.
Each(p, e) == Generator(FALSE, p, e)
Ints(ns) == C("List", [i \in DOMAIN ns |-> I(ns[i])])
Pairs(ns) == C("List", [i \in DOMAIN ns |-> Tuple(<<I(ns[i]), I(ns[i] + 1)>>)])
Plus(a, b) == Infix(a, "+", b)
Add(a, b) == Infix(a, "+=", b)
Typed(x, t, rhs) == Val("Val", x, TName(t), rhs)

Comprehensions == <<
  \* a guard sees the variables of its generator and of the ones around it
  <<Say(For(<<Each(VarPat("x"), Ints(<<1, 2, 3>>)), Guard(Infix(V("x"), "<", I(3))),
              Each(VarPat("y"), C("List", <<V("x"), I(5)>>)), Guard(Infix(V("y"), ">", V("x")))>>,
            Infix(V("x"), "*", V("y")), TRUE))>>,
  \* a value definition is evaluated for every element before any guard after it
  <<Fn("t", <<P("n")>>, B(<<Say(V("n")), V("n")>>)),
    For(<<Each(VarPat("a"), Ints(<<1, 3>>)), Value(VarPat("c"), C("t", <<V("a")>>)),
          Guard(Infix(V("c"), ">", I(1)))>>,
        Say(V("c")), FALSE)>>,
  <<Let("l", Ints(<<1, 2>>)),
    Let("r", For(<<Each(VarPat("c"), V("l")), Value(TuplePat(<<VarPat("d"), Wildcard>>), Tuple(<<V("c"), I(0)>>))>>,
                 Plus(V("c"), V("d")), TRUE)),
    Say(V("r"))>>,
  \* an element that a refutable pattern does not match is skipped
  <<Let("l", Pairs(<<1, 3>>)),
    For(<<Each(TuplePat(<<LitPat(I(1)), VarPat("b")>>), V("l"))>>, Say(V("b")), FALSE),
    Let("m", C("List", <<S("s"), I(4)>>)),
    Let("r", For(<<Generator(TRUE, OfType("Int", VarPat("n")), V("m"))>>, V("n"), TRUE)), Say(V("r"))>>,
  \* ranges; the inner generator is evaluated for each outer element
  <<For(<<Each(VarPat("i"), Infix(I(1), "to", I(2))), Each(VarPat("j"), Infix(V("i"), "until", I(3)))>>,
        Say(Plus(Infix(V("i"), "*", I(10)), V("j"))), FALSE),
    Say(For(<<Each(Wildcard, Infix(I(0), "until", I(2))), Each(VarPat("k"), Infix(I(0), "to", I(1)))>>,
            V("k"), TRUE))>>,
  \* each element has a variable of its own; a var outside is shared
  <<Var("s", I(0)),
    Let("fs", For(<<Each(VarPat("i"), Infix(I(1), "to", I(2)))>>,
                  B(<<Add(V("s"), V("i")), Lambda(<<>>, Plus(V("i"), V("s")))>>), TRUE)),
    Say(Apply(C("fs", <<I(0)>>), <<>>)), Add(V("s"), I(10)), Say(Apply(C("fs", <<I(1)>>), <<>>))>>,
  \* an exception and an await of the body leave the loop
  <<Try(For(<<Each(VarPat("x"), Ints(<<1, 2>>))>>, If(Infix(V("x"), "==", I(2)), Fail1("Exception"), Say(V("x"))), FALSE),
        Catch("Exception", Say(S("out"))), Null),
    For(<<Each(VarPat("x"), Infix(I(1), "to", I(2)))>>,
        Say(Try(Plus(Wait, V("x")), Catch("RuntimeException", V("x")), Null)), FALSE)>> >>

Sugared == <<
  \* a pattern definition evaluates its right-hand side once
  <<Fn("t", <<P("n")>>, B(<<Say(V("n")), Tuple(<<V("n"), I(2)>>)>>)),
    PatVal("Val", TuplePat(<<VarPat("a"), VarPat("b")>>), C("t", <<I(1)>>)), Say(Plus(V("a"), V("b"))),
    Fn("f", <<P("v")>>, B(<<PatVal("Var", Extractor("::", <<VarPat("h"), Wildcard>>), V("v")), Add(V("h"), I(1)), V("h")>>)),
    Say(C("f", <<Ints(<<4, 5>>)>>)), PatVal("Val", TuplePat(<<LitPat(I(1)), Wildcard>>), C("t", <<I(1)>>)),
    C("f", <<C("List", <<>>)>>)>>,
  \* in a class each variable is a field
  <<Class("K", <<P("p")>>, <<>>, <<>>, <<PatVal("Val", TuplePat(<<VarPat("a"), VarPat("b")>>), V("p")),
      Get("s", Plus(V("a"), V("b")))>>),
    Let("k", Make("K", <<Tuple(<<I(3), I(4)>>)>>)), Say(Dot(V("k"), "s")), Say(Dot(V("k"), "a"))>>,
  \* assignments to a variable, a field, an element
  <<Class("K", <<VarP("n")>>, <<>>, <<>>, <<Fn("apply", <<P("i")>>, Plus(V("n"), V("i"))),
      Fn("update", <<P("i"), P("v")>>, Put("n", Plus(V("i"), V("v"))))>>),
    Var("x", I(1)), Add(V("x"), I(2)), Say(V("x")), Let("k", Make("K", <<I(5)>>)),
    Add(Dot(V("k"), "n"), V("x")), Say(Dot(V("k"), "n")), AssignTo(Dot(V("k"), "n"), I(1)),
    Say(C("k", <<I(1)>>)), AssignTo(C("k", <<I(7)>>), I(8)), Say(Dot(V("k"), "n"))>>,
  \* a right-associative operator evaluates its left operand first
  <<Fn("t", <<P("n")>>, B(<<Say(V("n")), V("n")>>)), Fn("u", <<>>, B(<<Say(S("u")), V("Nil")>>)),
    Say(Infix(I(1), "::", Infix(I(2), "::", V("Nil")))), Say(Infix(C("t", <<I(3)>>), "::", C("u", <<>>)))>>,
  \* the type Unit discards a value, also that of a return
  <<Def("f", <<<<P("b")>>>>, TName("Unit"), If(V("b"), Return(I(1)), I(2))),
    Say(C("f", <<BoolLit(TRUE)>>)), Say(C("f", <<BoolLit(FALSE)>>)), Typed("u", "Unit", I(3)), Say(V("u")),
    Say(Ascription(I(4), TName("Unit"))), Say(Ascription(Parens(Plus(I(4), I(1))), TName("Int"))),
    Say(If(BoolLit(TRUE), I(5), Null))>>,
  \* the apply and unapply a companion defines are the ones used
  <<CaseC("Q", <<P("a")>>), Class("Opt", <<ValP("isEmpty"), ValP("get")>>, <<>>, <<>>, <<>>),
    Object("Q", <<Fn("apply", <<P("a")>>, Make("Q", <<Plus(V("a"), I(1))>>)),
                  Fn("unapply", <<P("q")>>, Make("Opt", <<BoolLit(FALSE), Infix(Dot(V("q"), "a"), "*", I(2))>>))>>),
    Let("q", C("Q", <<I(4)>>)), Say(Dot(V("q"), "a")), Match(V("q"), <<Case(Extractor("Q", <<VarPat("x")>>), Say(V("x")))>>)>> >>

\* Enums and nested templates, with what they stand for written out: the cases
\* are top-level templates of the enum's class, the companion's methods are defs.
Enum(x, ps, cases) == [Template("Enum", x, ps, <<>>, <<>>) EXCEPT !.cases = cases]
CaseObject(x, class, args, n) ==
  [Object(x, <<Let("ordinal", I(n))>>) EXCEPT !.parents = <<Parent(TName(class), args)>>]
In(x, y) == Dot(V(x), y)
Same(a, b) == Say(Infix(a, "==", b))
Try1(e, x) == Say(Try(e, Catch(x, S("none")), Null))

Colours == <<CaseObject("R", "Colour", <<>>, 0), CaseObject("G", "Colour", <<>>, 1)>>
Nested == <<
  \* the cases are numbered in order and found by name and by number
  [src |-> <<Enum("Colour", <<>>, <<EnumCase("R", <<>>, FALSE, <<>>), EnumCase("G", <<>>, FALSE, <<>>)>>),
             Say(Dot(In("Colour", "G"), "ordinal")), Say(Dot(In("Colour", "values"), "length")),
             Same(Send(V("Colour"), "valueOf", <<S("G")>>), In("Colour", "G")),
             Same(Send(V("Colour"), "fromOrdinal", <<I(0)>>), In("Colour", "G")),
             Try1(Send(V("Colour"), "valueOf", <<S("B")>>), "IllegalArgumentException"),
             Try1(Send(V("Colour"), "fromOrdinal", <<I(2)>>), "NoSuchElementException"), Say(IsOf(In("Colour", "R"), "Colour"))>>,
   ref |-> <<Class("Colour", <<>>, <<>>, <<>>, <<>>)>> \o Colours \o
           <<Say(Dot(V("G"), "ordinal")), Say(Dot(C("List", <<V("R"), V("G")>>), "length")),
             Same(V("G"), V("G")), Same(V("R"), V("G")), Say(S("none")), Say(S("none")), Say(IsOf(V("R"), "Colour"))>>],
  \* cases with parameters and with arguments for the enum's own
  [src |-> <<Enum("E", <<ValP("m")>>, <<EnumCase("A", <<>>, FALSE, <<I(3)>>), EnumCase("B", <<P("n")>>, TRUE, <<I(4)>>)>>),
             Fn("f", <<P("e")>>, Match(V("e"), <<Case(Extractor("E.B", <<VarPat("n")>>), V("n")), Case(OfType("E", VarPat("o")), Dot(V("o"), "m"))>>)),
             Say(C("f", <<In("E", "A")>>)), Say(C("f", <<Send(V("E"), "B", <<I(9)>>)>>)),
             Say(Dot(Send(V("E"), "B", <<I(9)>>), "m")), Same(Send(V("E"), "B", <<I(1)>>), Send(V("E"), "B", <<I(1)>>)),
             Try1(Send(V("E"), "fromOrdinal", <<I(1)>>), "NoSuchElementException")>>,
   ref |-> <<Class("E", <<ValP("m")>>, <<>>, <<>>, <<>>), CaseObject("A", "E", <<I(3)>>, 0),
             [Class("B", <<P("n")>>, <<"E">>, << <<I(4)>> >>, <<>>) EXCEPT !.isCase = TRUE],
             Fn("f", <<P("e")>>, Match(V("e"), <<Case(Extractor("B", <<VarPat("n")>>), V("n")), Case(OfType("E", VarPat("o")), Dot(V("o"), "m"))>>)),
             Say(C("f", <<V("A")>>)), Say(C("f", <<C("B", <<I(9)>>)>>)), Say(Dot(C("B", <<I(9)>>), "m")),
             Same(C("B", <<I(1)>>), C("B", <<I(1)>>)), Say(S("none"))>>],
  \* the companion a program writes is merged with the generated one
  [src |-> <<Object("Colour", <<Get("first", V("R")), Fn("next", <<P("c")>>, Send(V("Colour"), "fromOrdinal", <<Plus(Dot(V("c"), "ordinal"), I(1))>>))>>),
             Enum("Colour", <<>>, <<EnumCase("R", <<>>, FALSE, <<>>), EnumCase("G", <<>>, FALSE, <<>>)>>),
             Say(Dot(In("Colour", "first"), "ordinal")), Same(Send(V("Colour"), "next", <<In("Colour", "R")>>), In("Colour", "G"))>>,
   ref |-> <<Class("Colour", <<>>, <<>>, <<>>, <<>>)>> \o Colours \o <<Say(Dot(V("R"), "ordinal")), Same(V("G"), V("G"))>>],
  \* templates of an object: a parent of the same object, an outer one, a case class
  [src |-> <<Class("A", <<ValP("x")>>, <<>>, <<>>, <<>>),
             Object("O", <<Say(S("O")), Class("A", <<ValP("y")>>, <<>>, <<>>, <<>>), Class("D", <<>>, <<"A">>, << <<I(5)>> >>, <<>>),
                           CaseC("K", <<P("n")>>), Object("P", <<Let("z", I(8)), Class("F", <<>>, <<"A">>, << <<I(6)>> >>, <<>>)>>),
                           Fn("mk", <<>>, Make("D", <<>>))>>),
             Say(Dot(Make("O.D", <<>>), "y")), Say(Dot(Make("A", <<I(1)>>), "x")), Say(Dot(In("O", "P"), "z")),
             Say(Dot(Send(V("O"), "mk", <<>>), "y")), Say(Dot(Make("O.P.F", <<>>), "y")),
             Match(Send(V("O"), "K", <<I(7)>>), <<Case(Extractor("O.K", <<VarPat("n")>>), Say(V("n")))>>)>>,
   ref |-> <<Class("A", <<ValP("x")>>, <<>>, <<>>, <<>>), Class("A2", <<ValP("y")>>, <<>>, <<>>, <<>>),
             Class("D", <<>>, <<"A2">>, << <<I(5)>> >>, <<>>), Class("F", <<>>, <<"A2">>, << <<I(6)>> >>, <<>>), CaseC("K", <<P("n")>>),
             Object("P", <<Let("z", I(8))>>), Object("O", <<Say(S("O")), Fn("mk", <<>>, Make("D", <<>>))>>),
             Say(Dot(Make("D", <<>>), "y")), Say(Dot(Make("A", <<I(1)>>), "x")), Say(Dot(V("P"), "z")),
             Say(Dot(Send(V("O"), "mk", <<>>), "y")), Say(Dot(Make("F", <<>>), "y")),
             Match(C("K", <<I(7)>>), <<Case(Extractor("K", <<VarPat("n")>>), Say(V("n")))>>)>>] >>

Plain == Closures \o Control \o Patterns \o Objects \o Awaits \o Comprehensions \o Sugared
AsWritten(unit) == [src |-> unit, ref |-> unit]
FinallyUnits == [i \in DOMAIN Leaving |-> AsWritten(Leaving[i])]
ChainUnits == [i \in DOMAIN Chained |-> AsWritten(Chained[i])]
AllUnits == [i \in DOMAIN Plain |-> AsWritten(Plain[i])] \o Nested
=============================================================================
