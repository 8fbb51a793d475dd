------------------------------- MODULE Scopes -------------------------------
(***************************************************************************)
(* The bytecode compiler's state (compiler/Compiler.h), its emission with  *)
(* stack-depth accounting, its scopes and its capture analysis             *)
(* (Compiler.cpp).  The compiler is sequential, so it is a set of          *)
(* operators that thread its state s:                                      *)
(*   fns      the functions being compiled, the innermost last             *)
(*   mods     the finished modules; MAKE_FN names one by its index         *)
(*   boxed    the definitions CaptureAnalysis puts in a cell               *)
(*   globals  the global table: name -> [kind, masks]                      *)
(*   types    the classes by name (Templates.tla)                          *)
(*   owner    the template being compiled, "" outside one                  *)
(*   tmpl     its members, name -> [kind, key, concrete, masks, thunk]     *)
(*   catching the slot of the exception a catch cascade is matching        *)
(*   curried  the @tailrec target waiting for its innermost lambda         *)
(*   err      the first compile error; "" while there is none              *)
(* An instruction is [op, a, d]: d is the operand-stack depth the compiler *)
(* assumes before it.  Jumps hold the absolute index of their target.      *)
(***************************************************************************)
EXTENDS Ast, TLC, SequencesExt

\* Constants of the pool: tagged values.
IntV(n) == <<"Int", n>>
StrV(x) == <<"Str", x>>

NoTail == [on |-> FALSE]

NewFunction(parent, allowsReturn) ==
  [code |-> <<>>, handlers |-> <<>>, scopes |-> << <<>> >>, next |-> 0,
   depth |-> 0, max |-> 0, caps |-> <<>>, finallys |-> <<>>,
   allowsReturn |-> allowsReturn, parent |-> parent, method |-> FALSE,
   tail |-> NoTail]

Start(globals, types) ==
  [fns |-> <<NewFunction(0, FALSE)>>, mods |-> <<>>, boxed |-> {},
   globals |-> globals, types |-> types, tmpl |-> <<>>, owner |-> "", catching |-> -1,
   curried |-> NoTail, err |-> ""]

Fn(s) == Last(s.fns)
WithFn(s, f) == [s EXCEPT !.fns[Len(s.fns)] = f]
Fail(msg, s) == IF s.err = "" THEN [s EXCEPT !.err = msg] ELSE s
\* A CompileError abandons the unit: nothing more is compiled.
Abandoned(s) == s.err # ""
Require(cond, msg, s) == IF cond THEN s ELSE Fail(msg, s)

-----------------------------------------------------------------------------
\* Emission.  The stack effect of every opcode the compiler emits.
StackEffect(op, a) ==
  CASE op \in {"PUSH_CONST", "PUSH_UNIT", "PUSH_NULL", "PUSH_TRUE", "PUSH_FALSE",
               "DUP", "PUSH_LOCAL", "PUSH_CELL", "PUSH_GLOBAL", "UNCONS"} -> 1
    [] op \in {"POP", "STORE_LOCAL", "STORE_CELL", "STORE_GLOBAL", "RETURN",
               "JUMP_IF_FALSE", "JUMP_IF_TRUE", "THROW", "STORE_FIELD",
               "STORE_FIELD_IF_NEW", "ADD", "SUB", "MUL", "LT", "LE", "GT",
               "GE", "EQ", "NE"} -> -1
    [] op = "SET_FIELD" -> -2
    [] op = "CALL" -> -a
    [] op = "CALL_SPREAD" -> -(a + 1)
    [] op \in {"SEND", "SEND_APPLY", "SEND_SUPER", "NEW", "SEND_KW", "CALL_KW"}
         -> -(a.n + Len(a.names))
    [] op \in {"INVOKE_INIT", "NEW_SPREAD"} -> -(a.n + 1)
    [] op = "MAKE_FN" -> 1 - a.caps
    [] op \in {"CONCAT", "MAKE_TUPLE"} -> 1 - a
    [] op = "MAKE_CLASS" -> 1 - Len(a.chain) - Len(a.keys)
    [] op = "UNAPPLY_FIELDS" -> Len(a) - 1
    [] op = "STORE_FIELDS_IF_NEW" -> -Len(a)
    [] OTHER -> 0

Moved(delta, f) ==
  LET d == f.depth + delta IN [f EXCEPT !.depth = d, !.max = IF d > @ THEN d ELSE @]
Coded(op, a, f) == [f EXCEPT !.code = Append(@, [op |-> op, a |-> a, d |-> f.depth])]

Adjust(delta, s) == [s EXCEPT !.fns[Len(s.fns)] = Moved(delta, @)]
Emit(op, a, s) == [s EXCEPT !.fns[Len(s.fns)] = Moved(StackEffect(op, a), Coded(op, a, @))]

\* The index of the next instruction, and patching a jump to it.
Here(s) == Len(Fn(s).code) + 1
Patch(at, s) == WithFn(s, [Fn(s) EXCEPT !.code[at].a = Here(s)])
Jump(op, s) == Emit(op, 0, s)
PatchAll(ats, s) ==
  WithFn(s, [Fn(s) EXCEPT !.code = [i \in DOMAIN @ |->
    IF i \in ats THEN [@[i] EXCEPT !.a = Here(s)] ELSE @[i]]])
SetDepth(d, s) == WithFn(s, [Fn(s) EXCEPT !.depth = d])

\* A call site: the member's key, the plain name a send falls back to when the
\* receiver lacks a private key, the positional count and the keywords.
Site(key, n, names) == [key |-> key, plain |-> key, n |-> n, names |-> names]

-----------------------------------------------------------------------------
\* Scopes and name resolution.
NewSlot(s) == WithFn(s, [Fn(s) EXCEPT !.next = @ + 1])
PushScope(s) == WithFn(s, [Fn(s) EXCEPT !.scopes = Append(@, <<>>)])
PopScope(s) == WithFn(s, [Fn(s) EXCEPT !.scopes = Front(@)])
Bind(x, info, s) ==
  WithFn(s, [Fn(s) EXCEPT !.scopes[Len(Fn(s).scopes)] = (x :> info) @@ @])

LocalInfo(slot, kind, boxed, masks) ==
  [slot |-> slot, kind |-> kind, boxed |-> boxed, captured |-> FALSE, masks |-> masks]

DeclareLocal(x, kind, boxed, masks, s) ==
  Bind(x, LocalInfo(Fn(s).next, kind, boxed, masks), NewSlot(s))

ScopesWith(f, x) == {i \in DOMAIN f.scopes : x \in DOMAIN f.scopes[i]}
FindInFunction(f, x) ==
  LET is == ScopesWith(f, x) IN f.scopes[CHOOSE i \in is : \A j \in is : j <= i][x]

\* Makes x available in function i, adding a capture to every function between
\* the binding and i; the capture is recorded in the outermost scope.
RECURSIVE CaptureInto(_, _, _)
CaptureInto(i, x, s) ==
  IF ScopesWith(s.fns[i], x) # {}
  THEN [s |-> s, found |-> TRUE, info |-> FindInFunction(s.fns[i], x)]
  ELSE IF s.fns[i].parent = 0
  THEN [s |-> s, found |-> FALSE, info |-> LocalInfo(0, "Val", FALSE, <<>>)]
  ELSE LET o == CaptureInto(s.fns[i].parent, x, s)
           f == o.s.fns[i]
           mine == [o.info EXCEPT !.slot = f.next, !.captured = TRUE]
       IN  IF ~o.found THEN o
           ELSE [s |-> [o.s EXCEPT !.fns[i] =
                         [f EXCEPT !.next = @ + 1,
                                   !.caps = Append(@, [from |-> o.info.slot, to |-> f.next]),
                                   !.scopes[1] = (x :> mine) @@ @]],
                 found |-> TRUE, info |-> mine]

\* scopedNames: inside the template O.P, a name x of `known` is O.P.x, O.x or x,
\* the innermost first.
ScopedName(x, known, s) ==
  LET ends == {Len(s.owner)} \cup {i - 1 : i \in {j \in 1..Len(s.owner) : SubSeq(s.owner, j, j) = "."}}
      prefixed(n) == SubSeq(s.owner, 1, n) \o "." \o x
      fit == {n \in ends : prefixed(n) \in known}
  IN  IF s.owner = "" \/ fit = {} THEN x ELSE prefixed(Max(fit))

\* local -> member of the template -> global.  x: the name it is found under.
Resolve(x, s) ==
  LET c == CaptureInto(Len(s.fns), x, s)
      g == ScopedName(x, DOMAIN s.globals, s)
      found(ref, y, kind, t) == [s |-> t, ref |-> ref, x |-> y, info |-> c.info, kind |-> kind]
  IN  CASE c.found -> found("Local", x, c.info.kind, c.s)
        [] ~c.found /\ x \in DOMAIN s.tmpl -> found("Member", x, s.tmpl[x].kind, s)
        [] ~c.found /\ x \notin DOMAIN s.tmpl /\ g \in DOMAIN s.globals ->
             found("Global", g, s.globals[g].kind, s)
        [] OTHER -> found("Global", x, "Val", Fail("Not found", s))

\* liftedGlobalPath: O.C names the template lifted out of object O, unless a
\* local or a member is called O; "" when it does not.
RECURSIVE DottedPath(_), PathHead(_)
DottedPath(n) ==
  CASE n.k = "Ident" -> n.x
    [] n.k = "Select" -> IF DottedPath(n.q) = "" THEN "" ELSE DottedPath(n.q) \o "." \o n.x
    [] OTHER -> ""
PathHead(n) == IF n.k = "Select" THEN PathHead(n.q) ELSE n.x
LiftedGlobalPath(n, s) ==
  LET path == DottedPath(n)
  IN  IF /\ n.k = "Select" /\ path # "" /\ path \in DOMAIN s.globals
         /\ ~CaptureInto(Len(s.fns), PathHead(n), s).found /\ PathHead(n) \notin DOMAIN s.tmpl
      THEN path ELSE ""

LoadLocal(info, s) == Emit(IF info.boxed THEN "PUSH_CELL" ELSE "PUSH_LOCAL", info.slot, s)
StoreLocal(info, s) == Emit(IF info.boxed THEN "STORE_CELL" ELSE "STORE_LOCAL", info.slot, s)
LoadThis(s) ==
  LET r == Resolve("this", s) IN LoadLocal(r.info, r.s)

-----------------------------------------------------------------------------
\* By-name masks: per parameter list, the positions declared `=> T`.
MaskOfParams(ps) == {i \in DOMAIN ps : ps[i].byName}
RECURSIVE MasksOfBody(_)
MasksOfBody(b) ==
  IF b.k = "Lambda" /\ b.curried
  THEN <<MaskOfParams(b.ps)>> \o MasksOfBody(b.b) ELSE <<>>
MasksOfDef(d) == <<MaskOfParams(d.ps)>> \o MasksOfBody(d.b)
MaskAt(masks, list) == IF list < Len(masks) THEN masks[list + 1] ELSE {}

RECURSIVE CalleeHead(_), ApplyLayers(_)
CalleeHead(n) == IF n.k = "Apply" THEN CalleeHead(n.f) ELSE n
ApplyLayers(n) == IF n.k = "Apply" THEN 1 + ApplyLayers(n.f) ELSE 0

\* The masks of the declaration a callee's head names; <<>> when it is dynamic.
\* C(args) is the constructor of C, O(args) is O.apply(args).
MasksOfMember(x, members) == IF x \in DOMAIN members THEN members[x].masks ELSE <<>>
MasksOfObjectMember(o, x, s) ==
  IF o \o ".type" \in DOMAIN s.types THEN MasksOfMember(x, s.types[o \o ".type"].members) ELSE <<>>
MasksOfGlobal(x, s) ==
  CASE x \notin DOMAIN s.globals -> <<>>
    [] x \in DOMAIN s.globals /\ s.globals[x].kind # "Object" -> s.globals[x].masks
    [] OTHER -> IF x \in DOMAIN s.types /\ s.types[x].masks # {} THEN <<s.types[x].masks>>
                ELSE MasksOfObjectMember(x, "apply", s)
MasksOfCalleeHead(h, s) ==
  LET local(x) == CaptureInto(Len(s.fns), x, s)
      shadowed(x) == local(x).found \/ x \in DOMAIN s.tmpl
      isObject(x) == x \in DOMAIN s.globals /\ s.globals[x].kind = "Object"
  IN  CASE h.k = "Ident" -> IF local(h.x).found THEN local(h.x).info.masks
                            ELSE IF h.x \in DOMAIN s.tmpl THEN s.tmpl[h.x].masks
                            ELSE MasksOfGlobal(h.x, s)
        [] h.k = "Select" /\ h.q.k = "Ident" ->
             IF h.q.x = "this" THEN MasksOfMember(h.x, s.tmpl)
             ELSE IF ~shadowed(h.q.x) /\ isObject(h.q.x) THEN MasksOfObjectMember(h.q.x, h.x, s)
             ELSE <<>>
        [] OTHER -> <<>>
ByNameMaskOfCallee(fn, s) == MaskAt(MasksOfCalleeHead(CalleeHead(fn), s), ApplyLayers(fn))

-----------------------------------------------------------------------------
\* CaptureAnalysis.  An environment is a stack of scopes (the names bound, the
\* block they belong to, the statement being walked) and, per function depth,
\* whether that function is hoisted to the start of its block.
Decl(id, depth, kind, index, masks) ==
  [id |-> id, depth |-> depth, kind |-> kind, index |-> index, masks |-> masks]
ParamScope(names, depth) ==
  [names |-> [x \in names |-> Decl("", depth, "Param", 0, <<>>)],
   stats |-> <<>>, current |-> 0]

NoEnv == [scopes |-> <<>>, hoisted |-> <<>>]
Scoped(scope, env) == [env EXCEPT !.scopes = Append(@, scope)]

HoistedBetween(env, declDepth, refDepth) ==
  \E d \in (declDepth + 1)..refDepth : env.hoisted[d + 1]

\* Statement `current` refers to the definition at d.index of the same block
\* although a strict val or var lies between them.
ForwardReference(scope, d) ==
  /\ scope.current > 0 /\ d.index >= scope.current
  /\ \E k \in scope.current..d.index :
       scope.stats[k].k = "ValDef" /\ scope.stats[k].kind # "LazyVal"

LookupDecl(env, x) ==
  LET is == {i \in DOMAIN env.scopes : x \in DOMAIN env.scopes[i].names}
  IN  IF is = {} THEN 0 ELSE CHOOSE i \in is : \A j \in is : j <= i

Box(id) == <<"box", id>>
BadReference == <<"error", "forward reference">>

Reference(x, depth, env) ==
  LET i == LookupDecl(env, x)
      d == env.scopes[i].names[x]
  IN  IF i = 0 \/ d.kind = "Param" THEN {}
      ELSE (IF ForwardReference(env.scopes[i], d) THEN {BadReference} ELSE {})
           \cup
           (IF /\ d.depth < depth
               /\ \/ d.kind \in {"Var", "Def"}
                  \/ HoistedBetween(env, d.depth, depth)
            THEN {Box(d.id)} ELSE {})

BlockScope(stats, depth) ==
  LET defs == {k \in DOMAIN stats : stats[k].k \in {"ValDef", "DefDef"}}
      declOf(k) == LET t == stats[k]
                   IN  IF t.k = "ValDef" THEN Decl(t.id, depth, t.kind, k, <<>>)
                       ELSE Decl(t.id, depth, "Def", k, MasksOfDef(t))
      last(x) == CHOOSE k \in defs : stats[k].x = x /\
                   \A j \in defs : stats[j].x = x => j <= k
  IN  [names |-> [x \in {stats[k].x : k \in defs} |-> declOf(last(x))],
       stats |-> stats, current |-> 0]

\* The by-name positions of a call: a visible def's own lists, else every mask
\* declared under the selector: of a def, a method or a constructor.
SelectorMask(x, s) ==
  LET members == {t \in DOMAIN s.types : x \in DOMAIN s.types[t].members}
  IN  (IF x \in DOMAIN s.globals THEN UNION ToSet(s.globals[x].masks) ELSE {})
      \cup (IF x \in DOMAIN s.types THEN s.types[x].masks ELSE {})
      \cup UNION {UNION ToSet(s.types[t].members[x].masks) : t \in members}
AnalysisMask(fn, known, env) ==
  LET h == CalleeHead(fn)
      i == IF h.k \in {"Ident", "Select"} THEN LookupDecl(env, h.x) ELSE 0
  IN  IF h.k \notin {"Ident", "Select"} THEN {}
      ELSE IF i # 0 /\ env.scopes[i].names[h.x].kind = "Def"
      THEN MaskAt(env.scopes[i].names[h.x].masks, ApplyLayers(fn))
      ELSE SelectorMask(h.x, known)

RECURSIVE WalkFunction(_, _, _, _, _, _), Walk(_, _, _, _), WalkPaths(_, _, _, _)

WalkFunction(ps, body, depth, hoisted, known, env) ==
  LET e == Scoped(ParamScope({ps[i].x : i \in DOMAIN ps}, depth),
                  [env EXCEPT !.hoisted = Append(SubSeq(@, 1, depth), hoisted)])
  IN  Walk(body, depth, known, e)
      \cup UNION {Walk(ps[i].dflt, depth, known, e) : i \in {j \in DOMAIN ps : Given(ps[j].dflt)}}

WalkPaths(p, depth, known, env) ==
  (IF p.k = "Literal" THEN Walk(p.e, depth, known, env)
   ELSE IF p.k = "Extractor" THEN Reference(p.x, depth, env) ELSE {})
  \cup UNION {WalkPaths(PatternArgs(p)[i], depth, known, env) : i \in DOMAIN PatternArgs(p)}

WalkCase(c, depth, known, env) ==
  LET e == Scoped(ParamScope(ToSet(PatternVariables(c.p)), depth), env)
  IN  WalkPaths(c.p, depth, known, env) \cup Walk(c.g, depth, known, e)
      \cup Walk(c.b, depth, known, e)

WalkBlock(stats, depth, known, env) ==
  UNION {Walk(stats[k], depth, known,
              Scoped([BlockScope(stats, depth) EXCEPT !.current = k], env)) : k \in DOMAIN stats}

WalkApply(n, depth, known, env) ==
  Walk(n.f, depth, known, env) \cup
  UNION {IF k \in AnalysisMask(n.f, known, env)
         THEN WalkFunction(<<>>, n.args[k], depth + 1, FALSE, known, env)
         ELSE Walk(n.args[k], depth, known, env) : k \in DOMAIN n.args}

Walk(n, depth, known, env) ==
  CASE n.k = "Ident" -> Reference(n.x, depth, env)
    [] n.k = "Apply" -> WalkApply(n, depth, known, env)
    [] n.k = "Block" -> WalkBlock(n.stats, depth, known, env)
    [] n.k = "Lambda" -> WalkFunction(n.ps, n.b, depth + 1, FALSE, known, env)
    [] n.k = "DefDef" -> WalkFunction(n.ps, n.b, depth + 1, TRUE, known, env)
    [] n.k = "ValDef" -> IF n.kind = "LazyVal"
                         THEN WalkFunction(<<>>, n.rhs, depth + 1, TRUE, known, env)
                         ELSE Walk(n.rhs, depth, known, env)
    [] n.k \in {"Match", "Try"} ->
         Walk(IF n.k = "Match" THEN n.v ELSE n.b, depth, known, env)
         \cup UNION {WalkCase(n.cases[i], depth, known, env) : i \in DOMAIN n.cases}
         \cup (IF n.k = "Try" THEN Walk(n.f, depth, known, env) ELSE {})
    [] OTHER -> UNION {Walk(SubExprs(n)[i], depth, known, env) : i \in DOMAIN SubExprs(n)}

AnalyseCaptures(ps, body, s) ==
  LET w == WalkFunction(ps, body, 0, FALSE, [globals |-> s.globals, types |-> s.types], NoEnv)
  IN  Require(BadReference \notin w, "forward reference",
              [s EXCEPT !.boxed = @ \cup {b[2] : b \in {c \in w : c[1] = "box"}}])
=============================================================================
