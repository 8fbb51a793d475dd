------------------------------- MODULE Layout -------------------------------
(***************************************************************************)
(* The layout pass (frontend/Layout.cpp): it reads the raw tokens of a     *)
(* file one by one and inserts Newline, Indent and Outdent, rewrites a     *)
(* colon at a line end to ColonEol and an `end x` line to EndMarker, so    *)
(* that the parser reads indentation as it reads braces.                   *)
(*                                                                         *)
(*    raw        the tokens, the last one "eof"; i is the next one         *)
(*    out        the laid-out tokens so far                                *)
(*    regions    the open regions, innermost last                          *)
(*    prev       the kind of the last token put out that is not synthetic  *)
(*    closes     that token closed an old-style condition                  *)
(*    header     the line of a collective extension's header, or -1        *)
(*    outcome    "" while reading, then "done", "error" or "incomplete"    *)
(*                                                                         *)
(* A token keeps what the pass and the parser ask about: its kind k (its   *)
(* spelling, for keywords and punctuation), its text, its line and that    *)
(* line's indentation, whether it is first on its line or follows a blank  *)
(* line, whether a blank follows it, and whether a name is an operator or  *)
(* back-quoted.                                                            *)
(***************************************************************************)
EXTENDS Integers, Sequences, SequencesExt

VARIABLES raw, i, out, regions, prev, closes, header, outcome

lvars == <<raw, i, out, regions, prev, closes, header, outcome>>

CanEndStatement(k) ==
  k \in {"int", "float", "char", "str", "interp", "id", "this", "null", "true", "false",
         "return", "type", "_", ")", "]", "}", "EndMarker", "Outdent", "given"}

CanBeginStatement(k) ==
  k \notin {"catch", "else", "extends", "finally", "match", "with", "yield", "then", "do",
            ",", ".", ";", ":", "ColonEol", "=", "=>", "?=>", "=>>", "<-", "<:", ">:", "#",
            "[", ")", "]", "}", "eof"}

OpensRegion(k) ==
  k \in {"=", "=>", "?=>", "<-", "catch", "do", "else", "finally", "for", "if", "match",
         "return", "then", "throw", "try", "while", "yield", "with", "ColonEol"}

ContinuesStatement(k) ==
  k \in {"then", "else", "do", "catch", "finally", "yield", "match"}

IsCloser(k) == k \in {")", "]", "}"}

IsConditionKeyword(k) == k \in {"if", "while", "for"}

IsEndDesignator(k) ==
  k \in {"id", "if", "while", "for", "match", "try", "new", "this", "val", "given"}

\* The openers, or pending constructs, that a closing keyword is the partner
\* of.  ")" stands for an old-style condition, closed by ")" or by "}".
Partners(closer) ==
  CASE closer = "then" -> {"if", ")"}
    [] closer = "else" -> {"then", ")"}
    [] closer = "do" -> {"while", "for", ")"}
    [] closer = "yield" -> {"for", ")", "}"}
    [] closer = "catch" -> {"try"}
    [] closer = "finally" -> {"try", "catch"}
    [] OTHER -> {}

\* A region.  pending: the constructs begun in it that still wait for a
\* partner keyword.  provisional: Braces with a token on the line of the `{`,
\* whose width the first line break inside may still widen.
Region(kind, width, opener) ==
  [kind |-> kind, width |-> width, known |-> TRUE, opener |-> opener,
   condition |-> FALSE, provisional |-> FALSE, pending |-> <<>>]

-----------------------------------------------------------------------------
(* The steps inside one token work on [r |-> regions, o |-> out, bad].     *)

Top(s) == Last(s.r)
SetTop(s, region) == [s EXCEPT !.r[Len(s.r)] = region]

\* A synthetic token at t.  A Newline ends the statement, and with it every
\* construct that was waiting for a partner.
Synth(s, k, t) ==
  LET at == [t EXCEPT !.k = k, !.text = "", !.first = FALSE, !.blank = FALSE,
                      !.op = FALSE, !.quoted = FALSE]
      put == [s EXCEPT !.o = Append(@, at)]
  IN IF k = "Newline" THEN SetTop(put, [Top(s) EXCEPT !.pending = <<>>]) ELSE put

\* Mutant: the region ends without its Outdent.
PopRegionSilently(s, t) == [s EXCEPT !.r = Front(@)]

PopRegion(s, t) == Synth([s EXCEPT !.r = Front(@)], "Outdent", t)

\* Closes the innermost Indented regions wider than w.
RECURSIVE PopWider(_, _, _)
PopWider(s, t, w) ==
  IF Top(s).kind = "Indented" /\ w < Top(s).width THEN PopWider(PopRegion(s, t), t, w) ELSE s

\* Every Indented region down to the nearest bracket: all are wider than -1.
PopIndented(s, t) == PopWider(s, t, -1)

\* isLeadingInfix: an operator first on its line, not after a blank line, with
\* a blank and an operand after it.  n is the token after t.
IsLeadingInfix(t, n) ==
  /\ t.k = "id" /\ t.op /\ ~t.quoted /\ ~t.blank
  /\ n.k # "eof" /\ ~n.first /\ t.spaced
  /\ CanBeginStatement(n.k)

\* The width of a Braces region is settled by the first line break in it.
SettleWidth(s, w, opens) ==
  LET r == Top(s) IN
  IF r.kind = "Braces" /\ ~r.known THEN SetTop(s, [r EXCEPT !.width = w, !.known = TRUE])
  ELSE IF r.provisional
  THEN SetTop(s, [r EXCEPT !.provisional = FALSE,
                           !.width = IF w > @ /\ ~opens THEN w ELSE @])
  ELSE s

\* A line that leaves the region: the Indented regions it leaves are closed,
\* and it must then sit on an enclosing width.
Dedent(s, t, n, p) ==
  LET popped == PopWider(s, t, t.w)
      some == Len(popped.r) < Len(s.r)
      cur == Top(popped)
      between == some /\ cur.kind = "Indented" /\ t.w > cur.width
      belowTop == cur.kind = "TopLevel" /\ t.w # cur.width
      widthOk == t.w = cur.width \/ (cur.kind = "Braces" /\ t.w < cur.width)
  IN IF ContinuesStatement(p) THEN [s EXCEPT !.bad = TRUE]
     ELSE IF (between \/ belowTop) /\ ~IsCloser(t.k) THEN [popped EXCEPT !.bad = TRUE]
     ELSE IF /\ widthOk
             /\ some \/ CanEndStatement(p)
             /\ CanBeginStatement(t.k)
             /\ ~IsLeadingInfix(t, n)
     THEN Synth(popped, "Newline", t)
     ELSE popped

\* lineBreak: t is first on its line, after a token of kind p; c says whether
\* that token closed an old-style condition.
LineBreak(s, t, n, p, c) ==
  LET conditionOpener == c /\ t.k \notin {"then", "do", "yield"}
      opens == OpensRegion(p) \/ conditionOpener
      r == SettleWidth(s, t.w, opens)
      width == Top(r).width
  IN IF Top(s).kind \in {"Parens", "Brackets"} THEN s
     ELSE IF opens /\ t.w > width
     THEN Synth([r EXCEPT !.r = Append(@, Region("Indented", t.w,
                                                 IF conditionOpener THEN ")" ELSE p))],
                "Indent", t)
     ELSE IF t.w < width THEN Dedent(r, t, n, p)
     ELSE IF /\ t.w = width \/ t.blank
             /\ CanEndStatement(p)
             /\ CanBeginStatement(t.k)
             /\ ~IsLeadingInfix(t, n)
     THEN Synth(r, "Newline", t)
     ELSE r

\* satisfyPending: the innermost pending partner of the closer, and what was
\* begun after it, are done; `then` and `catch` leave a partner of their own.
Waiting(s, closer) == {j \in DOMAIN Top(s).pending : Top(s).pending[j] \in Partners(closer)}

\* Mutant: `then` and `catch` leave nothing pending.
SatisfyPendingAlone(s, closer) ==
  IF Waiting(s, closer) = {} THEN s
  ELSE SetTop(s, [Top(s) EXCEPT !.pending = SubSeq(@, 1, Max(Waiting(s, closer)) - 1)])

SatisfyPending(s, closer) ==
  IF Waiting(s, closer) = {} THEN s
  ELSE LET j == Max(Waiting(s, closer))
           left == SubSeq(Top(s).pending, 1, j - 1)
       IN SetTop(s, [Top(s) EXCEPT !.pending =
                       IF closer \in {"then", "catch"} THEN Append(left, closer) ELSE left])

\* closeByKeyword: a same-line closer with nothing pending closes the Indented
\* region its partner opened.
CloseByKeyword(s, t) ==
  IF /\ Waiting(s, t.k) = {}
     /\ ~t.first
     /\ Top(s).kind = "Indented"
     /\ Top(s).opener \in Partners(t.k)
  THEN SatisfyPending(PopRegion(s, t), t.k)
  ELSE SatisfyPending(s, t.k)

\* What the closing of an old-style condition leaves pending.
ConditionClosed(s) ==
  LET pending == Top(s).pending IN
  IF pending # <<>> /\ IsConditionKeyword(Last(pending))
  THEN SetTop(s, [Top(s) EXCEPT !.pending[Len(pending)] = ")"]) ELSE s

-----------------------------------------------------------------------------
Init(sources) ==
  /\ raw \in sources
  /\ i = 1
  /\ out = <<>>
  /\ regions = <<Region("TopLevel", raw[1].w, "eof")>>
  /\ prev = "eof"
  /\ closes = FALSE
  /\ header = -1
  /\ outcome = ""

\* The state in which the token proper is handled: after the line break.
Arrived ==
  LET s == [r |-> regions, o |-> out, bad |-> FALSE] IN
  IF raw[i].first /\ out # <<>> THEN LineBreak(s, raw[i], raw[i + 1], prev, closes) ELSE s

\* An identifier `end` first on its line, a designator and nothing more.
AtEndMarker ==
  /\ raw[i].k = "id" /\ raw[i].text = "end" /\ raw[i].first
  /\ ~raw[i + 1].first /\ IsEndDesignator(raw[i + 1].k)
  /\ LET after == raw[IF i + 2 <= Len(raw) THEN i + 2 ELSE Len(raw)]
     IN after.first \/ after.k = "eof"

\* The end of the file closes the Indented regions; a bracket still open is
\* an incomplete input.
Finish(s, t) ==
  LET closed == PopIndented(s, t)
  IN [o |-> IF Len(closed.r) > 1 THEN closed.o ELSE Append(closed.o, t),
      end |-> IF Len(closed.r) > 1 THEN "incomplete" ELSE "done"]

EndOfFile ==
  /\ outcome = "" /\ raw[i].k = "eof"
  /\ LET e == Finish([r |-> regions, o |-> out, bad |-> FALSE], raw[i])
     IN out' = e.o /\ outcome' = e.end
  /\ UNCHANGED <<raw, i, regions, prev, closes, header>>

\* The lexer's error, raised when the pass reaches it.  Its text says whether
\* the input ended inside a token ("open": errorAtEof).
LexicalError ==
  /\ outcome = "" /\ raw[i].k = "Error"
  /\ outcome' = IF raw[i].text = "open" THEN "incomplete" ELSE "error"
  /\ UNCHANGED <<raw, i, out, regions, prev, closes, header>>

\* A line indented to no enclosing width.
Misaligned ==
  /\ outcome = "" /\ raw[i].k \notin {"eof", "Error"}
  /\ Arrived.bad
  /\ outcome' = "error"
  /\ UNCHANGED <<raw, i, out, regions, prev, closes, header>>

Reading == outcome = "" /\ raw[i].k \notin {"eof", "Error"} /\ ~Arrived.bad

EndMarker ==
  /\ Reading /\ AtEndMarker
  /\ out' = Append(Arrived.o, [raw[i] EXCEPT !.k = "EndMarker", !.text = raw[i + 1].text])
  /\ regions' = Arrived.r
  /\ i' = i + 2 /\ prev' = "EndMarker" /\ closes' = FALSE
  /\ UNCHANGED <<raw, header, outcome>>

\* The token itself goes out; a colon at the end of its line as ColonEol.
Emit(s, closed) ==
  LET t == IF raw[i].k = ":" /\ raw[i + 1].first THEN [raw[i] EXCEPT !.k = "ColonEol"]
           ELSE raw[i]
  IN /\ out' = Append(s.o, t)
     /\ regions' = s.r
     /\ prev' = t.k
     /\ closes' = closed
     /\ i' = i + 1
     /\ UNCHANGED <<raw, outcome>>

Opening ==
  LET sameLine == ~raw[i + 1].first
      bracket == CASE raw[i].k = "(" ->
                        [Region("Parens", 0, "eof") EXCEPT !.condition = IsConditionKeyword(prev)]
                   [] raw[i].k = "[" -> Region("Brackets", 0, "eof")
                   [] raw[i].k = "{" ->
                        [Region("Braces", IF sameLine THEN raw[i].w ELSE 0, "eof")
                          EXCEPT !.known = sameLine, !.provisional = sameLine,
                                 !.condition = prev = "for"]
  IN [Arrived EXCEPT !.r = Append(@, bracket)]

OpenBracket ==
  /\ Reading /\ raw[i].k \in {"(", "[", "{"}
  /\ Emit(Opening, FALSE)
  /\ UNCHANGED header

\* closeBracket: the Indented regions inside the bracket end with it.
Inside == PopIndented(Arrived, raw[i])
Matches ==
  Top(Inside).kind = CASE raw[i].k = ")" -> "Parens"
                       [] raw[i].k = "]" -> "Brackets"
                       [] raw[i].k = "}" -> "Braces"

CloseBracket ==
  /\ Reading /\ IsCloser(raw[i].k) /\ Matches
  /\ LET ofHeader == ~Top(Inside).condition /\ header = raw[i].line /\ raw[i + 1].first
         closed == Top(Inside).condition \/ ofHeader
         s == [Inside EXCEPT !.r = Front(@)]
     IN /\ Emit(IF closed THEN ConditionClosed(s) ELSE s, closed)
        /\ header' = IF ofHeader THEN -1 ELSE header

Unbalanced ==
  /\ Reading /\ IsCloser(raw[i].k) /\ ~Matches
  /\ outcome' = "error"
  /\ UNCHANGED <<raw, i, out, regions, prev, closes, header>>

\* Every other token.  `;` ends the statement; if, try, while and for wait for
\* their partner; `extension` before a bracket begins a header.
OtherToken ==
  /\ Reading /\ ~AtEndMarker
  /\ ~IsCloser(raw[i].k) /\ raw[i].k \notin {"(", "[", "{"}
  /\ LET t == raw[i]
         s == CloseByKeyword(Arrived, t)
         pending == CASE t.k = ";" -> <<>>
                      [] t.k \in {"if", "try", "while", "for"} -> Append(Top(s).pending, t.k)
                      [] OTHER -> Top(s).pending
     IN Emit(SetTop(s, [Top(s) EXCEPT !.pending = pending]), FALSE)
  /\ header' = IF /\ raw[i].k = "id" /\ raw[i].text = "extension"
                  /\ raw[i].first /\ ~raw[i].quoted
                  /\ raw[i + 1].k \in {"(", "["}
               THEN raw[i].line ELSE header

Step == \/ EndOfFile \/ LexicalError \/ Misaligned \/ EndMarker \/ OpenBracket \/ CloseBracket
        \/ Unbalanced \/ OtherToken

-----------------------------------------------------------------------------
\* The brackets and Indents of the laid-out tokens that are still open, by the
\* kind of region each stands for; <<"crossed">> if one closes another's.
RECURSIVE OpenIn(_, _)
OpenIn(ts, open) ==
  IF ts = <<>> THEN open
  ELSE LET k == Head(ts).k
           opens == [q \in {"(", "[", "{", "Indent"} |->
                      CASE q = "(" -> "Parens" [] q = "[" -> "Brackets"
                        [] q = "{" -> "Braces" [] OTHER -> "Indented"]
           shuts == [q \in {")", "]", "}", "Outdent"} |->
                      CASE q = ")" -> "Parens" [] q = "]" -> "Brackets"
                        [] q = "}" -> "Braces" [] OTHER -> "Indented"]
       IN CASE k \in DOMAIN opens -> OpenIn(Tail(ts), Append(open, opens[k]))
            [] k \in DOMAIN shuts ->
                 IF open # <<>> /\ Last(open) = shuts[k]
                 THEN OpenIn(Tail(ts), Front(open)) ELSE <<"crossed">>
            [] OTHER -> OpenIn(Tail(ts), open)

\* The laid-out text is well nested at every moment: the regions the pass
\* holds open are exactly the brackets and Indents of its output that nothing
\* has closed, in the same order, so that no Outdent is put out inside a
\* bracket that began after its Indent (Layout.cpp closeBracket, closeByKeyword
\* and the pops of lineBreak).
WellNested ==
  outcome = "" =>
    OpenIn(out, <<>>) = [j \in 1..Len(regions) - 1 |-> regions[j + 1].kind]
=============================================================================
