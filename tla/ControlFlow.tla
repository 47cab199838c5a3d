----------------------------- MODULE ControlFlow -----------------------------
(***************************************************************************)
(* What the languages say a statement does, for properties to compare a    *)
(* metric or a rule with.  Nothing here is code of the repository: Runs    *)
(* are the executions of a statement in which every loop is passed at most *)
(* once, and FlowGraph is McCabe's graph, built from the same tree without *)
(* counting anything.                                                      *)
(***************************************************************************)
EXTENDS SyntaxTree, FiniteSets

(* A run is the decisions taken and how the statement was left.            *)
Run(way, out) == [way |-> way, out |-> out]
After(run, r) == Run(run.way \o r.way, r.out)
Leaving(runs, outs) == {r \in runs : r.out \in outs}
AndThen(runs, more) ==
    {r \in runs : r.out # "next"} \cup
    {After(r, q) : r \in Leaving(runs, {"next"}), q \in more}
Skip == {Run(<<>>, "next")}

(* The evaluations of a condition, operators that stop early included.     *)
RECURSIVE Evaluations(_)
Evaluations(e) ==
    LET Of(l, r, stops) ==
            {x \in Evaluations(l) : x.out = stops} \cup
            {After(x, y) : x \in {z \in Evaluations(l) : z.out # stops}, y \in Evaluations(r)}
    IN CASE e.k = "and" -> Of(e.kids[1], e.kids[2], FALSE)
         [] e.k = "or" -> Of(e.kids[1], e.kids[2], TRUE)
         [] e.k = "not" -> {Run(x.way, ~x.out) : x \in Evaluations(e.kids[1])}
         [] e.k \in {"paren", "cast"} -> Evaluations(e.kids[1])
         [] e.k = "true" -> {Run(<<>>, TRUE)}
         [] e.k = "false" -> {Run(<<>>, FALSE)}
         [] OTHER -> {Run(<<1>>, TRUE), Run(<<0>>, FALSE)}

(* Statements that raise: of C++, of Objective-C, a message to NSException.*)
Throws == {"throw", "@throw", "raise"}
Marked == -1

RECURSIVE Runs(_)

InTurn(seq) == FoldLeft(LAMBDA runs, s : AndThen(runs, Runs(s)), Skip, seq)

Branches(cond, whenTrue, whenFalse) ==
    UNION {{After(c, r) : r \in IF c.out THEN whenTrue ELSE whenFalse} : c \in Evaluations(cond)}

(* A pass through a loop: break and continue end it, so does its end.      *)
Ended(runs, outs) == {Run(r.way, IF r.out \in outs THEN "next" ELSE r.out) : r \in runs}
Pass(body) == Ended(Runs(body), {"break", "continue"})

(* Runs that enter n at the label in it at p.                              *)
RECURSIVE Entered(_, _)
Entered(n, p) ==
    IF p = <<>> THEN Runs(n)
    ELSE LET within == Entered(n.kids[Head(p)], Tail(p))
         IN CASE n.k = "compound" -> AndThen(within, InTurn(SubSeq(n.kids, Head(p) + 1, Len(n.kids))))
              [] n.k \in Loops -> Ended(within, {"break", "continue"})
              [] OTHER -> within

(* A switch enters at any of its labels, or nowhere when it has no default.*)
SwitchRuns(body) ==
    LET whole == Switch(Atom, body)
        labels == LabelPositions(whole)
        numbered(p) == FoldLeft(LAMBDA number, i : 10 * number + i, 0, p)
        from(p) == {After(Run(<<numbered(p)>>, "next"), r) : r \in Entered(body, Tail(p))}
        skipped == IF \E p \in labels : At(whole, p).k = "default" THEN {} ELSE {Run(<<0>>, "next")}
    IN Ended(skipped \cup UNION {from(p) : p \in labels}, {"break"})

(* A finally block runs however the body was left, and leaving it in       *)
(* another way forgets how.                                                *)
Finally(runs, block) ==
    {IF f.out = "next" THEN Run(r.way \o f.way, r.out) ELSE After(r, f) :
        r \in runs, f \in Runs(block)}

TryRuns(n) ==
    LET block == Runs(n.kids[1])
        catches == {i \in DOMAIN n.kids : Is(n.kids[i], Catches)}
        finals == {i \in DOMAIN n.kids : Is(n.kids[i], {"@finally"})}
        caught == {Run(<<i>>, "next") : i \in catches}
        handled == UNION {{After(Run(<<i>>, "next"), r) : r \in Runs(n.kids[i].kids[1])} : i \in catches}
        thrown == IF catches = {} THEN Leaving(block, {"throw"}) ELSE handled
        all == (block \ Leaving(block, {"throw"})) \cup thrown
    IN IF finals = {} THEN all
       ELSE UNION {Finally(all, n.kids[i].kids[1]) : i \in finals}

Runs(n) ==
    CASE n.k = "compound" -> InTurn(n.kids)
      [] n.k = "if" ->
            Branches(n.kids[1], Runs(n.kids[2]), IF HasElse(n) THEN Runs(n.kids[3]) ELSE Skip)
      [] n.k \in {"while", "for"} -> Branches(n.kids[1], Pass(Body(n)), Skip)
      [] n.k \in {"forin", "rangefor"} -> Branches(Atom, Pass(Body(n)), Skip)
      [] n.k = "do" -> Pass(Body(n))
      [] n.k = "switch" -> SwitchRuns(n.kids[2])
      [] n.k \in Labels \cup {"label"} -> Runs(n.kids[1])
      [] n.k \in Tries -> TryRuns(n)
      [] n.k \in {"break", "continue", "return", "goto"} -> {Run(<<>>, n.k)}
      [] n.k \in Throws -> {Run(<<>>, "throw")}
      [] n.k = "mark" -> {Run(<<Marked>>, "next")}
      [] OTHER -> Skip

(* Some run of n comes past the statement at p, or past what it labels.    *)
RECURSIVE Reached(_, _)
Reached(n, p) ==
    IF Is(At(n, p), Labels) THEN Reached(n, Append(p, 1))
    ELSE \E r \in Runs(Replaced(n, p, Leaf("mark"))) : Marked \in ToSet(r.way)

Outcomes(n) == {r.out : r \in Runs(n)}
CompletesNormally(n) == "next" \in Outcomes(n)

(***************************************************************************)
(* The flow graph: one node per position of the tree and one exit; an edge *)
(* is a pair.  Going is where control goes from a statement: what follows  *)
(* it, and where break and continue lead.                                  *)
(***************************************************************************)
ExitNode == <<0, 0>>
Going(next, brk, cont) == [next |-> next, brk |-> brk, cont |-> cont]

RECURSIVE Tested(_, _, _, _), Valued(_, _, _)

(* Edges of the expression e at p when it decides between t and f.         *)
Tested(e, p, t, f) ==
    LET kid(i) == p \o <<i>>
        test == p \o <<0>>
    IN CASE e.k = "and" ->
                {<<p, kid(1)>>} \cup Tested(e.kids[1], kid(1), kid(2), f)
                                \cup Tested(e.kids[2], kid(2), t, f)
         [] e.k = "or" ->
                {<<p, kid(1)>>} \cup Tested(e.kids[1], kid(1), t, kid(2))
                                \cup Tested(e.kids[2], kid(2), t, f)
         [] e.k = "not" -> {<<p, kid(1)>>} \cup Tested(e.kids[1], kid(1), f, t)
         [] e.k \in {"?:", "binary", "paren"} ->
                Valued(e, p, test) \cup {<<test, t>>, <<test, f>>}
         [] OTHER -> {<<p, t>>, <<p, f>>}

(* Edges of e when only its value is wanted.                               *)
Valued(e, p, next) ==
    LET kid(i) == p \o <<i>>
        one(i, to) == Valued(e.kids[i], kid(i), to)
    IN CASE e.k = "and" -> {<<p, kid(1)>>} \cup Tested(e.kids[1], kid(1), kid(2), next) \cup one(2, next)
         [] e.k = "or" -> {<<p, kid(1)>>} \cup Tested(e.kids[1], kid(1), next, kid(2)) \cup one(2, next)
         [] e.k = "?:" ->
                {<<p, kid(1)>>} \cup Tested(e.kids[1], kid(1), kid(2), kid(3))
                                \cup one(2, next) \cup one(3, next)
         [] e.kids = <<>> -> {<<p, next>>}
         [] OTHER ->
                {<<p, kid(1)>>} \cup UNION {one(i, IF i = Len(e.kids) THEN next ELSE kid(i + 1)) :
                                            i \in DOMAIN e.kids}

RECURSIVE Edges(_, _, _)
Edges(n, p, to) ==
    LET kid(i) == p \o <<i>>
        one(i, going) == Edges(n.kids[i], kid(i), going)
        then(next) == [to EXCEPT !.next = next]
        loop(again) == Going(again, to.next, again)
    IN CASE n.k = "compound" /\ n.kids # <<>> ->
                {<<p, kid(1)>>} \cup
                UNION {one(i, then(IF i = Len(n.kids) THEN to.next ELSE kid(i + 1))) : i \in DOMAIN n.kids}
         [] n.k = "if" ->
                {<<p, kid(1)>>} \cup
                Tested(n.kids[1], kid(1), kid(2), IF HasElse(n) THEN kid(3) ELSE to.next) \cup
                UNION {one(i, to) : i \in 2..Len(n.kids)}
         [] n.k = "while" ->
                {<<p, kid(1)>>} \cup Tested(n.kids[1], kid(1), kid(2), to.next) \cup one(2, loop(p))
         [] n.k = "do" ->
                {<<p, kid(1)>>} \cup one(1, loop(kid(2))) \cup Tested(n.kids[2], kid(2), p, to.next)
         [] n.k = "for" ->
                {<<p, kid(1)>>} \cup Tested(n.kids[1], kid(1), kid(3), to.next) \cup
                Valued(n.kids[2], kid(2), kid(1)) \cup one(3, loop(kid(2)))
         [] n.k \in {"forin", "rangefor"} ->
                Valued(n.kids[1], kid(1), p) \cup {<<p, kid(2)>>, <<p, to.next>>} \cup one(2, loop(p))
         [] n.k = "switch" ->
                LET labels == LabelPositions(n)
                    reached == {p \o q : q \in labels}
                    default == \E q \in labels : Is(At(n, q), {"default"})
                IN {<<p, kid(1)>>} \cup Valued(n.kids[1], kid(1), p \o <<0>>) \cup
                   {<<p \o <<0>>, l>> : l \in reached \cup IF default THEN {} ELSE {to.next}} \cup
                   one(2, Going(to.next, to.next, to.cont))
         [] n.k \in Tries ->
                LET last == Len(n.kids)
                    final == n.kids[last].k = "@finally"
                    handled == IF final THEN 1..(last - 1) ELSE 1..last
                    after == IF final THEN then(kid(last)) ELSE to
                IN {<<p, kid(i)>> : i \in handled} \cup UNION {one(i, after) : i \in handled} \cup
                   (IF final THEN one(last, to) ELSE {})
         [] n.k \in Labels \cup {"catch", "@catch", "@finally", "label"} -> {<<p, kid(1)>>} \cup one(1, to)
         [] n.k = "stmt" -> {<<p, kid(1)>>} \cup Valued(n.kids[1], kid(1), to.next)
         [] n.k = "return" -> {<<p, ExitNode>>}
         [] n.k = "break" -> {<<p, to.brk>>}
         [] n.k = "continue" -> {<<p, to.cont>>}
         [] OTHER -> {<<p, to.next>>}

FlowGraph(body) == Edges(body, <<>>, Going(ExitNode, ExitNode, ExitNode))
GraphNodes(graph) == UNION {{e[1], e[2]} : e \in graph}

(* McCabe's number, edges minus nodes plus two.                            *)
CyclomaticNumber(graph) == Cardinality(graph) - Cardinality(GraphNodes(graph)) + 2
=============================================================================
