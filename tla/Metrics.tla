------------------------------- MODULE Metrics -------------------------------
(***************************************************************************)
(* The four measures of oclint-metrics: cyclomatic complexity, NPath       *)
(* complexity, non-commenting source statements and block depth, each a    *)
(* recursion over the syntax tree that knows some kinds of node and takes  *)
(* every other kind for a leaf.                                            *)
(***************************************************************************)
EXTENDS SyntaxTree, MachineIntegers

Total(F(_), seq) == FoldLeft(LAMBDA sum, n : sum + F(n), 0, seq)
Greatest(F(_), seq) == FoldLeft(LAMBDA max, n : IF F(n) > max THEN F(n) ELSE max, 0, seq)

(***************************************************************************)
(* Cyclomatic complexity: one visitor over the whole declaration, nested   *)
(* blocks and functions included.                                          *)
(***************************************************************************)
MutDecisions == {"if", "for", "forin", "while", "do", "case", "default", "@catch", "catch", "?:", "and", "or"}

Decisions == {"if", "for", "forin", "while", "do", "case", "@catch", "catch", "?:", "and", "or"}

CyclomaticComplexity(decl) ==
    1 + Total(LAMBDA n : IF n.k \in Decisions THEN 1 ELSE 0, Preorder(decl))

(***************************************************************************)
(* NPath complexity.  A node is asked as a statement or as an expression,  *)
(* by the static type of the pointer; an unknown statement counts one, an  *)
(* unknown expression nothing.                                             *)
(***************************************************************************)
RECURSIVE NPathExpr(_), NPath(_)

NPathExpr(e) ==
    CASE e.k = "?:" -> Total(NPathExpr, e.kids) + 2
      [] e.k \in {"and", "or"} -> 1 + Total(NPathExpr, e.kids)
      [] e.k \in {"paren", "cast"} -> NPathExpr(e.kids[1])
      [] OTHER -> 0

MutNPathSwitch(cond, body) ==
    IF body.k # "compound" THEN NPathExpr(cond) + NPath(body)
    ELSE NPathExpr(cond) + Total(NPath, SelectSeq(body.kids, LAMBDA s : Is(s, Labels)))

(* The labels of a switch start a sum, what follows a label is a factor.   *)
NPathSwitch(cond, body) ==
    IF body.k # "compound" THEN NPathExpr(cond) + NPath(body)
    ELSE LET step(acc, s) ==
                IF Is(s, Labels) THEN [sum |-> acc.sum + acc.part, part |-> NPath(s)]
                ELSE [acc EXCEPT !.part = Wrapped(@ * NPath(s))]
             end == FoldLeft(step, [sum |-> NPathExpr(cond), part |-> 0], body.kids)
         IN end.sum + end.part

NPath(n) == Wrapped(
    CASE n.k = "compound" -> FoldLeft(LAMBDA product, s : Wrapped(product * NPath(s)), 1, n.kids)
      [] n.k = "if" ->
            NPathExpr(n.kids[1]) + NPath(n.kids[2]) + IF HasElse(n) THEN NPath(n.kids[3]) ELSE 1
      [] n.k \in {"while", "do"} ->
            NPathExpr(n.kids[IF n.k = "do" THEN 2 ELSE 1]) + NPath(Body(n)) + 1
      [] n.k = "for" -> 1 + NPathExpr(n.kids[1]) + NPathExpr(n.kids[2]) + NPath(n.kids[3]) + 1
      [] n.k = "forin" -> NPath(Body(n)) + 2
      [] n.k = "switch" -> NPathSwitch(n.kids[1], n.kids[2])
      [] n.k \in Labels -> NPath(n.kids[1])
      [] OTHER -> 1)

(***************************************************************************)
(* Non-commenting source statements, and the depth of blocks.              *)
(***************************************************************************)
MutTransparent == {"@finally", "@synchronized", "@autoreleasepool", "while", "for", "forin",
                   "switch", "case", "catch", "@catch"}

Transparent == {"@finally", "@synchronized", "@autoreleasepool", "while", "for", "forin",
                "switch", "case", "default", "catch", "@catch"}

RECURSIVE Ncss(_), Depth(_)

Ncss(n) ==
    CASE n.k = "null" -> 0
      [] n.k = "compound" -> Total(Ncss, n.kids)
      [] n.k = "if" -> 1 + Ncss(n.kids[2]) + IF HasElse(n) THEN Ncss(n.kids[3]) + 1 ELSE 0
      [] n.k = "do" -> 2 + Ncss(Body(n))
      [] n.k \in Transparent -> 1 + Ncss(Body(n))
      [] n.k \in Tries -> 1 + Total(Ncss, n.kids)
      [] OTHER -> 1

(* getNcssCount: the body, if there is one, and one for the declaration.   *)
NcssCount(decl) == IF decl.body = <<>> THEN 0 ELSE Ncss(decl.body[1]) + 1

Depth(n) ==
    CASE n.k = "compound" -> 1 + Greatest(Depth, n.kids)
      [] n.k = "if" -> Greatest(Depth, Tail(n.kids))
      [] n.k \in Transparent \cup {"do"} -> Depth(Body(n))
      [] n.k \in Tries -> Greatest(Depth, n.kids)
      [] OTHER -> 0
=============================================================================
