----------------------------- MODULE SyntaxTree -----------------------------
(***************************************************************************)
(* Syntax trees as the rules and metrics see them: a node is a kind and    *)
(* its children, in the order clang's children() gives them.  Statements   *)
(* and expressions are nodes alike.                                        *)
(*                                                                         *)
(* A child that clang leaves null is left out, with one exception: the     *)
(* last child of an "if" is its else branch when there are three.  The     *)
(* initialisation of a "for" is left out too, no rule modelled reads it.   *)
(***************************************************************************)
EXTENDS Integers, Sequences, SequencesExt

Node(kind, children) == [k |-> kind, kids |-> children]
Leaf(kind) == Node(kind, <<>>)

Compound(body) == Node("compound", body)
Block(s) == Compound(<<s>>)
If(cond, then) == Node("if", <<cond, then>>)
IfElse(cond, then, else) == Node("if", <<cond, then, else>>)
While(cond, body) == Node("while", <<cond, body>>)
Do(body, cond) == Node("do", <<body, cond>>)
For(cond, inc, body) == Node("for", <<cond, inc, body>>)
ForIn(collection, body) == Node("forin", <<collection, body>>)
RangeFor(range, body) == Node("rangefor", <<range, body>>)
Switch(cond, body) == Node("switch", <<cond, body>>)
Case(s) == Node("case", <<s>>)
Default(s) == Node("default", <<s>>)
Statement(e) == Node("stmt", <<e>>)

Atom == Leaf("atom")
And(l, r) == Node("and", <<l, r>>)
Or(l, r) == Node("or", <<l, r>>)
Not(e) == Node("not", <<e>>)
Paren(e) == Node("paren", <<e>>)
Conditional(c, t, f) == Node("?:", <<c, t, f>>)

Is(n, kinds) == n.k \in kinds
Body(n) == IF n.k = "do" THEN n.kids[1] ELSE n.kids[Len(n.kids)]
HasElse(n) == Len(n.kids) = 3

Loops == {"while", "do", "for", "forin", "rangefor"}
Labels == {"case", "default"}
Tries == {"try", "@try"}
Catches == {"catch", "@catch"}

(* The nodes d levels below n, the number of levels, and the nodes on all  *)
(* of them: n itself and those below it.                                   *)
Generation(n, d) ==
    LET level[k \in 0..d] == IF k = 0 THEN {n} ELSE UNION {ToSet(m.kids) : m \in level[k - 1]}
    IN level[d]

Height(n) ==
    LET height[d \in Nat] == IF Generation(n, d) = {} THEN d ELSE height[d + 1]
    IN height[0]

Contained(n) == UNION {Generation(n, d) : d \in 0..Height(n)}
Holds(n, kinds) == \E m \in Contained(n) : Is(m, kinds)

(* What clang builds: a tree that ends, of nodes with children in order.   *)
IsTree(n) ==
    /\ Height(n) \in Nat
    /\ Generation(n, Height(n)) = {}
    /\ \A m \in Contained(n) : m = Node(m.k, m.kids) /\ m.kids \in Seq(ToSet(m.kids))

(* What is made of n, when Of(m, below) is made of a node m and of what    *)
(* was made of its children.                                               *)
FromBelow(Of(_, _), n) ==
    LET made[m \in Contained(n)] == Of(m, [i \in DOMAIN m.kids |-> made[m.kids[i]]])
    IN made[n]

(* The positions of a tree: paths of child indices from the root.          *)
PositionsFrom(m, below) ==
    {<<>>} \cup UNION {{<<i>> \o p : p \in below[i]} : i \in DOMAIN m.kids}
Positions(n) == FromBelow(PositionsFrom, n)

At(n, p) ==
    LET at[k \in 0..Len(p)] == IF k = 0 THEN n ELSE at[k - 1].kids[p[k]]
    IN at[Len(p)]

Replaced(n, p, by) ==
    LET above(k) == SubSeq(p, 1, Len(p) - k)
        replaced[k \in 0..Len(p)] ==
            IF k = 0 THEN by
            ELSE [At(n, above(k)) EXCEPT !.kids[p[Len(p) - k + 1]] = replaced[k - 1]]
    IN replaced[Len(p)]

(* Where the labels of a switch are, those of switches inside it left out. *)
LabelPositions(switch) ==
    {p \in Positions(switch) :
        /\ Is(At(switch, p), Labels)
        /\ \A i \in 1..(Len(p) - 1) : ~Is(At(switch, SubSeq(p, 1, i)), {"switch"})}

(* The nodes below n and n itself, in the order a RecursiveASTVisitor      *)
(* visits them.                                                            *)
Preorder(n) ==
    LET visited[m \in Contained(n)] == <<m>> \o FoldLeft(LAMBDA seen, kid : seen \o visited[kid], <<>>, m.kids)
    IN visited[n]

PreorderFrom(m, below) ==
    LET upTo[i \in 0..Len(m.kids)] ==
            IF i = 0 THEN <<<<>>>>
            ELSE LET ps == below[i] IN upTo[i - 1] \o [j \in DOMAIN ps |-> <<i>> \o ps[j]]
    IN upTo[Len(m.kids)]
PreorderPositions(n) == FromBelow(PreorderFrom, n)
=============================================================================
