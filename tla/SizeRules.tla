------------------------------ MODULE SizeRules ------------------------------
(***************************************************************************)
(* The rules with a limit over real syntax trees: what the four measures   *)
(* of Metrics, compared with a limit, say of a function.  LimitRules takes *)
(* its measures from Metrics.                                              *)
(***************************************************************************)
EXTENDS Metrics, ControlFlow, LimitRules

(***************************************************************************)
(* Properties, of what was reported when every unit is landed.  Judged are *)
(* the nodes the rule has decided about.                                   *)
(***************************************************************************)
Judged == Range(visited)
Defined == {i \in Judged : Is(i.node, Functions) /\ i.node.kids # <<>>}
Verdict(i, number) == (i \in reported) <=> number > IntForKey
Within(n, kinds) == \A m \in Contained(n) : m.k \in kinds

(* Statements with neither jump nor short circuit, except the break that   *)
(* ends each part of a switch; every switch has a default.                 *)
Structured(body) ==
    /\ Within(body, {"compound", "if", "while", "switch", "case", "default", "break", "stmt", "atom"})
    /\ \A n \in Contained(body) :
        /\ n.k = "switch" =>
            LET parts == n.kids[2].kids
                breaks(i) == parts[i].k = "break"
            IN /\ Is(n.kids[2], {"compound"})
               /\ parts # <<>> /\ Is(parts[1], Labels) /\ breaks(Len(parts))
               /\ \E i \in DOMAIN parts : parts[i].k = "default"
               /\ \A i \in DOMAIN parts : i > 1 => (breaks(i - 1) <=> Is(parts[i], Labels))
        /\ n.k \in Labels => ~Is(n.kids[1], Labels)
        /\ n.k \in {"compound", "if", "while"} \cup Labels =>
            \A i \in DOMAIN n.kids :
                n.kids[i].k = "break" => \E m \in Contained(body) : m.k = "switch" /\ m.kids[2] = n

(* NPathComplexityMetric multiplies and adds as it goes down the tree and  *)
(* NPathComplexityRule compares the outcome: a structured function is      *)
(* reported exactly when it has more execution paths than the limit.       *)
NPathCountsPaths ==
    AllLanded /\ rule = "NPATH_COMPLEXITY" =>
        \A i \in Defined : Structured(i.node.body[1]) => Verdict(i, Cardinality(Runs(i.node.body[1])))

(* CyclomaticComplexityMetric counts some kinds of node; McCabe, whom the  *)
(* rule quotes, counts edges and nodes of the flow graph.  They agree on   *)
(* every statement with jumps, short circuits and switches, but for the    *)
(* range-based for, which is no ForStmt.                                   *)
CyclomaticIsMcCabe ==
    AllLanded /\ rule = "CYCLOMATIC_COMPLEXITY" =>
        \A i \in Defined : ~Holds(i.node, {"rangefor"}) =>
            Verdict(i, CyclomaticNumber(FlowGraph(i.node.body[1])))

(* NcssMetric: statements are counted once each, blocks and empty          *)
(* statements never, an else and the while of a do once more; so whatever  *)
(* the nesting no statement is counted twice or lost on the way up, except *)
(* those inside a range-based for, which is a leaf to all four metrics.    *)
NcssCountsStatements ==
    AllLanded /\ rule = "NCSS_METHOD" =>
        \A i \in Defined :
            LET body == i.node.body[1]
                kinds == {"compound", "null", "atom", "and", "or", "not", "?:"}
                own(n) == (IF n.k \in kinds THEN 0 ELSE 1) +
                          (IF n.k = "do" \/ (n.k = "if" /\ HasElse(n)) THEN 1 ELSE 0)
            IN ~Holds(body, {"rangefor"}) => Verdict(i, 1 + Total(own, Preorder(body)))

(* StmtDepthMetric: a block is reported exactly when some block inside it, *)
(* counted with all the blocks between, is deeper than the limit.          *)
DepthIsNesting ==
    AllLanded /\ rule = "NESTED_BLOCK_DEPTH" =>
        \A i \in Judged : Is(i.node, {"compound"}) /\ ~Holds(i.node, {"rangefor"}) =>
            LET blocks(p) == Cardinality({q \in 0..Len(p) :
                                Is(At(i.node, SubSeq(p, 1, q)), {"compound"})})
            IN (i \in reported) <=> \E p \in Positions(i.node) : blocks(p) > IntForKey

(* The other two numbers are what they are called after.                   *)
LengthAndDepthAreTrue == NcssCountsStatements /\ DepthIsNesting
=============================================================================
