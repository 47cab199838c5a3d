------------------------------ MODULE FlowRules ------------------------------
(***************************************************************************)
(* The rules about how control leaves statements: dead code, branches,     *)
(* switches, finally blocks and empty blocks.  One operator per rule says  *)
(* which statements it reports when it visits the node n, as positions     *)
(* below n; a rule that keeps something between two visits is given the    *)
(* whole tree.                                                             *)
(***************************************************************************)
EXTENDS ControlFlow, Flight

CONSTANT MinimumCases   \* value of MINIMUM_CASES_IN_SWITCH

ASSUME FlowAssumption == MinimumCases \in Int

(***************************************************************************)
(* Statements after a jump.                                                *)
(***************************************************************************)
RECURSIVE ExitType(_)

MutExitType(s) ==
    CASE s.k \in {"break", "continue", "return", "goto", "throw", "@throw"} -> "FullExit"
      [] s.k = "if" -> ExitType(s.kids[2])
      [] s.k = "compound" /\ s.kids # <<>> -> ExitType(Last(s.kids))
      [] OTHER -> "NoExit"

(* How ExitTypeGetter says a statement is left; labels of goto are not     *)
(* looked into.                                                            *)
ExitType(s) ==
    LET then == ExitType(s.kids[2])
        else == ExitType(s.kids[3])
        leaving == SelectSeq(s.kids, LAMBDA kid : ExitType(kid) # "NoExit")
    IN CASE s.k = "break" -> "ExitScope"
         [] s.k = "continue" -> "RestartScope"
         [] s.k \in {"return", "goto", "throw", "@throw"} -> "FullExit"
         [] s.k \in Labels -> ExitType(s.kids[1])
         [] s.k = "compound" /\ leaving # <<>> -> ExitType(leaving[1])
         [] s.k = "if" /\ HasElse(s) ->
                IF then = else THEN then
                ELSE IF "NoExit" \in {then, else} THEN "NoExit"
                ELSE IF "ExitScope" \in {then, else} THEN "ExitScope"
                ELSE "FullExit"
         [] OTHER -> "NoExit"

(* Only the first dead statement of a block is reported.                   *)
DeadCode(n) ==
    IF ~Is(n, {"compound"}) THEN Nowhere
    ELSE LET dead == {i \in 2..Len(n.kids) :
                        /\ ExitType(n.kids[i - 1]) # "NoExit"
                        /\ ~Is(n.kids[i], Labels \cup {"label"})}
         IN {<<i>> : i \in {j \in dead : \A k \in dead : j <= k}}

RECURSIVE AllBranchesReturn(_)
AllBranchesReturn(s) ==
    \/ Is(s, {"return"})
    \/ Is(s, {"compound"}) /\ \E i \in DOMAIN s.kids : AllBranchesReturn(s.kids[i])
    \/ Is(s, {"if"}) /\ HasElse(s) /\ AllBranchesReturn(s.kids[2]) /\ AllBranchesReturn(s.kids[3])

(* The "if" at p and those that are the else branch of one before.         *)
RECURSIVE ElseIfs(_, _)
ElseIfs(whole, p) ==
    LET n == At(whole, p)
    IN IF HasElse(n) /\ Is(n.kids[3], {"if"}) THEN <<p>> \o ElseIfs(whole, Append(p, 3)) ELSE <<p>>

(* VisitIfStmt over the whole tree, with _visitedIfStmt.                   *)
UnnecessaryElse(whole) ==
    LET visit(acc, p) ==
            LET chain == ElseIfs(whole, p)
                end == At(whole, Last(chain))
                returns == \A i \in DOMAIN chain : AllBranchesReturn(At(whole, chain[i]).kids[2])
            IN IF ~Is(At(whole, p), {"if"}) \/ p \in acc.visited THEN acc
               ELSE [visited |-> acc.visited \cup ToSet(chain),
                     found |-> acc.found \cup
                        IF HasElse(end) /\ returns THEN {Append(Last(chain), 3)} ELSE {}]
    IN FoldLeft(visit, [visited |-> {}, found |-> {}], PreorderPositions(whole)).found

(* The "if" that is all of what n guards.                                  *)
InnerIf(n) ==
    LET then == n.kids[2]
    IN {m \in {then} \cup (IF Is(then, {"compound"}) /\ Len(then.kids) = 1 THEN {then.kids[1]} ELSE {}) :
            Is(m, {"if"})}

CollapsibleIf(n) ==
    ReportIf(Is(n, {"if"}) /\ ~HasElse(n) /\ \E m \in InnerIf(n) : ~HasElse(m))

(* A range-based "for" is not among the loops looked at.                   *)
AvoidBranchingAsLast(n) ==
    IF /\ Is(n, Loops \ {"rangefor"})
       /\ Is(Body(n), {"compound"})
       /\ Body(n).kids # <<>>
       /\ Is(Last(Body(n).kids), {"break", "continue", "return"})
    THEN {(IF n.k = "do" THEN <<1>> ELSE <<Len(n.kids)>>) \o <<Len(Body(n).kids)>>}
    ELSE Nowhere

Gotos(n) == ReportIf(Is(n, {"goto"}))

(***************************************************************************)
(* Finally blocks.  Both rules walk the block of each @finally they meet.  *)
(***************************************************************************)
Inside(n, kinds) == {p \in Positions(n) : Is(At(n, p), kinds)}

ReturnFromFinally(n) == IF Is(n, {"@finally"}) THEN Inside(n, {"return"}) ELSE Nowhere

ThrowFromFinally(n) == IF Is(n, {"@finally"}) THEN Inside(n, {"@throw", "raise"}) ELSE Nowhere

(***************************************************************************)
(* Switches.  clang keeps the labels of a switch, last one first.          *)
(***************************************************************************)
BreakingPoints == {"break", "return", "throw", "continue", "@throw"}

MutMissingBreak(n) ==
    ReportIf(/\ Is(n, {"switch"}) /\ Is(n.kids[2], {"compound"})
             /\ \E i \in 2..Len(n.kids[2].kids) :
                    /\ Is(n.kids[2].kids[i], Labels)
                    /\ ~Holds(n.kids[2].kids[i - 1], BreakingPoints))

(* breakFound stays FALSE when the loop is left for a fall-through.        *)
MissingBreak(n) ==
    LET body == n.kids[2]
        breakFound(i) ==
            \/ Is(body.kids[i], BreakingPoints)
            \/ Is(body.kids[i], Labels) /\ Holds(body.kids[i], BreakingPoints)
        falls(i, j) ==
            /\ Is(body.kids[i], Labels)
            /\ \A k \in i..(j - 1) : ~breakFound(k)
            /\ j > Len(body.kids) \/ Is(body.kids[j], Labels)
    IN ReportIf(/\ Is(n, {"switch"}) /\ Is(body, {"compound"})
                /\ \E i \in DOMAIN body.kids : \E j \in (i + 1)..(Len(body.kids) + 1) : falls(i, j))

(* In the order the parser makes them: a case before what follows it, a    *)
(* default after the statement it labels.                                  *)
MadeBefore(n, p, q) ==
    \/ \E i \in 1..Len(p) : i <= Len(q) /\ p[i] < q[i] /\ SubSeq(p, 1, i - 1) = SubSeq(q, 1, i - 1)
    \/ IsStrictPrefix(p, q) /\ Is(At(n, p), {"case"})
    \/ IsStrictPrefix(q, p) /\ Is(At(n, q), {"default"})

SwitchCaseList(n) ==
    LET labels == LabelPositions(n)
        after(p) == Cardinality({q \in labels : MadeBefore(n, p, q)})
    IN [i \in 1..Cardinality(labels) |-> CHOOSE p \in labels : after(p) = i - 1]

HasDefault(n) == \E i \in DOMAIN SwitchCaseList(n) : Is(At(n, SwitchCaseList(n)[i]), {"default"})
CoversEnum(n) == Is(n.kids[1], {"covered"})

CoveredSwitchNeedsNoDefault(n) ==
    ReportIf(Is(n, {"switch"}) /\ HasDefault(n) /\ CoversEnum(n))

SwitchShouldHaveDefault(n) ==
    ReportIf(Is(n, {"switch"}) /\ ~CoversEnum(n) /\ ~HasDefault(n))

(* From the last label back, while it is a case: is the one before it the  *)
(* default?                                                                *)
DefaultLabelNotLast(n) ==
    IF ~Is(n, {"switch"}) THEN Nowhere
    ELSE LET list == SwitchCaseList(n)
         IN {list[i + 1] : i \in {j \in 1..(Len(list) - 1) :
                /\ \A k \in 1..j : Is(At(n, list[k]), {"case"})
                /\ Is(At(n, list[j + 1]), {"default"})}}

TooFewBranches(n) ==
    ReportIf(Is(n, {"switch"}) /\ Cardinality(Inside(n, {"case"})) < MinimumCases)

NonCaseLabel(n) == IF Is(n, {"switch"}) THEN Inside(n, {"label"}) ELSE Nowhere

(***************************************************************************)
(* Empty blocks.                                                           *)
(***************************************************************************)
LexicalEmpty(s) == Is(s, {"null"}) \/ (Is(s, {"compound"}) /\ s.kids = <<>>)

Empties(n, kinds, child) ==
    IF Is(n, kinds) /\ child \in DOMAIN n.kids /\ LexicalEmpty(n.kids[child]) THEN {<<child>>} ELSE Nowhere

EmptyIf(n) == Empties(n, {"if"}, 2)
EmptyElse(n) == Empties(n, {"if"}, 3)
EmptyWhile(n) == Empties(n, {"while"}, 2)

EmptyDoWhile(n) == Empties(n, {"do"}, 1)
EmptyFor(n) == Empties(n, {"for", "forin"}, Len(n.kids))
EmptySwitch(n) == Empties(n, {"switch"}, 2)
EmptyTry(n) == Empties(n, Tries, 1)
EmptyCatch(n) == Empties(n, Catches, 1)
EmptyFinally(n) == Empties(n, {"@finally"}, 1)

(***************************************************************************)
(* Their turns.                                                            *)
(***************************************************************************)
Everywhere(Rule(_)) == UNION {{p \o q : q \in Rule(At(tree, p))} : p \in Positions(tree)}

FlowFindings(rule) ==
    CASE rule = "DeadCode" -> Everywhere(DeadCode)
      [] rule = "UnnecessaryElse" -> UnnecessaryElse(tree)
      [] rule = "CollapsibleIf" -> Everywhere(CollapsibleIf)
      [] rule = "AvoidBranchingAsLast" -> Everywhere(AvoidBranchingAsLast)
      [] rule = "Gotos" -> Everywhere(Gotos)
      [] rule = "ReturnFromFinally" -> Everywhere(ReturnFromFinally)
      [] rule = "ThrowFromFinally" -> Everywhere(ThrowFromFinally)
      [] rule = "MissingBreak" -> Everywhere(MissingBreak)
      [] rule = "CoveredSwitchNeedsNoDefault" -> Everywhere(CoveredSwitchNeedsNoDefault)
      [] rule = "SwitchShouldHaveDefault" -> Everywhere(SwitchShouldHaveDefault)
      [] rule = "DefaultLabelNotLast" -> Everywhere(DefaultLabelNotLast)
      [] rule = "TooFewBranches" -> Everywhere(TooFewBranches)
      [] rule = "NonCaseLabel" -> Everywhere(NonCaseLabel)
      [] rule = "EmptyIf" -> Everywhere(EmptyIf)
      [] rule = "EmptyElse" -> Everywhere(EmptyElse)
      [] rule = "EmptyWhile" -> Everywhere(EmptyWhile)
      [] rule = "EmptyDoWhile" -> Everywhere(EmptyDoWhile)
      [] rule = "EmptyFor" -> Everywhere(EmptyFor)
      [] rule = "EmptySwitch" -> Everywhere(EmptySwitch)
      [] rule = "EmptyTry" -> Everywhere(EmptyTry)
      [] rule = "EmptyCatch" -> Everywhere(EmptyCatch)
      [] rule = "EmptyFinally" -> Everywhere(EmptyFinally)

FlowRuleNames ==
    {"DeadCode", "UnnecessaryElse", "CollapsibleIf", "AvoidBranchingAsLast", "Gotos", "ReturnFromFinally",
     "ThrowFromFinally", "MissingBreak", "CoveredSwitchNeedsNoDefault", "SwitchShouldHaveDefault",
     "DefaultLabelNotLast", "TooFewBranches", "NonCaseLabel", "EmptyIf", "EmptyElse", "EmptyWhile",
     "EmptyDoWhile", "EmptyFor", "EmptySwitch", "EmptyTry", "EmptyCatch", "EmptyFinally"}

FlowRuleFlies == Aloft /\ Turn \in FlowRuleNames /\ Report(FlowFindings(Turn))

(***************************************************************************)
(* Properties, about a tree every rule has flown over.                     *)
(***************************************************************************)
(* DeadCodeRule: no run of the function comes to a statement reported as   *)
(* dead, whatever the branches, loops and switches around it, if no switch *)
(* enters a block in its middle: the rule does not look for such labels.   *)
LabelsInPlace ==
    \A p \in Positions(tree) : Is(At(tree, p), Labels) =>
        LET outer == Front(p)
        IN \/ Is(At(tree, outer), Labels)
           \/ Is(At(tree, outer), {"compound"}) /\ outer # <<>> /\ Is(At(tree, Front(outer)), {"switch"})
DeadCodeNeverRuns ==
    Have("DeadCode") /\ LabelsInPlace => \A p \in At_("DeadCode") : ~Reached(tree, p)

(* ExitTypeGetter: in blocks, branches and jumps it misses nothing: where  *)
(* a block is entered and the rest of it cannot be, the rest is reported   *)
(* from its first statement on.                                            *)
Jumping == {"compound", "if", "atom", "stmt", "break", "continue", "return", "goto", "throw", "@throw"}
DeadCodeIsFound ==
    Have("DeadCode") /\ (\A n \in Contained(tree) : Is(n, Jumping)) =>
        \A p \in Positions(tree) : Is(At(tree, p), {"compound"}) =>
            LET kid(i) == Append(p, i)
                unreached(i) == ~Reached(tree, kid(i))
            IN \A i \in 2..Len(At(tree, p).kids) :
                unreached(i) /\ ~unreached(i - 1) => kid(i) \in At_("DeadCode")

(* UnnecessaryElseStatementRule: the code of a reported else can stand     *)
(* after the whole chain of ifs and the function runs as before.           *)
RECURSIVE ChainStart(_)
ChainStart(p) ==
    IF Len(p) > 0 /\ Last(p) = 3 /\ Is(At(tree, Front(p)), {"if"}) /\ Is(At(tree, p), {"if"})
    THEN ChainStart(Front(p)) ELSE p
Lifted(p) ==
    LET chain == ChainStart(Front(p))
        inner == SubSeq(Front(p), Len(chain) + 1, Len(Front(p)))
        shorter == If(At(tree, Front(p)).kids[1], At(tree, Front(p)).kids[2])
    IN Replaced(tree, chain, Compound(<<Replaced(At(tree, chain), inner, shorter), At(tree, p)>>))
ElseCanBeLifted ==
    Have("UnnecessaryElse") => \A p \in At_("UnnecessaryElse") : Runs(Lifted(p)) = Runs(tree)

(* CollapsibleIfStatementsRule: one "if" with both conditions runs as the  *)
(* two reported ones.                                                      *)
CollapsedRunsTheSame ==
    Have("CollapsibleIf") => \A p \in At_("CollapsibleIf") :
        \A inner \in InnerIf(At(tree, p)) :
            Runs(Replaced(tree, p, If(And(At(tree, p).kids[1], inner.kids[1]), inner.kids[2]))) = Runs(tree)

(* AvoidBranchingStatementAsLastInLoopRule: a reported jump is a mistake.  *)
(* Either it changes nothing, or no pass of the loop comes to its end.     *)
LastJumpIsSuspect ==
    Have("AvoidBranchingAsLast") => \A p \in At_("AvoidBranchingAsLast") :
        \/ Runs(Replaced(tree, p, Leaf("null"))) = Runs(tree)
        \/ ~CompletesNormally(At(tree, Front(p)))

(* ReturnFromFinallyBlockRule and ThrowExceptionFromFinallyBlockRule: a    *)
(* @finally in which neither finds anything lets the exception or the      *)
(* value through with which the block before it was left.                  *)
FinallyForgetsNothing ==
    Have("ReturnFromFinally") /\ Have("ThrowFromFinally") =>
        \A p \in Positions(tree) :
            LET n == At(tree, p)
                final == Append(p, Len(n.kids))
                quiet == \A q \in At_("ReturnFromFinally") \cup At_("ThrowFromFinally") : ~IsPrefix(final, q)
            IN Is(n, {"@try"}) /\ Is(At(tree, final), {"@finally"}) /\ quiet =>
                Outcomes(n) = Outcomes([n EXCEPT !.kids = Front(@)])

(* MissingBreakInSwitchStatementRule: where every jump stands directly     *)
(* among the labels of its switch, a switch is reported exactly when       *)
(* control can run from one label into the next, or out of the last one.   *)
JumpsAmongLabels(switch) ==
    /\ Is(switch.kids[2], {"compound"})
    /\ \A i \in DOMAIN switch.kids[2].kids :
        LET s == switch.kids[2].kids[i]
            inLabel == {p \in Positions(s) : Is(At(s, p), BreakingPoints)}
        IN \A p \in inLabel : \A j \in 1..Len(p) : Is(At(s, SubSeq(p, 1, j - 1)), Labels)
BreaksEndCases ==
    Have("MissingBreak") => \A p \in Positions(tree) :
        LET n == At(tree, p)
            body == n.kids[2].kids
            falls(i) == \E j \in (i + 1)..(Len(body) + 1) :
                            /\ j > Len(body) \/ Is(body[j], Labels)
                            /\ "next" \in {r.out : r \in InTurn(SubSeq(body, i, j - 1))}
        IN Is(n, {"switch"}) /\ JumpsAmongLabels(n) =>
            (p \in At_("MissingBreak") <=> \E i \in DOMAIN body : Is(body[i], Labels) /\ falls(i))

(* CoveredSwitchStatementsDontNeedDefaultRule says that the other rule     *)
(* reports the rest: no switch gets both words, and one that follows the   *)
(* word it got is left alone by both.                                      *)
Obeyed(n, adding) ==
    LET default == CHOOSE q \in LabelPositions(n) : Is(At(n, q), {"default"})
    IN IF adding THEN [n EXCEPT !.kids[2] = Compound(Append(@.kids, Default(Leaf("break"))))]
       ELSE Replaced(n, default, At(n, default).kids[1])
SwitchAdviceAgrees ==
    LET needless == At_("CoveredSwitchNeedsNoDefault")
        missing == At_("SwitchShouldHaveDefault")
    IN Have("CoveredSwitchNeedsNoDefault") /\ Have("SwitchShouldHaveDefault") =>
        /\ needless \cap missing = {}
        /\ \A p \in needless \cup missing :
            LET n == Obeyed(At(tree, p), p \in missing)
            IN Is(n.kids[2], {"compound"}) =>
                CoveredSwitchNeedsNoDefault(n) \cup SwitchShouldHaveDefault(n) = Nowhere

(* DefaultLabelNotLastInSwitchStatementRule reads a list that clang builds *)
(* backwards; the default is reported exactly when a label of its switch   *)
(* comes later in the text, what the default itself labels left out.       *)
DefaultIsLast ==
    Have("DefaultLabelNotLast") => \A p \in Positions(tree) :
        LET n == At(tree, p)
            text == PreorderPositions(n)
            later(q, r) == \E i, j \in DOMAIN text : i < j /\ text[i] = q /\ text[j] = r /\ ~IsPrefix(q, r)
        IN Is(n, {"switch"}) =>
            \A q \in LabelPositions(n) :
                Is(At(n, q), {"default"}) =>
                    (p \o q \in At_("DefaultLabelNotLast") <=> \E r \in LabelPositions(n) : later(q, r))

(* AbstractEmptyBlockStmtRule and its nine children: every empty block or  *)
(* statement that a statement guards is reported by one of them and no     *)
(* other block is.  A range-based for is none of the kinds they visit.     *)
Guarding == {"if", "while", "do", "for", "forin", "switch", "@finally"} \cup Tries \cup Catches
EmptyRules == {"EmptyIf", "EmptyElse", "EmptyWhile", "EmptyDoWhile", "EmptyFor", "EmptySwitch",
               "EmptyTry", "EmptyCatch", "EmptyFinally"}
EmptyBlocksFoundOnce ==
    (\A rule \in EmptyRules : Have(rule)) =>
        \A p \in Positions(tree) \ Here :
            Cardinality({rule \in EmptyRules : p \in At_(rule)}) =
                IF Is(At(tree, Front(p)), Guarding) /\ LexicalEmpty(At(tree, p)) THEN 1 ELSE 0

(* Whatever the tree: code reported as dead is dead, advice on ifs can be  *)
(* followed without a change, jumps are reported where they are mistaken   *)
(* and empty blocks where they are.                                        *)
FlowReportsHold ==
    /\ DeadCodeNeverRuns /\ DeadCodeIsFound
    /\ ElseCanBeLifted /\ CollapsedRunsTheSame
    /\ LastJumpIsSuspect /\ FinallyForgetsNothing
    /\ EmptyBlocksFoundOnce

(* And what is said of switches: of running through, and of default.       *)
SwitchReportsHold == BreaksEndCases /\ SwitchAdviceAgrees /\ DefaultIsLast
=============================================================================
