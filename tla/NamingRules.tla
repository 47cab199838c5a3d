----------------------------- MODULE NamingRules -----------------------------
(***************************************************************************)
(* The rules about the length of names.  A tree holds declarations: a      *)
(* variable is a node of kind short, fitting or long, by what the two      *)
(* thresholds make of its name, and below it are the variables that its    *)
(* initialiser declares.  A loop or a handler has two children: decls, the *)
(* variables of its head, and its body.                                    *)
(***************************************************************************)
EXTENDS SyntaxTree, Flight

CONSTANT MaxLeft    \* most variables that a unit leaves on the stack

ASSUME NamingAssumption == MaxLeft \in Nat

Heads == {"for", "forin", "rangefor", "catch"}

Loop(kind, variables, body) == Node(kind, <<Node("decls", variables), body>>)

(***************************************************************************)
(* The variables in a head may be short.  They are kept on a stack, the    *)
(* first on top, and a short variable that is visited takes one entry off, *)
(* its own or not.                                                         *)
(***************************************************************************)
MutHandleDeclStmt(p, variables) == Reverse([i \in DOMAIN variables |-> p \o <<1, i>>])

HandleDeclStmt(p, variables) == [i \in DOMAIN variables |-> p \o <<1, i>>]

VisitHead(state, p) ==
    [state EXCEPT !.suppressed = HandleDeclStmt(p, At(tree, p).kids[1].kids)]

VisitVarDecl(state, p) ==
    IF ~Is(At(tree, p), {"short"}) THEN state
    ELSE IF state.suppressed = <<>> THEN [state EXCEPT !.found = @ \cup {p}]
    ELSE [suppressed |-> Tail(state.suppressed),
          found |-> IF Head(state.suppressed) = p THEN state.found ELSE state.found \cup {p}]

Visit(state, p) == IF Is(At(tree, p), Heads) THEN VisitHead(state, p) ELSE VisitVarDecl(state, p)

ShortVariableName(left) ==
    LET visits == PreorderPositions(tree)
        after[i \in 0..Len(visits)] ==
            IF i = 0 THEN [suppressed |-> left, found |-> {}]
            ELSE LET last == after[i - 1] IN Visit(last, visits[i])
    IN after[Len(visits)].found

LongVariableName == {p \in Positions(tree) : Is(At(tree, p), {"long"})}

(* The stack outlives the unit and holds pointers to variables that may be *)
(* gone with their context; what lies there now may be a variable of this  *)
(* tree, or none of them, for which the root stands.                       *)
LeftByEarlierUnits ==
    BoundedSeq({p \in Positions(tree) : Is(At(tree, p), {"short"})} \cup {<<>>}, MaxLeft)

(***************************************************************************)
(* Their turns.                                                            *)
(***************************************************************************)
NamingRuleFlies ==
    /\ Aloft
    /\ \/ Turn = "ShortVariableName" /\ \E left \in LeftByEarlierUnits : Report(ShortVariableName(left))
       \/ Turn = "LongVariableName" /\ Report(LongVariableName)

(* The trees they fly over: a head is a declaration statement before the   *)
(* body.                                                                   *)
IsOfNames(t) ==
    /\ IsTree(t)
    /\ \A m \in Contained(t) : Is(m, Heads) => Len(m.kids) = 2 /\ Is(m.kids[1], {"decls"})

NamingRuleNames == {"ShortVariableName", "LongVariableName"}

ASSUME NamingTreesAssumption ==
    \A flight \in Flights :
        ToSet(flight.rules) \cap NamingRuleNames # {} => \A t \in flight.trees : IsOfNames(t)

NamingSpec == Init /\ [][NamingRuleFlies \/ AnotherFlies(NamingRuleNames) \/ Rest]_vars

(***************************************************************************)
(* Properties, about a tree both rules have flown over.                    *)
(***************************************************************************)
InHead(p) == p # <<>> /\ Is(At(tree, Front(p)), {"decls"})

(* ShortVariableNameRule: where all variables of a head are short none is  *)
(* reported, however heads are nested and whatever is on the stack before. *)
(* A longer name in the head stays on the stack and hides the next one.    *)
HeadsMayUseShortNames ==
    Have("ShortVariableName") => \A p \in Positions(tree) :
        LET head == At(tree, p).kids[1].kids
        IN Is(At(tree, p), Heads) /\ (\A i \in DOMAIN head : head[i] = Leaf("short")) =>
            \A i \in DOMAIN head : p \o <<1, i>> \notin At_("ShortVariableName")

(* Everywhere else a name that does not fit is reported by one of the two  *)
(* rules, but for as many as earlier units left entries on the stack.      *)
UnfitNamesAreReported ==
    Have("ShortVariableName") /\ Have("LongVariableName") =>
        LET unfit == {p \in Positions(tree) : Is(At(tree, p), {"short", "long"}) /\ ~InHead(p)}
            missed == unfit \ (At_("ShortVariableName") \cup At_("LongVariableName"))
        IN Cardinality(missed) <= MaxLeft /\ \A p \in missed : Is(At(tree, p), {"short"})

(* The stack of heads exempts no more and no less than heads, but for what *)
(* earlier units left on it.                                               *)
NameReportsHold == HeadsMayUseShortNames /\ UnfitNamesAreReported
=============================================================================
