--------------------------- MODULE NullCheckRules ---------------------------
(***************************************************************************)
(* The rules about checks for null: broken, misplaced, redundant and       *)
(* unnecessary ones.  What a tree says of pointers is written with         *)
(*                                                                         *)
(*   a name         a variable that is read, with the casts around it      *)
(*   null           a null pointer constant                                *)
(*   call           another expression of type bool                        *)
(*   next           a call that returns a pointer, a new one every time    *)
(*   ->(e)          a member of what e points to                           *)
(*   [](e, args)    a message to e                                         *)
(*   =(e, f)        an assignment                                          *)
(***************************************************************************)
EXTENDS SyntaxTree, Flight

CONSTANTS
    Pointers,   \* names of pointers
    Flags       \* names of other variables

Variables == Pointers \cup Flags
Operands == Variables \cup {"null", "call", "next"}
Operators == {"not", "paren", "->", "[]", "and", "or", "==", "!="}

ASSUME NullCheckAssumption ==
    Variables \cap ({"", "null", "call", "next", "member", "message", "delete", "=", "if", "compound"} \cup Operators) = {}

NullPointer == Leaf("null")
Eq(l, r) == Node("==", <<l, r>>)
Ne(l, r) == Node("!=", <<l, r>>)
Arrow(e) == Node("->", <<e>>)
Message(e) == Node("[]", <<e>>)
MessageWith(e, arg) == Node("[]", <<e, arg>>)
Delete(e) == Node("delete", <<e>>)
PointerAssign(l, r) == Node("=", <<l, r>>)

(***************************************************************************)
(* What counts as a check, and of what.                                    *)
(***************************************************************************)
IsNullToPointer(e) == Is(e, {"null"})
IsImplicitDeclRef(e) == Is(e, Variables)

ComparesToNull(e, operator) ==
    Is(e, {operator}) /\ IsNullToPointer(e.kids[1]) # IsNullToPointer(e.kids[2])

IsEqNullCheck(e) == ComparesToNull(e, "==") \/ (Is(e, {"not"}) /\ IsImplicitDeclRef(e.kids[1]))
IsNeNullCheck(e) == ComparesToNull(e, "!=") \/ IsImplicitDeclRef(e)

MutExtractIdentifier(e) ==
    LET named == IF Is(e, {"==", "!=", "not"}) THEN e.kids[1] ELSE e
    IN IF Is(named, Variables) THEN named.k ELSE ""

(* The name of the variable that is checked, "" when it is not a variable. *)
ExtractIdentifier(e) ==
    LET operand == IF IsNullToPointer(e.kids[1]) THEN e.kids[2] ELSE e.kids[1]
        named == IF Is(e, {"==", "!=", "and", "or", "="}) THEN operand
                 ELSE IF Is(e, {"not"}) THEN e.kids[1]
                 ELSE e
    IN IF Is(named, Variables) THEN named.k ELSE ""

(* Does e look through the pointer anywhere, with "->" or with a message?  *)
HasVariableInExpr(name, e, use) ==
    \E n \in Contained(e) : Is(n, {use}) /\ Is(n.kids[1], Variables) /\ n.kids[1].k = name

UsesChecked(check, other, use) ==
    ExtractIdentifier(check) # "" /\ HasVariableInExpr(ExtractIdentifier(check), other, use)

BrokenCheck(n, use) ==
    ReportIf(/\ \/ Is(n, {"or"}) /\ IsNeNullCheck(n.kids[1])
                \/ Is(n, {"and"}) /\ IsEqNullCheck(n.kids[1])
             /\ UsesChecked(n.kids[1], n.kids[2], use))

MisplacedCheck(n, use) ==
    ReportIf(/\ \/ Is(n, {"and"}) /\ IsNeNullCheck(n.kids[2])
                \/ Is(n, {"or"}) /\ IsEqNullCheck(n.kids[2])
             /\ UsesChecked(n.kids[2], n.kids[1], use))

(* A right side that is a negation is the one exception.                   *)
RedundantNilCheck(n) ==
    ReportIf(/\ Is(n, {"and"}) /\ IsNeNullCheck(n.kids[1]) /\ ~Is(n.kids[2], {"not"})
             /\ UsesChecked(n.kids[1], n.kids[2], "[]"))

(***************************************************************************)
(* A check before a delete, which does nothing with a null pointer.        *)
(***************************************************************************)
IsANullPointerExpr(e) == Is(e, {"null"})

(* What is known not to be null where the condition holds.                 *)
NotNullPointers(cond) ==
    IF ~Is(cond, {"!=", "==", "and", "or", "="}) THEN {cond}
    ELSE IF ~Is(cond, {"!="}) THEN {}
    ELSE IF IsANullPointerExpr(cond.kids[1]) THEN {cond.kids[2]}
    ELSE IF IsANullPointerExpr(cond.kids[2]) THEN {cond.kids[1]}
    ELSE {}

IsADeleteStmt(s, pointer) == Is(s, {"delete"}) /\ s.kids[1] = pointer

IsAnAssignToNullptr(s, pointer) ==
    Is(s, {"="}) /\ IsANullPointerExpr(s.kids[2]) /\ s.kids[1] = pointer

IsADeleteBlock(s, pointer) ==
    \/ IsADeleteStmt(s, pointer)
    \/ /\ Is(s, {"compound"})
       /\ Len(s.kids) \in {1, 2}
       /\ IsADeleteStmt(s.kids[1], pointer)
       /\ Len(s.kids) = 2 => IsAnAssignToNullptr(s.kids[2], pointer)

UnnecessaryNullCheck(n) ==
    ReportIf(/\ Is(n, {"if"}) /\ ~HasElse(n)
             /\ \E pointer \in NotNullPointers(n.kids[1]) : IsADeleteBlock(n.kids[2], pointer))

(***************************************************************************)
(* Their turns.                                                            *)
(***************************************************************************)
NullCheckFindingsAt(rule, n) ==
    CASE rule = "BrokenNullCheck" -> BrokenCheck(n, "->")
      [] rule = "BrokenNilCheck" -> BrokenCheck(n, "[]")
      [] rule = "MisplacedNullCheck" -> MisplacedCheck(n, "->")
      [] rule = "MisplacedNilCheck" -> MisplacedCheck(n, "[]")
      [] rule = "RedundantNilCheck" -> RedundantNilCheck(n)
      [] rule = "UnnecessaryNullCheckForCXXDealloc" -> UnnecessaryNullCheck(n)

NullCheckFindings(rule) ==
    UNION {{p \o q : q \in NullCheckFindingsAt(rule, At(tree, p))} : p \in Positions(tree)}

NullCheckRuleNames ==
    {"BrokenNullCheck", "BrokenNilCheck", "MisplacedNullCheck", "MisplacedNilCheck", "RedundantNilCheck",
     "UnnecessaryNullCheckForCXXDealloc"}

NullCheckRuleFlies == Aloft /\ Turn \in NullCheckRuleNames /\ Report(NullCheckFindings(Turn))

(***************************************************************************)
(* What the rules fly over: any tree in which these kinds of node have the *)
(* children they have in the languages, the operands of an operator are    *)
(* expressions, a comparison is with null, and what is deleted or assigned *)
(* null is a pointer.                                                      *)
(***************************************************************************)
OperandsOf(m) == IF Is(m, Operators) THEN ToSet(m.kids) ELSE {}

IsOverPointers(t) ==
    /\ IsTree(t)
    /\ \A m \in Contained(t) :
        /\ Is(m, Operands) => m.kids = <<>>
        /\ Is(m, {"not", "paren", "->", "delete"}) => Len(m.kids) = 1
        /\ Is(m, {"and", "or", "==", "!=", "="}) => Len(m.kids) = 2
        /\ Is(m, {"[]"}) => Len(m.kids) \in {1, 2}
        /\ Is(m, {"if"}) => Len(m.kids) \in {2, 3}
        /\ \A e \in OperandsOf(m) : Is(e, Operands \cup Operators)
        /\ Is(m, {"==", "!="}) => \E i \in DOMAIN m.kids : IsNullToPointer(m.kids[i])
        /\ Is(m, {"delete"}) => Is(m.kids[1], Pointers \cup {"next"})
        /\ Is(m, {"="}) => Is(m.kids[1], Pointers) /\ IsNullToPointer(m.kids[2])

ASSUME NullCheckTreesAssumption ==
    \A flight \in Flights :
        ToSet(flight.rules) \cap NullCheckRuleNames # {} => \A t \in flight.trees : IsOverPointers(t)

NullCheckSpec == Init /\ [][NullCheckRuleFlies \/ AnotherFlies(NullCheckRuleNames) \/ Rest]_vars

(***************************************************************************)
(* What an expression comes to: "crash" where it looks through a null      *)
(* pointer.  env says which variables are not null and what members,       *)
(* messages and calls give; a message to null gives null.                  *)
(***************************************************************************)
Pointings == [Variables \cup {"member", "message", "call"} -> BOOLEAN]
Said(b) == IF b THEN "true" ELSE "false"
Negated(v) == CASE v = "true" -> "false" [] v = "false" -> "true" [] OTHER -> v

TruthFrom(m, below, env) ==
    LET l == below[1]
        r == below[2]
    IN CASE m.k \in Variables -> Said(env[m.k])
         [] m.k = "null" -> "false"
         [] m.k = "paren" -> l
         [] m.k = "not" -> Negated(l)
         [] m.k = "and" -> IF l = "true" THEN r ELSE l
         [] m.k = "or" -> IF l = "false" THEN r ELSE l
         [] m.k = "->" -> IF l = "true" THEN Said(env["member"]) ELSE "crash"
         [] m.k = "[]" -> IF l = "crash" THEN l
                          ELSE IF Len(m.kids) = 2 /\ r = "crash" THEN r
                          ELSE IF l = "false" THEN l
                          ELSE Said(env["message"])
         [] m.k \in {"==", "!="} ->
                IF "crash" \in {l, r} THEN "crash"
                ELSE Said((l = r) = (m.k = "=="))
         [] OTHER -> Said(env["call"])

Truth(e, env) == FromBelow(LAMBDA m, below : TruthFrom(m, below, env), e)

(* Taken whatever its parts come to.                                       *)
Straight(e) == ~Holds(e, {"and", "or", "next"})

(***************************************************************************)
(* What an "if" around a delete comes to: the objects deleted, the calls   *)
(* made and the pointers that are null at the end.  A world holds the      *)
(* pointers that are not null and the number of calls made; any call may   *)
(* return null.                                                            *)
(***************************************************************************)
Worlds == [live : SUBSET Pointers, calls : {0}, deleted : {{}}, fails : SUBSET {1, 2}]
Taken(e, w) ==      \* <<the object e points to, if any, and the world after it>>
    IF e.k = "next"
    THEN <<IF w.calls + 1 \in w.fails THEN {} ELSE {<<"returned", w.calls + 1>>}, [w EXCEPT !.calls = @ + 1]>>
    ELSE <<IF e.k \in w.live THEN {<<e.k, 0>>} ELSE {}, w>>

FreedByOne(s, w) ==
    LET arg == Taken(s.kids[1], w)
    IN IF Is(s, {"delete"}) THEN [arg[2] EXCEPT !.deleted = @ \cup arg[1]]
       ELSE [w EXCEPT !.live = @ \ {s.kids[1].k}]

Freed(s, w) ==
    LET after[i \in 0..Len(s.kids)] == IF i = 0 THEN w ELSE FreedByOne(s.kids[i], after[i - 1])
    IN IF Is(s, {"compound"}) THEN after[Len(s.kids)] ELSE FreedByOne(s, w)

FreedByIf(n, w) ==
    LET pointer == Taken(CHOOSE e \in NotNullPointers(n.kids[1]) : TRUE, w)
    IN IF pointer[1] = {} THEN pointer[2] ELSE Freed(n.kids[2], pointer[2])

(***************************************************************************)
(* Properties, about a tree every rule has flown over.                     *)
(***************************************************************************)
(* What a rule takes for a check of the variable x.                        *)
ChecksOf(x) ==
    {x, Not(x), Eq(x, NullPointer), Eq(NullPointer, x), Ne(x, NullPointer), Ne(NullPointer, x)}

(* BrokenNullCheckRule: a check on the left of something that looks        *)
(* through the same pointer is reported exactly when the right side is     *)
(* evaluated where the pointer is null, and so crashes.  A pointer in      *)
(* parentheses is not taken for the variable.                              *)
BrokenExactlyWhenItCrashes ==
    Have("BrokenNullCheck") => \A p \in Positions(tree) : \A name \in Pointers :
        LET n == At(tree, p)
        IN /\ Is(n, {"and", "or"})
           /\ n.kids[1] \in ChecksOf(Leaf(name))
           /\ Arrow(Leaf(name)) \in Contained(n.kids[2])
           /\ Straight(n.kids[2])
           => (p \in At_("BrokenNullCheck") <=> \A env \in Pointings : ~env[name] => Truth(n, env) = "crash")

(* MisplacedNullCheckRule: "When null is misplaced, either the check is    *)
(* useless or it's incorrect."  Without the check the expression comes to  *)
(* the same, and where the pointer is null it crashes.                     *)
MisplacedChecksAreUseless ==
    Have("MisplacedNullCheck") => \A p \in At_("MisplacedNullCheck") :
        LET n == At(tree, p)
        IN Straight(n.kids[1]) => \A env \in Pointings :
            /\ Truth(n, env) = Truth(n.kids[1], env)
            /\ ~env[ExtractIdentifier(n.kids[2])] => Truth(n, env) = "crash"

(* What must hold for e to hold.                                           *)
ConjunctsFrom(m, below) ==
    IF Is(m, {"and"}) THEN below[1] \cup below[2]
    ELSE IF Is(m, {"paren"}) THEN below[1]
    ELSE {m}
Conjuncts(e) == FromBelow(ConjunctsFrom, e)

(* RedundantNilCheckRule: a message to nil that stands at the top of the   *)
(* right side, alone or with others, makes it false: the check before it   *)
(* does nothing, where nothing is looked through, and is reported.         *)
RedundantNilChecksDoNothing ==
    Have("RedundantNilCheck") => \A p \in Positions(tree) :
        LET n == At(tree, p)
            right == Conjuncts(n.kids[2])
            same == \A env \in Pointings : Truth(n, env) = Truth(n.kids[2], env)
        IN /\ Is(n, {"and"})
           /\ Is(n.kids[1], Pointers)
           /\ \E e \in right : Is(e, {"[]"}) /\ e.kids[1] = n.kids[1]
           /\ \A e \in right : Is(e, {"[]"} \cup Variables)
           /\ ~Holds(n, {"->", "next"})
           => same /\ p \in At_("RedundantNilCheck")

(* BrokenNilCheckRule: a check on the left of messages to the same object  *)
(* is reported exactly when what the messages answer never matters.        *)
BrokenNilChecksMuteMessages ==
    Have("BrokenNilCheck") => \A p \in Positions(tree) : \A name \in Pointers :
        LET n == At(tree, p)
            messages == {e \in Contained(n.kids[2]) : Is(e, {"[]"})}
        IN /\ Is(n, {"and", "or"})
           /\ n.kids[1] \in ChecksOf(Leaf(name))
           /\ messages # {}
           /\ \A e \in messages : e.kids[1] = Leaf(name)
           /\ Straight(n.kids[2]) /\ ~Holds(n.kids[2], {"->"})
           => (p \in At_("BrokenNilCheck") <=>
                \A env \in Pointings : Truth(n, env) = Truth(n, [env EXCEPT !["message"] = ~@]))

(* UnnecessaryNullCheckForCXXDeallocRule "locates unnecessary ``if (p)``   *)
(* checks": without a reported check the same objects are deleted, the     *)
(* same calls made and the same pointers left.  The rule compares how the  *)
(* checked and the deleted pointer are written, so it holds for those that *)
(* are the same each time they are evaluated.                              *)
NeedlessChecksGuardNothing ==
    Have("UnnecessaryNullCheckForCXXDealloc") => \A p \in At_("UnnecessaryNullCheckForCXXDealloc") :
        ~Holds(At(tree, p), {"next"}) =>
            \A w \in Worlds : FreedByIf(At(tree, p), w) = Freed(At(tree, p).kids[2], w)

(* What the five rules say of a check, a run with and without it confirms, *)
(* whatever the tree.                                                      *)
NullCheckReportsHold ==
    /\ BrokenExactlyWhenItCrashes /\ MisplacedChecksAreUseless
    /\ RedundantNilChecksDoNothing /\ BrokenNilChecksMuteMessages
    /\ NeedlessChecksGuardNothing
=============================================================================
