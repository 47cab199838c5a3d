--------------------------- MODULE ConditionRules ---------------------------
(***************************************************************************)
(* The rules about conditions and the values made from them.  A tree is    *)
(* written with names of variables, literals, operators and a few kinds of *)
(* statement; what it does is given below by Value and Executed, over the  *)
(* integers.                                                               *)
(*                                                                         *)
(* A literal is a leaf named as it is written.  The promotions that clang  *)
(* puts around the operands of ?: are not shown.                           *)
(***************************************************************************)
EXTENDS SyntaxTree, Flight

CONSTANTS
    Names,          \* names of variables
    Environments    \* their values, and one for operations on bits

Valuations == [Names \cup {"bits"} -> Int]

Binary(operator, l, r) == Node(operator, <<l, r>>)
Unary(operator, e) == Node(operator, <<e>>)
Return(e) == Node("return", <<e>>)
Assign(x, e) == Node("=", <<x, e>>)

CXXBools == {"true", "false"}
ObjCBools == {"YES", "NO"}
CastIntegers == {"(BOOL)0", "(BOOL)1", "(char)0", "(char)1", "(char)2"}
Integers_ == {"0", "1", "2"}
Floats == {"0.5", "0.50"}
Characters == {"'0'", "'1'"}
Strings == {"s", "t"}

Literals == CXXBools \cup ObjCBools \cup CastIntegers \cup Integers_ \cup Floats \cup Characters \cup Strings

(* Halves are counted in thousandths, a string is where it lies.           *)
LiteralValue == [lit \in Literals |->
    CASE lit \in {"0", "false", "NO", "(BOOL)0", "(char)0"} -> 0
      [] lit \in {"1", "true", "YES", "(BOOL)1", "(char)1"} -> 1
      [] lit \in {"2", "(char)2"} -> 2
      [] lit = "'0'" -> 48
      [] lit = "'1'" -> 49
      [] lit \in Floats -> 500
      [] lit = "s" -> 1000
      [] lit = "t" -> 1001]

BinaryOperators == {"==", "!=", "%", "&", "|", "^", "and", "or", "="}
UnaryOperators == {"not", "~", "neg", "plus"}

ASSUME ConditionAssumption ==
    /\ Environments \subseteq Valuations
    /\ Names \cap (Literals \cup BinaryOperators \cup UnaryOperators \cup
                   {"bits", "paren", "?:", "return", "if", "compound"}) = {}

(* The expression in any number of parentheses.                            *)
InnerFrom(m, below) == IF Is(m, {"paren"}) THEN below[1] ELSE m
IgnoreParens(e) == FromBelow(InnerFrom, e)

(* Two literals of one kind, of the same truth or not; of the same value.  *)
Both(e, f, kinds) == Is(e, kinds) /\ Is(f, kinds)
SameTruth(e, f) == (LiteralValue[e.k] # 0) = (LiteralValue[f.k] # 0)
SameValue(e, f) == LiteralValue[e.k] = LiteralValue[f.k]

(***************************************************************************)
(* Ifs and ?: that only turn a condition into a value.                     *)
(***************************************************************************)
(* The statement in any number of blocks, where it is alone in each.       *)
UnwrappedFrom(m, below) == IF Is(m, {"compound"}) /\ Len(m.kids) = 1 THEN below[1] ELSE m
Unwrapped(s) == FromBelow(UnwrappedFrom, s)
ExtractStmt(s, kinds) == {u \in {Unwrapped(s)} : Is(u, kinds)}

NotEquals(e, f) == \E kind \in {CXXBools, ObjCBools, CastIntegers} : Both(e, f, kind) /\ ~SameTruth(e, f)

(* What a binary operator does with its right side is not looked at.       *)
RedundantIf(n) ==
    ReportIf(/\ Is(n, {"if"}) /\ HasElse(n)
             /\ \/ \E s \in ExtractStmt(n.kids[2], {"return"}), t \in ExtractStmt(n.kids[3], {"return"}) :
                        \E e \in ToSet(s.kids), f \in ToSet(t.kids) : NotEquals(e, f)
                \/ \E s \in ExtractStmt(n.kids[2], BinaryOperators), t \in ExtractStmt(n.kids[3], BinaryOperators) :
                        NotEquals(s.kids[2], t.kids[2]))

(* Cast integers are taken for a BOOL, whatever they are cast to.          *)
SameConstant(e, f) ==
    \/ \E kind \in {CXXBools, ObjCBools, CastIntegers} : Both(e, f, kind) /\ SameTruth(e, f)
    \/ \E kind \in {Integers_, Floats, Characters, Strings} : Both(e, f, kind) /\ SameValue(e, f)

SameVariable(e, f) == Both(e, f, Names) /\ e = f

RedundantConditional(n) ==
    ReportIf(/\ Is(n, {"?:"})
             /\ \/ NotEquals(n.kids[2], n.kids[3])
                \/ SameConstant(n.kids[2], n.kids[3])
                \/ SameVariable(n.kids[2], n.kids[3]))

(***************************************************************************)
(* Negations.                                                              *)
(***************************************************************************)
MutIsInvertedLogic(cond) == Is(cond, {"!=", "not", "~"})

IsInvertedLogic(cond) == Is(cond, {"!=", "not"})

InvertedLogic(n) ==
    IF (Is(n, {"if"}) /\ HasElse(n)) \/ Is(n, {"?:"})
    THEN {<<1>> : x \in {y \in {n} : IsInvertedLogic(n.kids[1])}}
    ELSE Nowhere

DoubleNegative(n) ==
    ReportIf(\E operator \in {"not", "~"} : Is(n, {operator}) /\ Is(IgnoreParens(n.kids[1]), {operator}))

MultipleUnary(n) ==
    ReportIf(Is(n, UnaryOperators) /\ Is(IgnoreParens(n.kids[1]), UnaryOperators))

(***************************************************************************)
(* Arithmetic in conditions.                                               *)
(***************************************************************************)
IsRemainderEqualsOne(remainder, one) ==
    Is(one, {"1"}) /\ Is(remainder, {"%"}) /\ Is(remainder.kids[2], {"2"})

BrokenOddness(n) ==
    ReportIf(/\ Is(n, {"=="})
             /\ \/ IsRemainderEqualsOne(n.kids[1], n.kids[2])
                \/ IsRemainderEqualsOne(n.kids[2], n.kids[1]))

(* The conditions looked at; that of a "for" is not among them.            *)
BitwiseOperatorInConditional(n) ==
    LET cond == IF Is(n, {"do"}) THEN 2 ELSE 1
    IN IF Is(n, {"if", "while", "do", "?:"}) /\ Holds(n.kids[cond], {"&", "|", "^"})
       THEN {<<cond>>} ELSE Nowhere

(***************************************************************************)
(* Their turns.                                                            *)
(***************************************************************************)
ConditionFindingsAt(rule, n) ==
    CASE rule = "RedundantIf" -> RedundantIf(n)
      [] rule = "RedundantConditional" -> RedundantConditional(n)
      [] rule = "InvertedLogic" -> InvertedLogic(n)
      [] rule = "DoubleNegative" -> DoubleNegative(n)
      [] rule = "MultipleUnary" -> MultipleUnary(n)
      [] rule = "BrokenOddness" -> BrokenOddness(n)
      [] rule = "BitwiseOperatorInConditional" -> BitwiseOperatorInConditional(n)

ConditionFindings(rule) ==
    UNION {{p \o q : q \in ConditionFindingsAt(rule, At(tree, p))} : p \in Positions(tree)}

ConditionRuleNames ==
    {"RedundantIf", "RedundantConditional", "InvertedLogic", "DoubleNegative", "MultipleUnary", "BrokenOddness",
     "BitwiseOperatorInConditional"}

ConditionRuleFlies == Aloft /\ Turn \in ConditionRuleNames /\ Report(ConditionFindings(Turn))

(***************************************************************************)
(* What the rules fly over: any tree in which these kinds of node have the *)
(* children they have in the languages, operands are expressions, what is  *)
(* divided by is a literal other than 0, and an if, a block and an         *)
(* assignment hold what is executed below.                                 *)
(***************************************************************************)
Expressions == Names \cup Literals \cup {"paren", "?:"} \cup UnaryOperators \cup (BinaryOperators \ {"="})
Instructions == {"return", "=", "compound", "if"} \cup Expressions

MayHold(m, i) ==    \* the kinds that the i-th child of m may have
    CASE Is(m, {"="}) -> IF i = 1 THEN Names ELSE Expressions
      [] Is(m, {"compound"}) \/ (Is(m, {"if"}) /\ i # 1) -> Instructions
      [] OTHER -> Expressions

HasItsParts(m) ==
    /\ Is(m, Names \cup Literals) => m.kids = <<>>
    /\ Is(m, UnaryOperators \cup {"paren"}) => Len(m.kids) = 1
    /\ Is(m, {"return"}) => Len(m.kids) \in {0, 1}
    /\ Is(m, BinaryOperators) => Len(m.kids) = 2
    /\ Is(m, {"?:"}) => Len(m.kids) = 3
    /\ Is(m, {"if"}) => Len(m.kids) \in {2, 3}
    /\ Is(m, Instructions) => \A i \in DOMAIN m.kids : Is(m.kids[i], MayHold(m, i))
    /\ Is(m, {"%"}) => Is(m.kids[2], Literals) /\ LiteralValue[m.kids[2].k] # 0

IsOverNumbers(t) == IsTree(t) /\ \A m \in Contained(t) : HasItsParts(m)

ASSUME ConditionTreesAssumption ==
    \A flight \in Flights :
        ToSet(flight.rules) \cap ConditionRuleNames # {} => \A t \in flight.trees : IsOverNumbers(t)

ConditionSpec == Init /\ [][ConditionRuleFlies \/ AnotherFlies(ConditionRuleNames) \/ Rest]_vars

(***************************************************************************)
(* What a tree does.  A remainder has the sign of what is divided; "& 1"   *)
(* is the lowest bit of the two's complement.                              *)
(***************************************************************************)
Num(truth) == IF truth THEN 1 ELSE 0
Remainder(l, r) == IF l < 0 THEN -((-l) % r) ELSE l % r

ValueFrom(m, below, env) ==
    LET l == below[1]
        r == below[2]
    IN CASE m.k \in Names -> env[m.k]
         [] m.k \in Literals -> LiteralValue[m.k]
         [] m.k \in {"paren", "plus"} -> l
         [] m.k = "not" -> Num(l = 0)
         [] m.k = "~" -> -l - 1
         [] m.k = "neg" -> -l
         [] m.k = "==" -> Num(l = r)
         [] m.k = "!=" -> Num(l # r)
         [] m.k = "and" -> Num(l # 0 /\ r # 0)
         [] m.k = "or" -> Num(l # 0 \/ r # 0)
         [] m.k = "%" -> Remainder(l, r)
         [] m.k = "&" /\ r = 0 -> 0
         [] m.k = "&" /\ r = 1 -> l % 2
         [] m.k = "?:" -> IF l # 0 THEN r ELSE below[3]
         [] OTHER -> env["bits"]

Value(e, env) == FromBelow(LAMBDA m, below : ValueFrom(m, below, env), e)

(* What a statement does, for each valuation before: whether it returns,   *)
(* the value, if any, and the variables afterwards.                        *)
Through(env) == [returned |-> FALSE, value |-> {}, env |-> env]
Returned(value, env) == [returned |-> TRUE, value |-> value, env |-> env]

OneByOne(effects, before) ==
    LET after[i \in 0..Len(effects)] ==
            IF i = 0 THEN Through(before)
            ELSE LET last == after[i - 1]
                 IN IF last.returned THEN last ELSE effects[i][last.env]
    IN after[Len(effects)]

EffectFrom(m, below) == [before \in Valuations |->
    CASE m.k = "return" -> Returned({Value(e, before) : e \in ToSet(m.kids)}, before)
      [] m.k = "=" -> Through([before EXCEPT ![m.kids[1].k] = Value(m.kids[2], before)])
      [] m.k = "compound" -> OneByOne(below, before)
      [] m.k = "if" /\ Value(m.kids[1], before) # 0 -> below[2][before]
      [] m.k = "if" /\ HasElse(m) /\ Value(m.kids[1], before) = 0 -> below[3][before]
      [] OTHER -> Through(before)]

Executed(s, env) == FromBelow(EffectFrom, s)[env]

SameValueAs(e, f) == \A env \in Environments : Value(e, env) = Value(f, env)
SameEffectAs(s, t) == \A env \in Environments : Executed(s, env) = Executed(t, env)

(***************************************************************************)
(* Properties, about a tree every rule has flown over.                     *)
(***************************************************************************)
Truths(cond) == {Unary("not", Unary("not", cond)), Unary("not", cond)}

(* RedundantIfStatementRule "detects unnecessary if statements": the       *)
(* statement of a branch, with the truth of the condition or the opposite  *)
(* in the place of the literal, does the same as the "if".  The rule does  *)
(* not look at what the branches do with the literal, so they must do the  *)
(* same; and it takes any cast for a truth, so it is said of casts of 0    *)
(* and 1, here and below.                                                  *)
Instead(s, e) == [s EXCEPT !.kids[Len(s.kids)] = e]
RedundantIfsAreOneStatement ==
    Have("RedundantIf") => \A p \in At_("RedundantIf") :
        LET n == At(tree, p)
            s == Unwrapped(n.kids[2])
            t == Unwrapped(n.kids[3])
        IN t = Instead(s, Last(t.kids)) /\ ~Holds(n, {"(char)2"}) =>
            \E e \in Truths(n.kids[1]) : SameEffectAs(n, Instead(s, e))

(* RedundantConditionalOperatorRule: a ?: is reported as one of three      *)
(* kinds, and each "can be replaced by a simple boolean expression" or "by *)
(* constant or variable expression".                                       *)
RedundantConditionalsAreSimpler ==
    Have("RedundantConditional") => \A p \in At_("RedundantConditional") :
        LET n == At(tree, p)
        IN ~Holds(n, {"(char)2"}) =>
            \E e \in Truths(n.kids[1]) \cup {n.kids[2]} : SameValueAs(n, e)

(* InvertedLogicRule: with the opposite condition and the branches swapped *)
(* a reported statement or expression does the same.                       *)
Opposite(cond) == IF Is(cond, {"!="}) THEN Binary("==", cond.kids[1], cond.kids[2]) ELSE cond.kids[1]
Swapped(n) == [n EXCEPT !.kids = <<Opposite(n.kids[1]), n.kids[3], n.kids[2]>>]
InvertedLogicCanBeSwapped ==
    Have("InvertedLogic") => \A p \in At_("InvertedLogic") :
        LET n == At(tree, Front(p))
        IN IF Is(n, {"if"}) THEN SameEffectAs(n, Swapped(n)) ELSE SameValueAs(n, Swapped(n))

(* DoubleNegativeRule: "There is no point in using a double negative":     *)
(* without it a condition is what it was, and so is a value for ~~.  And   *)
(* MultipleUnaryOperatorRule, the wider rule, reports it too.              *)
DoubleNegativesHaveNoPoint ==
    Have("DoubleNegative") => \A p \in At_("DoubleNegative") :
        LET n == At(tree, p)
            positive == IgnoreParens(n.kids[1]).kids[1]
        IN /\ \A env \in Environments : (Value(n, env) # 0) = (Value(positive, env) # 0)
           /\ Is(n, {"~"}) => SameValueAs(n, positive)
DoubleNegativesAreMultiple ==
    Have("DoubleNegative") /\ Have("MultipleUnary") => At_("DoubleNegative") \subseteq At_("MultipleUnary")

(* BrokenOddnessCheckRule: "Checking oddness by ``x % 2 == 1`` won't work  *)
(* for negative numbers. Use ``x & 1 == 1``, or ``x % 2 != 0`` instead."   *)
(* C reads the former as x & (1 == 1).                                     *)
Checked(n) == IF Is(n.kids[1], {"%"}) THEN n.kids[1].kids[1] ELSE n.kids[2].kids[1]
Remedies(x) ==
    {Binary("&", x, Binary("==", Leaf("1"), Leaf("1"))),
     Binary("!=", Binary("%", x, Leaf("2")), Leaf("0"))}
OddnessIsBrokenForNegatives ==
    Have("BrokenOddness") => \A p \in At_("BrokenOddness") : \A env \in Environments :
        LET x == Value(Checked(At(tree, p)), env)
        IN /\ (Value(At(tree, p), env) # 0) = (x % 2 = 1 /\ x > 0)
           /\ \A e \in Remedies(Checked(At(tree, p))) : (Value(e, env) # 0) = (x % 2 = 1)

(* What a report advises instead of a condition comes to the same, and the *)
(* oddness check it calls broken is.                                       *)
ConditionReportsHold ==
    /\ RedundantIfsAreOneStatement /\ RedundantConditionalsAreSimpler
    /\ InvertedLogicCanBeSwapped
    /\ DoubleNegativesHaveNoPoint /\ DoubleNegativesAreMultiple
    /\ OddnessIsBrokenForNegatives
=============================================================================
