------------------------------- MODULE MCRules -------------------------------
(***************************************************************************)
(* Small instances of Rules for TLC: for each family of rules all trees of *)
(* a few shapes.                                                           *)
(***************************************************************************)
EXTENDS Rules

(***************************************************************************)
(* Statements.                                                             *)
(***************************************************************************)
Plain == Statement(Atom)
Empty == Compound(<<>>)
NullStatement == Leaf("null")
Jumps == {Leaf(k) : k \in {"break", "continue", "return", "throw"}}

Pairs(ss) == {Compound(<<s, t>>) : s, t \in ss}
Ifs(ss) == {If(Atom, s) : s \in ss} \cup {IfElse(Atom, s, t) : s, t \in ss}

Steps == {Plain, Leaf("return"), Leaf("break")}

(* Blocks and branches three deep, in a loop so that every jump is legal.  *)
BranchTrees ==
    LET one == Ifs({Plain} \cup Jumps)
        two == Pairs(Jumps \cup {Plain} \cup one) \cup Ifs(Pairs(Steps) \cup {Plain} \cup one)
    IN {Block(s) : s \in two} \cup {Compound(<<s, Plain>>) : s \in two} \cup
       {Block(While(Atom, s)) : s \in two} \cup
       {Block(While(Atom, Compound(<<s, t>>))) : s \in one, t \in Jumps \cup one}

(* Nested ifs and chains of else ifs.                                      *)
IfTrees ==
    LET leaves == {Plain, Leaf("return"), Compound(<<Plain, Leaf("return")>>)}
        one == leaves \cup Ifs(leaves)
        two == Ifs(one) \cup {Block(s) : s \in Ifs(one)}
    IN {Block(s) : s \in two} \cup
       {Block(IfElse(Atom, s, t)) : s \in leaves, t \in two} \cup
       {Block(If(Or(Atom, Atom), s)) : s \in two}

SwitchOn(cond, parts) == Switch(cond, Compound(parts))
SwitchTrees ==
    LET part == {Plain, Leaf("break"), Leaf("return"), Case(Plain), Case(Leaf("break")), Case(Case(Plain)),
                 Default(Plain), Default(Leaf("break")), Default(Case(Plain)), Case(Default(Plain))}
        defaults(seq) == {p \in Positions(Compound(seq)) : Is(At(Compound(seq), p), {"default"})}
        once(seq) == Cardinality(defaults(seq)) <= 1
        parts == {seq \in {<<s, t, u, v>> : s, t, u, v \in part} : once(seq) /\ Is(seq[1], Labels)}
    IN {Block(SwitchOn(Atom, seq)) : seq \in parts} \cup
       {Block(SwitchOn(Leaf("covered"), seq)) : seq \in {parts_ \in parts : parts_[4] = Plain}} \cup
       {Block(SwitchOn(Atom, <<Case(SwitchOn(Leaf("covered"), SubSeq(seq, 1, 2))), Leaf("break")>>)) : seq \in parts}

(* A label inside a statement, which a switch enters in its middle.        *)
EnteredTrees ==
    {Compound(<<SwitchOn(Atom, <<Case(Compound(<<s, l, t>>)), u>>), Plain>>) :
        s, t, u \in {Plain, Leaf("return"), Leaf("break")}, l \in {Case(Plain), Default(Leaf("break")), Plain}}

(* @try in @try, with jumps and raises in every block.                     *)
TryTrees ==
    LET leaves == {Plain, Leaf("return"), Leaf("@throw"), Leaf("raise"), If(Atom, Leaf("return"))}
        handler == {<<>>} \cup {<<Node("@catch", <<Block(s)>>)>> : s \in leaves}
        final(s) == Node("@finally", <<Block(s)>>)
        one == {Node("@try", <<Block(s)>> \o h \o <<final(t)>>) : s, t \in leaves, h \in handler}
        simple == {Node("@try", <<Block(s)>> \o <<final(t)>>) : s, t \in leaves}
    IN {Block(s) : s \in one} \cup
       {Block(Node("@try", <<Block(s), final(t)>>)) : s \in leaves, t \in simple} \cup
       {Block(Node("@try", <<Block(t), final(s)>>)) : s \in leaves, t \in simple}

GuardedTrees ==
    LET blocks == {Plain, Empty, NullStatement, Block(Plain), Block(NullStatement)}
        loops == {While(Atom, s) : s \in blocks} \cup {Do(s, Atom) : s \in blocks} \cup
                 {For(Atom, Atom, s) : s \in blocks} \cup {ForIn(Atom, s) : s \in blocks} \cup
                 {RangeFor(Atom, s) : s \in blocks} \cup {Switch(Atom, s) : s \in blocks} \cup Ifs(blocks) \cup
                 {Node("try", <<s, Node("catch", <<t>>)>>) : s, t \in blocks \cap {Empty, Block(Plain)}} \cup
                 {Node("@try", <<s, Node("@catch", <<t>>), Node("@finally", <<s>>)>>) :
                        s, t \in blocks \cap {Empty, Block(Plain)}}
    IN {Compound(<<s, t>>) : s, t \in loops} \cup {Block(While(Atom, s)) : s \in loops} \cup
       {Block(If(Atom, Block(s))) : s \in loops}

LastTrees ==
    LET ends == Jumps \cup {Plain, If(Atom, Leaf("break"))}
        bodies == Pairs(ends) \cup {Empty, Plain} \cup {Block(s) : s \in ends}
        loops == {While(Atom, s) : s \in bodies} \cup {Do(s, Atom) : s \in bodies} \cup
                 {For(Atom, Atom, s) : s \in bodies} \cup {ForIn(Atom, s) : s \in bodies}
    IN {Block(s) : s \in loops} \cup {Block(While(Atom, Compound(<<s, t>>))) : s \in loops, t \in ends}

(***************************************************************************)
(* Expressions over pointers.                                              *)
(***************************************************************************)
MCPointers == {"p", "q"}
MCFlags == {"a"}
P == Leaf("p")
Q == Leaf("q")
A == Leaf("a")
Call == Leaf("call")
NextPointer == Leaf("next")

Joined(ls, rs) == {And(l, r) : l \in ls, r \in rs} \cup {Or(l, r) : l \in ls, r \in rs}

(* Checks and uses of two pointers, two deep.                              *)
NullTrees ==
    LET checks == ChecksOf(P) \cup {Q, Eq(NullPointer, Q), Paren(P), A}
        uses == {Arrow(P), Not(Arrow(P)), Paren(Arrow(P)), Arrow(Q), Arrow(Paren(P)), Call,
                 MessageWith(Q, Arrow(P)), Ne(Arrow(P), NullPointer)}
        one == Joined(checks, uses) \cup Joined(uses, checks)
        guards == {P, Not(P), Eq(P, NullPointer), A}
    IN one \cup Joined(guards, one) \cup Joined(one, guards)

NilTrees ==
    LET checks == ChecksOf(P) \cup {Q, A}
        uses == {Message(P), MessageWith(P, A), MessageWith(P, Message(P)), Paren(Message(P)), Message(Q),
                 Message(Message(P)), Not(Message(Q))}
        negated == {Not(Message(P)), Eq(Message(P), NullPointer)}
        one == Joined(checks, uses) \cup Joined(uses, checks)
        rights == {And(l, r) : l \in uses, r \in uses \cup {A, P}}
    IN one \cup Joined({P, Ne(P, NullPointer)}, Joined({Q, A}, uses)) \cup {And(P, r) : r \in rights} \cup
       {Or(l, r) : l \in {P, A}, r \in one} \cup {Or(P, n) : n \in negated} \cup {And(Not(P), n) : n \in negated}

DeleteTrees ==
    LET conds == ChecksOf(P) \cup ChecksOf(Q) \cup {And(P, Q), NextPointer, Ne(NextPointer, NullPointer)}
        deletes == {Delete(P), Delete(Q), Delete(NextPointer)}
        pairs == {Compound(<<d, PointerAssign(x, NullPointer)>>) : d \in deletes, x \in {P, Q}} \cup
                 {Compound(<<d, e>>) : d, e \in deletes}
    IN {If(c, s) : c \in conds, s \in deletes \cup pairs \cup {Block(d) : d \in deletes}} \cup
       {IfElse(c, d, e) : c \in conds, d, e \in deletes}

(***************************************************************************)
(* Conditions and values.                                                  *)
(***************************************************************************)
MCNames == {"a", "b", "x", "y"}
MCEnvironments == [a : -3..3, b : 0..1, x : {7}, y : {7}, bits : {5}]
Var(name) == Leaf(name)
Lit(l) == Leaf(l)
Conds == {Var("a"), Unary("not", Var("a")), Unary("~", Var("a")), Unary("neg", Var("a")),
          Unary("not", Paren(Unary("not", Var("a")))),
          Binary("==", Var("a"), Var("b")), Binary("!=", Var("a"), Var("b")),
          Paren(Binary("!=", Var("a"), Var("b"))), And(Var("a"), Var("b"))}
Bools == CXXBools \cup ObjCBools \cup {"(BOOL)0", "(BOOL)1"}

(* Ifs that return or assign literals, in blocks or not.                   *)
Paired(ls) ==
    {<<Return(Lit(l)), Return(Lit(m))>> : l, m \in ls} \cup
    {<<Assign(Var("x"), Lit(l)), Assign(Var("x"), Lit(m))>> : l, m \in ls} \cup
    {<<Assign(Var("x"), Lit(l)), Assign(Var("y"), Lit(m))>> : l, m \in ls} \cup
    {<<Assign(Var("x"), Lit(l)), Return(Lit(m))>> : l, m \in ls} \cup
    {<<Assign(Var("x"), Lit(l)), Binary("==", Var("x"), Lit(m))>> : l, m \in ls} \cup
    {<<Binary("|", Var("x"), Lit(l)), Binary("|", Var("x"), Lit(m))>> : l, m \in ls} \cup {<<Leaf("return"), Return(Lit(l))>> : l \in ls}
ValueIfTrees ==
    LET pairs == Paired(Bools \cup {"0", "1"})
    IN {IfElse(c, s[1], s[2]) : c \in Conds, s \in pairs} \cup
       {IfElse(c, Block(s[1]), Block(Block(s[2]))) : c \in Conds, s \in pairs} \cup
       {If(c, Compound(<<s[1], s[2]>>)) : c \in Conds, s \in pairs}

ConditionalTrees ==
    LET branches == {Lit(l) : l \in Bools \cup CastIntegers \cup Integers_ \cup Floats \cup Characters \cup Strings} \cup
                    {Var("x"), Var("y"), Unary("neg", Var("x"))}
    IN {Conditional(c, e, f) : c \in Conds, e, f \in branches}

(* Unary operators and remainders, three deep.                             *)
Applied(es) == {Unary(o, e) : o \in UnaryOperators, e \in es}
UnaryTrees ==
    LET one == {Var("a")} \cup Applied({Var("a")})
        two == one \cup Applied(one \cup {Paren(e) : e \in one})
    IN two \cup Applied(two \cup {Paren(e) : e \in two})
OddTrees ==
    LET remainders == {Binary("%", e, Lit(l)) : e \in {Var("a"), Unary("neg", Var("a"))}, l \in {"1", "2"}}
    IN {Binary(o, e, Lit(l)) : o \in {"==", "!="}, e \in remainders, l \in Integers_} \cup
       {Binary(o, Lit(l), e) : o \in {"==", "!="}, e \in remainders, l \in Integers_}
ArithmeticTrees == UnaryTrees \cup OddTrees \cup {Conditional(e, Var("x"), Var("y")) : e \in OddTrees}

(***************************************************************************)
(* Objective-C programs: the classes A, B below A, C below B, and D beside *)
(* them; P adopts Q, and B names P.                                        *)
(***************************************************************************)
MCClasses == {"A", "B", "C", "D"}
MCSuperclass == [c \in MCClasses |-> CASE c = "B" -> "A" [] c = "C" -> "B" [] OTHER -> NoClass]
MCProtocols == {"P", "Q"}
MCConforms == [c \in MCClasses |-> IF c = "B" THEN {"P"} ELSE {}]
MCAdopts == [p \in MCProtocols |-> IF p = "P" THEN {"Q"} ELSE {}]

Declaration(of, where, sel, kind, marks) ==
    [of |-> of, where |-> where, sel |-> sel, kind |-> kind, marks |-> marks, visited |-> TRUE]
InHeader(d) == [d EXCEPT !.visited = FALSE]
Def(sel, kind, body) == [sel |-> sel, kind |-> kind, body |-> body]
Implementation(class, methods) == [class |-> class, methods |-> methods]
Program(decls, impls) == [decls |-> decls, impls |-> impls]

Sent(sel, to, instance, method) ==
    [k |-> "message", sel |-> sel, to |-> to, instance |-> instance, method |-> method, inBlock |-> FALSE]
Super(sel, kind) == Sent(sel, "super", kind = "-", kind)
Selector(sel) == [k |-> "selector", sel |-> sel, to |-> "id", instance |-> TRUE, method |-> "none", inBlock |-> FALSE]
Property(sel, to) == [k |-> "property", sel |-> sel, to |-> to, instance |-> TRUE, method |-> "-", inBlock |-> FALSE]
InBlock(s) == [s EXCEPT !.inBlock = TRUE]

(* No more than one of these.                                              *)
Maybe(s) == {<<>>} \cup {<<x>> : x \in s}

(* A marked method that three classes may declare again and implement.     *)
Overriding(mark, kind) ==
    LET base == {<<InHeader(Declaration("A", "interface", "foo", kind, marks))>> : marks \in {{}, {mark}}}
        categories == Maybe({Declaration("A", "category", "foo", kind, {mark})})
        unmarked(where) == Declaration("B", where, "foo", kind, {})
        again == Maybe({unmarked("interface"), InHeader(unmarked("interface")), unmarked("category"),
                        InHeader(Declaration("B", "category", "foo", kind, {mark}))})
        bodies == {<<>>, <<Super("foo", kind)>>, <<Super("bar", kind), Sent("foo", "B", kind = "-", kind)>>}
        impls(c) == {<<>>, <<Implementation(c, <<>>)>>} \cup
                    {<<Implementation(c, <<Def("foo", kind, b)>>)>> : b \in bodies}
    IN {Program(p \o q \o r, a \o b \o c \o <<Implementation("D", <<>>)>>) :
            p \in base, q \in categories, r \in again, a \in impls("A"), b \in impls("B"), c \in impls("C")}

(* A mark in a protocol, and the call in a block.                          *)
OverridingProtocol(mark) ==
    LET decls == {<<Declaration(p, "protocol", "foo", "-", {mark})>> \o q : p \in MCProtocols,
                    q \in Maybe({Declaration("P", "protocol", "foo", "-", {}), Declaration("B", "interface", "foo", "-", {}),
                                 Declaration("B", "category", "foo", "-", {})})}
        bodies == {<<>>, <<InBlock(Super("foo", "-"))>>}
    IN {Program(d, <<Implementation(c, <<Def("foo", "-", b)>>)>>) : d \in decls, c \in {"B", "C"}, b \in bodies}

OverridingPrograms ==
    Overriding("base method", "-") \cup Overriding("base method", "+") \cup OverridingProtocol("base method")

(* A class method for an instance method of the same name does not count.  *)
AbstractPrograms ==
    LET decls == {<<Declaration("A", "interface", "foo", "-", {"abstract method"})>> \o q :
                    q \in Maybe({Declaration("B", "interface", "foo", "-", marks) : marks \in {{}, {"abstract method"}}})}
        impls(c) == {<<Implementation(c, ms)>> :
                        ms \in {<<>>, <<Def("foo", "-", <<>>)>>, <<Def("foo", "+", <<>>)>>,
                                <<Def("foo", "+", <<>>), Def("foo", "-", <<Super("foo", "-")>>)>>}}
    IN {Program(d, a \o b \o c \o <<Implementation("D", <<>>)>>) :
            d \in decls, a \in impls("A"), b \in impls("B"), c \in impls("C")}

(* A message from any class to any class, super and id.                    *)
ProtectedPrograms ==
    LET decls == {<<Declaration("A", "interface", "foo", "-", marks)>> \o q :
                    marks \in {{}, {"protected method"}},
                    q \in Maybe({Declaration(c, where, "foo", "-", {"protected method"}) :
                                    c \in {"A", "B", "D"}, where \in {"interface", "category"}})}
        known(d, to) == to # "D" \/ \E i \in DOMAIN d : d[i].of = "D"
        messages(d) == {Sent("foo", to, TRUE, IF known(d, to) THEN "-" ELSE "none") :
                            to \in {"A", "B", "C", "D", "id", "super"}}
    IN UNION {{Program(d, <<Implementation(c, <<Def("bar", "-", <<s, t>>)>>)>>) :
                    c \in MCClasses, s, t \in messages(d)} : d \in decls}

(* The methods foo and bar of B, which may be declared in many places, and *)
(* what they and a method of C say about each other.  clang finds a method *)
(* that is declared above or that B implements.                            *)
UsePrograms ==
    LET of(place, where, sel, kind) == Declaration(place, where, sel, kind, {})
        decls == Maybe({of(c, "interface", "foo", "-") : c \in {"A", "C", "D"}} \cup
                       {of(p, "protocol", "foo", "-") : p \in MCProtocols} \cup
                       {of("A", "category", "bar", "-"), of("B", "interface", "foo", "+"), of("Q", "protocol", "bar", "-")})
        known(d, sel, c) == c \in {"B", "C", "id"} \/ \E i \in DOMAIN d : d[i].of = c /\ d[i].sel = sel
        messages(d, sels) == {Sent(sel, c, TRUE, IF known(d, sel, c) THEN "-" ELSE "none") :
                                sel \in sels, c \in MCClasses \cup {"id"}}
        said(d) == messages(d, {"foo", "bar"}) \cup {Selector("foo"), Property("foo", "super"), Property("foo", "object"),
                                     Sent("foo", "super", TRUE, "-")}
    IN UNION {{Program(d, <<Implementation("B", <<Def("foo", "-", x), Def("bar", "-", y \o z)>>),
                           Implementation("C", <<Def("bar", "-", y)>>)>>) :
                    x \in Maybe(messages(d, {"bar"})), y \in Maybe(said(d)),
                    z \in Maybe({Sent("foo", "B", TRUE, "-"), Selector("foo"), Property("foo", "object"),
                              InBlock(Sent("foo", "B", TRUE, "-")), InBlock(Selector("foo"))})} :
              d \in decls}

(* Class methods, called by name.                                          *)
ClassUsePrograms ==
    {Program(<<>>, <<Implementation("B", <<Def("foo", "+", <<>>), Def("bar", "+", <<s>>)>>)>>) :
        s \in {Sent("foo", c, FALSE, "+") : c \in {"B", "C", "super"}}} \cup
    {Program(<<d>>, <<Implementation("B", <<Def("bar", "+", <<>>), Def("foo", "+", <<s>>)>>)>>) :
        d \in {Declaration(c, "interface", "foo", "+", {}) : c \in {"B", "C", "D"}},
        s \in {Sent("bar", c, FALSE, "+") : c \in {"B", "C"}}}

(* The three kinds of message that escape the rule.                        *)
EscapingPrograms ==
    {Program(<<>>, <<Implementation("B", <<Def("foo", s.method, <<>>), Def("bar", "-", <<InBlock(s)>>)>>)>>) :
        s \in {Sent("foo", "B", TRUE, "-"), Sent("foo", "B", FALSE, "+"), Property("foo", "B")}} \cup
    {Program(<<>>, <<Implementation("B", <<Def("foo", "+", <<>>), Def("bar", "-", <<Sent("foo", "Class", TRUE, "+")>>)>>)>>),
     Program(<<>>, <<Implementation("A", <<Def("foo", "-", <<>>)>>),
                     Implementation("B", <<Def("foo", "-", <<>>), Def("bar", "-", <<Sent("foo", "A", TRUE, "-")>>)>>)>>)}

(***************************************************************************)
(* Variables in heads, bodies and initialisers.                            *)
(***************************************************************************)
Short == Leaf("short")
LoopsWith(head, ss) ==
    {Loop(kind, head, s) : kind \in IF Len(head) = 1 THEN Heads ELSE {"for"}, s \in ss}
NamingTrees ==
    LET names == {Short, Leaf("fitting"), Leaf("long"), Node("short", <<Short>>), Node("fitting", <<Short>>)}
        any == {<<>>} \cup {<<v>> : v \in names} \cup {<<v, w>> : v, w \in names}
        inner == {Empty, Short} \cup UNION {LoopsWith(h, {Short}) : h \in any}
        outer == UNION {LoopsWith(h, inner) : h \in {<<>>, <<Short>>, <<Short, Short>>, <<Leaf("fitting"), Short>>}}
    IN {Compound(<<s, t>>) : s \in {Short, Leaf("long")}, t \in outer} \cup
       {Compound(<<s, t>>) : s \in outer, t \in {Short, Loop("catch", <<Short>>, Short)}}

(***************************************************************************)
(* The flights.                                                            *)
(***************************************************************************)
Over(inOrder, over) == [rules |-> inOrder, trees |-> over]

EmptyBlockRules == <<"EmptyIf", "EmptyElse", "EmptyWhile", "EmptyDoWhile", "EmptyFor", "EmptySwitch",
               "EmptyTry", "EmptyCatch", "EmptyFinally">>
SwitchRules == <<"MissingBreak", "NonCaseLabel", "TooFewBranches", "CoveredSwitchNeedsNoDefault",
                 "SwitchShouldHaveDefault", "DefaultLabelNotLast", "DeadCode">>
ValueRules == <<"RedundantIf", "RedundantConditional", "InvertedLogic">>
ArithmeticRules == <<"DoubleNegative", "MultipleUnary", "BrokenOddness", "BitwiseOperatorInConditional">>

AllFlights == {
    Over(<<"DeadCode", "Gotos">>, BranchTrees \cup EnteredTrees),
    Over(<<"UnnecessaryElse", "CollapsibleIf">>, IfTrees),
    Over(SwitchRules, SwitchTrees),
    Over(<<"ReturnFromFinally", "ThrowFromFinally">>, TryTrees),
    Over(EmptyBlockRules, GuardedTrees),
    Over(<<"AvoidBranchingAsLast">>, LastTrees),
    Over(<<"BrokenNullCheck", "MisplacedNullCheck">>, NullTrees),
    Over(<<"BrokenNilCheck", "MisplacedNilCheck", "RedundantNilCheck">>, NilTrees),
    Over(<<"UnnecessaryNullCheckForCXXDealloc">>, DeleteTrees),
    Over(ValueRules, ValueIfTrees),
    Over(ValueRules, ConditionalTrees),
    Over(ArithmeticRules, ArithmeticTrees),
    Over(<<"ShortVariableName", "LongVariableName">>, NamingTrees),
    Over(<<"MustCallSuper">>, OverridingPrograms),
    Over(<<"ProtectedMethod">>, ProtectedPrograms),
    Over(<<"SubclassMustImplement">>, AbstractPrograms),
    Over(<<"MethodIsUsed">>, UsePrograms),
    Over(<<"MethodIsUsed">>, ClassUsePrograms \cup EscapingPrograms)}
=============================================================================
