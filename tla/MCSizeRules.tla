----------------------------- MODULE MCSizeRules -----------------------------
(***************************************************************************)
(* Small instances of SizeRules for TLC: functions whose bodies are all    *)
(* trees of a few shapes, and units in every language with declarations in *)
(* the main file, in a header and without a location.                      *)
(***************************************************************************)
EXTENDS SizeRules

Plain == Statement(Atom)
Empty == Compound(<<>>)

(* The statements one level above those of ss.                             *)
Structures(ss) ==
    {If(Atom, s) : s \in ss} \cup {While(Atom, s) : s \in ss} \cup
    {IfElse(Atom, s, t) : s, t \in ss} \cup {Compound(<<s, t>>) : s, t \in ss} \cup
    {Switch(Atom, Compound(<<Case(s), Leaf("break"), Default(t), Leaf("break")>>)) : s, t \in ss} \cup
    {Switch(Atom, Compound(<<Case(Plain), s, Leaf("break"), Default(Plain), Leaf("break")>>)) : s \in ss}

LooseStructures(ss) ==
    {Do(s, Atom) : s \in ss} \cup {For(Atom, Atom, s) : s \in ss} \cup {ForIn(Atom, s) : s \in ss} \cup
    {RangeFor(Atom, s) : s \in ss} \cup {Switch(Atom, Compound(<<Case(s)>>)) : s \in ss} \cup
    {Switch(Atom, Compound(<<Default(Plain), s, Case(Case(t))>>)) : s, t \in ss} \cup
    {Switch(Atom, s) : s \in ss} \cup
    {Node("try", <<Block(s), Node("catch", <<Block(t)>>)>>) : s, t \in ss} \cup
    {Node("@try", <<Block(s), Node("@catch", <<Empty>>), Node("@finally", <<Block(t)>>)>>) : s, t \in ss}

ShortCircuits == {Atom, And(Atom, Atom), Or(Atom, And(Atom, Atom)), Not(Or(Atom, Atom)),
                  Conditional(Atom, Atom, And(Atom, Atom))}
Decided(ss) ==
    {If(c, s) : c \in ShortCircuits, s \in ss} \cup {While(c, Plain) : c \in ShortCircuits} \cup
    {Do(Plain, c) : c \in ShortCircuits} \cup {Statement(c) : c \in ShortCircuits} \cup
    {For(c, d, Plain) : c, d \in ShortCircuits} \cup {Switch(c, Empty) : c \in ShortCircuits}

Jumps == {Leaf("return"), Leaf("break"), Leaf("continue")}

Fn(body) == [k |-> "function", kids |-> <<body>>, body |-> <<body>>, params |-> 2, inRecord |-> FALSE,
             lines |-> <<1, 4>>, bodyLines |-> <<2, 4>>]
(* What C++ calls a function-try-block, and what C does not have.          *)
FnTry == Fn(Node("try", <<Block(Plain), Node("catch", <<Empty>>)>>))
Prototype(body) == [Fn(body) EXCEPT !.kids = <<>>]
InRecord(body) == [Fn(body) EXCEPT !.inRecord = TRUE, !.k = "method"]
Class(kind, kids) == [k |-> kind, kids |-> kids, lines |-> <<1, 3>>, methods |-> 2, fields |-> 3]

Top(tree) == [valid |-> TRUE, main |-> TRUE, tree |-> tree]
Unit(decls) == [lang |-> {"C99"}, decls |-> decls]
Functioned(bodies) == {<<Unit(<<Top(Fn(b))>>)>> : b \in bodies}

Ground == {Plain, Empty}
One == Ground \cup Structures({Plain})
StructuredBodies == {Block(s) : s \in Structures(One)} \cup
    {Compound(<<s, t, u>>) : s, t, u \in One}

AnyBodies ==
    LET inner == Ground \cup LooseStructures({Plain}) \cup Structures({Plain}) \cup Jumps \cup {Leaf("null")}
        outer == LooseStructures(inner) \cup Structures(Ground \cup Jumps \cup LooseStructures({Plain}))
                 \cup Decided(Jumps \cup {Plain})
    IN {Block(s) : s \in outer}

(* Declarations of every kind, again and in a header, in two languages.    *)
Mixed ==
    LET b == Block(If(Atom, Block(Plain)))
        record == Class("record", <<InRecord(b)>>)
        decls == <<Top(Prototype(b)), Top(Fn(b)), [Top(Fn(b)) EXCEPT !.main = FALSE], Top(record),
                   Top(Class("interface", <<>>)), Top(Class("implementation", <<Fn(b)>>)),
                   [Top(Class("protocol", <<>>)) EXCEPT !.valid = FALSE]>>
        tries == <<Top(InRecord(b)), Top(FnTry), Top(Fn(b))>>
    IN {<<Unit(decls), [Unit(decls) EXCEPT !.lang = {"C99", "ObjC1"}], [Unit(decls) EXCEPT !.lang = {}]>>,
        <<[Unit(tries) EXCEPT !.lang = {"CPlusPlus"}], Unit(decls)>>}

(***************************************************************************)
(* Histories for the walk: one and two units, with trees of no function.   *)
(***************************************************************************)
Deep == Node("namespace", <<Node("enum", <<Leaf("constant"), Leaf("constant")>>), Leaf("variable"), Leaf("variable")>>)
DeclAt(valid, main, tree) == [valid |-> valid, main |-> main, tree |-> tree]
SomeDecls ==
    {<<DeclAt(TRUE, TRUE, Deep), DeclAt(TRUE, FALSE, Deep), DeclAt(TRUE, TRUE, Leaf("typedef"))>>,
     <<DeclAt(FALSE, TRUE, Leaf("typedef")), DeclAt(TRUE, TRUE, Deep)>>,
     <<>>}
Standards == {{"C99"}, {"C99", "ObjC1"}, {"CPlusPlus"}, {"CPlusPlus", "ObjC1"}, {}}
SomeUnits == {[lang |-> l, decls |-> ds] : l \in Standards, ds \in SomeDecls}
WalkHistories == {<<u>> : u \in SomeUnits} \cup {<<u, v>> : u, v \in SomeUnits}

(* Rules that measure nothing, for some languages only.                    *)
OtherLanguages == ("ivar assignment" :> {"LANG_OBJC"}) @@ ("base class destructor" :> {"LANG_CXX"}) @@
                  ("plain" :> {"LANG_C", "LANG_CXX"}) @@ ("common" :> LanguageSupportFlags)
Walkers == DOMAIN OtherLanguages

AllKeys == {"CYCLOMATIC_COMPLEXITY", "NPATH_COMPLEXITY", "NCSS_METHOD", "NESTED_BLOCK_DEPTH",
            "LONG_METHOD", "TOO_MANY_PARAMETERS", "LONG_CLASS", "TOO_MANY_METHODS", "TOO_MANY_FIELDS"}
MCRules == AllKeys \cup Walkers

MCLanguages == [r \in MCRules |-> IF r \in Walkers THEN OtherLanguages[r] ELSE LanguageSupportFlags]
MCLimits == {-1, 0, 1, 2, 3, 4, 6}
MCStandard == [r \in MCRules |-> 2]

StructuredHistories == Functioned(StructuredBodies)
AnyHistories == Functioned(AnyBodies)
LongHistories == Functioned({Compound(<<s, t, s, s>>) : s, t \in {If(Atom, Plain), Plain}})
AllHistories == {h \in StructuredHistories \cup AnyHistories \cup Mixed \cup WalkHistories : TRUE}

(* Every node of some histories.                                           *)
NodesIn(histories) ==
    LET units_ == UNION {ToSet(h) : h \in histories}
        decls == UNION {ToSet(u.decls) : u \in units_}
    IN {n \in UNION {Contained(d.tree) : d \in decls} : TRUE}

AllNodes == NodesIn(AllHistories)
LongNodes == NodesIn(LongHistories)

(* TLC evaluates the definition that stands for a constant wherever the    *)
(* constant is used, so these only name what was evaluated once.           *)
MCHistories == AllHistories
MCNodes == AllNodes
MCLongHistories == LongHistories
MCLongNodes == LongNodes

(* Which rule is tried on which histories, under which limits.             *)
Surveyed ==
    \/ /\ rule \in {"CYCLOMATIC_COMPLEXITY", "NPATH_COMPLEXITY"}
       /\ units \in StructuredHistories
       /\ configured \in {1, 3, 4, 6, NoLimit}
    \/ /\ rule \in {"CYCLOMATIC_COMPLEXITY", "NESTED_BLOCK_DEPTH"}
       /\ units \in AnyHistories
       /\ configured \in {1, 3, NoLimit}
    \/ /\ rule = "NCSS_METHOD"
       /\ units \in AnyHistories
       /\ configured \in {3, 4, 6}
    \/ rule \in AllKeys /\ units \in Mixed /\ configured \in Limits \cup {NoLimit}
    \/ rule \in Walkers /\ units \in WalkHistories /\ configured = NoLimit

MCInit == Surveyed /\ Init

MCSpec == MCInit /\ [][Next]_vars /\ WF_vars(Next)
=============================================================================
