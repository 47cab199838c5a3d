------------------------------ MODULE RuleBase ------------------------------
(***************************************************************************)
(* How a rule that walks the syntax tree is applied to one unit after      *)
(* another: AbstractASTVisitorRule::apply, the language check of           *)
(* AbstractASTRuleBase and the order of a RecursiveASTVisitor.             *)
(*                                                                         *)
(* A unit is the language options clang set for it and its top-level       *)
(* declarations: whether they have a location, whether they start in the   *)
(* main file, and their tree.  What a rule does at a node is left to the   *)
(* modules that extend this one.                                           *)
(***************************************************************************)
EXTENDS Integers, Sequences, FiniteSets

CONSTANTS
    Rules,                  \* the rules, one of which flies
    SupportedLanguages,     \* SupportedLanguages[r]: a set of LanguageSupportFlags
    Histories               \* sequences of units the process may analyse

LanguageSupportFlags == {"LANG_C", "LANG_CXX", "LANG_OBJC"}

ASSUME RuleBaseAssumption ==
    SupportedLanguages \in [Rules -> SUBSET LanguageSupportFlags]

VARIABLES
    rule,       \* the rule
    units,      \* the units of this process
    unit,       \* index of the one being analysed
    pc,         \* "takeoff" before apply, "flying" in its loop
    at,         \* index of the next top-level declaration
    todo,       \* nodes the traversal still has to visit
    visited     \* every node visited so far

walk == <<rule, units, unit, pc, at, todo, visited>>

IsLanguageSupported(lang) ==
    IF "ObjC1" \in lang THEN "LANG_OBJC" \in SupportedLanguages[rule]
    ELSE IF "CPlusPlus" \in lang THEN "LANG_CXX" \in SupportedLanguages[rule]
    ELSE "C99" \in lang /\ "LANG_C" \in SupportedLanguages[rule]

InMainFile(decl) == decl.valid /\ decl.main

(* A node to visit: of which unit and declaration, where there, and what.  *)
Item(n, u, d, p) == [node |-> n, unit |-> u, decl |-> d, path |-> p]
Children(item) ==
    [i \in 1..Len(item.node.kids) |->
        [item EXCEPT !.node = item.node.kids[i], !.path = Append(item.path, i)]]

Decls == units[unit].decls

WalkInit ==
    /\ rule \in Rules
    /\ units \in Histories
    /\ unit = 1
    /\ pc = "takeoff"
    /\ at = 1
    /\ todo = <<>>
    /\ visited = <<>>

(* apply returns at once for a language the rule does not support.         *)
Refuse ==
    /\ pc = "takeoff"
    /\ unit <= Len(units)
    /\ ~IsLanguageSupported(units[unit].lang)
    /\ unit' = unit + 1
    /\ UNCHANGED <<rule, units, pc, at, todo, visited>>

SetUp ==
    /\ pc = "takeoff"
    /\ unit <= Len(units)
    /\ IsLanguageSupported(units[unit].lang)
    /\ pc' = "flying"
    /\ at' = 1
    /\ UNCHANGED <<rule, units, unit, todo, visited>>

(* The loop of apply, between two traversals.                              *)
Between == pc = "flying" /\ todo = <<>>

MutSkipDecl ==
    /\ Between
    /\ at <= Len(Decls)
    /\ ~InMainFile(Decls[at])
    /\ UNCHANGED walk

SkipDecl ==
    /\ Between
    /\ at <= Len(Decls)
    /\ ~InMainFile(Decls[at])
    /\ at' = at + 1
    /\ UNCHANGED <<rule, units, unit, pc, todo, visited>>

MutTraverseDecl ==
    /\ Between
    /\ at <= Len(Decls)
    /\ Decls[at].valid
    /\ todo' = <<Item(Decls[at].tree, unit, at, <<>>)>>
    /\ at' = at + 1
    /\ UNCHANGED <<rule, units, unit, pc, visited>>

TraverseDecl ==
    /\ Between
    /\ at <= Len(Decls)
    /\ InMainFile(Decls[at])
    /\ todo' = <<Item(Decls[at].tree, unit, at, <<>>)>>
    /\ at' = at + 1
    /\ UNCHANGED <<rule, units, unit, pc, visited>>

(* A slip: breadth before depth.                                           *)
MutVisitNode ==
    /\ todo # <<>>
    /\ visited' = Append(visited, Head(todo))
    /\ todo' = Tail(todo) \o Children(Head(todo))
    /\ UNCHANGED <<rule, units, unit, pc, at>>

VisitNode ==
    /\ todo # <<>>
    /\ visited' = Append(visited, Head(todo))
    /\ todo' = Children(Head(todo)) \o Tail(todo)
    /\ UNCHANGED <<rule, units, unit, pc, at>>

TearDown ==
    /\ Between
    /\ at > Len(Decls)
    /\ pc' = "takeoff"
    /\ unit' = unit + 1
    /\ UNCHANGED <<rule, units, at, todo, visited>>

AllLanded == pc = "takeoff" /\ unit > Len(units)

Landed == AllLanded /\ UNCHANGED walk

Step ==
    \/ Refuse
    \/ SetUp
    \/ SkipDecl
    \/ TraverseDecl
    \/ VisitNode
    \/ TearDown

WalkSpec == WalkInit /\ [][Step \/ Landed]_walk /\ WF_walk(Step)

(***************************************************************************)
(* Properties.                                                             *)
(***************************************************************************)
WalkTypeOK ==
    /\ rule \in Rules
    /\ units \in Histories
    /\ unit \in 1..(Len(units) + 1)
    /\ pc \in {"takeoff", "flying"}
    /\ at \in Nat \ {0}

(* apply visits nothing of a header and nothing of a unit whose language   *)
(* the rule does not support, whatever was analysed before: the loop skips *)
(* declarations by their location, TraverseDecl never leaves one.          *)
Lawful(item) ==
    /\ item.unit \in DOMAIN units
    /\ IsLanguageSupported(units[item.unit].lang)
    /\ item.decl \in DOMAIN units[item.unit].decls
    /\ InMainFile(units[item.unit].decls[item.decl])

OnlyTheMainFile == \A i \in DOMAIN visited : Lawful(visited[i])

(* No node is visited twice, however deep the trees are and however many   *)
(* units follow one another: apply and the traversal never come back.      *)
NoNodeTwice ==
    \A i, j \in DOMAIN visited : i # j => visited[i] # visited[j]

(***************************************************************************)
(* What a rule has seen when every unit is landed: the root of each        *)
(* declaration it is to judge, with each node it has seen the children of  *)
(* that node, nothing else, and all of it in source order, parents first:  *)
(* AbstractASTVisitorRule::apply with RecursiveASTVisitor::TraverseDecl.   *)
(***************************************************************************)
Root(u, d) == Item(units[u].decls[d].tree, u, d, <<>>)
IsRoot(item) == Lawful(item) /\ item = Root(item.unit, item.decl)

ChildrenOf(item) == {Children(item)[i] : i \in 1..Len(item.node.kids)}
AllVisited == {visited[i] : i \in DOMAIN visited}

(* A node and those below it, or a node and what is to the right of it.    *)
Above(p, q) == Len(p) < Len(q) /\ \A k \in 1..Len(p) : p[k] = q[k]
LeftOf(p, q) ==
    \E k \in 1..Len(p) :
        k <= Len(q) /\ p[k] < q[k] /\ \A l \in 1..(k - 1) : p[l] = q[l]

Precedes(x, y) ==
    \/ x.unit < y.unit
    \/ x.unit = y.unit /\ x.decl < y.decl
    \/ x.unit = y.unit /\ x.decl = y.decl /\ (Above(x.path, y.path) \/ LeftOf(x.path, y.path))

EachNodeInOrder ==
    AllLanded =>
        /\ \A u \in DOMAIN units : \A d \in DOMAIN units[u].decls :
             Lawful(Root(u, d)) => Root(u, d) \in AllVisited
        /\ \A x \in AllVisited : ChildrenOf(x) \subseteq AllVisited
        /\ \A x \in AllVisited : IsRoot(x) \/ \E y \in AllVisited : x \in ChildrenOf(y)
        /\ \A i, j \in DOMAIN visited : i < j => Precedes(visited[i], visited[j])
=============================================================================
