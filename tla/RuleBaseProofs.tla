--------------------------- MODULE RuleBaseProofs ---------------------------
(***************************************************************************)
(* What the walk of a rule over its units guarantees, for every set of     *)
(* units and every shape of their trees: it stays in the main files of the *)
(* languages the rule supports, and visits no node twice.                  *)
(***************************************************************************)
EXTENDS LimitRules, SequenceTheorems, TLAPS

Items == [node : Nodes, unit : Nat, decl : Nat, path : Seq(Nat)]

(* The path p leads to the node at q or to an ancestor of it.              *)
Prefix(p, q) == Len(p) <= Len(q) /\ \A k \in 1..Len(p) : p[k] = q[k]

(* y is the node of x or one of its descendants.                           *)
Below(x, y) == x.unit = y.unit /\ x.decl = y.decl /\ Prefix(x.path, y.path)

(* The traversal of x has begun.                                           *)
Begun(x) == x.unit < unit \/ (x.unit = unit /\ pc = "flying" /\ x.decl < at)

(* What the stack of the traversal keeps true.                             *)
Stacked ==
    /\ todo \in Seq(Items)
    /\ visited \in Seq(Items)
    /\ todo # <<>> => pc = "flying"

AllBegun ==
    /\ \A i \in DOMAIN todo : Begun(todo[i])
    /\ \A i \in DOMAIN visited : Begun(visited[i])

AllLawful ==
    /\ \A i \in DOMAIN todo : Lawful(todo[i])
    /\ OnlyTheMainFile

NothingIsBehind ==
    \A i \in DOMAIN todo, j \in DOMAIN visited : ~Below(todo[i], visited[j])

NoneBelowAnother ==
    \A i, j \in DOMAIN todo : i # j => ~Below(todo[i], todo[j])

Flies == pc = "flying" =>
    /\ unit \in DOMAIN units
    /\ IsLanguageSupported(units[unit].lang)

IInv ==
    /\ WalkTypeOK
    /\ Stacked
    /\ Flies
    /\ AllBegun
    /\ AllLawful
    /\ NothingIsBehind
    /\ NoneBelowAnother
    /\ NoNodeTwice

(* The units of a history, and the declarations of a unit, are sequences.  *)
LEMMA UnitTypes ==
    ASSUME WalkTypeOK
    PROVE  /\ units \in Seq([lang : SUBSET LangOpts, decls : Seq(TopLevelDecls)])
           /\ Len(units) \in Nat
           /\ DOMAIN units = 1..Len(units)
           /\ \A u \in DOMAIN units :
                /\ units[u].decls \in Seq(TopLevelDecls)
                /\ DOMAIN units[u].decls = 1..Len(units[u].decls)
                /\ \A d \in DOMAIN units[u].decls : units[u].decls[d].tree \in Nodes
<1> DEFINE U == [lang : SUBSET LangOpts, decls : Seq(TopLevelDecls)]
<1>1. units \in Seq(U)
  BY TreeAssumption DEF WalkTypeOK
<1>2. Len(units) \in Nat /\ DOMAIN units = 1..Len(units)
  BY <1>1, LenProperties
<1>3. ASSUME NEW u \in DOMAIN units
      PROVE  /\ units[u].decls \in Seq(TopLevelDecls)
             /\ DOMAIN units[u].decls = 1..Len(units[u].decls)
             /\ \A d \in DOMAIN units[u].decls : units[u].decls[d].tree \in Nodes
  <2>1. units[u] \in U
    BY <1>1, <1>2, <1>3, ElementOfSeq
  <2>2. units[u].decls \in Seq(TopLevelDecls)
    BY <2>1
  <2>3. DOMAIN units[u].decls = 1..Len(units[u].decls)
    BY <2>2, LenProperties
  <2>4. ASSUME NEW d \in DOMAIN units[u].decls
        PROVE  units[u].decls[d].tree \in Nodes
    <3>1. units[u].decls[d] \in TopLevelDecls
      BY <2>2, <2>3, <2>4, ElementOfSeq
    <3>2. QED
      BY <3>1 DEF TopLevelDecls
  <2>5. QED
    BY <2>2, <2>3, <2>4
<1>4. QED
  BY <1>1, <1>2, <1>3

(* The children of an item are items, one step below it.                   *)
LEMMA ChildTypes ==
    ASSUME NEW h \in Items
    PROVE  /\ Len(h.node.kids) \in Nat
           /\ Children(h) \in Seq(Items)
           /\ Len(Children(h)) = Len(h.node.kids)
           /\ \A i \in 1..Len(h.node.kids) :
                /\ Children(h)[i].unit = h.unit
                /\ Children(h)[i].decl = h.decl
                /\ Children(h)[i].path \in Seq(Nat)
                /\ Len(Children(h)[i].path) = Len(h.path) + 1
                /\ \A k \in 1..Len(h.path) : Children(h)[i].path[k] = h.path[k]
                /\ Children(h)[i].path[Len(h.path) + 1] = i
<1> DEFINE n == Len(h.node.kids)
           C == Children(h)
<1>1. h.node.kids \in Seq(Nodes)
  BY TreeAssumption DEF Items
<1>2. n \in Nat /\ DOMAIN h.node.kids = 1..n
  BY <1>1, LenProperties
<1>3. ASSUME NEW i \in 1..n
      PROVE  /\ C[i] \in Items
             /\ C[i].unit = h.unit
             /\ C[i].decl = h.decl
             /\ C[i].path = Append(h.path, i)
  <2>1. h.node.kids[i] \in Nodes
    BY <1>1, ElementOfSeq
  <2>2. C[i] = [h EXCEPT !.node = h.node.kids[i], !.path = Append(h.path, i)]
    BY <1>2 DEF Children
  <2>3. i \in Nat
    BY <1>2
  <2>4. Append(h.path, i) \in Seq(Nat)
    BY <2>3 DEF Items
  <2>5. QED
    BY <2>1, <2>2, <2>4 DEF Items
<1>4. DOMAIN C = 1..n
  BY DEF Children
<1>5. C \in [1..n -> Items]
  BY <1>3 DEF Children
<1>6. C \in Seq(Items) /\ Len(C) = n
  <2>1. C \in Seq(Items)
    BY <1>2, <1>5, SeqDef
  <2>2. QED
    BY <1>2, <1>4, <2>1, LenProperties
<1>7. ASSUME NEW i \in 1..n
      PROVE  /\ C[i].path \in Seq(Nat)
             /\ Len(C[i].path) = Len(h.path) + 1
             /\ \A k \in 1..Len(h.path) : C[i].path[k] = h.path[k]
             /\ C[i].path[Len(h.path) + 1] = i
  <2>1. h.path \in Seq(Nat) /\ i \in Nat
    BY <1>2 DEF Items
  <2>2. /\ Append(h.path, i) \in Seq(Nat)
        /\ Len(Append(h.path, i)) = Len(h.path) + 1
        /\ \A k \in 1..Len(h.path) : Append(h.path, i)[k] = h.path[k]
        /\ Append(h.path, i)[Len(h.path) + 1] = i
    BY <2>1, AppendProperties
  <2> HIDE DEF C
  <2>3. C[i].path = Append(h.path, i)
    BY <1>3
  <2>4. QED
    BY <2>2, <2>3
<1>8. QED
  BY <1>2, <1>3, <1>6, <1>7

(* Of what the stack consists after its first item is expanded.            *)
LEMMA Expanded ==
    ASSUME todo \in Seq(Items), todo # <<>>
    PROVE  LET h == Head(todo)
               s == Children(h) \o Tail(todo)
               n == Len(h.node.kids)
           IN /\ h \in Items
              /\ h = todo[1]
              /\ 1 \in DOMAIN todo
              /\ s \in Seq(Items)
              /\ n \in Nat
              /\ \A i \in DOMAIN s :
                   \/ i \in 1..n /\ s[i] = Children(h)[i]
                   \/ /\ i > n
                      /\ i - n + 1 \in DOMAIN todo
                      /\ i - n + 1 # 1
                      /\ s[i] = todo[i - n + 1]
<1> DEFINE h == Head(todo)
           T == Tail(todo)
           C == Children(h)
           n == Len(h.node.kids)
           s == C \o T
<1>1. h \in Items /\ T \in Seq(Items) /\ Len(T) = Len(todo) - 1
      /\ \A i \in 1..Len(T) : T[i] = todo[i + 1]
  BY HeadTailProperties
<1>2. Len(todo) \in Nat \ {0} /\ DOMAIN todo = 1..Len(todo)
  BY EmptySeq, LenProperties
<1>3. h = todo[1]
  BY <1>2
<1>4. C \in Seq(Items) /\ Len(C) = n /\ n \in Nat
  BY <1>1, ChildTypes
<1>5. /\ s \in Seq(Items)
      /\ Len(s) = n + Len(T)
      /\ \A i \in 1..n + Len(T) : s[i] = IF i <= n THEN C[i] ELSE T[i - n]
  <2> HIDE DEF C, T, n
  <2>1. QED
    BY <1>1, <1>4, ConcatProperties
<1>6. DOMAIN s = 1..Len(s)
  BY <1>5, LenProperties
<1>7. ASSUME NEW i \in DOMAIN s
      PROVE  \/ i \in 1..n /\ s[i] = C[i]
             \/ /\ i > n
                /\ i - n + 1 \in DOMAIN todo
                /\ i - n + 1 # 1
                /\ s[i] = todo[i - n + 1]
  <2> HIDE DEF C, T, n, s
  <2>1. i \in 1..n + Len(T)
    BY <1>5, <1>6, <1>7
  <2>2. CASE i <= n
    BY <1>4, <1>5, <2>1, <2>2
  <2>3. CASE i > n
    <3>1. i - n \in 1..Len(T)
      BY <1>1, <1>2, <1>4, <2>1, <2>3
    <3>2. s[i] = T[i - n]
      BY <1>1, <1>2, <1>4, <1>5, <2>1, <2>3
    <3>3. T[i - n] = todo[i - n + 1]
      BY <1>1, <3>1
    <3>4. QED
      BY <1>1, <1>2, <1>4, <2>1, <2>3, <3>1, <3>2, <3>3
  <2>4. QED
    BY <1>1, <1>2, <1>4, <2>1, <2>2, <2>3
<1>8. QED
  BY <1>1, <1>2, <1>3, <1>4, <1>5, <1>7

(* How a child lies relative to its parent, a sibling and any other item.  *)
LEMMA ChildBelow ==
    ASSUME NEW h \in Items, NEW i \in 1..Len(h.node.kids)
    PROVE  LET c == Children(h)[i]
           IN /\ ~Below(c, h)
              /\ \A y \in Items : Below(c, y) => Below(h, y)
              /\ \A y \in Items : Below(y, c) => Below(y, h) \/ Below(h, y)
              /\ \A j \in 1..Len(h.node.kids) : i # j => ~Below(c, Children(h)[j])
<1> DEFINE C == Children(h)
           n == Len(h.node.kids)
           l == Len(h.path)
<1>1. \A k \in 1..n :
        /\ C[k].unit = h.unit
        /\ C[k].decl = h.decl
        /\ C[k].path \in Seq(Nat)
        /\ Len(C[k].path) = l + 1
        /\ \A m \in 1..l : C[k].path[m] = h.path[m]
        /\ C[k].path[l + 1] = k
  BY ChildTypes
<1>2. n \in Nat /\ l \in Nat
  BY ChildTypes, LenProperties DEF Items
<1> HIDE DEF C, n
<1>3. ~Below(C[i], h)
  BY <1>1, <1>2 DEF Below, Prefix, n
<1>4. ASSUME NEW y \in Items, Below(C[i], y)
      PROVE  Below(h, y)
  <2>1. Len(y.path) \in Nat
    BY LenProperties DEF Items
  <2>2. C[i].unit = h.unit /\ C[i].decl = h.decl /\ Len(C[i].path) = l + 1
        /\ \A m \in 1..l : C[i].path[m] = h.path[m]
    BY <1>1 DEF n
  <2>3. QED
    BY <1>2, <1>4, <2>1, <2>2 DEF Below, Prefix
<1>5. ASSUME NEW y \in Items, Below(y, C[i])
      PROVE  Below(y, h) \/ Below(h, y)
  <2>1. Len(y.path) \in Nat
    BY LenProperties DEF Items
  <2>2. C[i].unit = h.unit /\ C[i].decl = h.decl /\ Len(C[i].path) = l + 1
        /\ \A m \in 1..l : C[i].path[m] = h.path[m]
    BY <1>1 DEF n
  <2>3. CASE Len(y.path) <= l
    BY <1>2, <1>5, <2>1, <2>2, <2>3 DEF Below, Prefix
  <2>4. CASE Len(y.path) = l + 1
    BY <1>2, <1>5, <2>1, <2>2, <2>4 DEF Below, Prefix
  <2>5. QED
    BY <1>2, <1>5, <2>1, <2>2, <2>3, <2>4 DEF Below, Prefix
<1>6. ASSUME NEW j \in 1..n, i # j, Below(C[i], C[j])
      PROVE  FALSE
  <2>1. C[i].path[l + 1] = i /\ C[j].path[l + 1] = j /\ Len(C[i].path) = l + 1
    BY <1>1, <1>6 DEF n
  <2>2. l + 1 \in 1..Len(C[i].path)
    BY <1>2, <2>1
  <2>3. C[i].path[l + 1] = C[j].path[l + 1]
    BY <1>6, <2>2 DEF Below, Prefix
  <2>4. QED
    BY <1>6, <2>1, <2>3
<1>7. QED
  BY <1>3, <1>4, <1>5, <1>6 DEF C, n

LEMMA BelowItself == ASSUME NEW x \in Items PROVE Below(x, x)
<1>1. Len(x.path) \in Nat
  BY LenProperties DEF Items
<1>2. QED
  BY <1>1 DEF Below, Prefix

LEMMA InitInv == WalkInit => IInv
<1> SUFFICES ASSUME WalkInit PROVE IInv
  OBVIOUS
<1>1. todo = <<>> /\ visited = <<>> /\ DOMAIN todo = {} /\ DOMAIN visited = {}
  BY DEF WalkInit
<1>2. Len(units) \in Nat
  BY TreeAssumption, LenProperties DEF WalkInit
<1>3. WalkTypeOK
  BY <1>2 DEF WalkTypeOK, WalkInit
<1>4. Stacked /\ Flies
  BY <1>1 DEF Stacked, Flies, WalkInit
<1>5. AllBegun /\ AllLawful /\ NothingIsBehind /\ NoneBelowAnother /\ NoNodeTwice
  BY <1>1 DEF AllBegun, AllLawful, OnlyTheMainFile, NothingIsBehind, NoneBelowAnother, NoNodeTwice
<1>6. QED
  BY <1>3, <1>4, <1>5 DEF IInv

(* The steps between two traversals leave the nodes alone.                 *)
LEMMA NodesAlone ==
    ASSUME IInv, UNCHANGED <<rule, units, todo, visited>>,
           \A x \in Items : Begun(x) => Begun(x)',
           WalkTypeOK', Flies', todo = <<>>
    PROVE  IInv'
<1>1. Stacked'
  BY DEF IInv, Stacked
<1>2. AllBegun'
  <2>1. visited \in Seq(Items) /\ DOMAIN visited = 1..Len(visited)
    BY LenProperties DEF IInv, Stacked
  <2>2. \A i \in DOMAIN visited : visited[i] \in Items /\ Begun(visited[i])
    BY <2>1, ElementOfSeq DEF IInv, AllBegun
  <2>3. \A i \in DOMAIN visited : Begun(visited[i])'
    BY <2>2 DEF Begun
  <2>4. DOMAIN todo = {}
    OBVIOUS
  <2>5. QED
    BY <2>3, <2>4 DEF AllBegun
<1>3. AllLawful'
  BY DEF IInv, AllLawful, OnlyTheMainFile, Lawful, IsLanguageSupported
<1>4. NothingIsBehind' /\ NoneBelowAnother' /\ NoNodeTwice'
  BY DEF IInv, NothingIsBehind, NoneBelowAnother, NoNodeTwice, Below, Prefix
<1>5. QED
  BY <1>1, <1>2, <1>3, <1>4 DEF IInv

LEMMA RefuseStep == IInv /\ Refuse => IInv'
<1> SUFFICES ASSUME IInv, Refuse PROVE IInv'
  OBVIOUS
<1>1. todo = <<>> /\ unit \in Nat /\ unit' = unit + 1
  BY UnitTypes DEF IInv, Stacked, Refuse, WalkTypeOK
<1>2. WalkTypeOK'
  BY UnitTypes DEF IInv, WalkTypeOK, Refuse
<1>3. Flies'
  BY DEF Flies, Refuse
<1>4. \A x \in Items : Begun(x) => Begun(x)'
  BY <1>1 DEF Begun, Refuse, Items
<1>5. QED
  BY <1>1, <1>2, <1>3, <1>4, NodesAlone DEF Refuse

LEMMA SetUpStep == IInv /\ SetUp => IInv'
<1> SUFFICES ASSUME IInv, SetUp PROVE IInv'
  OBVIOUS
<1>1. todo = <<>> /\ unit \in 1..Len(units)
  BY UnitTypes DEF IInv, Stacked, SetUp, WalkTypeOK
<1>2. WalkTypeOK'
  BY DEF IInv, WalkTypeOK, SetUp
<1>3. Flies'
  BY <1>1, UnitTypes DEF IInv, Flies, SetUp, IsLanguageSupported
<1>4. \A x \in Items : Begun(x) => Begun(x)'
  BY <1>1 DEF Begun, SetUp, Items
<1>5. QED
  BY <1>1, <1>2, <1>3, <1>4, NodesAlone DEF SetUp

LEMMA SkipDeclStep == IInv /\ SkipDecl => IInv'
<1> SUFFICES ASSUME IInv, SkipDecl PROVE IInv'
  OBVIOUS
<1>1. todo = <<>> /\ at \in Nat \ {0} /\ at' = at + 1
  BY DEF IInv, Between, SkipDecl, WalkTypeOK
<1>2. WalkTypeOK'
  BY <1>1 DEF IInv, WalkTypeOK, SkipDecl
<1>3. Flies'
  BY DEF IInv, Flies, SkipDecl, IsLanguageSupported
<1>4. \A x \in Items : Begun(x) => Begun(x)'
  BY <1>1 DEF Begun, SkipDecl, Items
<1>5. QED
  BY <1>1, <1>2, <1>3, <1>4, NodesAlone DEF SkipDecl

LEMMA TearDownStep == IInv /\ TearDown => IInv'
<1> SUFFICES ASSUME IInv, TearDown PROVE IInv'
  OBVIOUS
<1>1. todo = <<>> /\ pc = "flying" /\ unit' = unit + 1
  BY DEF Between, TearDown
<1>2. unit \in 1..Len(units) /\ Len(units) \in Nat
  BY <1>1, UnitTypes DEF IInv, Flies
<1>3. WalkTypeOK'
  BY <1>1, <1>2 DEF IInv, WalkTypeOK, TearDown
<1>4. Flies'
  BY DEF Flies, TearDown
<1>5. \A x \in Items : Begun(x) => Begun(x)'
  BY <1>1, <1>2 DEF Begun, TearDown, Items
<1>6. QED
  BY <1>1, <1>3, <1>4, <1>5, NodesAlone DEF TearDown

(* A traversal begins: its root is of no declaration seen before.          *)
LEMMA TraverseDeclStep == IInv /\ TraverseDecl => IInv'
<1> SUFFICES ASSUME IInv, TraverseDecl PROVE IInv'
  OBVIOUS
<1> DEFINE root == Item(Decls[at].tree, unit, at, <<>>)
<1>1. pc = "flying" /\ unit \in DOMAIN units /\ IsLanguageSupported(units[unit].lang)
  BY DEF IInv, Flies, TraverseDecl, Between
<1>2. unit \in Nat /\ at \in Nat \ {0}
  BY UnitTypes DEF IInv, WalkTypeOK
<1>3. Len(units[unit].decls) \in Nat
  BY <1>1, UnitTypes, LenProperties DEF IInv
<1>4. at \in DOMAIN units[unit].decls
  BY <1>1, <1>2, <1>3, UnitTypes DEF TraverseDecl, Decls, IInv
<1>5. root \in Items
  BY <1>1, <1>2, <1>4, UnitTypes DEF Item, Items, Decls, IInv
<1>6. todo' = <<root>> /\ visited' = visited /\ units' = units /\ unit' = unit
      /\ rule' = rule /\ at' = at + 1 /\ pc' = pc
  BY DEF TraverseDecl
<1>7. root.unit = unit /\ root.decl = at
  BY DEF Item
<1>8. Lawful(root)
  BY <1>1, <1>4, <1>7 DEF Lawful, TraverseDecl, Decls
<1> HIDE DEF root
<1>9. todo' \in Seq(Items) /\ DOMAIN todo' = {1} /\ todo'[1] = root
  BY <1>5, <1>6
<1>10. WalkTypeOK'
  BY <1>2, <1>6 DEF IInv, WalkTypeOK
<1>11. Stacked' /\ Flies'
  BY <1>1, <1>6, <1>9 DEF IInv, Stacked, Flies, IsLanguageSupported
<1>12. visited \in Seq(Items) /\ \A i \in DOMAIN visited : visited[i] \in Items /\ Begun(visited[i])
  BY LenProperties, ElementOfSeq DEF IInv, Stacked, AllBegun
<1>13. AllBegun'
  <2>1. \A x \in Items : Begun(x) => x.unit < unit \/ (x.unit = unit /\ pc = "flying" /\ x.decl < at + 1)
    BY <1>2 DEF Begun, Items
  <2>2. \A i \in DOMAIN visited' : Begun(visited[i])'
    BY <1>6, <1>12, <2>1 DEF Begun
  <2>3. \A i \in DOMAIN todo' : Begun(todo[i])'
    BY <1>1, <1>2, <1>6, <1>7, <1>9 DEF Begun
  <2>4. QED
    BY <2>2, <2>3 DEF AllBegun
<1>14. AllLawful'
  BY <1>6, <1>8, <1>9 DEF IInv, AllLawful, OnlyTheMainFile, Lawful, IsLanguageSupported
<1>15. NothingIsBehind'
  <2>1. \A j \in DOMAIN visited : ~Below(root, visited[j])
    <3>1. \A x \in Items : Begun(x) => x.unit # unit \/ x.decl # at
      BY <1>2 DEF Begun, Items
    <3>2. QED
      BY <1>7, <1>12, <3>1 DEF Below
  <2>2. QED
    BY <1>6, <1>9, <2>1 DEF NothingIsBehind, Below, Prefix
<1>16. NoneBelowAnother' /\ NoNodeTwice'
  BY <1>6, <1>9 DEF IInv, NoneBelowAnother, NoNodeTwice
<1>17. QED
  BY <1>10, <1>11, <1>13, <1>14, <1>15, <1>16 DEF IInv

(* A node is visited: its children take its place on the stack.            *)
LEMMA VisitNodeStep == IInv /\ VisitNode => IInv'
<1> SUFFICES ASSUME IInv, VisitNode PROVE IInv'
  OBVIOUS
<1> DEFINE h == Head(todo)
           n == Len(h.node.kids)
<1>1. todo \in Seq(Items) /\ todo # <<>> /\ visited \in Seq(Items) /\ pc = "flying"
  BY DEF IInv, Stacked, VisitNode
<1>2. h \in Items /\ h = todo[1] /\ 1 \in DOMAIN todo /\ n \in Nat
  BY <1>1, Expanded
<1>3. /\ todo' \in Seq(Items)
      /\ \A i \in DOMAIN todo' :
           \/ i \in 1..n /\ todo'[i] = Children(h)[i]
           \/ /\ i > n
              /\ i - n + 1 \in DOMAIN todo
              /\ i - n + 1 # 1
              /\ todo'[i] = todo[i - n + 1]
  BY <1>1, Expanded DEF VisitNode
<1>4. visited' \in Seq(Items) /\ DOMAIN visited' = DOMAIN visited \cup {Len(visited) + 1}
      /\ Len(visited) \in Nat /\ DOMAIN visited = 1..Len(visited)
      /\ (\A j \in DOMAIN visited : visited'[j] = visited[j])
      /\ visited'[Len(visited) + 1] = h
  <2>1. visited' = Append(visited, h)
    BY DEF VisitNode
  <2>2. Len(visited) \in Nat /\ DOMAIN visited = 1..Len(visited)
    BY <1>1, LenProperties
  <2>3. visited' \in Seq(Items) /\ Len(visited') = Len(visited) + 1
        /\ (\A j \in 1..Len(visited) : visited'[j] = visited[j])
        /\ visited'[Len(visited) + 1] = h
    BY <1>1, <1>2, <2>1, AppendProperties
  <2>4. DOMAIN visited' = 1..Len(visited) + 1
    BY <2>3, LenProperties
  <2>5. QED
    BY <2>2, <2>3, <2>4
<1>5. \A i \in 1..n : Children(h)[i].unit = h.unit /\ Children(h)[i].decl = h.decl
  BY <1>2, ChildTypes
<1>6. (\A i \in DOMAIN todo : todo[i] \in Items) /\ (\A j \in DOMAIN visited : visited[j] \in Items)
      /\ DOMAIN todo = 1..Len(todo) /\ Len(todo) \in Nat
  BY <1>1, ElementOfSeq, LenProperties
<1>7. UNCHANGED <<rule, units, unit, pc, at>>
  BY DEF VisitNode
<1> HIDE DEF h, n
<1>8. WalkTypeOK' /\ Flies' /\ Stacked'
  BY <1>1, <1>3, <1>4, <1>7 DEF IInv, WalkTypeOK, Flies, Stacked, IsLanguageSupported
<1>9. AllBegun'
  <2>1. \A i \in DOMAIN todo' : Begun(todo'[i])
    BY <1>2, <1>3, <1>5 DEF IInv, AllBegun, Begun
  <2>2. \A i \in DOMAIN visited' : Begun(visited'[i])
    BY <1>2, <1>4 DEF IInv, AllBegun
  <2>3. QED
    BY <1>7, <2>1, <2>2 DEF AllBegun, Begun
<1>10. AllLawful'
  <2>1. \A i \in DOMAIN todo' : Lawful(todo'[i])
    BY <1>2, <1>3, <1>5 DEF IInv, AllLawful, Lawful
  <2>2. \A i \in DOMAIN visited' : Lawful(visited'[i])
    BY <1>2, <1>4 DEF IInv, AllLawful, OnlyTheMainFile
  <2>3. QED
    BY <1>7, <2>1, <2>2 DEF AllLawful, OnlyTheMainFile, Lawful, IsLanguageSupported
<1>11. NothingIsBehind'
  <2>1. ASSUME NEW i \in DOMAIN todo', NEW j \in DOMAIN visited'
        PROVE  ~Below(todo'[i], visited'[j])
    <3>1. CASE i \in 1..n /\ todo'[i] = Children(h)[i]
      <4>1. ~Below(Children(h)[i], h)
            /\ \A y \in Items : Below(Children(h)[i], y) => Below(h, y)
        BY <1>2, <3>1, ChildBelow DEF n
      <4>2. \A k \in DOMAIN visited : ~Below(h, visited[k])
        BY <1>2 DEF IInv, NothingIsBehind
      <4>3. QED
        BY <1>4, <1>6, <2>1, <3>1, <4>1, <4>2
    <3>2. CASE i - n + 1 \in DOMAIN todo /\ i - n + 1 # 1 /\ todo'[i] = todo[i - n + 1]
      BY <1>2, <1>4, <2>1, <3>2 DEF IInv, NothingIsBehind, NoneBelowAnother
    <3>3. QED
      BY <1>3, <2>1, <3>1, <3>2
  <2>2. QED
    BY <2>1 DEF NothingIsBehind, Below, Prefix
<1>12. NoneBelowAnother'
  <2>1. ASSUME NEW i \in DOMAIN todo', NEW j \in DOMAIN todo', i # j
        PROVE  ~Below(todo'[i], todo'[j])
    <3>1. \A k \in DOMAIN todo : k # 1 => ~Below(h, todo[k]) /\ ~Below(todo[k], h)
      BY <1>2 DEF IInv, NoneBelowAnother
    <3>2. \A k \in 1..n :
            /\ \A y \in Items : Below(Children(h)[k], y) => Below(h, y)
            /\ \A y \in Items : Below(y, Children(h)[k]) => Below(y, h) \/ Below(h, y)
            /\ \A m \in 1..n : k # m => ~Below(Children(h)[k], Children(h)[m])
      BY <1>2, ChildBelow DEF n
    <3>3. CASE /\ i \in 1..n /\ todo'[i] = Children(h)[i]
               /\ j \in 1..n /\ todo'[j] = Children(h)[j]
      BY <2>1, <3>2, <3>3
    <3>4. CASE /\ i \in 1..n /\ todo'[i] = Children(h)[i]
               /\ j - n + 1 \in DOMAIN todo /\ j - n + 1 # 1 /\ todo'[j] = todo[j - n + 1]
      BY <1>6, <3>1, <3>2, <3>4
    <3>5. CASE /\ j \in 1..n /\ todo'[j] = Children(h)[j]
               /\ i - n + 1 \in DOMAIN todo /\ i - n + 1 # 1 /\ todo'[i] = todo[i - n + 1]
      BY <1>6, <3>1, <3>2, <3>5
    <3>6. CASE /\ i - n + 1 \in DOMAIN todo /\ i - n + 1 # 1 /\ todo'[i] = todo[i - n + 1]
               /\ j - n + 1 \in DOMAIN todo /\ j - n + 1 # 1 /\ todo'[j] = todo[j - n + 1]
      <4>1. i \in Int /\ j \in Int
        BY <1>3, LenProperties
      <4>2. i - n + 1 # j - n + 1
        BY <1>2, <2>1, <4>1
      <4>3. QED
        BY <3>6, <4>2 DEF IInv, NoneBelowAnother
    <3>7. QED
      BY <1>3, <2>1, <3>3, <3>4, <3>5, <3>6
  <2>2. QED
    BY <2>1 DEF NoneBelowAnother, Below, Prefix
<1>13. NoNodeTwice'
  <2>1. \A k \in DOMAIN visited : visited[k] # h
    BY <1>2, BelowItself DEF IInv, NothingIsBehind
  <2>2. QED
    BY <1>4, <2>1 DEF IInv, NoNodeTwice
<1>14. QED
  BY <1>8, <1>9, <1>10, <1>11, <1>12, <1>13 DEF IInv

LEMMA StepInv == IInv /\ [Step \/ Landed]_walk => IInv'
<1> SUFFICES ASSUME IInv, [Step \/ Landed]_walk PROVE IInv'
  OBVIOUS
<1>1. CASE UNCHANGED walk
  BY <1>1 DEF walk, IInv, WalkTypeOK, Stacked, Flies, AllBegun, Begun, AllLawful, OnlyTheMainFile,
     Lawful, IsLanguageSupported, NothingIsBehind, NoneBelowAnother, Below, Prefix, NoNodeTwice
<1>2. CASE Step
  BY <1>2, RefuseStep, SetUpStep, SkipDeclStep, TraverseDeclStep, VisitNodeStep, TearDownStep DEF Step
<1>3. QED
  BY <1>1, <1>2 DEF Landed

(***************************************************************************)
(* The theorems of the walk.                                               *)
(***************************************************************************)
LEMMA WalkInvariant == WalkSpec => []IInv
  BY InitInv, StepInv, PTL DEF WalkSpec

(* The variables of apply and of its loops keep their types.               *)
THEOREM WalkTypes == WalkSpec => []WalkTypeOK
<1>1. IInv => WalkTypeOK
  BY DEF IInv
<1>2. QED
  BY <1>1, WalkInvariant, PTL

(* apply visits nothing of a header, and nothing of a unit whose language  *)
(* the rule does not support.                                              *)
THEOREM OnlyMainFilesAreWalked == WalkSpec => []OnlyTheMainFile
<1>1. IInv => OnlyTheMainFile
  BY DEF IInv, AllLawful
<1>2. QED
  BY <1>1, WalkInvariant, PTL

(* apply and the traversal never come back to a node.                      *)
THEOREM NodesAreVisitedOnce == WalkSpec => []NoNodeTwice
<1>1. IInv => NoNodeTwice
  BY DEF IInv
<1>2. QED
  BY <1>1, WalkInvariant, PTL

-----------------------------------------------------------------------------
(***************************************************************************)
(* That nothing is missed.  Outstanding are the nodes a traversal still    *)
(* has to visit: they come after every visited one, and with them every    *)
(* declaration that was begun is there with all its nodes.                 *)
(***************************************************************************)
Outstanding == {todo[i] : i \in DOMAIN todo}

Sorted ==
    /\ \A i, j \in DOMAIN visited : i < j => Precedes(visited[i], visited[j])
    /\ \A i \in DOMAIN visited, j \in DOMAIN todo : Precedes(visited[i], todo[j])
    /\ \A i, j \in DOMAIN todo : i < j => Precedes(todo[i], todo[j])

Descended ==
    \A x \in AllVisited \cup Outstanding :
        IsRoot(x) \/ \E y \in AllVisited : x \in ChildrenOf(y)

NoneMissed ==
    /\ \A u \in DOMAIN units : \A d \in DOMAIN units[u].decls :
         Lawful(Root(u, d)) /\ Begun(Root(u, d)) => Root(u, d) \in AllVisited \cup Outstanding
    /\ \A x \in AllVisited : ChildrenOf(x) \subseteq AllVisited \cup Outstanding

OInv == IInv /\ Sorted /\ Descended /\ NoneMissed

(* A node comes before its children, and they are in their order.          *)
LEMMA ChildPrecedes ==
    ASSUME NEW h \in Items, NEW i \in 1..Len(h.node.kids)
    PROVE  LET c == Children(h)[i]
           IN /\ Precedes(h, c)
              /\ \A x \in Items : Precedes(x, h) => Precedes(x, c)
              /\ \A y \in Items : Precedes(h, y) /\ ~Below(h, y) => Precedes(c, y)
              /\ \A j \in 1..Len(h.node.kids) : i < j => Precedes(c, Children(h)[j])
<1> DEFINE C == Children(h)
           n == Len(h.node.kids)
           l == Len(h.path)
<1>1. \A k \in 1..n :
        /\ C[k].unit = h.unit
        /\ C[k].decl = h.decl
        /\ C[k].path \in Seq(Nat)
        /\ Len(C[k].path) = l + 1
        /\ \A m \in 1..l : C[k].path[m] = h.path[m]
        /\ C[k].path[l + 1] = k
  BY ChildTypes
<1>2. n \in Nat /\ l \in Nat /\ h.unit \in Nat /\ h.decl \in Nat
  BY ChildTypes, LenProperties DEF Items
<1> HIDE DEF C, n
<1>3. C[i].unit = h.unit /\ C[i].decl = h.decl /\ Len(C[i].path) = l + 1
      /\ (\A m \in 1..l : C[i].path[m] = h.path[m]) /\ C[i].path[l + 1] = i
  BY <1>1 DEF n
<1> DEFINE c == C[i]
<1> HIDE DEF c
<1>4. Above(h.path, c.path)
  BY <1>2, <1>3 DEF Above, c
<1>5. Precedes(h, c)
  BY <1>3, <1>4 DEF Precedes, c
<1>6. ASSUME NEW x \in Items, Precedes(x, h)
      PROVE  Precedes(x, c)
  <2>1. Len(x.path) \in Nat
    BY LenProperties DEF Items
  <2>2. Above(x.path, h.path) => Above(x.path, c.path)
    BY <1>2, <1>3, <2>1 DEF Above, c
  <2>3. ASSUME LeftOf(x.path, h.path) PROVE LeftOf(x.path, c.path)
    <3>1. PICK k \in 1..Len(x.path) :
            k <= l /\ x.path[k] < h.path[k] /\ \A m \in 1..(k - 1) : x.path[m] = h.path[m]
      BY <2>3 DEF LeftOf
    <3>2. k \in 1..l /\ \A m \in 1..(k - 1) : m \in 1..l
      BY <1>2, <2>1, <3>1
    <3>3. k <= Len(c.path) /\ x.path[k] < c.path[k] /\ \A m \in 1..(k - 1) : x.path[m] = c.path[m]
      BY <1>2, <1>3, <3>1, <3>2 DEF c
    <3> QED
      BY <3>3 DEF LeftOf
  <2> QED
    BY <1>3, <1>6, <2>2, <2>3 DEF Precedes, c
<1>7. ASSUME NEW y \in Items, Precedes(h, y), ~Below(h, y)
      PROVE  Precedes(c, y)
  <2>1. Len(y.path) \in Nat
    BY LenProperties DEF Items
  <2>2. ~(h.unit = y.unit /\ h.decl = y.decl /\ Above(h.path, y.path))
    BY <1>2, <1>7, <2>1 DEF Below, Prefix, Above
  <2>3. ASSUME LeftOf(h.path, y.path) PROVE LeftOf(c.path, y.path)
    <3>1. PICK k \in 1..l :
            k <= Len(y.path) /\ h.path[k] < y.path[k] /\ \A m \in 1..(k - 1) : h.path[m] = y.path[m]
      BY <2>3 DEF LeftOf
    <3>2. k \in 1..Len(c.path) /\ \A m \in 1..(k - 1) : m \in 1..l
      BY <1>2, <1>3, <3>1 DEF c
    <3>3. k <= Len(y.path) /\ c.path[k] < y.path[k] /\ \A m \in 1..(k - 1) : c.path[m] = y.path[m]
      BY <1>2, <1>3, <3>1, <3>2 DEF c
    <3> QED
      BY <3>2, <3>3 DEF LeftOf
  <2> QED
    BY <1>3, <1>7, <2>2, <2>3 DEF Precedes, c
<1>8. ASSUME NEW j \in 1..n, i < j
      PROVE  Precedes(c, C[j])
  <2>1. C[j].unit = h.unit /\ C[j].decl = h.decl /\ Len(C[j].path) = l + 1
        /\ (\A m \in 1..l : C[j].path[m] = h.path[m]) /\ C[j].path[l + 1] = j
    BY <1>1
  <2>2. l + 1 \in 1..Len(c.path) /\ l + 1 <= Len(C[j].path) /\ c.path[l + 1] < C[j].path[l + 1]
        /\ \A m \in 1..(l + 1 - 1) : c.path[m] = C[j].path[m]
    BY <1>2, <1>3, <1>8, <2>1 DEF c
  <2>3. LeftOf(c.path, C[j].path)
    BY <2>2 DEF LeftOf
  <2> QED
    BY <1>3, <2>1, <2>3 DEF Precedes, c
<1>9. QED
  BY <1>5, <1>6, <1>7, <1>8 DEF C, n, c

(* What an expansion adds to the stack, and that it drops the first only.  *)
LEMMA ExpandedItems ==
    ASSUME todo \in Seq(Items), todo # <<>>,
           todo' = Children(Head(todo)) \o Tail(todo)
    PROVE  /\ ChildrenOf(Head(todo)) \subseteq Outstanding'
           /\ Outstanding \subseteq Outstanding' \cup {Head(todo)}
           /\ Outstanding' \subseteq ChildrenOf(Head(todo)) \cup Outstanding
<1> DEFINE h == Head(todo)
           T == Tail(todo)
           C == Children(h)
           n == Len(h.node.kids)
<1>1. h \in Items /\ T \in Seq(Items) /\ Len(T) = Len(todo) - 1
      /\ \A i \in 1..Len(T) : T[i] = todo[i + 1]
  BY HeadTailProperties
<1>2. Len(todo) \in Nat \ {0} /\ DOMAIN todo = 1..Len(todo)
  BY EmptySeq, LenProperties
<1>3. h = todo[1]
  BY <1>2
<1>4. C \in Seq(Items) /\ Len(C) = n /\ n \in Nat
  BY <1>1, ChildTypes
<1>5. ChildrenOf(h) = {C[i] : i \in 1..n}
  BY DEF ChildrenOf
<1> HIDE DEF h, C, T, n
<1>6. /\ todo' \in Seq(Items)
      /\ Len(todo') = n + Len(T)
      /\ \A i \in 1..n + Len(T) : todo'[i] = IF i <= n THEN C[i] ELSE T[i - n]
  <2>1. /\ C \o T \in Seq(Items)
        /\ Len(C \o T) = n + Len(T)
        /\ \A i \in 1..n + Len(T) : (C \o T)[i] = IF i <= n THEN C[i] ELSE T[i - n]
    BY <1>1, <1>4, ConcatProperties
  <2>2. todo' = C \o T
    BY DEF h, C, T
  <2> QED
    BY <2>1, <2>2
<1>7. DOMAIN todo' = 1..(n + Len(T))
  BY <1>6, LenProperties
<1>8. ASSUME NEW i \in 1..n PROVE C[i] \in Outstanding'
  <2>1. i \in 1..(n + Len(T)) /\ i <= n
    BY <1>1, <1>2, <1>4
  <2>2. todo'[i] = C[i] /\ i \in DOMAIN todo'
    BY <1>6, <1>7, <2>1
  <2> QED
    BY <2>2 DEF Outstanding
<1>9. ASSUME NEW i \in DOMAIN todo, i # 1 PROVE todo[i] \in Outstanding'
  <2>1. i - 1 \in 1..Len(T) /\ (i - 1) + 1 = i
    BY <1>1, <1>2, <1>9
  <2> DEFINE k == n + (i - 1)
  <2>2. k \in 1..(n + Len(T)) /\ ~(k <= n) /\ k - n = i - 1
    BY <1>1, <1>2, <1>4, <2>1
  <2> HIDE DEF k
  <2>3. todo'[k] = T[i - 1] /\ k \in DOMAIN todo'
    BY <1>6, <1>7, <2>2
  <2>4. T[i - 1] = todo[i]
    BY <1>1, <2>1
  <2> QED
    BY <2>3, <2>4 DEF Outstanding
<1>10. ASSUME NEW i \in DOMAIN todo' PROVE todo'[i] \in ChildrenOf(h) \cup Outstanding
  <2>1. i \in 1..(n + Len(T))
    BY <1>7
  <2>2. CASE i <= n
    <3>1. i \in 1..n
      BY <1>4, <2>1, <2>2
    <3>2. todo'[i] = C[i]
      BY <1>6, <2>1, <2>2
    <3> QED
      BY <1>5, <3>1, <3>2
  <2>3. CASE i > n
    <3>1. i - n \in 1..Len(T) /\ ~(i <= n) /\ (i - n) + 1 \in DOMAIN todo
      BY <1>1, <1>2, <1>4, <2>1, <2>3
    <3>2. todo'[i] = todo[(i - n) + 1]
      BY <1>1, <1>6, <2>1, <3>1
    <3> QED
      BY <3>1, <3>2 DEF Outstanding
  <2> QED
    BY <1>1, <1>2, <1>4, <2>1, <2>2, <2>3
<1>11. QED
  BY <1>3, <1>5, <1>8, <1>9, <1>10 DEF Outstanding, h

LEMMA InitOrder == WalkInit => Sorted /\ Descended /\ NoneMissed
<1> SUFFICES ASSUME WalkInit PROVE Sorted /\ Descended /\ NoneMissed
  OBVIOUS
<1>1. todo = <<>> /\ visited = <<>> /\ DOMAIN todo = {} /\ DOMAIN visited = {}
      /\ unit = 1 /\ pc = "takeoff"
  BY DEF WalkInit
<1>2. AllVisited = {} /\ Outstanding = {}
  BY <1>1 DEF AllVisited, Outstanding
<1>3. \A u \in DOMAIN units : \A d \in DOMAIN units[u].decls : ~Begun(Root(u, d))
  <2>1. WalkTypeOK
    BY InitInv DEF IInv
  <2>2. \A u \in DOMAIN units : u \in Nat \ {0}
    BY <2>1, UnitTypes
  <2> QED
    BY <1>1, <2>2 DEF Begun, Root, Item
<1>4. QED
  BY <1>1, <1>2, <1>3 DEF Sorted, Descended, NoneMissed

(* Between two traversals only what has begun changes, and no declaration  *)
(* that the rule is to judge is passed over.                               *)
LEMMA OrderAlone ==
    ASSUME Sorted, Descended, NoneMissed, UNCHANGED <<rule, units, todo, visited>>,
           \A u \in DOMAIN units : \A d \in DOMAIN units[u].decls :
               Lawful(Root(u, d)) /\ Begun(Root(u, d))' => Begun(Root(u, d))
    PROVE  Sorted' /\ Descended' /\ NoneMissed'
<1>1. AllVisited' = AllVisited /\ Outstanding' = Outstanding
  BY DEF AllVisited, Outstanding
<1>2. /\ \A x : Lawful(x)' = Lawful(x)
      /\ \A u, d : Root(u, d)' = Root(u, d)
  BY DEF Lawful, IsLanguageSupported, Root
<1>3. Sorted'
  BY DEF Sorted
<1>4. Descended'
  BY <1>1, <1>2 DEF Descended, IsRoot
<1>5. NoneMissed'
  BY <1>1, <1>2 DEF NoneMissed
<1> QED
  BY <1>3, <1>4, <1>5

LEMMA OrderRefuse == OInv /\ Refuse => Sorted' /\ Descended' /\ NoneMissed'
<1> SUFFICES ASSUME OInv, Refuse PROVE Sorted' /\ Descended' /\ NoneMissed'
  OBVIOUS
<1>1. unit \in Nat /\ unit' = unit + 1 /\ pc = "takeoff" /\ pc' = pc /\ at' = at
      /\ ~IsLanguageSupported(units[unit].lang)
  BY UnitTypes DEF OInv, IInv, Refuse, WalkTypeOK
<1>2. ASSUME NEW u \in DOMAIN units, NEW d \in DOMAIN units[u].decls,
             Lawful(Root(u, d)), Begun(Root(u, d))'
      PROVE  Begun(Root(u, d))
  <2>1. u \in Nat /\ Root(u, d).unit = u /\ Root(u, d).decl = d /\ Root(u, d)' = Root(u, d)
    BY UnitTypes DEF OInv, IInv, Root, Item, Refuse
  <2>2. u < unit + 1
    BY <1>1, <1>2, <2>1 DEF Begun
  <2>3. u # unit
    BY <1>1, <1>2, <2>1 DEF Lawful
  <2> QED
    BY <1>1, <2>1, <2>2, <2>3 DEF Begun
<1> QED
  BY <1>2, OrderAlone DEF OInv, Refuse

LEMMA OrderSetUp == OInv /\ SetUp => Sorted' /\ Descended' /\ NoneMissed'
<1> SUFFICES ASSUME OInv, SetUp PROVE Sorted' /\ Descended' /\ NoneMissed'
  OBVIOUS
<1>1. ASSUME NEW u \in DOMAIN units, NEW d \in DOMAIN units[u].decls, Begun(Root(u, d))'
      PROVE  Begun(Root(u, d))
  <2>1. d \in Nat \ {0} /\ Root(u, d).unit = u /\ Root(u, d).decl = d /\ Root(u, d)' = Root(u, d)
    <3>1. Len(units[u].decls) \in Nat /\ DOMAIN units[u].decls = 1..Len(units[u].decls)
      BY UnitTypes, LenProperties DEF OInv, IInv
    <3> QED
      BY <3>1 DEF Root, Item, SetUp
  <2> QED
    BY <1>1, <2>1 DEF Begun, SetUp
<1> QED
  BY <1>1, OrderAlone DEF OInv, SetUp

LEMMA OrderSkipDecl == OInv /\ SkipDecl => Sorted' /\ Descended' /\ NoneMissed'
<1> SUFFICES ASSUME OInv, SkipDecl PROVE Sorted' /\ Descended' /\ NoneMissed'
  OBVIOUS
<1>1. pc = "flying" /\ pc' = pc /\ unit' = unit /\ at \in Nat \ {0} /\ at' = at + 1
      /\ ~InMainFile(units[unit].decls[at])
  BY DEF OInv, IInv, Between, SkipDecl, WalkTypeOK, Decls
<1>2. ASSUME NEW u \in DOMAIN units, NEW d \in DOMAIN units[u].decls,
             Lawful(Root(u, d)), Begun(Root(u, d))'
      PROVE  Begun(Root(u, d))
  <2>1. d \in Nat /\ Root(u, d).unit = u /\ Root(u, d).decl = d /\ Root(u, d)' = Root(u, d)
    <3>1. Len(units[u].decls) \in Nat /\ DOMAIN units[u].decls = 1..Len(units[u].decls)
      BY UnitTypes, LenProperties DEF OInv, IInv
    <3> QED
      BY <3>1 DEF Root, Item, SkipDecl
  <2>2. u < unit \/ (u = unit /\ d < at + 1)
    BY <1>1, <1>2, <2>1 DEF Begun
  <2>3. ~(u = unit /\ d = at)
    BY <1>1, <1>2, <2>1 DEF Lawful
  <2> QED
    BY <1>1, <2>1, <2>2, <2>3 DEF Begun
<1> QED
  BY <1>2, OrderAlone DEF OInv, SkipDecl

LEMMA OrderTearDown == OInv /\ TearDown => Sorted' /\ Descended' /\ NoneMissed'
<1> SUFFICES ASSUME OInv, TearDown PROVE Sorted' /\ Descended' /\ NoneMissed'
  OBVIOUS
<1>1. pc = "flying" /\ pc' = "takeoff" /\ unit' = unit + 1 /\ unit \in Nat
      /\ at > Len(units[unit].decls) /\ at \in Nat
  BY UnitTypes DEF OInv, IInv, Between, TearDown, WalkTypeOK, Decls
<1>2. ASSUME NEW u \in DOMAIN units, NEW d \in DOMAIN units[u].decls, Begun(Root(u, d))'
      PROVE  Begun(Root(u, d))
  <2>1. Len(units[u].decls) \in Nat /\ d \in 1..Len(units[u].decls) /\ u \in Nat
    BY UnitTypes, LenProperties DEF OInv, IInv
  <2>2. Root(u, d).unit = u /\ Root(u, d).decl = d /\ Root(u, d)' = Root(u, d)
    BY DEF Root, Item, TearDown
  <2>3. u < unit + 1
    BY <1>1, <1>2, <2>2 DEF Begun
  <2>4. u = unit => d < at
    BY <1>1, <2>1
  <2> QED
    BY <1>1, <2>1, <2>2, <2>3, <2>4 DEF Begun
<1> QED
  BY <1>2, OrderAlone DEF OInv, TearDown

LEMMA OrderTraverseDecl == OInv /\ TraverseDecl => Sorted' /\ Descended' /\ NoneMissed'
<1> SUFFICES ASSUME OInv, TraverseDecl PROVE Sorted' /\ Descended' /\ NoneMissed'
  OBVIOUS
<1> DEFINE root == Root(unit, at)
<1>1. pc = "flying" /\ pc' = pc /\ unit' = unit /\ at' = at + 1 /\ visited' = visited
      /\ rule' = rule /\ units' = units /\ todo = <<>> /\ todo' = <<root>>
  BY DEF TraverseDecl, Between, Root, Decls
<1>2. unit \in Nat /\ at \in Nat \ {0} /\ unit \in DOMAIN units /\ Len(units[unit].decls) \in Nat
      /\ IsLanguageSupported(units[unit].lang)
  BY <1>1, UnitTypes, LenProperties DEF OInv, IInv, WalkTypeOK, Flies
<1>3. at \in DOMAIN units[unit].decls /\ InMainFile(units[unit].decls[at])
  BY <1>2, UnitTypes DEF TraverseDecl, Decls, OInv, IInv
<1>4. root.unit = unit /\ root.decl = at
  BY DEF Root, Item
<1>5. IsRoot(root)
  BY <1>2, <1>3, <1>4 DEF IsRoot, Lawful
<1>6. /\ \A x : Lawful(x)' = Lawful(x)
      /\ \A u, d : Root(u, d)' = Root(u, d)
  BY <1>1 DEF Lawful, IsLanguageSupported, Root
<1>7. DOMAIN todo = {} /\ DOMAIN todo' = {1} /\ todo'[1] = root
  BY <1>1
<1>8. Outstanding = {} /\ Outstanding' = {root} /\ AllVisited' = AllVisited
  BY <1>1, <1>7 DEF Outstanding, AllVisited
<1> HIDE DEF root
<1>9. \A i \in DOMAIN visited : visited[i] \in Items /\ Begun(visited[i])
  BY LenProperties, ElementOfSeq DEF OInv, IInv, Stacked, AllBegun
<1>10. Sorted'
  <2>1. \A i \in DOMAIN visited : Precedes(visited[i], root)
    BY <1>4, <1>9 DEF Begun, Precedes
  <2> QED
    BY <1>1, <1>7, <2>1 DEF OInv, Sorted
<1>11. Descended'
  BY <1>5, <1>6, <1>8 DEF OInv, Descended, IsRoot
<1>12. NoneMissed'
  <2>1. ASSUME NEW u \in DOMAIN units, NEW d \in DOMAIN units[u].decls,
               Lawful(Root(u, d)), Begun(Root(u, d))'
        PROVE  Root(u, d) \in AllVisited \cup {root}
    <3>1. d \in Nat /\ Root(u, d).unit = u /\ Root(u, d).decl = d
      <4>1. Len(units[u].decls) \in Nat /\ DOMAIN units[u].decls = 1..Len(units[u].decls)
        BY UnitTypes, LenProperties DEF OInv, IInv
      <4> QED
        BY <4>1 DEF Root, Item
    <3>2. u < unit \/ (u = unit /\ d < at + 1)
      BY <1>1, <1>6, <2>1, <3>1 DEF Begun
    <3>3. CASE u = unit /\ d = at
      BY <3>3 DEF root
    <3>4. CASE ~(u = unit /\ d = at)
      <4>1. Begun(Root(u, d))
        BY <1>1, <1>2, <3>1, <3>2, <3>4 DEF Begun
      <4> QED
        BY <1>8, <2>1, <4>1 DEF OInv, NoneMissed
    <3> QED
      BY <3>3, <3>4
  <2>2. \A x \in AllVisited : ChildrenOf(x) \subseteq AllVisited \cup {root}
    BY <1>8 DEF OInv, NoneMissed
  <2> QED
    BY <1>1, <1>6, <1>8, <2>1, <2>2 DEF NoneMissed
<1> QED
  BY <1>10, <1>11, <1>12

LEMMA OrderVisitNode == OInv /\ VisitNode => Sorted' /\ Descended' /\ NoneMissed'
<1> SUFFICES ASSUME OInv, VisitNode PROVE Sorted' /\ Descended' /\ NoneMissed'
  OBVIOUS
<1> DEFINE h == Head(todo)
           n == Len(h.node.kids)
<1>1. todo \in Seq(Items) /\ todo # <<>> /\ visited \in Seq(Items)
      /\ todo' = Children(h) \o Tail(todo) /\ visited' = Append(visited, h)
  BY DEF OInv, IInv, Stacked, VisitNode
<1>2. h \in Items /\ h = todo[1] /\ 1 \in DOMAIN todo /\ n \in Nat
  BY <1>1, Expanded
<1>3. /\ todo' \in Seq(Items)
      /\ \A i \in DOMAIN todo' :
           \/ i \in 1..n /\ todo'[i] = Children(h)[i]
           \/ /\ i > n
              /\ i - n + 1 \in DOMAIN todo
              /\ i - n + 1 # 1
              /\ todo'[i] = todo[i - n + 1]
  BY <1>1, Expanded
<1>4. /\ ChildrenOf(h) \subseteq Outstanding'
      /\ Outstanding \subseteq Outstanding' \cup {h}
      /\ Outstanding' \subseteq ChildrenOf(h) \cup Outstanding
  BY <1>1, ExpandedItems
<1>5. UNCHANGED <<rule, units, unit, pc, at>>
  BY DEF VisitNode
<1>6. DOMAIN visited' = DOMAIN visited \cup {Len(visited) + 1}
      /\ Len(visited) \in Nat /\ DOMAIN visited = 1..Len(visited)
      /\ (\A j \in DOMAIN visited : visited'[j] = visited[j])
      /\ visited'[Len(visited) + 1] = h
  <2>1. Len(visited) \in Nat /\ DOMAIN visited = 1..Len(visited)
    BY <1>1, LenProperties
  <2>2. visited' \in Seq(Items) /\ Len(visited') = Len(visited) + 1
        /\ (\A j \in 1..Len(visited) : visited'[j] = visited[j])
        /\ visited'[Len(visited) + 1] = h
    BY <1>1, <1>2, AppendProperties
  <2>3. DOMAIN visited' = 1..Len(visited) + 1
    BY <2>2, LenProperties
  <2> QED
    BY <2>1, <2>2, <2>3
<1> HIDE DEF h
<1>7. AllVisited' = AllVisited \cup {h}
  BY <1>6 DEF AllVisited
<1>8. (\A i \in DOMAIN todo : todo[i] \in Items) /\ (\A j \in DOMAIN visited : visited[j] \in Items)
      /\ DOMAIN todo = 1..Len(todo) /\ Len(todo) \in Nat
  BY <1>1, ElementOfSeq, LenProperties
<1>9. h \in Outstanding
  BY <1>2 DEF Outstanding
<1>10. /\ \A x : Lawful(x)' = Lawful(x)
       /\ \A u, d : Root(u, d)' = Root(u, d)
       /\ \A x : Begun(x)' = Begun(x)
  BY <1>5 DEF Lawful, IsLanguageSupported, Root, Begun
<1>11. Sorted'
  <2>1. \A i \in 1..n :
          /\ Precedes(h, Children(h)[i])
          /\ \A x \in Items : Precedes(x, h) => Precedes(x, Children(h)[i])
          /\ \A y \in Items : Precedes(h, y) /\ ~Below(h, y) => Precedes(Children(h)[i], y)
          /\ \A j \in 1..n : i < j => Precedes(Children(h)[i], Children(h)[j])
    BY <1>2, ChildPrecedes
  <2>2. \A k \in DOMAIN todo : k # 1 => k > 1 /\ Precedes(h, todo[k]) /\ ~Below(h, todo[k])
    BY <1>2, <1>8 DEF OInv, IInv, Sorted, NoneBelowAnother
  <2>3. \A j \in DOMAIN visited :
          Precedes(visited[j], h) /\ \A k \in DOMAIN todo : Precedes(visited[j], todo[k])
    BY <1>2 DEF OInv, Sorted
  <2> HIDE DEF n
  <2>4. \A i, j \in DOMAIN visited' : i < j => Precedes(visited'[i], visited'[j])
    BY <1>6, <2>3 DEF OInv, Sorted
  <2>5. ASSUME NEW i \in DOMAIN visited', NEW j \in DOMAIN todo'
        PROVE  Precedes(visited'[i], todo'[j])
    <3>1. CASE i \in DOMAIN visited
      BY <1>3, <1>6, <1>8, <2>1, <2>3, <3>1
    <3>2. CASE i = Len(visited) + 1
      BY <1>3, <1>6, <2>1, <2>2, <3>2
    <3> QED
      BY <1>6, <3>1, <3>2
  <2>6. ASSUME NEW i \in DOMAIN todo', NEW j \in DOMAIN todo', i < j
        PROVE  Precedes(todo'[i], todo'[j])
    <3>1. i \in Int /\ j \in Int
      BY <1>3, LenProperties
    <3>2. CASE j \in 1..n /\ todo'[j] = Children(h)[j]
      <4>1. i \in 1..n /\ todo'[i] = Children(h)[i]
        BY <1>2, <1>3, <2>6, <3>1, <3>2
      <4> QED
        BY <2>1, <2>6, <3>2, <4>1
    <3>3. CASE j > n /\ j - n + 1 \in DOMAIN todo /\ j - n + 1 # 1 /\ todo'[j] = todo[j - n + 1]
      <4>1. CASE i \in 1..n /\ todo'[i] = Children(h)[i]
        BY <1>8, <2>1, <2>2, <3>3, <4>1
      <4>2. CASE i - n + 1 \in DOMAIN todo /\ todo'[i] = todo[i - n + 1]
        <5>1. i - n + 1 < j - n + 1
          BY <1>2, <2>6, <3>1
        <5> QED
          BY <3>3, <4>2, <5>1 DEF OInv, Sorted
      <4> QED
        BY <1>3, <4>1, <4>2
    <3> QED
      BY <1>3, <3>2, <3>3
  <2> QED
    BY <2>4, <2>5, <2>6 DEF Sorted
<1>12. Descended'
  <2>1. ASSUME NEW x \in AllVisited' \cup Outstanding'
        PROVE  IsRoot(x) \/ \E y \in AllVisited' : x \in ChildrenOf(y)
    <3>1. CASE x \in AllVisited \cup Outstanding
      BY <1>7, <3>1 DEF OInv, Descended
    <3>2. CASE x \in ChildrenOf(h)
      BY <1>7, <3>2
    <3> QED
      BY <1>4, <1>7, <1>9, <2>1, <3>1, <3>2
  <2> QED
    BY <1>10, <2>1 DEF Descended, IsRoot
<1>13. NoneMissed'
  <2>1. AllVisited \cup Outstanding \subseteq AllVisited' \cup Outstanding'
    BY <1>4, <1>7
  <2>2. \A x \in AllVisited' : ChildrenOf(x) \subseteq AllVisited' \cup Outstanding'
    BY <1>4, <1>7, <2>1 DEF OInv, NoneMissed
  <2>3. \A u \in DOMAIN units : \A d \in DOMAIN units[u].decls :
          Lawful(Root(u, d)) /\ Begun(Root(u, d)) => Root(u, d) \in AllVisited' \cup Outstanding'
    BY <2>1 DEF OInv, NoneMissed
  <2> QED
    BY <1>5, <1>10, <2>2, <2>3 DEF NoneMissed
<1> QED
  BY <1>11, <1>12, <1>13

LEMMA StepOrder == OInv /\ [Step \/ Landed]_walk => OInv'
<1> SUFFICES ASSUME OInv, [Step \/ Landed]_walk PROVE OInv'
  OBVIOUS
<1>1. IInv'
  BY StepInv DEF OInv
<1>2. CASE UNCHANGED walk
  <2>1. UNCHANGED <<rule, units, unit, pc, at, todo, visited>>
    BY <1>2 DEF walk
  <2>2. \A x : Begun(x)' = Begun(x)
    BY <2>1 DEF Begun
  <2> QED
    BY <1>1, <2>1, <2>2, OrderAlone DEF OInv, Root
<1>3. CASE Step
  BY <1>1, <1>3, OrderRefuse, OrderSetUp, OrderSkipDecl, OrderTraverseDecl, OrderVisitNode,
     OrderTearDown DEF Step, OInv
<1> QED
  BY <1>2, <1>3 DEF Landed

(* When every unit is landed nothing is outstanding and all was begun.     *)
LEMMA OrderIsComplete == OInv => EachNodeInOrder
<1> SUFFICES ASSUME OInv, AllLanded PROVE EachNodeInOrder
  BY DEF EachNodeInOrder
<1>1. todo = <<>> /\ Outstanding = {}
  <2>1. todo = <<>>
    BY DEF OInv, IInv, Stacked, AllLanded
  <2> QED
    BY <2>1 DEF Outstanding
<1>2. \A u \in DOMAIN units : \A d \in DOMAIN units[u].decls : Begun(Root(u, d))
  <2>1. DOMAIN units = 1..Len(units) /\ Len(units) \in Nat /\ unit > Len(units) /\ unit \in Nat
    BY UnitTypes DEF OInv, IInv, AllLanded, WalkTypeOK
  <2> QED
    BY <2>1 DEF Begun, Root, Item
<1> QED
  BY <1>1, <1>2 DEF OInv, Sorted, Descended, NoneMissed, EachNodeInOrder

(***************************************************************************)
(* However deep the trees are and however many units follow one another: a *)
(* rule sees each node of what it is to judge, nothing else, and in source *)
(* order.                                                                  *)
(***************************************************************************)
THEOREM EveryNodeIsSeenInOrder == WalkSpec => []EachNodeInOrder
<1>1. WalkInit => OInv
  BY InitInv, InitOrder DEF OInv
<1> QED
  BY <1>1, StepOrder, OrderIsComplete, PTL DEF WalkSpec

-----------------------------------------------------------------------------
(***************************************************************************)
(* The rules with a limit.  The member of a rule that has one is the limit *)
(* that is configured from setUp on, and whatever was visited was compared *)
(* with that limit.                                                        *)
(***************************************************************************)
JudgedByTheKey == reported = {x \in AllVisited : Reports(rule, x.node, IntForKey)}

LInv ==
    /\ OInv
    /\ configured \in Limits \cup {NoLimit}
    /\ pc = "flying" /\ rule \in WithMember => threshold = IntForKey
    /\ JudgedByTheKey

LEMMA KeyIsInt ==
    ASSUME LInv
    PROVE  IntForKey \in Ints
BY LimitsAssumption DEF LInv, OInv, IInv, WalkTypeOK, IntForKey

(* An int that is no negative number is the same number without a sign.    *)
LEMMA UnsignedIsSame ==
    ASSUME NEW x \in Ints \cap Nat
    PROVE  Unsigned(x) = x
<1> DEFINE half == 2^(IntBits - 1)
           whole == 2^IntBits
<1>1. half \in Nat \ {0} /\ whole = 2 * half
  BY IntBitsAssumption
<1>2. x \in -half .. (half - 1)
  BY DEF Ints
<1> HIDE DEF half, whole
<1>3. x % whole = x
  BY <1>1, <1>2
<1> QED
  BY <1>3 DEF Unsigned, whole

(* A negative int is, without a sign, more than any int.                   *)
LEMMA UnsignedIsMore ==
    ASSUME NEW x \in Ints, x < 0, NEW y \in Ints \cap Nat
    PROVE  Unsigned(x) \in Int /\ y < Unsigned(x)
<1> DEFINE half == 2^(IntBits - 1)
           whole == 2^IntBits
<1>1. half \in Nat \ {0} /\ whole = 2 * half
  BY IntBitsAssumption
<1>2. x \in -half .. (half - 1) /\ y \in -half .. (half - 1)
  BY DEF Ints
<1> HIDE DEF half, whole
<1>3. x % whole = x + whole
  BY <1>1, <1>2
<1>4. x + whole \in Int /\ y < x + whole
  BY <1>1, <1>2
<1> QED
  BY <1>3, <1>4 DEF Unsigned, whole

(* What exceeds a limit exceeds a lower one, if that is one.               *)
LEMMA LowerLimit ==
    ASSUME NEW r, NEW n \in Nodes, NEW limit \in Ints, NEW l \in Ints,
           l <= limit, ~NeverReports(r, l), Reports(r, n, limit)
    PROVE  Reports(r, n, l)
<1>1. limit \in Int /\ l \in Int
  BY IntBitsAssumption DEF Ints
<1>2. r = "TOO_MANY_PARAMETERS" => Unsigned(limit) = limit /\ Unsigned(l) = l
  <2>1. r = "TOO_MANY_PARAMETERS" => limit \in Nat /\ l \in Nat
    BY <1>1 DEF NeverReports
  <2> QED
    BY <2>1, UnsignedIsSame
<1>3. \A x \in Int : x > limit => x > l
  BY <1>1
<1>4. CASE r = "CYCLOMATIC_COMPLEXITY"
  BY <1>3, <1>4, MeasuresAssumption DEF Reports, CyclomaticComplexityRule
<1>5. CASE r = "NPATH_COMPLEXITY"
  BY <1>3, <1>5, MeasuresAssumption DEF Reports, NPathComplexityRule
<1>6. CASE r = "NCSS_METHOD"
  BY <1>3, <1>6, MeasuresAssumption DEF Reports, NcssMethodCountRule
<1>7. CASE r = "NESTED_BLOCK_DEPTH"
  BY <1>3, <1>7, MeasuresAssumption DEF Reports, NestedBlockDepthRule
<1>8. CASE r = "LONG_METHOD"
  <2>1. LongMethodRule(n, limit)
    BY <1>8 DEF Reports
  <2>2. LineCount(n.bodyLines) \in Int
    BY <2>1, MeasuresAssumption DEF LongMethodRule, IsLongMethodCandidate, LineCount
  <2> QED
    BY <1>3, <1>8, <2>1, <2>2 DEF Reports, LongMethodRule
<1>9. CASE r = "TOO_MANY_PARAMETERS"
  BY <1>2, <1>3, <1>9, MeasuresAssumption DEF Reports, TooManyParametersRule
<1>10. CASE r = "LONG_CLASS"
  <2>1. LongClassRule(n, limit)
    BY <1>10 DEF Reports
  <2>2. LineCount(n.lines) \in Int
    BY <2>1, MeasuresAssumption DEF LongClassRule, LineCount
  <2> QED
    BY <1>3, <1>10, <2>1, <2>2 DEF Reports, LongClassRule
<1>11. CASE r = "TOO_MANY_METHODS"
  BY <1>3, <1>11, MeasuresAssumption DEF Reports, TooManyMethodsRule
<1>12. CASE r = "TOO_MANY_FIELDS"
  BY <1>3, <1>12, MeasuresAssumption DEF Reports, TooManyFieldsRule
<1> QED
  BY <1>4, <1>5, <1>6, <1>7, <1>8, <1>9, <1>10, <1>11, <1>12 DEF Reports

(* A rule that never reports does not.                                     *)
LEMMA Silent ==
    ASSUME NEW r, NEW n \in Nodes, NEW limit \in Ints, NeverReports(r, limit)
    PROVE  ~Reports(r, n, limit)
<1>1. SUFFICES ASSUME TooManyParametersRule(n, limit) PROVE FALSE
  BY DEF NeverReports, Reports
<1>2. n.params \in Ints \cap Nat /\ n.params \in Int
  BY <1>1, MeasuresAssumption DEF TooManyParametersRule
<1>3. Unsigned(limit) \in Int /\ n.params < Unsigned(limit)
  BY <1>2, UnsignedIsMore DEF NeverReports
<1> QED
  BY <1>1, <1>2, <1>3 DEF TooManyParametersRule

(* Every step of a rule with a limit is a step of the walk.                *)
LEMMA LimitWalks == [Next]_vars => [Step \/ Landed]_walk
BY DEF Next, vars, Begin, Visit, Step, Crash, Crashed

LEMMA LimitInit == Init => LInv
<1> SUFFICES ASSUME Init PROVE LInv
  OBVIOUS
<1>1. OInv
  BY InitInv, InitOrder DEF Init, OInv
<1>2. visited = <<>> /\ pc = "takeoff" /\ reported = {}
  BY DEF Init, WalkInit
<1>3. AllVisited = {}
  BY <1>2 DEF AllVisited
<1> QED
  BY <1>1, <1>2, <1>3 DEF LInv, JudgedByTheKey, Init

LEMMA LimitStep == LInv /\ [Next]_vars => LInv'
<1> SUFFICES ASSUME LInv, [Next]_vars PROVE LInv'
  OBVIOUS
<1>1. OInv'
  BY LimitWalks, StepOrder DEF LInv
<1>2. CASE Begin
  <2>1. visited' = visited /\ rule' = rule /\ configured' = configured /\ reported' = reported
        /\ (rule \in WithMember => threshold' = IntForKey)
    BY <1>2 DEF Begin, SetUp
  <2>2. IntForKey' = IntForKey /\ AllVisited' = AllVisited
    BY <2>1 DEF IntForKey, AllVisited
  <2> QED
    BY <1>1, <2>1, <2>2 DEF LInv, JudgedByTheKey
<1>3. CASE Visit
  <2> DEFINE h == Head(todo)
  <2>1. VisitNode /\ visited' = Append(visited, h) /\ rule' = rule /\ pc' = pc
        /\ configured' = configured /\ threshold' = threshold
    BY <1>3 DEF Visit, VisitNode
  <2>2. pc = "flying" /\ visited \in Seq(Items) /\ h \in Items
    <3>1. todo \in Seq(Items) /\ todo # <<>> /\ visited \in Seq(Items) /\ pc = "flying"
      BY <2>1 DEF LInv, OInv, IInv, Stacked, VisitNode
    <3> QED
      BY <3>1, Expanded
  <2>3. IntForKey' = IntForKey
    BY <2>1 DEF IntForKey
  <2>4. AllVisited' = AllVisited \cup {h}
    <3> HIDE DEF h
    <3>1. Len(visited) \in Nat /\ DOMAIN visited = 1..Len(visited)
      BY <2>2, LenProperties
    <3>2. visited' \in Seq(Items) /\ Len(visited') = Len(visited) + 1
          /\ (\A j \in 1..Len(visited) : visited'[j] = visited[j])
          /\ visited'[Len(visited) + 1] = h
      BY <2>1, <2>2, AppendProperties
    <3>3. DOMAIN visited' = 1..Len(visited) \cup {Len(visited) + 1}
      BY <3>1, <3>2, LenProperties
    <3> QED
      BY <3>1, <3>2, <3>3 DEF AllVisited
  <2>5. reported' = IF Reports(rule, h.node, IntForKey) THEN reported \cup {h} ELSE reported
    BY <1>3, <2>2 DEF Visit, LInv
  <2> HIDE DEF h
  <2>6. reported' = {x \in AllVisited \cup {h} : Reports(rule, x.node, IntForKey)}
    BY <2>5 DEF LInv, JudgedByTheKey
  <2>7. JudgedByTheKey'
    BY <2>1, <2>3, <2>4, <2>6 DEF JudgedByTheKey
  <2> QED
    BY <1>1, <2>1, <2>3, <2>7 DEF LInv
<1>4. CASE (Refuse \/ SkipDecl \/ TraverseDecl \/ TearDown \/ Landed)
           /\ UNCHANGED <<configured, threshold, reported, crashed>>
  <2>1. visited' = visited /\ rule' = rule /\ configured' = configured /\ reported' = reported
        /\ threshold' = threshold /\ (pc' = "flying" => pc = "flying")
    BY <1>4 DEF Refuse, SkipDecl, TraverseDecl, TearDown, Landed, walk
  <2>2. IntForKey' = IntForKey /\ AllVisited' = AllVisited
    BY <2>1 DEF IntForKey, AllVisited
  <2> QED
    BY <1>1, <2>1, <2>2 DEF LInv, JudgedByTheKey
<1>5. CASE Crash \/ Crashed \/ UNCHANGED vars
  <2>1. UNCHANGED <<visited, rule, configured, reported, threshold, pc>>
    BY <1>5 DEF Crash, Crashed, vars, walk
  <2>2. IntForKey' = IntForKey /\ AllVisited' = AllVisited
    BY <2>1 DEF IntForKey, AllVisited
  <2> QED
    BY <1>1, <2>1, <2>2 DEF LInv, JudgedByTheKey
<1> QED
  BY <1>2, <1>3, <1>4, <1>5 DEF Next

LEMMA LimitsInvariant == Spec => []LInv
  BY LimitInit, LimitStep, PTL DEF Spec

(***************************************************************************)
(* Whatever the measures say of whatever trees: a rule with a limit is a   *)
(* walk, and sees what a walk sees.                                        *)
(***************************************************************************)
THEOREM LimitRulesSeeEachNode == Spec => [](OnlyTheMainFile /\ EachNodeInOrder)
<1>1. LInv => OnlyTheMainFile /\ EachNodeInOrder
  BY OrderIsComplete DEF LInv, OInv, IInv, AllLawful
<1> QED
  BY <1>1, LimitsInvariant, PTL

(* The limit of a rule is the configured one at every node of every unit,  *)
(* whether it is kept in a member or read each time.                       *)
THEOREM LimitsAreNeverStale == Spec => []JudgedByTheKey
<1>1. LInv => JudgedByTheKey
  BY DEF LInv
<1> QED
  BY <1>1, LimitsInvariant, PTL

(* What was visited are nodes, and limits are ints.                        *)
LEMMA WhatIsCompared ==
    ASSUME LInv
    PROVE  (\A i \in AllVisited : i.node \in Nodes) /\ IntForKey \in Ints
<1>1. visited \in Seq(Items)
  BY DEF LInv, OInv, IInv, Stacked
<1>2. \A i \in AllVisited : i \in Items
  BY <1>1, ElementOfSeq, LenProperties DEF AllVisited
<1> QED
  BY <1>2, KeyIsInt DEF Items

(* A lower limit makes no report shorter and a higher one none longer,     *)
(* whatever is measured and wherever the limit is kept, but for a limit    *)
(* below zero, which silences the rule that keeps it without a sign.       *)
THEOREM LowerLimitsReportMore == Spec => []LowerLimitReportsMore
<1>1. ASSUME LInv PROVE LowerLimitReportsMore
  <2>1. /\ \A i \in AllVisited : i.node \in Nodes
        /\ IntForKey \in Ints
        /\ \A l \in Limits : l \in Ints
        /\ reported = ReportsAt(IntForKey)
    BY <1>1, WhatIsCompared, LimitsAssumption DEF LInv, JudgedByTheKey, ReportsAt
  <2>2. ASSUME NeverReports(rule, IntForKey) PROVE reported = {}
    BY <2>1, <2>2, Silent DEF ReportsAt
  <2>3. ASSUME NEW l \in Limits, l <= IntForKey, ~NeverReports(rule, l)
        PROVE  reported \subseteq ReportsAt(l)
    BY <2>1, <2>3, LowerLimit DEF ReportsAt
  <2>4. ASSUME NEW l \in Limits, IntForKey <= l, ~NeverReports(rule, IntForKey)
        PROVE  ReportsAt(l) \subseteq reported
    BY <2>1, <2>4, LowerLimit DEF ReportsAt
  <2> QED
    BY <2>2, <2>3, <2>4 DEF LowerLimitReportsMore
<1> QED
  BY <1>1, LimitsInvariant, PTL
=============================================================================
