-------------------------- MODULE ExpressionProofs --------------------------
(***************************************************************************)
(* Proofs about the rules for null checks, for conditions and for names of *)
(* variables: for every tree that ends, however deep, what they report is  *)
(* so.  First what the proofs need of trees: induction over the nodes of a *)
(* tree, and that what is made of a tree from below is made of what was    *)
(* made of the children.                                                   *)
(***************************************************************************)
EXTENDS NullCheckRules, ConditionRules, NamingRules, Induction

-----------------------------------------------------------------------------
(***************************************************************************)
(* The levels of a tree.                                                   *)
(***************************************************************************)
KidsOf(nodes) == UNION {ToSet(m.kids) : m \in nodes}

LEMMA GenerationIs ==
    ASSUME NEW n
    PROVE  /\ Generation(n, 0) = {n}
           /\ \A d \in Nat : Generation(n, d + 1) = KidsOf(Generation(n, d))
<1> DEFINE Unfolded(f, d) == [k \in 0..d |-> IF k = 0 THEN {n} ELSE UNION {ToSet(m.kids) : m \in f[k - 1]}]
           level(d) == CHOOSE f : f = Unfolded(f, d)
<1>1. ASSUME NEW d \in Nat
      PROVE  /\ Generation(n, d) = level(d)[d]
             /\ \A k \in 0..d : level(d)[k] =
                  IF k = 0 THEN {n} ELSE UNION {ToSet(m.kids) : m \in level(d)[k - 1]}
  <2>1. Generation(n, d) = level(d)[d]
    BY DEF Generation
  <2> DEFINE T == {e \in 0..d : \E f : f = Unfolded(f, e)}
  <2>2. 0 \in T
    <3>1. [k \in 0..0 |-> {n}] = Unfolded([k \in 0..0 |-> {n}], 0)
      OBVIOUS
    <3> HIDE DEF Unfolded
    <3> QED
      BY <3>1
  <2>3. ASSUME NEW e \in T, e < d PROVE e + 1 \in T
    <3>1. PICK f : f = Unfolded(f, e)
      BY <2>3
    <3> DEFINE g == [k \in 0..(e + 1) |-> IF k = e + 1 THEN UNION {ToSet(m.kids) : m \in f[e]} ELSE f[k]]
    <3>2. \A k \in 0..(e + 1) : k # 0 => k - 1 \in 0..e /\ k - 1 # e + 1 /\ k - 1 \in 0..(e + 1)
      BY <2>3
    <3>3. \A k \in 0..e : g[k] = f[k]
      BY <2>3
    <3>4. ASSUME NEW k \in 0..(e + 1)
          PROVE  g[k] = IF k = 0 THEN {n} ELSE UNION {ToSet(m.kids) : m \in g[k - 1]}
      <4>1. CASE k = 0
        <5>1. k \in 0..e /\ k # e + 1
          BY <2>3, <4>1
        <5>2. f[k] = {n}
          BY <3>1, <4>1, <5>1
        <5> QED
          BY <4>1, <5>1, <5>2
      <4>2. CASE k # 0 /\ k # e + 1
        <5>1. k \in 0..e
          BY <2>3, <4>2
        <5>2. f[k] = UNION {ToSet(m.kids) : m \in f[k - 1]}
          BY <3>1, <4>2, <5>1
        <5>3. g[k] = f[k] /\ g[k - 1] = f[k - 1]
          BY <3>2, <3>3, <4>2, <5>1
        <5> QED
          BY <4>2, <5>2, <5>3
      <4>3. CASE k = e + 1
        <5>1. k # 0 /\ k - 1 = e /\ e \in 0..e
          BY <2>3, <4>3
        <5>2. g[k] = UNION {ToSet(m.kids) : m \in f[e]}
          BY <4>3
        <5>3. g[k - 1] = f[e]
          BY <3>3, <5>1
        <5> QED
          BY <5>1, <5>2, <5>3
      <4> QED
        BY <4>1, <4>2, <4>3
    <3>5. g = Unfolded(g, e + 1)
      BY <3>4
    <3>6. e + 1 \in 0..d
      BY <2>3
    <3> HIDE DEF g, Unfolded
    <3> QED
      BY <3>5, <3>6
  <2>4. T = 0..d
    <3>1. T \in SUBSET (0..d)
      OBVIOUS
    <3> HIDE DEF T
    <3> QED
      BY <2>2, <2>3, <3>1, BoundedInduction
  <2>5. d \in T
    <3> HIDE DEF T
    <3> QED
      BY <2>4
  <2>6. \E f : f = Unfolded(f, d)
    BY <2>5
  <2>7. level(d) = Unfolded(level(d), d)
    <3> HIDE DEF Unfolded, T
    <3> QED
      BY <2>6
  <2> HIDE DEF level, T
  <2>8. ASSUME NEW k \in 0..d
        PROVE  level(d)[k] = IF k = 0 THEN {n} ELSE UNION {ToSet(m.kids) : m \in level(d)[k - 1]}
    BY <2>7
  <2> QED
    BY <2>1, <2>8
<1> HIDE DEF level
<1>2. Generation(n, 0) = {n}
  <2>1. 0 \in Nat /\ 0 \in 0..0
    OBVIOUS
  <2> QED
    BY <1>1, <2>1
<1>3. ASSUME NEW d \in Nat PROVE Generation(n, d + 1) = KidsOf(Generation(n, d))
  <2> DEFINE T == {e \in 0..d : level(d)[e] = level(d + 1)[e]}
  <2>1. d + 1 \in Nat /\ (d + 1) - 1 = d /\ d + 1 # 0 /\ d \in 0..(d + 1) /\ d + 1 \in 0..(d + 1)
    OBVIOUS
  <2>a. \A k \in 0..d : level(d)[k] = IF k = 0 THEN {n} ELSE UNION {ToSet(m.kids) : m \in level(d)[k - 1]}
    BY <1>1
  <2>b. \A k \in 0..(d + 1) :
          level(d + 1)[k] = IF k = 0 THEN {n} ELSE UNION {ToSet(m.kids) : m \in level(d + 1)[k - 1]}
    BY <1>1, <2>1
  <2>2. 0 \in T
    <3>1. 0 \in 0..d /\ 0 \in 0..(d + 1)
      OBVIOUS
    <3>2. level(d)[0] = {n} /\ level(d + 1)[0] = {n}
      BY <2>a, <2>b, <3>1
    <3> QED
      BY <3>1, <3>2
  <2>3. ASSUME NEW e \in T, e < d PROVE e + 1 \in T
    <3>1. e + 1 \in 0..d /\ e + 1 \in 0..(d + 1) /\ e + 1 # 0 /\ (e + 1) - 1 = e
      BY <2>3
    <3>2. level(d)[e + 1] = UNION {ToSet(m.kids) : m \in level(d)[e]}
      BY <2>a, <3>1
    <3>3. level(d + 1)[e + 1] = UNION {ToSet(m.kids) : m \in level(d + 1)[e]}
      BY <2>b, <3>1
    <3>4. level(d)[e] = level(d + 1)[e]
      BY <2>3
    <3> QED
      BY <3>1, <3>2, <3>3, <3>4
  <2>4. T = 0..d
    <3>1. T \in SUBSET (0..d)
      OBVIOUS
    <3> HIDE DEF T
    <3> QED
      BY <2>2, <2>3, <3>1, BoundedInduction
  <2>5. level(d)[d] = level(d + 1)[d]
    <3>1. d \in 0..d
      OBVIOUS
    <3> QED
      BY <2>4, <3>1
  <2>6. level(d + 1)[d + 1] = UNION {ToSet(m.kids) : m \in level(d + 1)[d]}
    BY <2>b, <2>1
  <2> QED
    BY <1>1, <2>1, <2>5, <2>6 DEF KidsOf
<1> QED
  BY <1>2, <1>3

(* Below an empty level there is nothing.                                  *)
LEMMA NothingBelow ==
    ASSUME NEW n, NEW d \in Nat, Generation(n, d) = {}, NEW e \in Nat, d <= e
    PROVE  Generation(n, e) = {}
<1> DEFINE S == {k \in Nat : Generation(n, d + k) = {}}
<1>1. 0 \in S
  <2>1. d + 0 = d
    OBVIOUS
  <2> QED
    BY <2>1
<1>2. ASSUME NEW k \in S PROVE k + 1 \in S
  <2>1. d + k \in Nat /\ (d + k) + 1 = d + (k + 1) /\ k + 1 \in Nat
    OBVIOUS
  <2>2. Generation(n, (d + k) + 1) = KidsOf(Generation(n, d + k))
    BY <2>1, GenerationIs
  <2>3. KidsOf({}) = {}
    BY DEF KidsOf
  <2> QED
    BY <2>1, <2>2, <2>3
<1>3. S = Nat
  <2>1. S \in SUBSET Nat
    OBVIOUS
  <2> HIDE DEF S
  <2> QED
    BY <1>1, <1>2, <2>1, SetInduction
<1>4. e - d \in Nat /\ d + (e - d) = e
  OBVIOUS
<1> QED
  BY <1>3, <1>4

(* Height finds the first empty level.                                     *)
LEMMA HeightIs ==
    ASSUME NEW n, NEW D \in Nat, Generation(n, D) = {}
    PROVE  Height(n) \in Nat /\ Generation(n, Height(n)) = {}
<1> DEFINE E == {d \in Nat : Generation(n, d) = {}}
           Unfolded(f) == [d \in Nat |-> IF Generation(n, d) = {} THEN d ELSE f[d + 1]]
           height == CHOOSE f : f = Unfolded(f)
<1>1. PICK m \in E : \A d \in E : m <= d
  <2>1. E \in SUBSET Nat /\ E # {}
    OBVIOUS
  <2> HIDE DEF E
  <2> QED
    BY <2>1, LeastElement
<1>2. m \in Nat /\ Generation(n, m) = {} /\ \A d \in Nat : Generation(n, d) = {} <=> m <= d
  <2>1. m \in Nat /\ Generation(n, m) = {}
    BY <1>1
  <2> QED
    BY <1>1, <2>1, NothingBelow
<1>3. Height(n) = height[0]
  BY DEF Height
<1>4. \A d \in Nat : height[d] = IF m <= d THEN d ELSE height[d + 1]
  <2> DEFINE f == [d \in Nat |-> IF m <= d THEN d ELSE m]
  <2>1. ASSUME NEW d \in Nat PROVE f[d] = IF Generation(n, d) = {} THEN d ELSE f[d + 1]
    <3>1. f[d] = (IF m <= d THEN d ELSE m) /\ f[d + 1] = (IF m <= d + 1 THEN d + 1 ELSE m)
      OBVIOUS
    <3>2. ~(m <= d) /\ m <= d + 1 => d + 1 = m
      BY <1>2
    <3> HIDE DEF f
    <3> QED
      BY <1>2, <3>1, <3>2
  <2>2. f = Unfolded(f)
    BY <2>1
  <2> HIDE DEF f, Unfolded
  <2>3. height = Unfolded(height)
    BY <2>2
  <2> HIDE DEF height
  <2> QED
    BY <1>2, <2>3 DEF Unfolded
<1> HIDE DEF height, Unfolded
<1> DEFINE T == {j \in 0..m : height[m - j] = m}
<1>5. 0 \in T
  BY <1>2, <1>4
<1>6. ASSUME NEW j \in T, j < m PROVE j + 1 \in T
  <2>1. m - (j + 1) \in Nat /\ ~(m <= m - (j + 1)) /\ (m - (j + 1)) + 1 = m - j /\ j + 1 \in 0..m
    BY <1>2, <1>6
  <2>2. height[m - j] = m
    BY <1>6
  <2> QED
    BY <1>4, <2>1, <2>2
<1>7. T = 0..m
  <2>1. T \in SUBSET (0..m)
    OBVIOUS
  <2> HIDE DEF T
  <2> QED
    BY <1>2, <1>5, <1>6, <2>1, BoundedInduction
<1>8. m \in T
  <2> HIDE DEF T
  <2> QED
    BY <1>2, <1>7
<1>9. m - m = 0
  BY <1>2
<1> QED
  BY <1>2, <1>3, <1>8, <1>9

(* What holds n and with every node its children holds all of them.        *)
LEMMA GenerationsAreLeast ==
    ASSUME NEW n, NEW S, n \in S, \A m \in S : ToSet(m.kids) \subseteq S, NEW d \in Nat
    PROVE  Generation(n, d) \subseteq S
<1> DEFINE T == {e \in Nat : Generation(n, e) \subseteq S}
<1>1. 0 \in T
  BY GenerationIs
<1>2. ASSUME NEW e \in T PROVE e + 1 \in T
  <2>0. \A k \in Nat : Generation(n, k + 1) = KidsOf(Generation(n, k))
    BY GenerationIs
  <2>1. Generation(n, e + 1) = KidsOf(Generation(n, e)) /\ e + 1 \in Nat
    BY <2>0
  <2>2. KidsOf(Generation(n, e)) \subseteq S
    BY <1>2 DEF KidsOf
  <2> QED
    BY <2>1, <2>2
<1>3. T = Nat
  <2>1. T \in SUBSET Nat
    OBVIOUS
  <2> HIDE DEF T
  <2> QED
    BY <1>1, <1>2, <2>1, SetInduction
<1> QED
  BY <1>3

(* The levels below a node are among the levels of the tree.               *)
LEMMA GenerationBelow ==
    ASSUME NEW n, NEW e \in Nat, NEW m \in Generation(n, e), NEW d \in Nat
    PROVE  Generation(m, d) \subseteq Generation(n, e + d)
<1> DEFINE T == {k \in Nat : Generation(m, k) \subseteq Generation(n, e + k)}
<1>1. 0 \in T
  <2>1. e + 0 = e
    OBVIOUS
  <2> QED
    BY <2>1, GenerationIs
<1>2. ASSUME NEW k \in T PROVE k + 1 \in T
  <2>1. e + k \in Nat /\ (e + k) + 1 = e + (k + 1) /\ k + 1 \in Nat
    OBVIOUS
  <2>2. Generation(m, k + 1) = KidsOf(Generation(m, k))
    BY GenerationIs
  <2>3. Generation(n, (e + k) + 1) = KidsOf(Generation(n, e + k))
    BY <2>1, GenerationIs
  <2>4. KidsOf(Generation(m, k)) \subseteq KidsOf(Generation(n, e + k))
    BY <1>2 DEF KidsOf
  <2> QED
    BY <2>1, <2>2, <2>3, <2>4
<1>3. T = Nat
  <2>1. T \in SUBSET Nat
    OBVIOUS
  <2> HIDE DEF T
  <2> QED
    BY <1>1, <1>2, <2>1, SetInduction
<1> QED
  BY <1>3

-----------------------------------------------------------------------------
(***************************************************************************)
(* The nodes of a tree.                                                    *)
(***************************************************************************)
LEMMA ContainedIs ==
    ASSUME NEW n, IsTree(n), NEW d \in Nat
    PROVE  Generation(n, d) \subseteq Contained(n)
<1>1. Height(n) \in Nat /\ Generation(n, Height(n)) = {}
  BY DEF IsTree
<1>2. CASE d <= Height(n)
  <2>1. d \in 0..Height(n)
    BY <1>1, <1>2
  <2> QED
    BY <2>1 DEF Contained
<1>3. CASE ~(d <= Height(n))
  <2>1. Height(n) <= d
    BY <1>1, <1>3
  <2>2. Generation(n, d) = {}
    BY <1>1, <2>1, NothingBelow
  <2> QED
    BY <2>2
<1> QED
  BY <1>2, <1>3

LEMMA InSomeGeneration ==
    ASSUME NEW n, IsTree(n), NEW m \in Contained(n)
    PROVE  \E d \in Nat : m \in Generation(n, d)
<1>1. Height(n) \in Nat
  BY DEF IsTree
<1> QED
  BY <1>1 DEF Contained

LEMMA ContainsItself ==
    ASSUME NEW n, IsTree(n)
    PROVE  n \in Contained(n)
<1>1. n \in Generation(n, 0) /\ 0 \in Nat
  BY GenerationIs
<1> QED
  BY <1>1, ContainedIs

LEMMA ContainsChildren ==
    ASSUME NEW n, IsTree(n), NEW m \in Contained(n)
    PROVE  ToSet(m.kids) \subseteq Contained(n)
<1>1. PICK d \in Nat : m \in Generation(n, d)
  BY InSomeGeneration
<1>2. Generation(n, d + 1) = KidsOf(Generation(n, d)) /\ d + 1 \in Nat
  <2>1. \A k \in Nat : Generation(n, k + 1) = KidsOf(Generation(n, k))
    BY GenerationIs
  <2> QED
    BY <2>1
<1>3. ToSet(m.kids) \subseteq Generation(n, d + 1)
  BY <1>1, <1>2 DEF KidsOf
<1> QED
  BY <1>2, <1>3, ContainedIs

LEMMA ContainedIsLeast ==
    ASSUME NEW n, IsTree(n), NEW S, n \in S, \A m \in S : ToSet(m.kids) \subseteq S
    PROVE  Contained(n) \subseteq S
<1> SUFFICES ASSUME NEW m \in Contained(n) PROVE m \in S
  OBVIOUS
<1>1. PICK d \in Nat : m \in Generation(n, d)
  BY InSomeGeneration
<1> QED
  BY <1>1, GenerationsAreLeast

(* Every node of a tree is one.                                            *)
LEMMA Subtree ==
    ASSUME NEW n, IsTree(n), NEW m \in Contained(n)
    PROVE  IsTree(m) /\ Contained(m) \subseteq Contained(n)
<1>1. PICK e \in Nat : m \in Generation(n, e)
  BY InSomeGeneration
<1>2. Height(n) \in Nat /\ Generation(n, Height(n)) = {}
  BY DEF IsTree
<1>3. Generation(m, Height(n)) = {}
  <2>1. e + Height(n) \in Nat /\ Height(n) <= e + Height(n)
    BY <1>2
  <2>2. Generation(n, e + Height(n)) = {}
    BY <1>2, <2>1, NothingBelow
  <2> QED
    BY <1>1, <1>2, <2>2, GenerationBelow
<1>4. Height(m) \in Nat /\ Generation(m, Height(m)) = {}
  BY <1>2, <1>3, HeightIs
<1>5. Contained(m) \subseteq Contained(n)
  <2> SUFFICES ASSUME NEW d \in 0..Height(m) PROVE Generation(m, d) \subseteq Contained(n)
    BY DEF Contained
  <2>1. d \in Nat /\ e + d \in Nat
    BY <1>4
  <2> QED
    BY <1>1, <2>1, GenerationBelow, ContainedIs
<1> QED
  BY <1>4, <1>5 DEF IsTree

(* Induction from the leaves up.                                           *)
LEMMA TreeInduction ==
    ASSUME NEW n, IsTree(n), NEW S,
           \A m \in Contained(n) : ToSet(m.kids) \subseteq S => m \in S
    PROVE  Contained(n) \subseteq S
<1> DEFINE H == Height(n)
           T == {j \in 0..H : Generation(n, H - j) \subseteq S}
<1>1. H \in Nat /\ Generation(n, H) = {}
  BY DEF IsTree
<1>2. 0 \in T
  <2>1. H - 0 = H /\ 0 \in 0..H
    BY <1>1
  <2> QED
    BY <1>1, <2>1
<1> HIDE DEF H
<1>3. ASSUME NEW j \in T, j < H PROVE j + 1 \in T
  <2>1. H - (j + 1) \in Nat /\ (H - (j + 1)) + 1 = H - j /\ j + 1 \in 0..H
    BY <1>1, <1>3
  <2> DEFINE d == H - (j + 1)
  <2> HIDE DEF d
  <2>2. d \in Nat /\ Generation(n, d + 1) = Generation(n, H - j)
    BY <2>1 DEF d
  <2>3. Generation(n, d + 1) = KidsOf(Generation(n, d))
    BY <2>2, GenerationIs
  <2>4. ASSUME NEW m \in Generation(n, d) PROVE m \in S
    <3>1. ToSet(m.kids) \subseteq S
      <4>1. ToSet(m.kids) \subseteq KidsOf(Generation(n, d))
        BY DEF KidsOf
      <4>2. Generation(n, H - j) \subseteq S
        BY <1>3
      <4> QED
        BY <2>2, <2>3, <4>1, <4>2
    <3>2. m \in Contained(n)
      BY <2>2, ContainedIs
    <3> QED
      BY <3>1, <3>2
  <2> QED
    BY <2>1, <2>4 DEF d
<1>4. T = 0..H
  <2>1. T \in SUBSET (0..H)
    OBVIOUS
  <2> HIDE DEF T
  <2> QED
    BY <1>1, <1>2, <1>3, <2>1, BoundedInduction
<1> SUFFICES ASSUME NEW d \in 0..H PROVE Generation(n, d) \subseteq S
  BY DEF Contained, H
<1>5. H - d \in T /\ H - (H - d) = d
  <2>1. H - d \in 0..H /\ H - (H - d) = d
    BY <1>1
  <2> HIDE DEF T
  <2> QED
    BY <1>4, <2>1
<1>6. Generation(n, H - (H - d)) \subseteq S
  BY <1>5
<1> QED
  BY <1>5, <1>6

(* The children of a node of a tree are a sequence.                        *)
LEMMA NodesAre ==
    ASSUME NEW n, IsTree(n), NEW m \in Contained(n)
    PROVE  /\ m = Node(m.k, m.kids)
           /\ Len(m.kids) \in Nat /\ DOMAIN m.kids = 1..Len(m.kids)
           /\ m.kids \in Seq(ToSet(m.kids))
           /\ \A i \in DOMAIN m.kids : m.kids[i] \in ToSet(m.kids) /\ m.kids[i] \in Contained(n)
<1>1. m = Node(m.k, m.kids) /\ m.kids \in Seq(ToSet(m.kids))
  BY DEF IsTree
<1>2. Len(m.kids) \in Nat /\ DOMAIN m.kids = 1..Len(m.kids)
  BY <1>1, LenProperties
<1>3. \A i \in DOMAIN m.kids : m.kids[i] \in ToSet(m.kids)
  BY DEF ToSet
<1> QED
  BY <1>1, <1>2, <1>3, ContainsChildren

LEMMA ChildrenAreTrees ==
    ASSUME NEW n, IsTree(n), NEW i \in DOMAIN n.kids
    PROVE  /\ n.kids[i] \in Contained(n) /\ IsTree(n.kids[i])
           /\ Contained(n.kids[i]) \subseteq Contained(n)
BY ContainsItself, NodesAre, Subtree

LEMMA ContainedBelow ==
    ASSUME NEW n, IsTree(n)
    PROVE  Contained(n) = {n} \cup UNION {Contained(k) : k \in ToSet(n.kids)}
<1> DEFINE S == {n} \cup UNION {Contained(k) : k \in ToSet(n.kids)}
<1>1. ASSUME NEW k \in ToSet(n.kids) PROVE IsTree(k) /\ Contained(k) \subseteq Contained(n)
  BY ContainsItself, ContainsChildren, Subtree
<1>2. S \subseteq Contained(n)
  BY <1>1, ContainsItself
<1>3. ASSUME NEW m \in S PROVE ToSet(m.kids) \subseteq S
  <2>1. CASE m = n
    BY <1>1, <2>1, ContainsItself
  <2>2. CASE m # n
    <3>1. PICK k \in ToSet(n.kids) : m \in Contained(k)
      BY <2>2
    <3>2. ToSet(m.kids) \subseteq Contained(k)
      BY <1>1, <3>1, ContainsChildren
    <3> QED
      BY <3>2
  <2> QED
    BY <2>1, <2>2
<1>4. Contained(n) \subseteq S
  <2>1. n \in S
    OBVIOUS
  <2> HIDE DEF S
  <2> QED
    BY <1>3, <2>1, ContainedIsLeast
<1> QED
  BY <1>2, <1>4

(* A node with trees for children is a tree.                               *)
LEMMA NodeIsTree ==
    ASSUME NEW n, n = Node(n.k, n.kids), n.kids \in Seq(ToSet(n.kids)),
           \A i \in DOMAIN n.kids : IsTree(n.kids[i])
    PROVE  IsTree(n)
<1> DEFINE N == Len(n.kids)
           T == {j \in 0..N : \E D \in Nat : \A i \in 1..j : Generation(n.kids[i], D) = {}}
<1>1. N \in Nat /\ DOMAIN n.kids = 1..N
  BY LenProperties
<1> HIDE DEF N
<1>2. 0 \in T
  <2>1. 0 \in 0..N /\ 1..0 = {} /\ 0 \in Nat
    BY <1>1
  <2> QED
    BY <2>1
<1>3. ASSUME NEW j \in T, j < N PROVE j + 1 \in T
  <2>1. PICK D \in Nat : \A i \in 1..j : Generation(n.kids[i], D) = {}
    BY <1>3
  <2>2. j + 1 \in DOMAIN n.kids /\ j + 1 \in 0..N
    BY <1>1, <1>3
  <2> DEFINE h == Height(n.kids[j + 1])
             E == D + h
  <2>3. h \in Nat /\ Generation(n.kids[j + 1], h) = {}
    BY <2>2 DEF IsTree
  <2> HIDE DEF h
  <2>4. E \in Nat /\ D <= E /\ h <= E
    BY <2>1, <2>3
  <2> HIDE DEF E
  <2>5. ASSUME NEW i \in 1..(j + 1) PROVE Generation(n.kids[i], E) = {}
    <3>1. CASE i \in 1..j
      BY <2>1, <2>4, <3>1, NothingBelow
    <3>2. CASE i = j + 1
      BY <2>3, <2>4, <3>2, NothingBelow
    <3>3. i \in 1..j \/ i = j + 1
      BY <1>3
    <3> QED
      BY <3>1, <3>2, <3>3
  <2> QED
    BY <2>2, <2>4, <2>5
<1>4. N \in T
  <2>1. T \in SUBSET (0..N)
    OBVIOUS
  <2> HIDE DEF T
  <2>2. T = 0..N
    BY <1>1, <1>2, <1>3, <2>1, BoundedInduction
  <2> QED
    BY <1>1, <2>2
<1>5. PICK D \in Nat : \A i \in 1..N : Generation(n.kids[i], D) = {}
  BY <1>4
<1> DEFINE S == {d \in Nat : Generation(n, d + 1) = UNION {Generation(k, d) : k \in ToSet(n.kids)}}
<1>6. S = Nat
  <2>0. \A d \in Nat : Generation(n, d + 1) = KidsOf(Generation(n, d))
    BY GenerationIs
  <2>1. 0 \in S
    <3>1. Generation(n, 0 + 1) = KidsOf({n})
      BY <2>0, GenerationIs
    <3>2. KidsOf({n}) = ToSet(n.kids)
      BY DEF KidsOf
    <3>3. \A k : Generation(k, 0) = {k}
      BY GenerationIs
    <3> QED
      BY <3>1, <3>2, <3>3
  <2>2. ASSUME NEW d \in S PROVE d + 1 \in S
    <3>1. d + 1 \in Nat /\ Generation(n, (d + 1) + 1) = KidsOf(Generation(n, d + 1))
      BY <2>0
    <3>2. \A k : Generation(k, d + 1) = KidsOf(Generation(k, d))
      BY GenerationIs
    <3>3. Generation(n, d + 1) = UNION {Generation(k, d) : k \in ToSet(n.kids)}
      BY <2>2
    <3>4. KidsOf(UNION {Generation(k, d) : k \in ToSet(n.kids)}) = UNION {KidsOf(Generation(k, d)) : k \in ToSet(n.kids)}
      BY DEF KidsOf
    <3>5. UNION {KidsOf(Generation(k, d)) : k \in ToSet(n.kids)} = UNION {Generation(k, d + 1) : k \in ToSet(n.kids)}
      BY <3>2
    <3> QED
      BY <3>1, <3>3, <3>4, <3>5
  <2>3. S \in SUBSET Nat
    OBVIOUS
  <2> HIDE DEF S
  <2> QED
    BY <2>1, <2>2, <2>3, SetInduction
<1>7. Generation(n, D + 1) = {}
  <2>1. Generation(n, D + 1) = UNION {Generation(k, D) : k \in ToSet(n.kids)}
    BY <1>6
  <2>2. \A k \in ToSet(n.kids) : Generation(k, D) = {}
    BY <1>1, <1>5 DEF ToSet
  <2> QED
    BY <2>1, <2>2
<1>8. Height(n) \in Nat /\ Generation(n, Height(n)) = {}
  <2>1. D + 1 \in Nat
    OBVIOUS
  <2> QED
    BY <1>7, <2>1, HeightIs
<1> DEFINE Nodes == {n} \cup UNION {Contained(k) : k \in ToSet(n.kids)}
<1>9. Contained(n) \subseteq Nodes
  <2>1. \A k \in ToSet(n.kids) : IsTree(k)
    BY DEF ToSet
  <2>2. ASSUME NEW m \in Nodes PROVE ToSet(m.kids) \subseteq Nodes
    <3>1. CASE m = n
      BY <2>1, <3>1, ContainsItself
    <3>2. CASE m # n
      <4>1. PICK k \in ToSet(n.kids) : m \in Contained(k)
        BY <3>2
      <4>2. ToSet(m.kids) \subseteq Contained(k)
        BY <2>1, <4>1, ContainsChildren
      <4> QED
        BY <4>2
    <3> QED
      BY <3>1, <3>2
  <2>3. n \in Nodes
    OBVIOUS
  <2> HIDE DEF Nodes
  <2>4. \A d \in Nat : Generation(n, d) \subseteq Nodes
    BY <2>2, <2>3, GenerationsAreLeast
  <2>5. 0..Height(n) \subseteq Nat
    BY <1>8
  <2> QED
    BY <2>4, <2>5 DEF Contained
<1>10. ASSUME NEW m \in Contained(n) PROVE m = Node(m.k, m.kids) /\ m.kids \in Seq(ToSet(m.kids))
  <2>1. CASE m = n
    BY <2>1
  <2>2. CASE m # n
    <3>1. PICK k \in ToSet(n.kids) : m \in Contained(k)
      BY <1>9, <2>2
    <3>2. IsTree(k)
      BY DEF ToSet
    <3> QED
      BY <3>1, <3>2 DEF IsTree
  <2> QED
    BY <2>1, <2>2
<1> QED
  BY <1>8, <1>10 DEF IsTree

-----------------------------------------------------------------------------
(***************************************************************************)
(* Recursion over a tree.  f gives every node below m what G makes of the  *)
(* node and of what f gives its children; below is the sequence of those.  *)
(***************************************************************************)
Below(f, m) == [i \in DOMAIN m.kids |-> f[m.kids[i]]]
FollowsTree(f, m, V, G) ==
    /\ f \in [Contained(m) -> V]
    /\ \A x \in Contained(m) : f[x] = G[x][Below(f, x)]

(* Two such functions agree where both are defined.                        *)
LEMMA RecursionsAgree ==
    ASSUME NEW m, IsTree(m), NEW k, IsTree(k), NEW V, NEW G, NEW f, NEW g,
           FollowsTree(f, m, V, G), FollowsTree(g, k, V, G), NEW x \in Contained(m), x \in Contained(k)
    PROVE  f[x] = g[x]
<1> DEFINE S == {y \in Contained(m) : y \in Contained(k) => f[y] = g[y]}
<1>1. ASSUME NEW y \in Contained(m), ToSet(y.kids) \subseteq S PROVE y \in S
  <2>1. SUFFICES ASSUME y \in Contained(k) PROVE f[y] = g[y]
    BY <1>1
  <2>2. \A i \in DOMAIN y.kids : f[y.kids[i]] = g[y.kids[i]]
    BY <1>1, <2>1, NodesAre
  <2>3. Below(f, y) = Below(g, y)
    BY <2>2 DEF Below
  <2> QED
    BY <2>1, <2>3 DEF FollowsTree
<1>2. Contained(m) \subseteq S
  <2> HIDE DEF S
  <2> QED
    BY <1>1, TreeInduction
<1> QED
  BY <1>2

(* There is one.                                                           *)
LEMMA TreeRecursion ==
    ASSUME NEW n, IsTree(n), NEW V, NEW G,
           \A m \in Contained(n) : G[m] \in [[DOMAIN m.kids -> V] -> V]
    PROVE  \E f : FollowsTree(f, n, V, G)
<1> DEFINE solved(m) == \E f : FollowsTree(f, m, V, G)
           S == {m \in Contained(n) : solved(m)}
           f_(m) == CHOOSE f : FollowsTree(f, m, V, G)
           value(m) == f_(m)[m]
<1>1. ASSUME NEW m \in S
      PROVE  /\ FollowsTree(f_(m), m, V, G)
             /\ IsTree(m) /\ Contained(m) \subseteq Contained(n) /\ m \in Contained(m)
  <2>1. solved(m) /\ m \in Contained(n)
    OBVIOUS
  <2>2. FollowsTree(f_(m), m, V, G)
    BY <2>1
  <2> QED
    BY <2>1, <2>2, Subtree, ContainsItself
<1> HIDE DEF f_
<1>2. ASSUME NEW m \in S PROVE Contained(m) \subseteq S
  <2> SUFFICES ASSUME NEW x \in Contained(m) PROVE x \in S
    OBVIOUS
  <2>1. x \in Contained(n) /\ IsTree(x) /\ Contained(x) \subseteq Contained(m)
    BY <1>1, Subtree
  <2> DEFINE g == [y \in Contained(x) |-> f_(m)[y]]
  <2>2. g \in [Contained(x) -> V]
    BY <1>1, <2>1 DEF FollowsTree
  <2>3. ASSUME NEW y \in Contained(x) PROVE g[y] = G[y][Below(g, y)]
    <3>1. \A i \in DOMAIN y.kids : y.kids[i] \in Contained(x)
      BY <2>1, NodesAre
    <3>2. Below(g, y) = Below(f_(m), y)
      BY <3>1 DEF Below
    <3>3. f_(m)[y] = G[y][Below(f_(m), y)]
      BY <1>1, <2>1 DEF FollowsTree
    <3> QED
      BY <3>2, <3>3
  <2> HIDE DEF g
  <2>4. FollowsTree(g, x, V, G)
    BY <2>2, <2>3 DEF FollowsTree
  <2> QED
    BY <2>1, <2>4
<1>3. ASSUME NEW m \in S
      PROVE  /\ value(m) \in V
             /\ value(m) = G[m][[i \in DOMAIN m.kids |-> value(m.kids[i])]]
  <2>1. value(m) \in V
    BY <1>1 DEF FollowsTree
  <2>2. ASSUME NEW i \in DOMAIN m.kids PROVE f_(m)[m.kids[i]] = value(m.kids[i])
    <3>1. m.kids[i] \in Contained(m)
      BY <1>1, NodesAre
    <3>2. m.kids[i] \in S
      BY <1>2, <3>1
    <3> HIDE DEF S
    <3> QED
      BY <1>1, <3>1, <3>2, RecursionsAgree
  <2>3. Below(f_(m), m) = [i \in DOMAIN m.kids |-> value(m.kids[i])]
    BY <2>2 DEF Below
  <2>4. f_(m)[m] = G[m][Below(f_(m), m)]
    BY <1>1 DEF FollowsTree
  <2> QED
    BY <2>1, <2>3, <2>4
<1> HIDE DEF value
<1>4. ASSUME NEW m \in Contained(n), ToSet(m.kids) \subseteq S PROVE m \in S
  <2> SUFFICES ASSUME m \notin S PROVE FALSE
    OBVIOUS
  <2> DEFINE g == [x \in Contained(m) |->
                     IF x = m THEN G[m][[i \in DOMAIN m.kids |-> value(m.kids[i])]] ELSE value(x)]
  <2>1. IsTree(m) /\ m \in Contained(m)
    BY <1>4, Subtree, ContainsItself
  <2>2. ASSUME NEW x \in Contained(m), x # m PROVE x \in S
    <3>1. PICK k \in ToSet(m.kids) : x \in Contained(k)
      BY <2>1, <2>2, ContainedBelow
    <3>2. k \in S
      BY <1>4
    <3> QED
      BY <1>2, <3>1, <3>2
  <2>3. ASSUME NEW x \in Contained(m), NEW i \in DOMAIN x.kids
        PROVE  x.kids[i] \in Contained(m) /\ x.kids[i] \in S /\ g[x.kids[i]] = value(x.kids[i])
    <3>1. x.kids[i] \in Contained(m) /\ x.kids[i] \in ToSet(x.kids)
      BY <2>1, NodesAre
    <3>2. x.kids[i] \in S
      <4>1. CASE x = m
        BY <1>4, <3>1, <4>1
      <4>2. CASE x # m
        <5>1. x \in S /\ x.kids[i] \in Contained(x)
          BY <2>2, <4>2, <1>1, NodesAre
        <5> QED
          BY <1>2, <5>1
      <4> QED
        BY <4>1, <4>2
    <3>3. x.kids[i] # m
      BY <3>2
    <3> QED
      BY <3>1, <3>2, <3>3
  <2>4. ASSUME NEW x \in Contained(m)
        PROVE  g[x] \in V /\ g[x] = G[x][[i \in DOMAIN x.kids |-> value(x.kids[i])]]
    <3>1. CASE x = m
      <4>1. \A i \in DOMAIN m.kids : value(m.kids[i]) \in V
        BY <2>1, <2>3, <1>3
      <4>2. [i \in DOMAIN m.kids |-> value(m.kids[i])] \in [DOMAIN m.kids -> V]
        BY <4>1
      <4>3. G[m][[i \in DOMAIN m.kids |-> value(m.kids[i])]] \in V
        BY <1>4, <4>2
      <4> QED
        BY <3>1, <4>3
    <3>2. CASE x # m
      BY <1>3, <2>2, <3>2
    <3> QED
      BY <3>1, <3>2
  <2> HIDE DEF g
  <2>5. \A x \in Contained(m) : Below(g, x) = [i \in DOMAIN x.kids |-> value(x.kids[i])]
    BY <2>3 DEF Below
  <2>6. g \in [Contained(m) -> V]
    <3>1. g = [x \in Contained(m) |-> g[x]]
      BY DEF g
    <3> QED
      BY <2>4, <3>1
  <2>7. FollowsTree(g, m, V, G)
    BY <2>4, <2>5, <2>6 DEF FollowsTree
  <2> QED
    BY <1>4, <2>7
<1>5. Contained(n) \subseteq S
  <2> HIDE DEF S
  <2> QED
    BY <1>4, TreeInduction
<1> QED
  BY <1>5, ContainsItself

-----------------------------------------------------------------------------
(***************************************************************************)
(* Positions.                                                              *)
(***************************************************************************)
LEMMA PositionsFromType ==
    ASSUME NEW m, m.kids \in Seq(ToSet(m.kids)), NEW below \in [DOMAIN m.kids -> SUBSET Seq(Nat)]
    PROVE  PositionsFrom(m, below) \in SUBSET Seq(Nat)
<1>1. DOMAIN m.kids \subseteq Nat
  <2>1. DOMAIN m.kids = 1..Len(m.kids) /\ Len(m.kids) \in Nat
    BY LenProperties
  <2> QED
    BY <2>1
<1>2. ASSUME NEW i \in DOMAIN m.kids, NEW p \in below[i] PROVE <<i>> \o p \in Seq(Nat)
  <2>1. <<i>> \in Seq(Nat) /\ p \in Seq(Nat)
    BY <1>1
  <2> QED
    BY <2>1, ConcatProperties
<1>3. <<>> \in Seq(Nat)
  BY EmptySeq
<1>4. ASSUME NEW q \in PositionsFrom(m, below) PROVE q \in Seq(Nat)
  <2>1. CASE q = <<>>
    BY <1>3, <2>1
  <2>2. CASE q # <<>>
    <3>1. PICK i \in DOMAIN m.kids : \E p \in below[i] : q = <<i>> \o p
      BY <2>2 DEF PositionsFrom
    <3> QED
      BY <1>2, <3>1
  <2> QED
    BY <2>1, <2>2
<1> HIDE DEF PositionsFrom
<1> QED
  BY <1>4

LEMMA PositionsIs ==
    ASSUME NEW t, IsTree(t)
    PROVE  /\ Positions(t) \in SUBSET Seq(Nat)
           /\ Positions(t) = PositionsFrom(t, [i \in DOMAIN t.kids |-> Positions(t.kids[i])])
<1> DEFINE V == SUBSET Seq(Nat)
           G == [m \in Contained(t) |-> [below \in [DOMAIN m.kids -> V] |-> PositionsFrom(m, below)]]
           Unfolded(f, e) == [m \in Contained(e) |-> PositionsFrom(m, [i \in DOMAIN m.kids |-> f[m.kids[i]]])]
           made(e) == CHOOSE f : f = Unfolded(f, e)
<1>2. \A m \in Contained(t) : G[m] \in [[DOMAIN m.kids -> V] -> V]
  BY NodesAre, PositionsFromType
<1> HIDE DEF V
<1>3. PICK h : FollowsTree(h, t, V, G)
  <2> HIDE DEF G
  <2> QED
    BY <1>2, TreeRecursion
<1>4. ASSUME NEW m \in Contained(t)
      PROVE  h[m] \in V /\ h[m] = PositionsFrom(m, [i \in DOMAIN m.kids |-> h[m.kids[i]]])
  <2>1. h[m] \in V /\ h[m] = G[m][Below(h, m)]
    BY <1>3 DEF FollowsTree
  <2>2. Below(h, m) \in [DOMAIN m.kids -> V]
    BY <1>3, NodesAre DEF Below, FollowsTree
  <2> QED
    BY <2>1, <2>2 DEF Below
<1> HIDE DEF G
<1>5. ASSUME NEW e \in Contained(t) PROVE Positions(e) = h[e]
  <2>1. Positions(e) = made(e)[e]
    BY DEF Positions, FromBelow
  <2>2. IsTree(e) /\ Contained(e) \subseteq Contained(t) /\ e \in Contained(e)
    BY Subtree, ContainsItself
  <2>3. [m \in Contained(e) |-> h[m]] = Unfolded([m \in Contained(e) |-> h[m]], e)
    <3>1. ASSUME NEW m \in Contained(e)
          PROVE  h[m] = PositionsFrom(m, [i \in DOMAIN m.kids |-> [x \in Contained(e) |-> h[x]][m.kids[i]]])
      <4>1. \A i \in DOMAIN m.kids : m.kids[i] \in Contained(e)
        BY <2>2, NodesAre
      <4>2. [i \in DOMAIN m.kids |-> [x \in Contained(e) |-> h[x]][m.kids[i]]] = [i \in DOMAIN m.kids |-> h[m.kids[i]]]
        BY <4>1
      <4> QED
        BY <1>4, <2>2, <4>2
    <3> QED
      BY <3>1
  <2>4. made(e) = Unfolded(made(e), e)
    <3> HIDE DEF Unfolded
    <3> QED
      BY <2>3
  <2> HIDE DEF made
  <2> DEFINE S == {m \in Contained(e) : made(e)[m] = h[m]}
  <2>5. ASSUME NEW m \in Contained(e), ToSet(m.kids) \subseteq S PROVE m \in S
    <3>1. \A i \in DOMAIN m.kids : made(e)[m.kids[i]] = h[m.kids[i]]
      BY <2>2, <2>5, NodesAre
    <3>2. made(e)[m] = PositionsFrom(m, [i \in DOMAIN m.kids |-> made(e)[m.kids[i]]])
      BY <2>4
    <3>3. [i \in DOMAIN m.kids |-> made(e)[m.kids[i]]] = [i \in DOMAIN m.kids |-> h[m.kids[i]]]
      BY <3>1
    <3> QED
      BY <1>4, <2>2, <3>2, <3>3
  <2>6. Contained(e) \subseteq S
    <3> HIDE DEF S
    <3> QED
      BY <2>2, <2>5, TreeInduction
  <2> QED
    BY <2>1, <2>2, <2>6
<1>6. \A i \in DOMAIN t.kids : Positions(t.kids[i]) = h[t.kids[i]]
  BY <1>5, ChildrenAreTrees
<1>7. [i \in DOMAIN t.kids |-> Positions(t.kids[i])] = [i \in DOMAIN t.kids |-> h[t.kids[i]]]
  BY <1>6
<1>8. t \in Contained(t)
  BY ContainsItself
<1> QED
  BY <1>4, <1>5, <1>7, <1>8 DEF V

(* What stands at a position, one step at a time.                          *)
LEMMA AtIs ==
    ASSUME NEW n, NEW p \in Seq(Nat)
    PROVE  \E at : /\ At(n, p) = at[Len(p)] /\ at[0] = n
                   /\ \A k \in 1..Len(p) : at[k] = at[k - 1].kids[p[k]]
<1> DEFINE Unfolded(f, N) == [k \in 0..N |-> IF k = 0 THEN n ELSE f[k - 1].kids[p[k]]]
           T == {e \in 0..Len(p) : \E f : f = Unfolded(f, e)}
           at == CHOOSE f : f = Unfolded(f, Len(p))
<1>1. Len(p) \in Nat
  BY LenProperties
<1>2. 0 \in T
  <2>1. [k \in 0..0 |-> n] = Unfolded([k \in 0..0 |-> n], 0)
    OBVIOUS
  <2>2. 0 \in 0..Len(p)
    BY <1>1
  <2> HIDE DEF Unfolded
  <2> QED
    BY <2>1, <2>2
<1>3. ASSUME NEW e \in T, e < Len(p) PROVE e + 1 \in T
  <2>1. PICK f : f = Unfolded(f, e)
    BY <1>3
  <2> DEFINE g == [k \in 0..(e + 1) |-> IF k = e + 1 THEN f[e].kids[p[k]] ELSE f[k]]
  <2>2. e \in Nat /\ e + 1 \in 0..Len(p)
    BY <1>1, <1>3
  <2>3. \A k \in 0..e : g[k] = f[k]
    BY <2>2
  <2>4. ASSUME NEW k \in 0..(e + 1) PROVE g[k] = IF k = 0 THEN n ELSE g[k - 1].kids[p[k]]
    <3>1. CASE k = e + 1
      <4>1. k # 0 /\ k - 1 = e /\ e \in 0..e
        BY <2>2, <3>1
      <4>2. g[k - 1] = f[e]
        BY <2>3, <4>1
      <4> QED
        BY <3>1, <4>1, <4>2
    <3>2. CASE k = 0
      <4>1. k \in 0..e /\ k # e + 1
        BY <2>2, <3>2
      <4> QED
        BY <2>1, <2>3, <3>2, <4>1
    <3>3. CASE k # 0 /\ k # e + 1
      <4>1. k \in 0..e /\ k - 1 \in 0..e
        BY <2>2, <3>3
      <4>2. f[k] = f[k - 1].kids[p[k]]
        BY <2>1, <3>3, <4>1
      <4> QED
        BY <2>3, <3>3, <4>1, <4>2
    <3> QED
      BY <3>1, <3>2, <3>3
  <2>5. g = Unfolded(g, e + 1)
    BY <2>4
  <2> HIDE DEF g, Unfolded
  <2> QED
    BY <2>2, <2>5
<1>4. \E f : f = Unfolded(f, Len(p))
  <2>1. T \in SUBSET (0..Len(p))
    OBVIOUS
  <2> HIDE DEF T
  <2>2. T = 0..Len(p)
    BY <1>1, <1>2, <1>3, <2>1, BoundedInduction
  <2>3. Len(p) \in T
    BY <1>1, <2>2
  <2> QED
    BY <2>3 DEF T
<1>5. at = Unfolded(at, Len(p))
  <2> HIDE DEF Unfolded
  <2> QED
    BY <1>4
<1>6. At(n, p) = at[Len(p)]
  BY DEF At
<1> HIDE DEF at
<1>7. at[0] = n /\ \A k \in 1..Len(p) : at[k] = at[k - 1].kids[p[k]]
  <2>1. 0 \in 0..Len(p) /\ \A k \in 1..Len(p) : k \in 0..Len(p) /\ k # 0
    BY <1>1
  <2> QED
    BY <1>5, <2>1
<1> QED
  BY <1>6, <1>7

LEMMA AtRoot == ASSUME NEW n PROVE At(n, <<>>) = n
<1>1. <<>> \in Seq(Nat) /\ Len(<<>>) = 0
  BY EmptySeq
<1> QED
  BY <1>1, AtIs

(* A position of a child is one of the tree.                               *)
LEMMA AtChild ==
    ASSUME NEW n, NEW i \in Nat, NEW p \in Seq(Nat)
    PROVE  At(n, <<i>> \o p) = At(n.kids[i], p)
<1> DEFINE q == <<i>> \o p
           N == Len(p)
<1>1. N \in Nat /\ q \in Seq(Nat) /\ Len(q) = N + 1 /\ q[1] = i /\ \A k \in 1..N : q[k + 1] = p[k]
  <2>1. <<i>> \in Seq(Nat) /\ Len(<<i>>) = 1 /\ <<i>>[1] = i /\ N \in Nat
    BY LenProperties
  <2>2. /\ q \in Seq(Nat) /\ Len(q) = 1 + N
        /\ \A k \in 1..(1 + N) : q[k] = IF k <= 1 THEN <<i>>[k] ELSE p[k - 1]
    BY <2>1, ConcatProperties
  <2>3. q[1] = i
    BY <2>1, <2>2
  <2>4. ASSUME NEW k \in 1..N PROVE q[k + 1] = p[k]
    <3>1. k + 1 \in 1..(1 + N) /\ ~(k + 1 <= 1) /\ (k + 1) - 1 = k
      BY <2>1
    <3> QED
      BY <2>2, <3>1
  <2> QED
    BY <2>1, <2>2, <2>3, <2>4
<1> HIDE DEF q, N
<1>2. PICK f : /\ At(n, q) = f[Len(q)] /\ f[0] = n
               /\ \A k \in 1..Len(q) : f[k] = f[k - 1].kids[q[k]]
  <2>1. q \in Seq(Nat)
    BY <1>1
  <2>2. \A s \in Seq(Nat) : \E f : /\ At(n, s) = f[Len(s)] /\ f[0] = n
                                   /\ \A k \in 1..Len(s) : f[k] = f[k - 1].kids[s[k]]
    BY AtIs
  <2> QED
    BY <2>1, <2>2
<1>3. PICK g : /\ At(n.kids[i], p) = g[N] /\ g[0] = n.kids[i]
               /\ \A k \in 1..N : g[k] = g[k - 1].kids[p[k]]
  BY AtIs DEF N
<1> DEFINE T == {k \in 0..N : f[k + 1] = g[k]}
<1>4. 0 \in T
  <2>1. 1 \in 1..Len(q) /\ 1 - 1 = 0 /\ 0 + 1 = 1 /\ 0 \in 0..N
    BY <1>1
  <2>2. f[1] = f[0].kids[q[1]]
    BY <1>2, <2>1
  <2> QED
    BY <1>1, <1>2, <1>3, <2>1, <2>2
<1>5. ASSUME NEW k \in T, k < N PROVE k + 1 \in T
  <2>1. /\ k + 1 \in 1..N /\ k + 1 \in 0..N /\ (k + 1) - 1 = k
        /\ (k + 1) + 1 \in 1..Len(q) /\ ((k + 1) + 1) - 1 = k + 1
    BY <1>1, <1>5
  <2>2. f[(k + 1) + 1] = f[k + 1].kids[q[(k + 1) + 1]]
    BY <1>2, <2>1
  <2>3. g[k + 1] = g[k].kids[p[k + 1]]
    BY <1>3, <2>1
  <2>4. q[(k + 1) + 1] = p[k + 1]
    BY <1>1, <2>1
  <2> QED
    BY <2>1, <2>2, <2>3, <2>4
<1>6. N \in T
  <2>1. T \in SUBSET (0..N)
    OBVIOUS
  <2> HIDE DEF T
  <2>2. T = 0..N
    BY <1>1, <1>4, <1>5, <2>1, BoundedInduction
  <2> QED
    BY <1>1, <2>2
<1> QED
  BY <1>1, <1>2, <1>3, <1>6 DEF q

(* Something stands at every position.                                     *)
LEMMA PositionsAre ==
    ASSUME NEW t, IsTree(t), NEW p \in Positions(t)
    PROVE  p \in Seq(Nat) /\ At(t, p) \in Contained(t)
<1> DEFINE S == {m \in Contained(t) : \A q \in Positions(m) : At(m, q) \in Contained(m)}
<1>1. ASSUME NEW m \in Contained(t), ToSet(m.kids) \subseteq S PROVE m \in S
  <2>1. IsTree(m)
    BY Subtree
  <2> SUFFICES ASSUME NEW q \in Positions(m) PROVE At(m, q) \in Contained(m)
    OBVIOUS
  <2>2. q \in PositionsFrom(m, [i \in DOMAIN m.kids |-> Positions(m.kids[i])])
    BY <2>1, PositionsIs
  <2>3. CASE q = <<>>
    BY <2>1, <2>3, AtRoot, ContainsItself
  <2>4. CASE q # <<>>
    <3>1. PICK i \in DOMAIN m.kids : \E r \in Positions(m.kids[i]) : q = <<i>> \o r
      BY <2>2, <2>4 DEF PositionsFrom
    <3>2. PICK r \in Positions(m.kids[i]) : q = <<i>> \o r
      BY <3>1
    <3>3. IsTree(m.kids[i]) /\ Contained(m.kids[i]) \subseteq Contained(m)
      BY <2>1, ChildrenAreTrees
    <3>4. r \in Seq(Nat)
      BY <3>3, PositionsIs
    <3>5. i \in Nat
      <4>1. DOMAIN m.kids = 1..Len(m.kids) /\ Len(m.kids) \in Nat
        BY NodesAre
      <4> QED
        BY <4>1
    <3>6. At(m, q) = At(m.kids[i], r)
      BY <3>2, <3>4, <3>5, AtChild
    <3>7. m.kids[i] \in S
      BY <1>1 DEF ToSet
    <3> QED
      BY <3>3, <3>6, <3>7
  <2> QED
    BY <2>3, <2>4
<1>2. Contained(t) \subseteq S
  <2> HIDE DEF S
  <2> QED
    BY <1>1, TreeInduction
<1>3. t \in S
  BY <1>2, ContainsItself
<1> QED
  BY <1>3, PositionsIs

-----------------------------------------------------------------------------
(***************************************************************************)
(* What expressions over pointers come to.                                 *)
(***************************************************************************)
LEMMA OverPointersBelow ==
    ASSUME NEW t, IsOverPointers(t), NEW m \in Contained(t)
    PROVE  IsOverPointers(m)
<1>1. IsTree(t)
  BY DEF IsOverPointers
<1>2. IsTree(m) /\ Contained(m) \subseteq Contained(t)
  BY <1>1, Subtree
<1> QED
  BY <1>2, Zenon DEF IsOverPointers

Truths_ == {"true", "false", "crash"}

LEMMA TruthFromType ==
    ASSUME NEW t, IsOverPointers(t), NEW m \in Contained(t), NEW env \in Pointings,
           NEW below \in [DOMAIN m.kids -> Truths_]
    PROVE  TruthFrom(m, below, env) \in Truths_
<1>1. IsTree(t)
  BY DEF IsOverPointers
<1>2. DOMAIN m.kids = 1..Len(m.kids) /\ Len(m.kids) \in Nat
  BY <1>1, NodesAre
<1>3. /\ Is(m, {"not", "paren", "->"}) => Len(m.kids) = 1
      /\ Is(m, {"and", "or", "==", "!="}) => Len(m.kids) = 2
      /\ Is(m, {"[]"}) => Len(m.kids) \in {1, 2}
  BY DEF IsOverPointers, Is
<1>4. /\ Is(m, {"not", "paren", "->", "and", "or", "==", "!=", "[]"}) => below[1] \in Truths_
      /\ Is(m, {"and", "or", "==", "!="}) => below[2] \in Truths_
      /\ Is(m, {"[]"}) /\ Len(m.kids) = 2 => below[2] \in Truths_
  <2>1. \A i \in 1..Len(m.kids) : below[i] \in Truths_
    BY <1>2
  <2>2. Len(m.kids) \in {1, 2} => 1 \in 1..Len(m.kids)
    BY <1>2
  <2>3. Len(m.kids) = 2 => 2 \in 1..Len(m.kids)
    BY <1>2
  <2>4. Is(m, {"not", "paren", "->", "and", "or", "==", "!=", "[]"}) => Len(m.kids) \in {1, 2}
    BY <1>3 DEF Is
  <2> QED
    BY <1>3, <2>1, <2>2, <2>3, <2>4
<1>5. \A b \in BOOLEAN : Said(b) \in Truths_
  BY DEF Said, Truths_
<1>6. /\ env["member"] \in BOOLEAN /\ env["message"] \in BOOLEAN /\ env["call"] \in BOOLEAN
      /\ Is(m, Variables) => env[m.k] \in BOOLEAN
  BY DEF Pointings, Is
<1>7. \A v \in Truths_ : Negated(v) \in Truths_
  BY DEF Negated, Truths_
<1>8. "crash" \in Truths_ /\ "false" \in Truths_
  BY DEF Truths_
<1> HIDE DEF Truths_
<1>9. \A l, r : Said((l = r) = (m.k = "==")) \in Truths_
  BY <1>5
<1> QED
  BY <1>4, <1>5, <1>6, <1>7, <1>8, <1>9 DEF TruthFrom, Is

LEMMA TruthIs ==
    ASSUME NEW t, IsOverPointers(t), NEW env \in Pointings
    PROVE  /\ Truth(t, env) \in Truths_
           /\ Truth(t, env) = TruthFrom(t, [i \in DOMAIN t.kids |-> Truth(t.kids[i], env)], env)
<1> DEFINE G == [m \in Contained(t) |->
                   [below \in [DOMAIN m.kids -> Truths_] |-> TruthFrom(m, below, env)]]
           Unfolded(f, e) == [m \in Contained(e) |-> TruthFrom(m, [i \in DOMAIN m.kids |-> f[m.kids[i]]], env)]
           made(e) == CHOOSE f : f = Unfolded(f, e)
<1>1. IsTree(t)
  BY DEF IsOverPointers
<1>2. \A m \in Contained(t) : G[m] \in [[DOMAIN m.kids -> Truths_] -> Truths_]
  BY TruthFromType
<1>3. PICK h : FollowsTree(h, t, Truths_, G)
  <2> HIDE DEF G
  <2> QED
    BY <1>1, <1>2, TreeRecursion
<1>4. ASSUME NEW m \in Contained(t)
      PROVE  h[m] \in Truths_ /\ h[m] = TruthFrom(m, [i \in DOMAIN m.kids |-> h[m.kids[i]]], env)
  <2>1. h[m] \in Truths_ /\ h[m] = G[m][Below(h, m)]
    BY <1>3 DEF FollowsTree
  <2>2. Below(h, m) \in [DOMAIN m.kids -> Truths_]
    BY <1>1, <1>3, NodesAre DEF Below, FollowsTree
  <2> QED
    BY <2>1, <2>2 DEF Below
<1> HIDE DEF G
<1>5. ASSUME NEW e \in Contained(t) PROVE Truth(e, env) = h[e]
  <2>1. Truth(e, env) = made(e)[e]
    BY DEF Truth, FromBelow
  <2>2. IsTree(e) /\ Contained(e) \subseteq Contained(t) /\ e \in Contained(e)
    BY <1>1, Subtree, ContainsItself
  <2>3. [m \in Contained(e) |-> h[m]] = Unfolded([m \in Contained(e) |-> h[m]], e)
    <3>1. ASSUME NEW m \in Contained(e)
          PROVE  h[m] = TruthFrom(m, [i \in DOMAIN m.kids |-> [x \in Contained(e) |-> h[x]][m.kids[i]]], env)
      <4>1. \A i \in DOMAIN m.kids : m.kids[i] \in Contained(e)
        BY <2>2, NodesAre
      <4>2. [i \in DOMAIN m.kids |-> [x \in Contained(e) |-> h[x]][m.kids[i]]] = [i \in DOMAIN m.kids |-> h[m.kids[i]]]
        BY <4>1
      <4> QED
        BY <1>4, <2>2, <4>2
    <3> QED
      BY <3>1
  <2>4. made(e) = Unfolded(made(e), e)
    <3> HIDE DEF Unfolded
    <3> QED
      BY <2>3
  <2> HIDE DEF made
  <2> DEFINE S == {m \in Contained(e) : made(e)[m] = h[m]}
  <2>5. ASSUME NEW m \in Contained(e), ToSet(m.kids) \subseteq S PROVE m \in S
    <3>1. \A i \in DOMAIN m.kids : made(e)[m.kids[i]] = h[m.kids[i]]
      BY <2>2, <2>5, NodesAre
    <3>2. made(e)[m] = TruthFrom(m, [i \in DOMAIN m.kids |-> made(e)[m.kids[i]]], env)
      BY <2>4
    <3>3. [i \in DOMAIN m.kids |-> made(e)[m.kids[i]]] = [i \in DOMAIN m.kids |-> h[m.kids[i]]]
      BY <3>1
    <3> QED
      BY <1>4, <2>2, <3>2, <3>3
  <2>6. Contained(e) \subseteq S
    <3> HIDE DEF S
    <3> QED
      BY <2>2, <2>5, TreeInduction
  <2> QED
    BY <2>1, <2>2, <2>6
<1>6. \A i \in DOMAIN t.kids : Truth(t.kids[i], env) = h[t.kids[i]]
  BY <1>1, <1>5, ChildrenAreTrees
<1>7. [i \in DOMAIN t.kids |-> Truth(t.kids[i], env)] = [i \in DOMAIN t.kids |-> h[t.kids[i]]]
  BY <1>6
<1>8. t \in Contained(t)
  BY <1>1, ContainsItself
<1> QED
  BY <1>4, <1>5, <1>7, <1>8
-----------------------------------------------------------------------------
(***************************************************************************)
(* The flight: what a rule that has flown has reported is what it finds in *)
(* the tree, and no other rule reports in its name.                        *)
(***************************************************************************)
InFlight ==
    /\ \E flight \in Flights : rules = flight.rules /\ tree \in flight.trees
    /\ flown \in 0..Len(rules)

HasFlown(rule) == \E i \in 1..flown : rules[i] = rule

NullChecksMade ==
    \A rule \in NullCheckRuleNames :
        /\ At_(rule) \subseteq NullCheckFindings(rule)
        /\ HasFlown(rule) => NullCheckFindings(rule) \subseteq At_(rule)

ConditionsMade ==
    \A rule \in ConditionRuleNames :
        /\ At_(rule) \subseteq ConditionFindings(rule)
        /\ HasFlown(rule) => ConditionFindings(rule) \subseteq At_(rule)

LEMMA ReportedBy ==
    ASSUME NEW places, Report(places)
    PROVE  \A rule : At_(rule)' = At_(rule) \cup (IF rule = Turn THEN places ELSE {})
<1>1. reported' = reported \cup {[rule |-> Turn, at |-> p] : p \in places}
  BY DEF Report
<1>2. ASSUME NEW rule, NEW x
      PROVE  x \in At_(rule)' <=> x \in At_(rule) \/ (rule = Turn /\ x \in places)
  <2>1. x \in At_(rule)' <=> \E f \in reported' : f.rule = rule /\ f.at = x
    BY DEF At_
  <2>2. x \in At_(rule) <=> \E f \in reported : f.rule = rule /\ f.at = x
    BY DEF At_
  <2>3. (\E f \in {[rule |-> Turn, at |-> p] : p \in places} : f.rule = rule /\ f.at = x)
          <=> rule = Turn /\ x \in places
    <3>1. \A p : [rule |-> Turn, at |-> p].rule = Turn /\ [rule |-> Turn, at |-> p].at = p
      OBVIOUS
    <3> QED
      BY <3>1, Zenon
  <2> QED
    BY <1>1, <2>1, <2>2, <2>3
<1> QED
  BY <1>2

LEMMA ReportedByAnother ==
    ASSUME NEW own, AnotherFlies(own)
    PROVE  \A rule \in own : At_(rule)' = At_(rule)
<1>1. Turn \notin own
  BY DEF AnotherFlies
<1>2. \A f : f \in reported' /\ f \notin reported => f.rule = Turn
  BY DEF AnotherFlies
<1>3. reported \subseteq reported'
  BY DEF AnotherFlies
<1>4. ASSUME NEW rule \in own, NEW x PROVE x \in At_(rule)' <=> x \in At_(rule)
  <2>1. x \in At_(rule)' <=> \E f \in reported' : f.rule = rule /\ f.at = x
    BY DEF At_
  <2>2. x \in At_(rule) <=> \E f \in reported : f.rule = rule /\ f.at = x
    BY DEF At_
  <2> QED
    BY <1>1, <1>2, <1>3, <2>1, <2>2
<1> QED
  BY <1>4

LEMMA InFlightInit == Init => InFlight /\ flown = 0 /\ \A rule : At_(rule) = {}
<1> SUFFICES ASSUME Init PROVE InFlight /\ flown = 0 /\ \A rule : At_(rule) = {}
  OBVIOUS
<1>1. PICK flight \in Flights : rules = flight.rules /\ tree \in flight.trees
  BY DEF Init
<1>2. Len(rules) \in Nat
  BY <1>1, FlightsAssumption, LenProperties
<1>3. \A rule : At_(rule) = {}
  BY DEF Init, At_
<1>4. flown = 0
  BY DEF Init
<1> QED
  BY <1>1, <1>2, <1>3, <1>4 DEF InFlight

(* A rule that has its turn is one that has flown afterwards, no other is. *)
LEMMA OneMoreHasFlown ==
    ASSUME InFlight, Aloft, rules' = rules, flown' = flown + 1, NEW rule
    PROVE  HasFlown(rule)' <=> HasFlown(rule) \/ rule = Turn
<1>1. Len(rules) \in Nat
  BY FlightsAssumption, LenProperties DEF InFlight
<1>2. flown \in Nat
  BY <1>1 DEF InFlight
<1>3. \A i \in 1..(flown + 1) : i \in 1..flown \/ i = flown + 1
  BY <1>2
<1>4. flown + 1 \in 1..(flown + 1) /\ 1..flown \subseteq 1..(flown + 1)
  BY <1>2
<1> QED
  BY <1>3, <1>4 DEF HasFlown, Turn

(* A rule that is among those of the flight has flown at the end.          *)
LEMMA HaveFlown ==
    ASSUME InFlight, NEW rule, Have(rule)
    PROVE  HasFlown(rule) /\ \E flight \in Flights : rule \in ToSet(flight.rules) /\ tree \in flight.trees
<1>1. PICK flight \in Flights : rules = flight.rules /\ tree \in flight.trees
  BY DEF InFlight
<1>2. DOMAIN rules = 1..Len(rules)
  BY <1>1, FlightsAssumption, LenProperties
<1>3. PICK i \in 1..Len(rules) : rules[i] = rule
  BY <1>2 DEF Have, ToSet
<1>4. rule \in ToSet(flight.rules)
  BY <1>1 DEF Have
<1> QED
  BY <1>1, <1>3, <1>4 DEF Have, Landed, HasFlown

LEMMA NullCheckFlightStep ==
    InFlight /\ NullChecksMade /\ [NullCheckRuleFlies \/ AnotherFlies(NullCheckRuleNames) \/ Rest]_vars
        => InFlight' /\ NullChecksMade'
<1> SUFFICES ASSUME InFlight, NullChecksMade, [NullCheckRuleFlies \/ AnotherFlies(NullCheckRuleNames) \/ Rest]_vars
             PROVE  InFlight' /\ NullChecksMade'
  OBVIOUS
<1>1. rules' = rules /\ tree' = tree
  BY DEF NullCheckRuleFlies, AnotherFlies, Rest, Report, vars
<1>2. \A rule : NullCheckFindings(rule)' = NullCheckFindings(rule)
  BY <1>1 DEF NullCheckFindings
<1>3. InFlight'
  <2>1. PICK flight \in Flights : rules = flight.rules /\ tree \in flight.trees
    BY DEF InFlight
  <2>2. Len(rules) \in Nat /\ flown \in 0..Len(rules)
    BY <2>1, FlightsAssumption, LenProperties DEF InFlight
  <2>3. flown' = flown \/ (flown' = flown + 1 /\ flown < Len(rules))
    BY DEF NullCheckRuleFlies, AnotherFlies, Rest, Report, vars, Aloft
  <2> QED
    BY <1>1, <2>1, <2>2, <2>3 DEF InFlight
<1>4. ASSUME NEW rule \in NullCheckRuleNames
      PROVE  /\ At_(rule)' \subseteq NullCheckFindings(rule)
             /\ HasFlown(rule)' => NullCheckFindings(rule) \subseteq At_(rule)'
  <2>1. At_(rule) \subseteq NullCheckFindings(rule) /\ (HasFlown(rule) => NullCheckFindings(rule) \subseteq At_(rule))
    BY DEF NullChecksMade
  <2>2. CASE Rest \/ UNCHANGED vars
    <3>1. flown' = flown /\ reported' = reported
      BY <2>2 DEF Rest, vars
    <3> QED
      BY <1>1, <2>1, <3>1 DEF HasFlown, At_
  <2>3. CASE AnotherFlies(NullCheckRuleNames)
    <3>1. At_(rule)' = At_(rule)
      BY <2>3, ReportedByAnother
    <3>2. rule # Turn /\ Aloft /\ (flown' = flown \/ flown' = flown + 1)
      BY <2>3 DEF AnotherFlies
    <3>3. HasFlown(rule)' <=> HasFlown(rule)
      <4>1. CASE flown' = flown + 1
        BY <1>1, <3>2, <4>1, OneMoreHasFlown
      <4>2. CASE flown' = flown
        BY <1>1, <4>2 DEF HasFlown
      <4> QED
        BY <3>2, <4>1, <4>2
    <3> QED
      BY <2>1, <3>1, <3>3
  <2>4. CASE NullCheckRuleFlies
    <3>1. Aloft /\ Report(NullCheckFindings(Turn)) /\ flown' = flown + 1
      BY <2>4 DEF NullCheckRuleFlies, Report
    <3>2. At_(rule)' = At_(rule) \cup (IF rule = Turn THEN NullCheckFindings(Turn) ELSE {})
      BY <3>1, ReportedBy
    <3>3. HasFlown(rule)' <=> HasFlown(rule) \/ rule = Turn
      BY <1>1, <3>1, OneMoreHasFlown
    <3> QED
      BY <2>1, <3>2, <3>3
  <2> QED
    BY <2>2, <2>3, <2>4
<1> QED
  BY <1>2, <1>3, <1>4 DEF NullChecksMade

LEMMA NullCheckFlightInvariance == NullCheckSpec => [](InFlight /\ NullChecksMade)
<1>1. Init => InFlight /\ NullChecksMade
  <2> SUFFICES ASSUME Init PROVE InFlight /\ NullChecksMade
    OBVIOUS
  <2>1. InFlight /\ flown = 0 /\ \A rule : At_(rule) = {}
    BY InFlightInit
  <2>2. \A rule : ~HasFlown(rule)
    BY <2>1 DEF HasFlown
  <2> QED
    BY <2>1, <2>2 DEF NullChecksMade
<1> QED
  BY <1>1, NullCheckFlightStep, PTL DEF NullCheckSpec

LEMMA ConditionFlightStep ==
    InFlight /\ ConditionsMade /\ [ConditionRuleFlies \/ AnotherFlies(ConditionRuleNames) \/ Rest]_vars
        => InFlight' /\ ConditionsMade'
<1> SUFFICES ASSUME InFlight, ConditionsMade, [ConditionRuleFlies \/ AnotherFlies(ConditionRuleNames) \/ Rest]_vars
             PROVE  InFlight' /\ ConditionsMade'
  OBVIOUS
<1>1. rules' = rules /\ tree' = tree
  BY DEF ConditionRuleFlies, AnotherFlies, Rest, Report, vars
<1>2. \A rule : ConditionFindings(rule)' = ConditionFindings(rule)
  BY <1>1 DEF ConditionFindings
<1>3. InFlight'
  <2>1. PICK flight \in Flights : rules = flight.rules /\ tree \in flight.trees
    BY DEF InFlight
  <2>2. Len(rules) \in Nat /\ flown \in 0..Len(rules)
    BY <2>1, FlightsAssumption, LenProperties DEF InFlight
  <2>3. flown' = flown \/ (flown' = flown + 1 /\ flown < Len(rules))
    BY DEF ConditionRuleFlies, AnotherFlies, Rest, Report, vars, Aloft
  <2> QED
    BY <1>1, <2>1, <2>2, <2>3 DEF InFlight
<1>4. ASSUME NEW rule \in ConditionRuleNames
      PROVE  /\ At_(rule)' \subseteq ConditionFindings(rule)
             /\ HasFlown(rule)' => ConditionFindings(rule) \subseteq At_(rule)'
  <2>1. At_(rule) \subseteq ConditionFindings(rule) /\ (HasFlown(rule) => ConditionFindings(rule) \subseteq At_(rule))
    BY DEF ConditionsMade
  <2>2. CASE Rest \/ UNCHANGED vars
    <3>1. flown' = flown /\ reported' = reported
      BY <2>2 DEF Rest, vars
    <3> QED
      BY <1>1, <2>1, <3>1 DEF HasFlown, At_
  <2>3. CASE AnotherFlies(ConditionRuleNames)
    <3>1. At_(rule)' = At_(rule)
      BY <2>3, ReportedByAnother
    <3>2. rule # Turn /\ Aloft /\ (flown' = flown \/ flown' = flown + 1)
      BY <2>3 DEF AnotherFlies
    <3>3. HasFlown(rule)' <=> HasFlown(rule)
      <4>1. CASE flown' = flown + 1
        BY <1>1, <3>2, <4>1, OneMoreHasFlown
      <4>2. CASE flown' = flown
        BY <1>1, <4>2 DEF HasFlown
      <4> QED
        BY <3>2, <4>1, <4>2
    <3> QED
      BY <2>1, <3>1, <3>3
  <2>4. CASE ConditionRuleFlies
    <3>1. Aloft /\ Report(ConditionFindings(Turn)) /\ flown' = flown + 1
      BY <2>4 DEF ConditionRuleFlies, Report
    <3>2. At_(rule)' = At_(rule) \cup (IF rule = Turn THEN ConditionFindings(Turn) ELSE {})
      BY <3>1, ReportedBy
    <3>3. HasFlown(rule)' <=> HasFlown(rule) \/ rule = Turn
      BY <1>1, <3>1, OneMoreHasFlown
    <3> QED
      BY <2>1, <3>2, <3>3
  <2> QED
    BY <2>2, <2>3, <2>4
<1> QED
  BY <1>2, <1>3, <1>4 DEF ConditionsMade

LEMMA ConditionFlightInvariance == ConditionSpec => [](InFlight /\ ConditionsMade)
<1>1. Init => InFlight /\ ConditionsMade
  <2> SUFFICES ASSUME Init PROVE InFlight /\ ConditionsMade
    OBVIOUS
  <2>1. InFlight /\ flown = 0 /\ \A rule : At_(rule) = {}
    BY InFlightInit
  <2>2. \A rule : ~HasFlown(rule)
    BY <2>1 DEF HasFlown
  <2> QED
    BY <2>1, <2>2 DEF ConditionsMade
<1> QED
  BY <1>1, ConditionFlightStep, PTL DEF ConditionSpec
LEMMA NullCheckReported ==
    ASSUME InFlight, NullChecksMade, NEW rule \in NullCheckRuleNames, Have(rule)
    PROVE  /\ IsOverPointers(tree)
           /\ \A p : p \in At_(rule) <=> p \in Positions(tree) /\ NullCheckFindingsAt(rule, At(tree, p)) = Here
<1>1. HasFlown(rule) /\ \E flight \in Flights : rule \in ToSet(flight.rules) /\ tree \in flight.trees
  BY HaveFlown
<1>2. IsOverPointers(tree)
  BY <1>1, NullCheckTreesAssumption
<1>3. At_(rule) = NullCheckFindings(rule)
  BY <1>1 DEF NullChecksMade
<1>4. \A n : NullCheckFindingsAt(rule, n) \in {Here, Nowhere}
  BY DEF NullCheckFindingsAt, NullCheckRuleNames, BrokenCheck, MisplacedCheck, RedundantNilCheck,
         UnnecessaryNullCheck, ReportIf
<1>5. ASSUME NEW p \in Positions(tree) PROVE p \o <<>> = p
  <2>1. IsTree(tree)
    BY <1>2 DEF IsOverPointers
  <2>2. p \in Seq(Nat)
    BY <2>1, PositionsAre
  <2> QED
    BY <2>2, ConcatEmptySeq
<1>6. <<>> \in Here /\ \A q \in Here : q = <<>>
  BY DEF Here
<1>7. \A q : q \notin Nowhere
  BY DEF Nowhere
<1> HIDE DEF Here, Nowhere
<1>8. \A p : p \in NullCheckFindings(rule) <=>
               \E r \in Positions(tree) : \E q \in NullCheckFindingsAt(rule, At(tree, r)) : p = r \o q
  <2>1. \A p : p \in NullCheckFindings(rule) <=>
                 \E r \in Positions(tree) : p \in {r \o q : q \in NullCheckFindingsAt(rule, At(tree, r))}
    BY Zenon DEF NullCheckFindings
  <2> QED
    BY <2>1
<1>9. ASSUME NEW p
      PROVE  p \in NullCheckFindings(rule) <=> p \in Positions(tree) /\ NullCheckFindingsAt(rule, At(tree, p)) = Here
  <2>1. ASSUME p \in NullCheckFindings(rule)
        PROVE  p \in Positions(tree) /\ NullCheckFindingsAt(rule, At(tree, p)) = Here
    <3>1. PICK r \in Positions(tree) : \E q \in NullCheckFindingsAt(rule, At(tree, r)) : p = r \o q
      BY <1>8, <2>1
    <3>2. NullCheckFindingsAt(rule, At(tree, r)) = Here
      BY <1>4, <1>7, <3>1
    <3>3. p = r \o <<>>
      BY <1>6, <3>1, <3>2
    <3> QED
      BY <1>5, <3>2, <3>3
  <2>2. ASSUME p \in Positions(tree), NullCheckFindingsAt(rule, At(tree, p)) = Here
        PROVE  p \in NullCheckFindings(rule)
    BY <1>5, <1>6, <1>8, <2>2
  <2> QED
    BY <2>1, <2>2
<1> QED
  BY <1>2, <1>3, <1>9

-----------------------------------------------------------------------------
(***************************************************************************)
(* Expressions over pointers, kind by kind.                                *)
(***************************************************************************)
LEMMA OneAndTwo == 1 \in 1..1 /\ 1 \in 1..2 /\ 2 \in 1..2
OBVIOUS

LEMMA OneChild ==
    ASSUME NEW m, IsTree(m)
    PROVE  /\ m.kids = <<>> => m = Leaf(m.k)
           /\ Len(m.kids) = 1 => m = Node(m.k, <<m.kids[1]>>)
           /\ Len(m.kids) = 2 => m = Node(m.k, <<m.kids[1], m.kids[2]>>)
<1>1. m = Node(m.k, m.kids) /\ m.kids \in Seq(ToSet(m.kids))
  BY ContainsItself, NodesAre
<1>2. Len(m.kids) = 1 => m.kids = <<m.kids[1]>>
  BY <1>1
<1>3. Len(m.kids) = 2 => m.kids = <<m.kids[1], m.kids[2]>>
  BY <1>1
<1> HIDE DEF Node
<1> QED
  BY <1>1, <1>2, <1>3 DEF Leaf

LEMMA PointersShape ==
    ASSUME NEW t, IsOverPointers(t)
    PROVE  /\ IsTree(t) /\ t \in Contained(t)
           /\ Len(t.kids) \in Nat /\ DOMAIN t.kids = 1..Len(t.kids)
           /\ Is(t, Operands) => t.kids = <<>> /\ Len(t.kids) = 0
           /\ Is(t, {"not", "paren", "->", "delete"}) => Len(t.kids) = 1
           /\ Is(t, {"and", "or", "==", "!=", "="}) => Len(t.kids) = 2
           /\ Is(t, {"[]"}) => Len(t.kids) \in {1, 2}
           /\ Is(t, {"if"}) => Len(t.kids) \in {2, 3}
           /\ \A i \in 1..Len(t.kids) :
                /\ IsOverPointers(t.kids[i])
                /\ t.kids[i] \in ToSet(t.kids) /\ t.kids[i] \in Contained(t)
                /\ Contained(t.kids[i]) \subseteq Contained(t)
                /\ Is(t, Operators) => Is(t.kids[i], Operands \cup Operators)
           /\ Is(t, {"==", "!="}) => IsNullToPointer(t.kids[1]) \/ IsNullToPointer(t.kids[2])
           /\ Is(t, {"delete"}) => Is(t.kids[1], Pointers \cup {"next"})
           /\ Is(t, {"="}) => Is(t.kids[1], Pointers) /\ IsNullToPointer(t.kids[2])
<1>1. IsTree(t) /\ t \in Contained(t)
  BY ContainsItself DEF IsOverPointers
<1>2. Len(t.kids) \in Nat /\ DOMAIN t.kids = 1..Len(t.kids) /\ \A i \in DOMAIN t.kids : t.kids[i] \in ToSet(t.kids)
  BY <1>1, NodesAre
<1>3. /\ Is(t, Operands) => t.kids = <<>>
      /\ Is(t, {"not", "paren", "->", "delete"}) => Len(t.kids) = 1
      /\ Is(t, {"and", "or", "==", "!=", "="}) => Len(t.kids) = 2
      /\ Is(t, {"[]"}) => Len(t.kids) \in {1, 2}
      /\ Is(t, {"if"}) => Len(t.kids) \in {2, 3}
      /\ \A e \in OperandsOf(t) : Is(e, Operands \cup Operators)
      /\ Is(t, {"==", "!="}) => \E i \in DOMAIN t.kids : IsNullToPointer(t.kids[i])
      /\ Is(t, {"delete"}) => Is(t.kids[1], Pointers \cup {"next"})
      /\ Is(t, {"="}) => Is(t.kids[1], Pointers) /\ IsNullToPointer(t.kids[2])
  BY <1>1, Zenon DEF IsOverPointers
<1>4. Is(t, {"==", "!="}) => IsNullToPointer(t.kids[1]) \/ IsNullToPointer(t.kids[2])
  <2> SUFFICES ASSUME Is(t, {"==", "!="}) PROVE IsNullToPointer(t.kids[1]) \/ IsNullToPointer(t.kids[2])
    OBVIOUS
  <2>1. Len(t.kids) = 2
    BY <1>3 DEF Is
  <2>2. PICK i \in 1..2 : IsNullToPointer(t.kids[i])
    BY <1>2, <1>3, <2>1
  <2>3. i = 1 \/ i = 2
    OBVIOUS
  <2> HIDE DEF IsNullToPointer
  <2> QED
    BY <2>2, <2>3
<1>5. ASSUME NEW i \in 1..Len(t.kids)
      PROVE  /\ IsOverPointers(t.kids[i]) /\ t.kids[i] \in Contained(t)
             /\ Contained(t.kids[i]) \subseteq Contained(t)
             /\ Is(t, Operators) => Is(t.kids[i], Operands \cup Operators)
  <2>1. t.kids[i] \in Contained(t) /\ Contained(t.kids[i]) \subseteq Contained(t)
    BY <1>1, <1>2, ChildrenAreTrees
  <2>2. IsOverPointers(t.kids[i])
    BY <2>1, OverPointersBelow
  <2> QED
    BY <1>2, <1>3, <2>1, <2>2 DEF OperandsOf
<1>6. t.kids = <<>> => Len(t.kids) = 0
  BY EmptySeq
<1> QED
  BY <1>1, <1>2, <1>3, <1>4, <1>5, <1>6

LEMMA TruthOf ==
    ASSUME NEW t, IsOverPointers(t), NEW env \in Pointings
    PROVE  /\ Is(t, Variables) => Truth(t, env) = Said(env[t.k])
           /\ Is(t, {"null"}) => Truth(t, env) = "false"
           /\ Is(t, {"paren"}) => Truth(t, env) = Truth(t.kids[1], env)
           /\ Is(t, {"not"}) => Truth(t, env) = Negated(Truth(t.kids[1], env))
           /\ Is(t, {"and"}) => Truth(t, env) =
                IF Truth(t.kids[1], env) = "true" THEN Truth(t.kids[2], env) ELSE Truth(t.kids[1], env)
           /\ Is(t, {"or"}) => Truth(t, env) =
                IF Truth(t.kids[1], env) = "false" THEN Truth(t.kids[2], env) ELSE Truth(t.kids[1], env)
           /\ Is(t, {"->"}) => Truth(t, env) =
                IF Truth(t.kids[1], env) = "true" THEN Said(env["member"]) ELSE "crash"
           /\ Is(t, {"[]"}) => Truth(t, env) =
                IF Truth(t.kids[1], env) = "crash" \/ (Len(t.kids) = 2 /\ Truth(t.kids[2], env) = "crash") THEN "crash"
                ELSE IF Truth(t.kids[1], env) = "false" THEN "false" ELSE Said(env["message"])
           /\ Is(t, {"==", "!="}) => Truth(t, env) =
                IF "crash" \in {Truth(t.kids[1], env), Truth(t.kids[2], env)} THEN "crash"
                ELSE Said((Truth(t.kids[1], env) = Truth(t.kids[2], env)) = (t.k = "=="))
           /\ ~Is(t, Variables \cup {"null"} \cup Operators) => Truth(t, env) = Said(env["call"])
<1> DEFINE below == [i \in DOMAIN t.kids |-> Truth(t.kids[i], env)]
<1>1. Truth(t, env) = TruthFrom(t, below, env)
  BY TruthIs
<1>2. /\ Len(t.kids) \in {1, 2} => below[1] = Truth(t.kids[1], env)
      /\ Len(t.kids) = 2 => below[2] = Truth(t.kids[2], env)
  <2>1. DOMAIN t.kids = 1..Len(t.kids)
    BY PointersShape
  <2>2. 1 \in 1..1 /\ 1 \in 1..2 /\ 2 \in 1..2
    OBVIOUS
  <2> QED
    BY <2>1, <2>2
<1>3. /\ Is(t, {"not", "paren", "->"}) => Len(t.kids) = 1
      /\ Is(t, {"and", "or", "==", "!="}) => Len(t.kids) = 2
      /\ Is(t, {"[]"}) => Len(t.kids) \in {1, 2}
  BY PointersShape DEF Is
<1>4. Variables \cap ({"null"} \cup Operators) = {}
  BY NullCheckAssumption
<1> HIDE DEF below
<1> DEFINE l == below[1]
           r == below[2]
<1>5. /\ Is(t, Variables) => Truth(t, env) = Said(env[t.k])
      /\ Is(t, {"null"}) => Truth(t, env) = "false"
      /\ Is(t, {"paren"}) => Truth(t, env) = l
      /\ Is(t, {"not"}) => Truth(t, env) = Negated(l)
      /\ Is(t, {"and"}) => Truth(t, env) = IF l = "true" THEN r ELSE l
      /\ Is(t, {"or"}) => Truth(t, env) = IF l = "false" THEN r ELSE l
  BY <1>1, <1>4 DEF TruthFrom, Is, Operators
<1>6. /\ Is(t, {"->"}) => Truth(t, env) = IF l = "true" THEN Said(env["member"]) ELSE "crash"
      /\ Is(t, {"[]"}) => Truth(t, env) =
           IF l = "crash" \/ (Len(t.kids) = 2 /\ r = "crash") THEN "crash"
           ELSE IF l = "false" THEN "false" ELSE Said(env["message"])
  BY <1>1, <1>4 DEF TruthFrom, Is, Operators
<1>7. /\ Is(t, {"==", "!="}) => Truth(t, env) =
           IF "crash" \in {l, r} THEN "crash" ELSE Said((l = r) = (t.k = "=="))
      /\ ~Is(t, Variables \cup {"null"} \cup Operators) => Truth(t, env) = Said(env["call"])
  BY <1>1, <1>4 DEF TruthFrom, Is, Operators
<1>8. /\ Is(t, {"not", "paren", "->", "and", "or", "==", "!=", "[]"}) => l = Truth(t.kids[1], env)
      /\ Is(t, {"and", "or", "==", "!="}) => r = Truth(t.kids[2], env)
      /\ Is(t, {"[]"}) /\ Len(t.kids) = 2 => r = Truth(t.kids[2], env)
  BY <1>2, <1>3 DEF Is
<1> HIDE DEF l, r
<1> QED
  BY <1>5, <1>6, <1>7, <1>8 DEF Is
(* Only operators stand above what an expression reads.                    *)
LEMMA ExpressionsAre ==
    ASSUME NEW t, IsOverPointers(t), Is(t, Operands \cup Operators), NEW m \in Contained(t)
    PROVE  Is(m, Operands \cup Operators)
<1> DEFINE S == {e \in Contained(t) : Is(e, Operands \cup Operators)}
<1>1. IsTree(t) /\ t \in S
  BY PointersShape
<1>2. ASSUME NEW e \in S PROVE ToSet(e.kids) \subseteq S
  <2> SUFFICES ASSUME NEW k \in ToSet(e.kids) PROVE k \in S
    OBVIOUS
  <2>1. IsOverPointers(e)
    BY OverPointersBelow
  <2>2. k \in Contained(t)
    BY <1>1, ContainsChildren
  <2>3. PICK i \in 1..Len(e.kids) : k = e.kids[i]
    BY <2>1, PointersShape DEF ToSet
  <2>4. Len(e.kids) # 0
    BY <2>1, <2>3, PointersShape
  <2>5. Is(e, Operators)
    BY <2>1, <2>4, PointersShape DEF Is
  <2> QED
    BY <2>1, <2>2, <2>3, <2>5, PointersShape
<1>3. Contained(t) \subseteq S
  <2> HIDE DEF S
  <2> QED
    BY <1>1, <1>2, ContainedIsLeast
<1> QED
  BY <1>3

(* What has a node in it has it at the top or in a child.                  *)
LEMMA FoundBelow ==
    ASSUME NEW t, IsOverPointers(t), NEW e \in Contained(t), e # t
    PROVE  \E i \in 1..Len(t.kids) : e \in Contained(t.kids[i])
<1>1. IsTree(t) /\ DOMAIN t.kids = 1..Len(t.kids)
  BY PointersShape
<1>2. PICK k \in ToSet(t.kids) : e \in Contained(k)
  BY <1>1, ContainedBelow
<1>3. PICK i \in 1..Len(t.kids) : k = t.kids[i]
  BY <1>1 DEF ToSet
<1> QED
  BY <1>2, <1>3

LEMMA NeverCrashes ==
    ASSUME NEW t, IsOverPointers(t), ~Holds(t, {"->"}), NEW env \in Pointings, NEW m \in Contained(t)
    PROVE  Truth(m, env) \in {"true", "false"}
<1> DEFINE S == {e \in Contained(t) : Truth(e, env) \in {"true", "false"}}
<1>1. \A b \in BOOLEAN : Said(b) \in {"true", "false"}
  BY DEF Said
<1>2. /\ env["message"] \in BOOLEAN /\ env["call"] \in BOOLEAN
      /\ \A v \in Variables : env[v] \in BOOLEAN
  BY DEF Pointings
<1>3. ASSUME NEW e \in Contained(t), ToSet(e.kids) \subseteq S PROVE e \in S
  <2>1. IsOverPointers(e) /\ ~Is(e, {"->"})
    BY OverPointersBelow DEF Holds
  <2> DEFINE l == Truth(e.kids[1], env)
             r == Truth(e.kids[2], env)
  <2>2. \A i \in 1..Len(e.kids) : Truth(e.kids[i], env) \in {"true", "false"}
    BY <1>3, <2>1, PointersShape
  <2>3. /\ Len(e.kids) \in {1, 2} => l \in {"true", "false"}
        /\ Len(e.kids) = 2 => r \in {"true", "false"}
    <3>1. 1 \in 1..1 /\ 1 \in 1..2 /\ 2 \in 1..2
      OBVIOUS
    <3> QED
      BY <2>2, <3>1
  <2>4. /\ Is(e, {"not", "paren"}) => Len(e.kids) = 1
        /\ Is(e, {"and", "or", "==", "!="}) => Len(e.kids) = 2
        /\ Is(e, {"[]"}) => Len(e.kids) \in {1, 2}
    BY <2>1, PointersShape DEF Is
  <2>5. /\ Is(e, {"not", "paren", "and", "or", "==", "!=", "[]"}) => l \in {"true", "false"}
        /\ Is(e, {"and", "or", "==", "!="}) => r \in {"true", "false"}
        /\ Is(e, {"[]"}) /\ Len(e.kids) = 2 => r \in {"true", "false"}
    BY <2>3, <2>4 DEF Is
  <2>6. /\ Is(e, Variables) => Truth(e, env) = Said(env[e.k])
        /\ Is(e, {"null"}) => Truth(e, env) = "false"
        /\ Is(e, {"paren"}) => Truth(e, env) = l
        /\ Is(e, {"not"}) => Truth(e, env) = Negated(l)
        /\ Is(e, {"and"}) => Truth(e, env) = IF l = "true" THEN r ELSE l
        /\ Is(e, {"or"}) => Truth(e, env) = IF l = "false" THEN r ELSE l
    BY <2>1, TruthOf
  <2>7. /\ Is(e, {"[]"}) => Truth(e, env) =
             IF l = "crash" \/ (Len(e.kids) = 2 /\ r = "crash") THEN "crash"
             ELSE IF l = "false" THEN "false" ELSE Said(env["message"])
        /\ Is(e, {"==", "!="}) => Truth(e, env) =
             IF "crash" \in {l, r} THEN "crash" ELSE Said((l = r) = (e.k = "=="))
        /\ ~Is(e, Variables \cup {"null"} \cup Operators) => Truth(e, env) = Said(env["call"])
    BY <2>1, TruthOf
  <2> HIDE DEF l, r
  <2>8. Is(e, Variables \cup {"null", "paren", "not", "and", "or"}) => Truth(e, env) \in {"true", "false"}
    BY <1>1, <1>2, <2>5, <2>6 DEF Is, Negated
  <2>9. Is(e, {"[]", "==", "!="}) \/ ~Is(e, Variables \cup {"null"} \cup Operators)
          => Truth(e, env) \in {"true", "false"}
    BY <1>1, <1>2, <2>5, <2>7 DEF Is
  <2> QED
    BY <2>1, <2>8, <2>9 DEF Is, Operators
<1>4. Contained(t) \subseteq S
  <2>1. IsTree(t)
    BY PointersShape
  <2> HIDE DEF S
  <2> QED
    BY <1>3, <2>1, TreeInduction
<1> QED
  BY <1>4

(* Where every part is evaluated, one that looks through a null pointer    *)
(* crashes it all.                                                         *)
LEMMA ArrowCrashes ==
    ASSUME NEW t, IsOverPointers(t), Is(t, Operands \cup Operators), Straight(t), NEW env \in Pointings,
           NEW name \in Variables, ~env[name], Arrow(Leaf(name)) \in Contained(t)
    PROVE  Truth(t, env) = "crash"
<1> DEFINE arrow == Arrow(Leaf(name))
           S == {e \in Contained(t) : arrow \in Contained(e) => Truth(e, env) = "crash"}
<1>1. arrow.k = "->" /\ arrow.kids[1].k = name /\ arrow.kids[1] = Leaf(name)
  BY DEF Arrow, Node, Leaf
<1> HIDE DEF arrow
<1>2. ASSUME NEW e \in Contained(t), ToSet(e.kids) \subseteq S, arrow \in Contained(e)
      PROVE  Truth(e, env) = "crash"
  <2>1. IsOverPointers(e) /\ Is(e, Operands \cup Operators) /\ ~Is(e, {"and", "or", "next"})
    BY OverPointersBelow, ExpressionsAre DEF Straight, Holds
  <2>2. CASE e = arrow
    <3>1. IsOverPointers(e.kids[1]) /\ Is(e.kids[1], Variables) /\ Is(e, {"->"})
      <4>1. Len(e.kids) = 1 /\ 1 \in 1..1
        BY <1>1, <2>1, <2>2, PointersShape DEF Is
      <4> QED
        BY <1>1, <2>1, <2>2, <4>1, PointersShape DEF Is
    <3>2. Truth(e.kids[1], env) = Said(env[name])
      BY <1>1, <2>2, <3>1, TruthOf
    <3>3. Truth(e.kids[1], env) = "false"
      BY <3>2 DEF Said
    <3> QED
      BY <2>1, <3>1, <3>3, TruthOf
  <2>3. CASE e # arrow
    <3>1. PICK i \in 1..Len(e.kids) : arrow \in Contained(e.kids[i])
      BY <1>2, <2>1, <2>3, FoundBelow
    <3>2. Truth(e.kids[i], env) = "crash"
      BY <1>2, <2>1, <3>1, PointersShape
    <3>3. Len(e.kids) # 0
      BY <2>1, <3>1, PointersShape
    <3>4. Is(e, {"not", "paren", "->", "[]", "==", "!="})
      BY <2>1, <3>3, PointersShape DEF Is, Operators
    <3>5. CASE Is(e, {"not", "paren", "->"})
      <4>1. Len(e.kids) = 1
        BY <2>1, <3>5, PointersShape DEF Is
      <4>2. i = 1
        BY <3>1, <4>1
      <4>3. Truth(e.kids[1], env) = "crash"
        BY <3>2, <4>2
      <4>4. /\ Is(e, {"paren"}) => Truth(e, env) = Truth(e.kids[1], env)
            /\ Is(e, {"not"}) => Truth(e, env) = Negated(Truth(e.kids[1], env))
            /\ Is(e, {"->"}) => Truth(e, env) =
                 IF Truth(e.kids[1], env) = "true" THEN Said(env["member"]) ELSE "crash"
        BY <2>1, TruthOf
      <4> QED
        BY <3>5, <4>3, <4>4 DEF Is, Negated
    <3>6. CASE Is(e, {"[]", "==", "!="})
      <4>1. Len(e.kids) = 2 \/ (Len(e.kids) = 1 /\ Is(e, {"[]"}))
        BY <2>1, <3>6, PointersShape DEF Is
      <4>2. i = 1 \/ (i = 2 /\ Len(e.kids) = 2)
        BY <3>1, <4>1
      <4>3. Truth(e.kids[1], env) = "crash" \/ (Len(e.kids) = 2 /\ Truth(e.kids[2], env) = "crash")
        BY <3>2, <4>2
      <4>4. /\ Is(e, {"[]"}) => Truth(e, env) =
                 IF Truth(e.kids[1], env) = "crash" \/ (Len(e.kids) = 2 /\ Truth(e.kids[2], env) = "crash") THEN "crash"
                 ELSE IF Truth(e.kids[1], env) = "false" THEN "false" ELSE Said(env["message"])
            /\ Is(e, {"==", "!="}) => Truth(e, env) =
                 IF "crash" \in {Truth(e.kids[1], env), Truth(e.kids[2], env)} THEN "crash"
                 ELSE Said((Truth(e.kids[1], env) = Truth(e.kids[2], env)) = (e.k = "=="))
        BY <2>1, TruthOf
      <4> QED
        BY <3>6, <4>3, <4>4 DEF Is
    <3> QED
      BY <3>4, <3>5, <3>6 DEF Is
  <2> QED
    BY <2>2, <2>3
<1>3. Contained(t) \subseteq S
  <2>1. IsTree(t)
    BY PointersShape
  <2>2. \A e \in Contained(t) : ToSet(e.kids) \subseteq S => e \in S
    BY <1>2
  <2> HIDE DEF S
  <2> QED
    BY <2>1, <2>2, TreeInduction
<1>4. t \in S
  BY <1>3, PointersShape
<1> QED
  BY <1>4 DEF arrow
-----------------------------------------------------------------------------
(***************************************************************************)
(* The checks, and the reports about them.                                 *)
(***************************************************************************)
LEMMA NamesApart ==
    ASSUME NEW name \in Variables
    PROVE  name \notin {"", "null", "call", "next", "member", "message", "delete", "=", "if", "compound",
                        "not", "paren", "->", "[]", "and", "or", "==", "!="}
BY NullCheckAssumption DEF Operators

LEMMA LeafTruth ==
    ASSUME NEW env \in Pointings, NEW t, IsOverPointers(t)
    PROVE  /\ \A name \in Variables : t = Leaf(name) => Truth(t, env) = Said(env[name])
           /\ t = NullPointer => Truth(t, env) = "false"
<1>1. ASSUME NEW name \in Variables, t = Leaf(name) PROVE Truth(t, env) = Said(env[name])
  <2>1. t.k = name /\ Is(t, Variables)
    BY <1>1 DEF Leaf, Node, Is
  <2> QED
    BY <2>1, TruthOf
<1>2. ASSUME t = NullPointer PROVE Truth(t, env) = "false"
  <2>1. Is(t, {"null"})
    BY <1>2 DEF NullPointer, Leaf, Node, Is
  <2> QED
    BY <2>1, TruthOf
<1> QED
  BY <1>1, <1>2

(* A check is a comparison with null or not, and is worth what it says.    *)
LEMMA ChecksAre ==
    ASSUME NEW name \in Variables, NEW c \in ChecksOf(Leaf(name)), IsOverPointers(c), NEW env \in Pointings
    PROVE  /\ ExtractIdentifier(c) = name
           /\ IsNeNullCheck(c) \in BOOLEAN /\ IsEqNullCheck(c) = ~IsNeNullCheck(c)
           /\ IsNeNullCheck(c) => Truth(c, env) = Said(env[name])
           /\ IsEqNullCheck(c) => Truth(c, env) = Said(~env[name])
<1> DEFINE x == Leaf(name)
<1>1. name \notin {"", "null", "not", "and", "or", "==", "!=", "="}
  BY NamesApart
<1>2. x.k = name /\ NullPointer.k = "null"
  BY DEF Leaf, Node, NullPointer
<1>3. env[name] \in BOOLEAN
  BY DEF Pointings
<1>4. Said(TRUE) = "true" /\ Said(FALSE) = "false" /\ Negated("true") = "false" /\ Negated("false") = "true"
  BY DEF Said, Negated
<1>5. "null" \notin Variables
  BY NamesApart
<1>6. c \in {x, Not(x), Eq(x, NullPointer), Eq(NullPointer, x), Ne(x, NullPointer), Ne(NullPointer, x)}
  BY DEF ChecksOf
<1> HIDE DEF x
<1>7. CASE c = x
  <2>1. c.k = name
    BY <1>2, <1>7
  <2>2. Truth(c, env) = Said(env[name])
    BY <1>7, LeafTruth DEF x
  <2> QED
    BY <1>1, <2>1, <2>2 DEF ExtractIdentifier, IsNeNullCheck, IsEqNullCheck, ComparesToNull, IsImplicitDeclRef, Is
<1>8. CASE c = Not(x)
  <2>1. c.k = "not" /\ c.kids[1] = x /\ "not" \notin Variables
    BY <1>8, NamesApart DEF Not, Node
  <2>2. Truth(c.kids[1], env) = Said(env[name])
    <3>1. IsOverPointers(c.kids[1])
      <4>1. Len(c.kids) = 1 /\ 1 \in 1..1
        BY <2>1, PointersShape DEF Is
      <4> QED
        BY <4>1, PointersShape
    <3> QED
      BY <2>1, <3>1, LeafTruth DEF x
  <2>3. Truth(c, env) = Negated(Said(env[name]))
    BY <2>1, <2>2, TruthOf DEF Is
  <2> QED
    BY <1>2, <1>3, <1>4, <2>1, <2>3
       DEF ExtractIdentifier, IsNeNullCheck, IsEqNullCheck, ComparesToNull, IsImplicitDeclRef, Is
<1>9. CASE c \in {Eq(x, NullPointer), Eq(NullPointer, x), Ne(x, NullPointer), Ne(NullPointer, x)}
  <2>1. /\ c.k \in {"==", "!="} /\ c.k \notin Variables
        /\ \/ c.kids[1] = x /\ c.kids[2] = NullPointer
           \/ c.kids[2] = x /\ c.kids[1] = NullPointer
    <3>1. "==" \notin Variables /\ "!=" \notin Variables
      BY NamesApart
    <3> QED
      BY <1>9, <3>1 DEF Eq, Ne, Node
  <2>2. /\ Is(c.kids[1], {"null"}) # Is(c.kids[2], {"null"})
        /\ Is(c.kids[1], {"null"}) => c.kids[2] = x /\ c.kids[1] = NullPointer
        /\ ~Is(c.kids[1], {"null"}) => c.kids[1] = x /\ c.kids[2] = NullPointer
    BY <1>1, <1>2, <2>1 DEF Is
  <2>3. IsOverPointers(c.kids[1]) /\ IsOverPointers(c.kids[2])
    <3>1. Len(c.kids) = 2 /\ 1 \in 1..2 /\ 2 \in 1..2
      BY <2>1, PointersShape DEF Is
    <3> QED
      BY <3>1, PointersShape
  <2>4. \/ Truth(c.kids[1], env) = Said(env[name]) /\ Truth(c.kids[2], env) = "false"
        \/ Truth(c.kids[2], env) = Said(env[name]) /\ Truth(c.kids[1], env) = "false"
    BY <2>1, <2>3, LeafTruth DEF x
  <2>5. Truth(c, env) = IF "crash" \in {Truth(c.kids[1], env), Truth(c.kids[2], env)} THEN "crash"
                        ELSE Said((Truth(c.kids[1], env) = Truth(c.kids[2], env)) = (c.k = "=="))
    BY <2>1, TruthOf DEF Is
  <2>6. ~("crash" \in {Truth(c.kids[1], env), Truth(c.kids[2], env)})
    BY <1>3, <1>4, <2>4
  <2>7. (Truth(c.kids[1], env) = Truth(c.kids[2], env)) <=> ~env[name]
    BY <1>3, <1>4, <2>4
  <2>8. ((Truth(c.kids[1], env) = Truth(c.kids[2], env)) = (c.k = "==")) = IF c.k = "==" THEN ~env[name] ELSE env[name]
    BY <1>3, <2>7
  <2>9. Truth(c, env) = IF c.k = "==" THEN Said(~env[name]) ELSE Said(env[name])
    BY <2>5, <2>6, <2>8
  <2>10. IsNeNullCheck(c) = (c.k = "!=") /\ IsEqNullCheck(c) = (c.k = "==")
    BY <2>1, <2>2 DEF IsNeNullCheck, IsEqNullCheck, ComparesToNull, IsNullToPointer, IsImplicitDeclRef, Is
  <2>11. ExtractIdentifier(c) = name
    <3>1. (IF IsNullToPointer(c.kids[1]) THEN c.kids[2] ELSE c.kids[1]) = x
      BY <2>2 DEF IsNullToPointer
    <3> QED
      BY <1>2, <2>1, <3>1 DEF ExtractIdentifier, Is
  <2> QED
    BY <2>1, <2>9, <2>10, <2>11
<1> QED
  BY <1>6, <1>7, <1>8, <1>9

(* What the rules take for a check of a variable is one of these six.      *)
LEMMA ChecksFound ==
    ASSUME NEW c, IsOverPointers(c), IsEqNullCheck(c) \/ IsNeNullCheck(c), ExtractIdentifier(c) # ""
    PROVE  ExtractIdentifier(c) \in Variables /\ c \in ChecksOf(Leaf(ExtractIdentifier(c)))
<1>1. \A name \in Variables : name \notin {"", "null", "not", "and", "or", "==", "!=", "="}
  BY NamesApart
<1>2. ASSUME NEW e, IsOverPointers(e)
      PROVE  (Is(e, Variables) => e = Leaf(e.k)) /\ (IsNullToPointer(e) => e = NullPointer)
  <2>1. Is(e, Operands) => e.kids = <<>> /\ IsTree(e)
    BY <1>2, PointersShape
  <2>2. Is(e, Operands) => e = Leaf(e.k)
    BY <2>1, OneChild
  <2> QED
    BY <2>2 DEF Is, Operands, IsNullToPointer, NullPointer
<1>3. CASE Is(c, Variables)
  <2>1. ExtractIdentifier(c) = c.k
    BY <1>1, <1>3 DEF ExtractIdentifier, Is
  <2>2. c = Leaf(c.k)
    BY <1>2, <1>3
  <2> QED
    BY <1>3, <2>1, <2>2 DEF ChecksOf, Is
<1>4. CASE Is(c, {"not"})
  <2>1. Len(c.kids) = 1 /\ IsTree(c)
    BY <1>4, PointersShape DEF Is
  <2>2. c = Node("not", <<c.kids[1]>>)
    BY <1>4, <2>1, OneChild DEF Is
  <2>3. Is(c.kids[1], Variables) /\ ExtractIdentifier(c) = c.kids[1].k
    BY <1>4 DEF ExtractIdentifier, Is
  <2>4. c.kids[1] = Leaf(c.kids[1].k)
    <3>1. 1 \in 1..1
      BY OneAndTwo, Zenon
    <3> QED
      BY <1>2, <2>1, <2>3, <3>1, PointersShape
  <2> QED
    BY <2>2, <2>3, <2>4 DEF ChecksOf, Not, Is
<1>5. CASE Is(c, {"==", "!="})
  <2>1. Len(c.kids) = 2 /\ IsTree(c) /\ 1 \in 1..2 /\ 2 \in 1..2
    <3>1. Len(c.kids) = 2 /\ IsTree(c)
      BY <1>5, PointersShape DEF Is
    <3> QED
      BY <3>1, OneAndTwo, Zenon
  <2>2. c = Node(c.k, <<c.kids[1], c.kids[2]>>)
    BY <2>1, OneChild
  <2>3. IsOverPointers(c.kids[1]) /\ IsOverPointers(c.kids[2])
    BY <2>1, PointersShape
  <2>4. CASE IsNullToPointer(c.kids[1])
    <3>1. Is(c.kids[2], Variables) /\ ExtractIdentifier(c) = c.kids[2].k
      BY <1>5, <2>4 DEF ExtractIdentifier, Is
    <3>2. c.kids[1] = NullPointer /\ c.kids[2] = Leaf(c.kids[2].k)
      BY <1>2, <2>3, <2>4, <3>1
    <3> QED
      BY <1>5, <2>2, <3>1, <3>2 DEF ChecksOf, Eq, Ne, Is
  <2>5. CASE ~IsNullToPointer(c.kids[1])
    <3>1. Is(c.kids[1], Variables) /\ ExtractIdentifier(c) = c.kids[1].k
      BY <1>5, <2>5 DEF ExtractIdentifier, Is
    <3>2. c.kids[2] = NullPointer /\ c.kids[1] = Leaf(c.kids[1].k)
      BY <1>2, <1>5, <2>3, <2>5, <3>1, PointersShape
    <3> QED
      BY <1>5, <2>2, <3>1, <3>2 DEF ChecksOf, Eq, Ne, Is
  <2> QED
    BY <2>4, <2>5
<1> QED
  BY <1>3, <1>4, <1>5 DEF IsEqNullCheck, IsNeNullCheck, ComparesToNull, IsImplicitDeclRef, Is

(* The two sides of an "and" or an "or".                                   *)
LEMMA TwoSides ==
    ASSUME NEW n, IsOverPointers(n), Is(n, {"and", "or"})
    PROVE  /\ IsOverPointers(n.kids[1]) /\ IsOverPointers(n.kids[2])
           /\ Is(n.kids[1], Operands \cup Operators) /\ Is(n.kids[2], Operands \cup Operators)
           /\ Contained(n.kids[1]) \subseteq Contained(n) /\ Contained(n.kids[2]) \subseteq Contained(n)
           /\ n.kids[1] \in Contained(n.kids[1]) /\ n.kids[2] \in Contained(n.kids[2])
<1>1. Len(n.kids) = 2 /\ 1 \in 1..2 /\ 2 \in 1..2 /\ Is(n, Operators)
  BY PointersShape DEF Is, Operators
<1> QED
  BY <1>1, PointersShape

LEMMA BrokenChecksCrash == InFlight /\ NullChecksMade => BrokenExactlyWhenItCrashes
<1> SUFFICES ASSUME InFlight, NullChecksMade, Have("BrokenNullCheck"), NEW p \in Positions(tree), NEW name \in Pointers,
                    Is(At(tree, p), {"and", "or"}),
                    At(tree, p).kids[1] \in ChecksOf(Leaf(name)),
                    Arrow(Leaf(name)) \in Contained(At(tree, p).kids[2]),
                    Straight(At(tree, p).kids[2])
             PROVE  p \in At_("BrokenNullCheck")
                      <=> \A env \in Pointings : ~env[name] => Truth(At(tree, p), env) = "crash"
  BY DEF BrokenExactlyWhenItCrashes
<1> DEFINE n == At(tree, p)
           l == n.kids[1]
           r == n.kids[2]
<1>1. IsOverPointers(tree) /\ (p \in At_("BrokenNullCheck") <=> BrokenCheck(n, "->") = Here)
  BY NullCheckReported DEF NullCheckRuleNames, NullCheckFindingsAt
<1>2. IsOverPointers(n) /\ name \in Variables
  <2>1. n \in Contained(tree)
    BY <1>1, PointersShape, PositionsAre
  <2> QED
    BY <1>1, <2>1, OverPointersBelow DEF Variables
<1>3. /\ Is(n, {"and", "or"}) /\ l \in ChecksOf(Leaf(name))
      /\ Arrow(Leaf(name)) \in Contained(r) /\ Straight(r)
  OBVIOUS
<1> HIDE DEF n
<1>4. IsOverPointers(l) /\ IsOverPointers(r) /\ Is(r, Operands \cup Operators)
  BY <1>2, <1>3, TwoSides
<1>5. UsesChecked(l, r, "->")
  <2>1. ExtractIdentifier(l) = name
    <3>1. [v \in Variables \cup {"member", "message", "call"} |-> TRUE] \in Pointings
      BY DEF Pointings
    <3> QED
      BY <1>2, <1>3, <1>4, <3>1, ChecksAre
  <2>2. Is(Arrow(Leaf(name)), {"->"}) /\ Arrow(Leaf(name)).kids[1].k = name
    BY DEF Arrow, Leaf, Node, Is
  <2> QED
    BY <1>2, <1>3, <2>1, <2>2, NamesApart DEF UsesChecked, HasVariableInExpr, Is
<1>6. BrokenCheck(n, "->") = Here <=> (Is(n, {"or"}) /\ IsNeNullCheck(l)) \/ (Is(n, {"and"}) /\ IsEqNullCheck(l))
  BY <1>5 DEF BrokenCheck, ReportIf, Here, Nowhere
<1>7. \A env \in Pointings :
        /\ Truth(n, env) = IF Is(n, {"and"})
                           THEN IF Truth(l, env) = "true" THEN Truth(r, env) ELSE Truth(l, env)
                           ELSE IF Truth(l, env) = "false" THEN Truth(r, env) ELSE Truth(l, env)
        /\ ~env[name] => Truth(r, env) = "crash"
        /\ IsEqNullCheck(l) = ~IsNeNullCheck(l) /\ IsNeNullCheck(l) \in BOOLEAN
        /\ ~env[name] => Truth(l, env) = IF IsNeNullCheck(l) THEN "false" ELSE "true"
  <2> TAKE env \in Pointings
  <2>1. Truth(n, env) = IF Is(n, {"and"})
                        THEN IF Truth(l, env) = "true" THEN Truth(r, env) ELSE Truth(l, env)
                        ELSE IF Truth(l, env) = "false" THEN Truth(r, env) ELSE Truth(l, env)
    BY <1>2, <1>3, TruthOf DEF Is
  <2>2. ~env[name] => Truth(r, env) = "crash"
    BY <1>2, <1>3, <1>4, ArrowCrashes
  <2>3. /\ IsNeNullCheck(l) \in BOOLEAN /\ IsEqNullCheck(l) = ~IsNeNullCheck(l)
        /\ IsNeNullCheck(l) => Truth(l, env) = Said(env[name])
        /\ IsEqNullCheck(l) => Truth(l, env) = Said(~env[name])
    BY <1>2, <1>3, <1>4, ChecksAre
  <2>4. ~env[name] => Said(env[name]) = "false" /\ Said(~env[name]) = "true"
    BY DEF Said
  <2> QED
    BY <2>1, <2>2, <2>3, <2>4
<1>8. PICK none \in Pointings : ~none[name]
  <2> DEFINE f == [v \in Variables \cup {"member", "message", "call"} |-> FALSE]
  <2>1. f \in Pointings /\ ~f[name]
    BY <1>2 DEF Pointings
  <2> QED
    BY <2>1
<1> HIDE DEF l, r
<1>9. ASSUME p \in At_("BrokenNullCheck"), NEW env \in Pointings, ~env[name] PROVE Truth(n, env) = "crash"
  BY <1>1, <1>6, <1>7, <1>9 DEF Is
<1>10. ASSUME p \notin At_("BrokenNullCheck") PROVE Truth(n, none) # "crash"
  <2>1. ~((Is(n, {"or"}) /\ IsNeNullCheck(l)) \/ (Is(n, {"and"}) /\ IsEqNullCheck(l)))
    BY <1>1, <1>6, <1>10
  <2> QED
    BY <1>3, <1>7, <1>8, <2>1 DEF Is
<1> QED
  BY <1>8, <1>9, <1>10 DEF n
LEMMA MisplacedChecksAre == InFlight /\ NullChecksMade => MisplacedChecksAreUseless
<1> SUFFICES ASSUME InFlight, NullChecksMade, Have("MisplacedNullCheck"), NEW p \in At_("MisplacedNullCheck"),
                    Straight(At(tree, p).kids[1]), NEW env \in Pointings
             PROVE  /\ Truth(At(tree, p), env) = Truth(At(tree, p).kids[1], env)
                    /\ ~env[ExtractIdentifier(At(tree, p).kids[2])] => Truth(At(tree, p), env) = "crash"
  BY DEF MisplacedChecksAreUseless
<1> DEFINE n == At(tree, p)
           l == n.kids[1]
           r == n.kids[2]
           name == ExtractIdentifier(r)
<1>1. IsOverPointers(tree) /\ p \in Positions(tree) /\ MisplacedCheck(n, "->") = Here
  BY NullCheckReported DEF NullCheckRuleNames, NullCheckFindingsAt
<1>2. IsOverPointers(n)
  <2>1. n \in Contained(tree)
    BY <1>1, PointersShape, PositionsAre
  <2> QED
    BY <1>1, <2>1, OverPointersBelow
<1>3. Straight(l)
  OBVIOUS
<1> HIDE DEF n
<1>4. /\ (Is(n, {"and"}) /\ IsNeNullCheck(r)) \/ (Is(n, {"or"}) /\ IsEqNullCheck(r))
      /\ name # "" /\ HasVariableInExpr(name, l, "->")
  BY <1>1 DEF MisplacedCheck, ReportIf, Here, Nowhere, UsesChecked
<1>5. IsOverPointers(l) /\ IsOverPointers(r) /\ Is(l, Operands \cup Operators) /\ Is(n, {"and", "or"})
  BY <1>2, <1>4, TwoSides DEF Is
<1>6. name \in Variables /\ r \in ChecksOf(Leaf(name))
  BY <1>4, <1>5, ChecksFound
<1>7. /\ IsEqNullCheck(r) = ~IsNeNullCheck(r) /\ IsNeNullCheck(r) \in BOOLEAN
      /\ IsNeNullCheck(r) => Truth(r, env) = Said(env[name])
      /\ IsEqNullCheck(r) => Truth(r, env) = Said(~env[name])
  BY <1>5, <1>6, ChecksAre
<1>8. Arrow(Leaf(name)) \in Contained(l)
  <2>1. PICK e \in Contained(l) : Is(e, {"->"}) /\ Is(e.kids[1], Variables) /\ e.kids[1].k = name
    BY <1>4 DEF HasVariableInExpr
  <2>2. IsOverPointers(e)
    BY <1>5, OverPointersBelow
  <2>3. Len(e.kids) = 1 /\ IsTree(e)
    BY <2>1, <2>2, PointersShape DEF Is
  <2>4. IsOverPointers(e.kids[1]) /\ Is(e.kids[1], Operands)
    BY <2>1, <2>2, <2>3, OneAndTwo, PointersShape DEF Is, Operands
  <2>5. e.kids[1] = Leaf(name)
    BY <2>1, <2>4, OneChild, PointersShape
  <2>6. e = Node("->", <<e.kids[1]>>)
    BY <2>1, <2>3, OneChild DEF Is
  <2> QED
    BY <2>5, <2>6 DEF Arrow
<1>9. Truth(n, env) = IF Is(n, {"and"})
                      THEN IF Truth(l, env) = "true" THEN Truth(r, env) ELSE Truth(l, env)
                      ELSE IF Truth(l, env) = "false" THEN Truth(r, env) ELSE Truth(l, env)
  BY <1>2, <1>5, TruthOf DEF Is
<1>10. ~env[name] => Truth(l, env) = "crash"
  BY <1>3, <1>5, <1>6, <1>8, ArrowCrashes
<1>11. env[name] => Truth(r, env) = IF Is(n, {"and"}) THEN "true" ELSE "false"
  BY <1>4, <1>7 DEF Said, Is
<1> HIDE DEF l, r, name
<1> QED
  BY <1>9, <1>10, <1>11 DEF n, l, r, name

-----------------------------------------------------------------------------
(***************************************************************************)
(* What must hold for an expression to hold, and messages to null.         *)
(***************************************************************************)
LEMMA ConjunctsFromType ==
    ASSUME NEW t, IsOverPointers(t), NEW m \in Contained(t), NEW below \in [DOMAIN m.kids -> SUBSET Contained(t)]
    PROVE  ConjunctsFrom(m, below) \in SUBSET Contained(t)
<1>1. IsOverPointers(m)
  BY OverPointersBelow
<1>2. /\ DOMAIN m.kids = 1..Len(m.kids)
      /\ Is(m, {"and"}) => Len(m.kids) = 2
      /\ Is(m, {"paren"}) => Len(m.kids) = 1
  BY <1>1, PointersShape DEF Is
<1>3. /\ Is(m, {"and"}) => below[1] \in SUBSET Contained(t) /\ below[2] \in SUBSET Contained(t)
      /\ Is(m, {"paren"}) => below[1] \in SUBSET Contained(t)
  BY <1>2, OneAndTwo
<1> QED
  BY <1>3 DEF ConjunctsFrom

LEMMA ConjunctsIs ==
    ASSUME NEW t, IsOverPointers(t)
    PROVE  /\ Conjuncts(t) \in SUBSET Contained(t)
           /\ Conjuncts(t) = ConjunctsFrom(t, [i \in DOMAIN t.kids |-> Conjuncts(t.kids[i])])
<1> DEFINE V == SUBSET Contained(t)
           G == [m \in Contained(t) |-> [below \in [DOMAIN m.kids -> V] |-> ConjunctsFrom(m, below)]]
           Unfolded(f, e) == [m \in Contained(e) |-> ConjunctsFrom(m, [i \in DOMAIN m.kids |-> f[m.kids[i]]])]
           made(e) == CHOOSE f : f = Unfolded(f, e)
<1>1. IsTree(t)
  BY PointersShape
<1>2. \A m \in Contained(t) : G[m] \in [[DOMAIN m.kids -> V] -> V]
  BY ConjunctsFromType
<1> HIDE DEF V
<1>3. PICK h : FollowsTree(h, t, V, G)
  <2> HIDE DEF G
  <2> QED
    BY <1>1, <1>2, TreeRecursion
<1>4. ASSUME NEW m \in Contained(t)
      PROVE  h[m] \in V /\ h[m] = ConjunctsFrom(m, [i \in DOMAIN m.kids |-> h[m.kids[i]]])
  <2>1. h[m] \in V /\ h[m] = G[m][Below(h, m)]
    BY <1>3 DEF FollowsTree
  <2>2. Below(h, m) \in [DOMAIN m.kids -> V]
    BY <1>1, <1>3, NodesAre DEF Below, FollowsTree
  <2> QED
    BY <2>1, <2>2 DEF Below
<1> HIDE DEF G
<1>5. ASSUME NEW e \in Contained(t) PROVE Conjuncts(e) = h[e]
  <2>1. Conjuncts(e) = made(e)[e]
    BY DEF Conjuncts, FromBelow
  <2>2. IsTree(e) /\ Contained(e) \subseteq Contained(t) /\ e \in Contained(e)
    BY <1>1, Subtree, ContainsItself
  <2>3. [m \in Contained(e) |-> h[m]] = Unfolded([m \in Contained(e) |-> h[m]], e)
    <3>1. ASSUME NEW m \in Contained(e)
          PROVE  h[m] = ConjunctsFrom(m, [i \in DOMAIN m.kids |-> [x \in Contained(e) |-> h[x]][m.kids[i]]])
      <4>1. \A i \in DOMAIN m.kids : m.kids[i] \in Contained(e)
        BY <2>2, NodesAre
      <4>2. [i \in DOMAIN m.kids |-> [x \in Contained(e) |-> h[x]][m.kids[i]]] = [i \in DOMAIN m.kids |-> h[m.kids[i]]]
        BY <4>1
      <4> QED
        BY <1>4, <2>2, <4>2
    <3> QED
      BY <3>1
  <2>4. made(e) = Unfolded(made(e), e)
    <3> HIDE DEF Unfolded
    <3> QED
      BY <2>3
  <2> HIDE DEF made
  <2> DEFINE S == {m \in Contained(e) : made(e)[m] = h[m]}
  <2>5. ASSUME NEW m \in Contained(e), ToSet(m.kids) \subseteq S PROVE m \in S
    <3>1. \A i \in DOMAIN m.kids : made(e)[m.kids[i]] = h[m.kids[i]]
      BY <2>2, <2>5, NodesAre
    <3>2. made(e)[m] = ConjunctsFrom(m, [i \in DOMAIN m.kids |-> made(e)[m.kids[i]]])
      BY <2>4
    <3>3. [i \in DOMAIN m.kids |-> made(e)[m.kids[i]]] = [i \in DOMAIN m.kids |-> h[m.kids[i]]]
      BY <3>1
    <3> QED
      BY <1>4, <2>2, <3>2, <3>3
  <2>6. Contained(e) \subseteq S
    <3> HIDE DEF S
    <3> QED
      BY <2>2, <2>5, TreeInduction
  <2> QED
    BY <2>1, <2>2, <2>6
<1>6. \A i \in DOMAIN t.kids : Conjuncts(t.kids[i]) = h[t.kids[i]]
  BY <1>1, <1>5, ChildrenAreTrees
<1>7. [i \in DOMAIN t.kids |-> Conjuncts(t.kids[i])] = [i \in DOMAIN t.kids |-> h[t.kids[i]]]
  BY <1>6
<1>8. t \in Contained(t)
  BY <1>1, ContainsItself
<1> QED
  BY <1>4, <1>5, <1>7, <1>8 DEF V

(* What must hold for it and does not makes it false.                      *)
LEMMA ConjunctFails ==
    ASSUME NEW t, IsOverPointers(t), ~Holds(t, {"->"}), NEW env \in Pointings,
           NEW e \in Conjuncts(t), Truth(e, env) = "false"
    PROVE  Truth(t, env) = "false"
<1> DEFINE S == {m \in Contained(t) : e \in Conjuncts(m) => Truth(m, env) = "false"}
<1>1. ASSUME NEW m \in Contained(t), ToSet(m.kids) \subseteq S, e \in Conjuncts(m)
      PROVE  Truth(m, env) = "false"
  <2>1. IsOverPointers(m)
    BY OverPointersBelow
  <2>2. e \in ConjunctsFrom(m, [i \in DOMAIN m.kids |-> Conjuncts(m.kids[i])])
    BY <1>1, <2>1, ConjunctsIs
  <2>3. DOMAIN m.kids = 1..Len(m.kids) /\ \A i \in 1..Len(m.kids) : m.kids[i] \in Contained(t)
    BY <2>1, PointersShape, Subtree
  <2>4. CASE Is(m, {"and"})
    <3>1. Len(m.kids) = 2
      BY <2>1, <2>4, PointersShape DEF Is
    <3>2. e \in Conjuncts(m.kids[1]) \/ e \in Conjuncts(m.kids[2])
      BY <2>2, <2>3, <2>4, <3>1, OneAndTwo DEF ConjunctsFrom
    <3>3. m.kids[1] \in S /\ m.kids[2] \in S
      BY <1>1, <2>1, <3>1, OneAndTwo, PointersShape
    <3>4. Truth(m.kids[1], env) = "false" \/ Truth(m.kids[2], env) = "false"
      BY <3>2, <3>3
    <3>5. Truth(m.kids[1], env) \in {"true", "false"}
      BY <2>3, <3>1, OneAndTwo, NeverCrashes
    <3>6. Truth(m, env) = IF Truth(m.kids[1], env) = "true" THEN Truth(m.kids[2], env) ELSE Truth(m.kids[1], env)
      BY <2>1, <2>4, TruthOf
    <3> QED
      BY <3>4, <3>5, <3>6
  <2>5. CASE Is(m, {"paren"})
    <3>1. Len(m.kids) = 1 /\ ~Is(m, {"and"})
      BY <2>1, <2>5, PointersShape DEF Is
    <3>2. e \in Conjuncts(m.kids[1])
      BY <2>2, <2>3, <2>5, <3>1, OneAndTwo DEF ConjunctsFrom
    <3>3. m.kids[1] \in S
      BY <1>1, <2>1, <3>1, OneAndTwo, PointersShape
    <3> QED
      BY <2>1, <2>5, <3>2, <3>3, TruthOf
  <2>6. CASE ~Is(m, {"and"}) /\ ~Is(m, {"paren"})
    BY <2>2, <2>6 DEF ConjunctsFrom
  <2> QED
    BY <2>4, <2>5, <2>6
<1>2. Contained(t) \subseteq S
  <2>1. IsTree(t)
    BY PointersShape
  <2>2. \A m \in Contained(t) : ToSet(m.kids) \subseteq S => m \in S
    BY <1>1
  <2> HIDE DEF S
  <2> QED
    BY <2>1, <2>2, TreeInduction
<1>3. t \in S
  BY <1>2, PointersShape
<1> QED
  BY <1>3

LEMMA RedundantNilChecksAre == InFlight /\ NullChecksMade => RedundantNilChecksDoNothing
<1> SUFFICES ASSUME InFlight, NullChecksMade, Have("RedundantNilCheck"), NEW p \in Positions(tree),
                    Is(At(tree, p), {"and"}), Is(At(tree, p).kids[1], Pointers),
                    NEW e \in Conjuncts(At(tree, p).kids[2]), Is(e, {"[]"}), e.kids[1] = At(tree, p).kids[1],
                    \A f \in Conjuncts(At(tree, p).kids[2]) : Is(f, {"[]"} \cup Variables),
                    ~Holds(At(tree, p), {"->", "next"})
             PROVE  /\ \A env \in Pointings : Truth(At(tree, p), env) = Truth(At(tree, p).kids[2], env)
                    /\ p \in At_("RedundantNilCheck")
  BY DEF RedundantNilChecksDoNothing
<1> DEFINE n == At(tree, p)
           l == n.kids[1]
           r == n.kids[2]
<1>1. IsOverPointers(tree) /\ (p \in At_("RedundantNilCheck") <=> RedundantNilCheck(n) = Here)
  BY NullCheckReported DEF NullCheckRuleNames, NullCheckFindingsAt
<1>2. IsOverPointers(n)
  <2>1. n \in Contained(tree)
    BY <1>1, PointersShape, PositionsAre
  <2> QED
    BY <1>1, <2>1, OverPointersBelow
<1>3. /\ Is(n, {"and"}) /\ Is(l, Variables) /\ e \in Conjuncts(r) /\ Is(e, {"[]"}) /\ e.kids[1] = l
      /\ \A f \in Conjuncts(r) : Is(f, {"[]"} \cup Variables)
  BY DEF Is, Variables
<1>4. ~Holds(n, {"->"})
  BY DEF Holds, Is
<1> HIDE DEF n
<1>5. IsOverPointers(l) /\ IsOverPointers(r) /\ Contained(l) \subseteq Contained(n) /\ Contained(r) \subseteq Contained(n)
  BY <1>2, <1>3, TwoSides DEF Is
<1>6. ~Holds(r, {"->"})
  BY <1>4, <1>5 DEF Holds
<1>7. e \in Contained(r)
  BY <1>3, <1>5, ConjunctsIs
<1>8. ASSUME NEW env \in Pointings PROVE Truth(n, env) = Truth(r, env)
  <2>1. Truth(l, env) = Said(env[l.k]) /\ env[l.k] \in BOOLEAN
    BY <1>3, <1>5, TruthOf DEF Is, Pointings
  <2>2. Truth(n, env) = IF Truth(l, env) = "true" THEN Truth(r, env) ELSE Truth(l, env)
    BY <1>2, <1>3, TruthOf
  <2>3. CASE env[l.k]
    BY <2>1, <2>2, <2>3 DEF Said
  <2>4. CASE ~env[l.k]
    <3>1. Truth(l, env) = "false"
      BY <2>1, <2>4 DEF Said
    <3>2. IsOverPointers(e) /\ Truth(e, env) \in {"true", "false"}
      BY <1>5, <1>6, <1>7, NeverCrashes, OverPointersBelow
    <3>3. Truth(e, env) =
            IF Truth(e.kids[1], env) = "crash" \/ (Len(e.kids) = 2 /\ Truth(e.kids[2], env) = "crash") THEN "crash"
            ELSE IF Truth(e.kids[1], env) = "false" THEN "false" ELSE Said(env["message"])
      BY <1>3, <3>2, TruthOf
    <3>4. Truth(e, env) = "false"
      BY <1>3, <3>1, <3>2, <3>3
    <3>5. Truth(r, env) = "false"
      BY <1>3, <1>5, <1>6, <3>4, ConjunctFails
    <3> QED
      BY <2>2, <3>1, <3>5
  <2> QED
    BY <2>1, <2>3, <2>4
<1>9. RedundantNilCheck(n) = Here
  <2>1. IsNeNullCheck(l)
    BY <1>3 DEF IsNeNullCheck, IsImplicitDeclRef
  <2>2. ~Is(r, {"not"})
    <3>1. SUFFICES ASSUME Is(r, {"not"}) PROVE FALSE
      OBVIOUS
    <3>2. Conjuncts(r) = {r}
      BY <1>5, <3>1, ConjunctsIs DEF ConjunctsFrom, Is
    <3>3. "not" \notin Variables
      BY NamesApart
    <3> QED
      BY <1>3, <3>1, <3>2, <3>3 DEF Is
  <2>3. ExtractIdentifier(l) = l.k /\ l.k # "" /\ l.k \in Variables
    BY <1>3, NamesApart DEF ExtractIdentifier, Is
  <2>4. HasVariableInExpr(l.k, r, "[]")
    BY <1>3, <1>7 DEF HasVariableInExpr
  <2> QED
    BY <1>3, <2>1, <2>2, <2>3, <2>4 DEF RedundantNilCheck, ReportIf, UsesChecked
<1> QED
  BY <1>1, <1>8, <1>9 DEF n
(* Messages to the one that name names, answered the other way round.      *)
Answered(env) == [env EXCEPT !["message"] = ~@]

LEMMA AnsweredIs ==
    ASSUME NEW env \in Pointings
    PROVE  /\ Answered(env) \in Pointings
           /\ \A v \in Variables \cup {"member", "call"} : Answered(env)[v] = env[v]
           /\ Answered(env)["message"] = ~env["message"]
<1>1. \A v \in Variables \cup {"member", "call"} : v # "message"
  BY NamesApart
<1>2. Answered(env) = [v \in Variables \cup {"member", "message", "call"} |->
                         IF v = "message" THEN ~env["message"] ELSE env[v]]
  BY DEF Answered, Pointings
<1>3. \A v \in Variables \cup {"member", "message", "call"} : env[v] \in BOOLEAN
  BY DEF Pointings
<1> QED
  BY <1>1, <1>2, <1>3 DEF Pointings

Messages(e) == {m \in Contained(e) : Is(m, {"[]"})}

LEMMA ReceiverIs ==
    ASSUME NEW t, IsOverPointers(t), NEW name \in Variables, NEW env \in Pointings,
           \A e \in Messages(t) : e.kids[1] = Leaf(name), NEW m \in Messages(t)
    PROVE  Truth(m.kids[1], env) = Said(env[name])
<1>1. IsOverPointers(m)
  BY OverPointersBelow DEF Messages
<1>2. IsOverPointers(m.kids[1])
  <2>1. Len(m.kids) \in {1, 2}
    BY <1>1, PointersShape DEF Messages
  <2> QED
    BY <1>1, <2>1, OneAndTwo, PointersShape
<1> QED
  BY <1>2, LeafTruth

(* To null they all give null.                                             *)
LEMMA AnswersDoNotMatter ==
    ASSUME NEW t, IsOverPointers(t), NEW name \in Variables, NEW env \in Pointings, ~env[name],
           \A e \in Messages(t) : e.kids[1] = Leaf(name)
    PROVE  Truth(t, Answered(env)) = Truth(t, env)
<1> DEFINE flip == Answered(env)
           S == {m \in Contained(t) : Truth(m, flip) = Truth(m, env)}
<1>1. /\ flip \in Pointings
      /\ \A v \in Variables \cup {"member", "call"} : flip[v] = env[v]
  BY AnsweredIs
<1> HIDE DEF flip
<1>2. ASSUME NEW m \in Contained(t), ToSet(m.kids) \subseteq S PROVE m \in S
  <2>1. IsOverPointers(m)
    BY OverPointersBelow
  <2>2. \A i \in 1..Len(m.kids) : Truth(m.kids[i], flip) = Truth(m.kids[i], env)
    BY <1>2, <2>1, PointersShape
  <2>3. /\ Len(m.kids) \in {1, 2} => Truth(m.kids[1], flip) = Truth(m.kids[1], env)
        /\ Len(m.kids) = 2 => Truth(m.kids[2], flip) = Truth(m.kids[2], env)
    BY <2>2, OneAndTwo
  <2>4. CASE Is(m, {"[]"})
    <3>1. Truth(m.kids[1], flip) = Truth(m.kids[1], env) /\ Truth(m.kids[1], env) = "false"
      <4>1. Truth(m.kids[1], env) = Said(env[name])
        BY <2>4, ReceiverIs DEF Messages
      <4>2. Len(m.kids) \in {1, 2}
        BY <2>1, <2>4, PointersShape
      <4> QED
        BY <2>3, <4>1, <4>2 DEF Said
    <3>2. \A v \in {env, flip} : Truth(m, v) =
            IF Truth(m.kids[1], v) = "crash" \/ (Len(m.kids) = 2 /\ Truth(m.kids[2], v) = "crash") THEN "crash"
            ELSE IF Truth(m.kids[1], v) = "false" THEN "false" ELSE Said(v["message"])
      BY <1>1, <2>1, <2>4, TruthOf
    <3>3. Truth(m, env) = IF Len(m.kids) = 2 /\ Truth(m.kids[2], env) = "crash" THEN "crash" ELSE "false"
      BY <3>1, <3>2
    <3>4. Truth(m, flip) = IF Len(m.kids) = 2 /\ Truth(m.kids[2], flip) = "crash" THEN "crash" ELSE "false"
      BY <3>1, <3>2
    <3> QED
      BY <2>3, <3>3, <3>4
  <2>5. CASE ~Is(m, {"[]"})
    <3> DEFINE below(v) == [i \in DOMAIN m.kids |-> Truth(m.kids[i], v)]
    <3>1. Truth(m, env) = TruthFrom(m, below(env), env) /\ Truth(m, flip) = TruthFrom(m, below(flip), flip)
      BY <1>1, <2>1, TruthIs
    <3>2. below(env) = below(flip)
      <4>1. DOMAIN m.kids = 1..Len(m.kids)
        BY <2>1, PointersShape
      <4> QED
        BY <2>2, <4>1
    <3> DEFINE b == below(env)
    <3> HIDE DEF below
    <3>3. TruthFrom(m, b, env) = TruthFrom(m, b, flip)
      <4>1. Is(m, Variables) => flip[m.k] = env[m.k]
        BY <1>1 DEF Is
      <4>2. flip["member"] = env["member"] /\ flip["call"] = env["call"]
        BY <1>1
      <4> HIDE DEF b
      <4> QED
        BY <2>5, <4>1, <4>2 DEF TruthFrom, Is
    <3> QED
      BY <3>1, <3>2, <3>3
  <2> QED
    BY <2>4, <2>5
<1>3. Contained(t) \subseteq S
  <2>1. IsTree(t)
    BY PointersShape
  <2> HIDE DEF S
  <2> QED
    BY <1>2, <2>1, TreeInduction
<1>4. t \in S
  BY <1>3, PointersShape
<1> QED
  BY <1>4 DEF flip

(* To an object they give what they like, and it is seen.                  *)
LEMMA AnswersMatter ==
    ASSUME NEW t, IsOverPointers(t), Is(t, Operands \cup Operators), Straight(t), ~Holds(t, {"->"}),
           NEW name \in Variables, NEW env \in Pointings, env[name],
           \A e \in Messages(t) : e.kids[1] = Leaf(name), Messages(t) # {}
    PROVE  Truth(t, Answered(env)) # Truth(t, env)
<1> DEFINE flip == Answered(env)
           S == {m \in Contained(t) : Messages(m) # {} => Truth(m, flip) # Truth(m, env)}
<1>1. /\ flip \in Pointings
      /\ \A v \in Variables \cup {"member", "call"} : flip[v] = env[v]
      /\ flip["message"] = ~env["message"] /\ env["message"] \in BOOLEAN
  BY AnsweredIs DEF Pointings
<1> HIDE DEF flip
<1>2. ASSUME NEW m \in Contained(t), ToSet(m.kids) \subseteq S, Messages(m) # {}
      PROVE  Truth(m, flip) # Truth(m, env)
  <2>1. IsOverPointers(m) /\ Is(m, Operands \cup Operators) /\ ~Is(m, {"and", "or", "next"}) /\ ~Is(m, {"->"})
    BY OverPointersBelow, ExpressionsAre DEF Straight, Holds
  <2>2. \A i \in 1..Len(m.kids) : \A v \in {env, flip} : Truth(m.kids[i], v) \in {"true", "false"}
    <3>1. \A i \in 1..Len(m.kids) : m.kids[i] \in Contained(t)
      BY <2>1, PointersShape, Subtree
    <3> QED
      BY <1>1, <3>1, NeverCrashes
  <2>3. CASE Is(m, {"[]"})
    <3>1. Truth(m.kids[1], env) = "true" /\ Truth(m.kids[1], flip) = "true"
      <4>1. m \in Messages(t) /\ flip[name] = env[name]
        BY <1>1, <2>3 DEF Messages
      <4>2. \A v \in Pointings : Truth(m.kids[1], v) = Said(v[name])
        BY <4>1, ReceiverIs
      <4>3. Truth(m.kids[1], env) = Said(env[name]) /\ Truth(m.kids[1], flip) = Said(flip[name])
        BY <1>1, <4>2
      <4> QED
        BY <4>1, <4>3 DEF Said
    <3>2. ~(Len(m.kids) = 2 /\ Truth(m.kids[2], env) = "crash") /\ ~(Len(m.kids) = 2 /\ Truth(m.kids[2], flip) = "crash")
      BY <2>2, OneAndTwo
    <3>3. Truth(m, env) = Said(env["message"])
      BY <2>1, <2>3, <3>1, <3>2, TruthOf
    <3>4. Truth(m, flip) = Said(flip["message"])
      BY <1>1, <2>1, <2>3, <3>1, <3>2, TruthOf
    <3> QED
      BY <1>1, <3>3, <3>4 DEF Said
  <2>4. CASE ~Is(m, {"[]"})
    <3>1. PICK i \in 1..Len(m.kids) : Messages(m.kids[i]) # {}
      <4>1. PICK e \in Contained(m) : Is(e, {"[]"})
        BY <1>2 DEF Messages
      <4>2. PICK i \in 1..Len(m.kids) : e \in Contained(m.kids[i])
        BY <2>1, <2>4, <4>1, FoundBelow
      <4> QED
        BY <4>1, <4>2 DEF Messages
    <3>2. Truth(m.kids[i], flip) # Truth(m.kids[i], env)
      BY <1>2, <2>1, <3>1, PointersShape
    <3>3. Is(m, {"not", "paren", "==", "!="})
      <4>1. Len(m.kids) # 0
        BY <2>1, <3>1, PointersShape
      <4> QED
        BY <2>1, <2>4, <4>1, PointersShape DEF Is, Operators
    <3>4. CASE Is(m, {"not", "paren"})
      <4>1. Len(m.kids) = 1
        BY <2>1, <3>4, PointersShape DEF Is
      <4>2. /\ Truth(m.kids[1], flip) # Truth(m.kids[1], env)
            /\ Truth(m.kids[1], flip) \in {"true", "false"} /\ Truth(m.kids[1], env) \in {"true", "false"}
        BY <2>2, <3>1, <3>2, <4>1
      <4>3. \A v \in {env, flip} :
              /\ Is(m, {"paren"}) => Truth(m, v) = Truth(m.kids[1], v)
              /\ Is(m, {"not"}) => Truth(m, v) = Negated(Truth(m.kids[1], v))
        BY <1>1, <2>1, TruthOf
      <4> QED
        BY <3>4, <4>2, <4>3 DEF Is, Negated
    <3>5. CASE Is(m, {"==", "!="})
      <4>1. Len(m.kids) = 2 /\ IsOverPointers(m.kids[1]) /\ IsOverPointers(m.kids[2])
        <5>1. Len(m.kids) = 2
          BY <2>1, <3>5, PointersShape DEF Is
        <5> QED
          BY <2>1, <5>1, OneAndTwo, PointersShape
      <4>2. \A j \in {1, 2} : IsNullToPointer(m.kids[j]) =>
              Truth(m.kids[j], env) = "false" /\ Truth(m.kids[j], flip) = "false"
        <5>1. \A v \in {env, flip} :
                /\ Is(m.kids[1], {"null"}) => Truth(m.kids[1], v) = "false"
                /\ Is(m.kids[2], {"null"}) => Truth(m.kids[2], v) = "false"
          BY <1>1, <4>1, TruthOf
        <5>2. \A j \in {1, 2} : j = 1 \/ j = 2
          OBVIOUS
        <5>3. /\ IsNullToPointer(m.kids[1]) => Truth(m.kids[1], env) = "false" /\ Truth(m.kids[1], flip) = "false"
              /\ IsNullToPointer(m.kids[2]) => Truth(m.kids[2], env) = "false" /\ Truth(m.kids[2], flip) = "false"
          BY <5>1 DEF IsNullToPointer
        <5> HIDE DEF IsNullToPointer
        <5> QED
          BY <5>2, <5>3
      <4>3. IsNullToPointer(m.kids[1]) \/ IsNullToPointer(m.kids[2])
        BY <2>1, <3>5, PointersShape
      <4>4. i \in {1, 2}
        BY <3>1, <4>1
      <4>5. /\ Truth(m.kids[1], env) \in {"true", "false"} /\ Truth(m.kids[2], env) \in {"true", "false"}
            /\ Truth(m.kids[1], flip) \in {"true", "false"} /\ Truth(m.kids[2], flip) \in {"true", "false"}
        BY <2>2, <4>1, OneAndTwo
      <4> HIDE DEF IsNullToPointer
      <4>6. (Truth(m.kids[1], env) = Truth(m.kids[2], env)) # (Truth(m.kids[1], flip) = Truth(m.kids[2], flip))
        BY <3>2, <4>2, <4>3, <4>4, <4>5
      <4>7. \A v \in {env, flip} : Truth(m, v) =
              IF "crash" \in {Truth(m.kids[1], v), Truth(m.kids[2], v)} THEN "crash"
              ELSE Said((Truth(m.kids[1], v) = Truth(m.kids[2], v)) = (m.k = "=="))
        BY <1>1, <2>1, <3>5, TruthOf
      <4>8. \A v \in {env, flip} : Truth(m, v) = Said((Truth(m.kids[1], v) = Truth(m.kids[2], v)) = (m.k = "=="))
        BY <4>5, <4>7
      <4> QED
        BY <4>6, <4>8 DEF Said
    <3> QED
      BY <3>3, <3>4, <3>5 DEF Is
  <2> QED
    BY <2>3, <2>4
<1>3. Contained(t) \subseteq S
  <2>1. IsTree(t)
    BY PointersShape
  <2>2. \A m \in Contained(t) : ToSet(m.kids) \subseteq S => m \in S
    BY <1>2
  <2> HIDE DEF S
  <2> QED
    BY <2>1, <2>2, TreeInduction
<1>4. t \in S
  BY <1>3, PointersShape
<1> QED
  BY <1>4 DEF flip

LEMMA BrokenNilChecksAre == InFlight /\ NullChecksMade => BrokenNilChecksMuteMessages
<1> SUFFICES ASSUME InFlight, NullChecksMade, Have("BrokenNilCheck"), NEW p \in Positions(tree), NEW name \in Pointers,
                    Is(At(tree, p), {"and", "or"}),
                    At(tree, p).kids[1] \in ChecksOf(Leaf(name)),
                    Messages(At(tree, p).kids[2]) # {},
                    \A e \in Messages(At(tree, p).kids[2]) : e.kids[1] = Leaf(name),
                    Straight(At(tree, p).kids[2]), ~Holds(At(tree, p).kids[2], {"->"})
             PROVE  p \in At_("BrokenNilCheck")
                      <=> \A env \in Pointings : Truth(At(tree, p), env) = Truth(At(tree, p), Answered(env))
  BY DEF BrokenNilChecksMuteMessages, Messages, Answered
<1> DEFINE n == At(tree, p)
           l == n.kids[1]
           r == n.kids[2]
<1>1. IsOverPointers(tree) /\ (p \in At_("BrokenNilCheck") <=> BrokenCheck(n, "[]") = Here)
  BY NullCheckReported DEF NullCheckRuleNames, NullCheckFindingsAt
<1>2. IsOverPointers(n) /\ name \in Variables
  <2>1. n \in Contained(tree)
    BY <1>1, PointersShape, PositionsAre
  <2> QED
    BY <1>1, <2>1, OverPointersBelow DEF Variables
<1>3. /\ Is(n, {"and", "or"}) /\ l \in ChecksOf(Leaf(name))
      /\ Messages(r) # {} /\ \A e \in Messages(r) : e.kids[1] = Leaf(name)
      /\ Straight(r) /\ ~Holds(r, {"->"})
  OBVIOUS
<1> HIDE DEF n
<1>4. IsOverPointers(l) /\ IsOverPointers(r) /\ Is(r, Operands \cup Operators)
  BY <1>2, <1>3, TwoSides
<1> DEFINE all == [v \in Variables \cup {"member", "message", "call"} |-> TRUE]
<1>5. all \in Pointings /\ all[name] = TRUE
  BY <1>2 DEF Pointings
<1> HIDE DEF all
<1>6. UsesChecked(l, r, "[]")
  <2>1. ExtractIdentifier(l) = name /\ name # ""
    BY <1>2, <1>3, <1>4, <1>5, ChecksAre, NamesApart
  <2>2. PICK e \in Contained(r) : Is(e, {"[]"}) /\ e.kids[1] = Leaf(name)
    BY <1>3 DEF Messages
  <2>3. Leaf(name).k = name
    BY DEF Leaf, Node
  <2> QED
    BY <1>2, <2>1, <2>2, <2>3 DEF UsesChecked, HasVariableInExpr, Is
<1>7. BrokenCheck(n, "[]") = Here <=> (Is(n, {"or"}) /\ IsNeNullCheck(l)) \/ (Is(n, {"and"}) /\ IsEqNullCheck(l))
  BY <1>6 DEF BrokenCheck, ReportIf, Here, Nowhere
<1>8. \A env \in Pointings :
        /\ Truth(n, env) = IF Is(n, {"and"})
                           THEN IF Truth(l, env) = "true" THEN Truth(r, env) ELSE Truth(l, env)
                           ELSE IF Truth(l, env) = "false" THEN Truth(r, env) ELSE Truth(l, env)
        /\ IsEqNullCheck(l) = ~IsNeNullCheck(l) /\ IsNeNullCheck(l) \in BOOLEAN
        /\ env[name] \in BOOLEAN
        /\ Truth(l, env) = IF IsNeNullCheck(l) = env[name] THEN "true" ELSE "false"
  <2> TAKE env \in Pointings
  <2>1. Truth(n, env) = IF Is(n, {"and"})
                        THEN IF Truth(l, env) = "true" THEN Truth(r, env) ELSE Truth(l, env)
                        ELSE IF Truth(l, env) = "false" THEN Truth(r, env) ELSE Truth(l, env)
    BY <1>2, <1>3, TruthOf DEF Is
  <2>2. /\ IsNeNullCheck(l) \in BOOLEAN /\ IsEqNullCheck(l) = ~IsNeNullCheck(l)
        /\ IsNeNullCheck(l) => Truth(l, env) = Said(env[name])
        /\ IsEqNullCheck(l) => Truth(l, env) = Said(~env[name])
    BY <1>2, <1>3, <1>4, ChecksAre
  <2>3. env[name] \in BOOLEAN
    BY <1>2 DEF Pointings
  <2>4. Truth(l, env) = IF IsNeNullCheck(l) = env[name] THEN "true" ELSE "false"
    BY <2>2, <2>3 DEF Said
  <2> QED
    BY <2>1, <2>2, <2>3, <2>4
<1>9. \A env \in Pointings :
        /\ Answered(env) \in Pointings /\ Answered(env)[name] = env[name]
        /\ ~env[name] => Truth(r, Answered(env)) = Truth(r, env)
        /\ env[name] => Truth(r, Answered(env)) # Truth(r, env)
  BY <1>2, <1>3, <1>4, AnsweredIs, AnswersDoNotMatter, AnswersMatter
<1> HIDE DEF l, r
<1>10. ASSUME p \in At_("BrokenNilCheck"), NEW env \in Pointings
       PROVE  Truth(n, env) = Truth(n, Answered(env))
  <2>1. (Is(n, {"or"}) /\ IsNeNullCheck(l)) \/ (Is(n, {"and"}) /\ ~IsNeNullCheck(l))
    BY <1>1, <1>7, <1>8, <1>10
  <2> QED
    BY <1>8, <1>9, <2>1 DEF Is
<1>11. ASSUME p \notin At_("BrokenNilCheck") PROVE Truth(n, all) # Truth(n, Answered(all))
  <2>1. (Is(n, {"or"}) /\ ~IsNeNullCheck(l)) \/ (Is(n, {"and"}) /\ IsNeNullCheck(l))
    BY <1>1, <1>3, <1>5, <1>7, <1>8, <1>11 DEF Is
  <2> QED
    BY <1>5, <1>8, <1>9, <2>1 DEF Is
<1> QED
  BY <1>5, <1>10, <1>11 DEF n
-----------------------------------------------------------------------------
(***************************************************************************)
(* Checks before a delete.                                                 *)
(***************************************************************************)
(* A block in which no statement changes the world does not.               *)
LEMMA FreedNothing ==
    ASSUME NEW s, NEW w, Len(s.kids) \in {1, 2},
           \A i \in 1..Len(s.kids) : FreedByOne(s.kids[i], w) = w
    PROVE  Is(s, {"compound"}) => Freed(s, w) = w
<1> DEFINE N == Len(s.kids)
           Unfolded(f) == [i \in 0..N |-> IF i = 0 THEN w ELSE FreedByOne(s.kids[i], f[i - 1])]
           after == CHOOSE f : f = Unfolded(f)
<1>1. N \in {1, 2} /\ \A i \in 1..N : FreedByOne(s.kids[i], w) = w
  OBVIOUS
<1>2. Is(s, {"compound"}) => Freed(s, w) = after[N]
  BY DEF Freed
<1> HIDE DEF N
<1>3. [i \in 0..N |-> w] = Unfolded([i \in 0..N |-> w])
  <2>1. ASSUME NEW i \in 0..N, i # 0 PROVE FreedByOne(s.kids[i], [j \in 0..N |-> w][i - 1]) = w
    <3>1. i \in 1..N /\ i - 1 \in 0..N
      BY <1>1, <2>1
    <3>2. [j \in 0..N |-> w][i - 1] = w
      BY <3>1
    <3> QED
      BY <1>1, <3>1, <3>2
  <2> QED
    BY <2>1
<1>4. after = Unfolded(after)
  <2> HIDE DEF Unfolded
  <2> QED
    BY <1>3
<1> HIDE DEF after
<1>5. /\ after[0] = w
      /\ \A i \in 1..N : after[i] = FreedByOne(s.kids[i], after[i - 1])
  <2>1. 0 \in 0..N /\ \A i \in 1..N : i \in 0..N /\ i # 0
    BY <1>1
  <2> QED
    BY <1>4, <2>1
<1>6. 1 \in 1..N /\ after[1] = w
  <2>1. 1 \in 1..N /\ 1 - 1 = 0
    BY <1>1
  <2> QED
    BY <1>1, <1>5, <2>1
<1>7. N = 2 => after[2] = w
  <2>1. N = 2 => 2 \in 1..N /\ 2 - 1 = 1
    OBVIOUS
  <2> QED
    BY <1>1, <1>5, <1>6, <2>1
<1> QED
  BY <1>1, <1>2, <1>6, <1>7

LEMMA NeedlessChecksAre == InFlight /\ NullChecksMade => NeedlessChecksGuardNothing
<1> SUFFICES ASSUME InFlight, NullChecksMade, Have("UnnecessaryNullCheckForCXXDealloc"),
                    NEW p \in At_("UnnecessaryNullCheckForCXXDealloc"), ~Holds(At(tree, p), {"next"}), NEW w \in Worlds
             PROVE  FreedByIf(At(tree, p), w) = Freed(At(tree, p).kids[2], w)
  BY DEF NeedlessChecksGuardNothing
<1> DEFINE n == At(tree, p)
           s == n.kids[2]
<1>1. IsOverPointers(tree) /\ p \in Positions(tree) /\ UnnecessaryNullCheck(n) = Here
  BY NullCheckReported DEF NullCheckRuleNames, NullCheckFindingsAt
<1>2. IsOverPointers(n)
  <2>1. n \in Contained(tree)
    BY <1>1, PointersShape, PositionsAre
  <2> QED
    BY <1>1, <2>1, OverPointersBelow
<1>3. ~Holds(n, {"next"})
  OBVIOUS
<1> HIDE DEF n
<1>4. Is(n, {"if"}) /\ \E e \in NotNullPointers(n.kids[1]) : IsADeleteBlock(s, e)
  BY <1>1 DEF UnnecessaryNullCheck, ReportIf, Here, Nowhere
<1>5. PICK e \in NotNullPointers(n.kids[1]) : IsADeleteBlock(s, e)
  BY <1>4
<1>6. NotNullPointers(n.kids[1]) = {e}
  BY <1>5 DEF NotNullPointers
<1>8. IsOverPointers(s) /\ Contained(s) \subseteq Contained(n) /\ s \in Contained(s)
  <2>1. 2 \in 1..Len(n.kids)
    <3>1. Len(n.kids) \in {2, 3}
      BY <1>2, <1>4, PointersShape
    <3> QED
      BY <3>1
  <2> QED
    BY <1>2, <2>1, PointersShape
<1> HIDE DEF s
(* What is checked is what is deleted: a pointer.                          *)
<1>9. \A d : IsOverPointers(d) /\ d \in Contained(n) /\ IsADeleteStmt(d, e) =>
               d.k = "delete" /\ d.kids[1] = e /\ Is(e, Pointers)
  <2> SUFFICES ASSUME NEW d, IsOverPointers(d), d \in Contained(n), IsADeleteStmt(d, e)
               PROVE  d.k = "delete" /\ d.kids[1] = e /\ Is(e, Pointers)
    OBVIOUS
  <2>1. d.k = "delete" /\ d.kids[1] = e
    BY DEF IsADeleteStmt, Is
  <2>2. Len(d.kids) = 1 /\ Is(e, Pointers \cup {"next"})
    BY <2>1, PointersShape DEF Is
  <2>3. e \in Contained(n)
    <3>1. e \in ToSet(d.kids)
      BY <2>1, <2>2, OneAndTwo, PointersShape
    <3> QED
      BY <1>2, <3>1, ContainsChildren, PointersShape
  <2> QED
    BY <1>3, <2>1, <2>2, <2>3 DEF Holds, Is
<1>10. /\ \A i \in 1..Len(s.kids) : IsOverPointers(s.kids[i]) /\ s.kids[i] \in Contained(n)
       /\ Len(s.kids) \in Nat
  BY <1>8, PointersShape
<1>11. Is(e, Pointers)
  BY <1>5, <1>8, <1>9, <1>10, OneAndTwo DEF IsADeleteBlock
<1>12. e.k # "next"
  BY <1>11, NamesApart DEF Is, Variables
<1>13. Taken(e, w) = <<IF e.k \in w.live THEN {<<e.k, 0>>} ELSE {}, w>>
  BY <1>12 DEF Taken
<1>14. FreedByIf(n, w) = IF e.k \in w.live THEN Freed(s, w) ELSE w
  <2>1. FreedByIf(n, w) = IF Taken(e, w)[1] = {} THEN Taken(e, w)[2] ELSE Freed(s, Taken(e, w)[2])
    BY <1>6 DEF FreedByIf, s
  <2>2. \A x : <<x, w>>[1] = x /\ <<x, w>>[2] = w
    OBVIOUS
  <2>3. /\ Taken(e, w)[1] = IF e.k \in w.live THEN {<<e.k, 0>>} ELSE {}
        /\ Taken(e, w)[2] = w
    BY <1>13, <2>2
  <2>4. {<<e.k, 0>>} # {}
    OBVIOUS
  <2> QED
    BY <2>1, <2>3, <2>4
<1>15. ASSUME e.k \notin w.live PROVE Freed(s, w) = w
  <2>1. Taken(e, w) = <<{}, w>>
    BY <1>13, <1>15
  <2>2. w = [live |-> w.live, calls |-> w.calls, deleted |-> w.deleted, fails |-> w.fails]
    BY DEF Worlds
  <2>3. [w EXCEPT !.deleted = @ \cup {}] = w
    BY <2>2
  <2>4. [w EXCEPT !.live = @ \ {e.k}] = w
    <3>1. w.live \ {e.k} = w.live
      BY <1>15
    <3> QED
      BY <2>2, <3>1
  <2>5. \A d : IsOverPointers(d) /\ d \in Contained(n) /\ IsADeleteStmt(d, e) => FreedByOne(d, w) = w
    <3> SUFFICES ASSUME NEW d, IsOverPointers(d), d \in Contained(n), IsADeleteStmt(d, e)
                 PROVE  FreedByOne(d, w) = w
      OBVIOUS
    <3>1. d.k = "delete" /\ d.kids[1] = e
      BY <1>9
    <3> QED
      BY <2>1, <2>3, <3>1 DEF FreedByOne, Is
  <2>6. \A d : IsAnAssignToNullptr(d, e) => FreedByOne(d, w) = w
    <3> SUFFICES ASSUME NEW d, IsAnAssignToNullptr(d, e) PROVE FreedByOne(d, w) = w
      OBVIOUS
    <3>1. d.k = "=" /\ d.kids[1] = e
      BY DEF IsAnAssignToNullptr, Is
    <3> QED
      BY <2>4, <3>1 DEF FreedByOne, Is
  <2>7. CASE IsADeleteStmt(s, e)
    <3>1. FreedByOne(s, w) = w /\ ~Is(s, {"compound"})
      BY <1>8, <2>5, <2>7 DEF IsADeleteStmt, Is
    <3> QED
      BY <3>1 DEF Freed
  <2>8. CASE ~IsADeleteStmt(s, e)
    <3>1. /\ Is(s, {"compound"}) /\ Len(s.kids) \in {1, 2} /\ IsADeleteStmt(s.kids[1], e)
          /\ Len(s.kids) = 2 => IsAnAssignToNullptr(s.kids[2], e)
      BY <1>5, <2>8 DEF IsADeleteBlock
    <3>2. FreedByOne(s.kids[1], w) = w
      <4>1. 1 \in 1..Len(s.kids)
        BY <3>1
      <4> QED
        BY <1>10, <2>5, <3>1, <4>1
    <3>3. Len(s.kids) = 2 => FreedByOne(s.kids[2], w) = w
      BY <2>6, <3>1
    <3>4. \A i \in 1..Len(s.kids) : i = 1 \/ (i = 2 /\ Len(s.kids) = 2)
      <4>1. \A length \in {1, 2} : \A i \in 1..length : i = 1 \/ (i = 2 /\ length = 2)
        BY Z3
      <4> QED
        BY <3>1, <4>1
    <3>5. \A i \in 1..Len(s.kids) : FreedByOne(s.kids[i], w) = w
      BY <3>2, <3>3, <3>4
    <3> QED
      BY <3>1, <3>5, FreedNothing
  <2> QED
    BY <2>7, <2>8
<1> QED
  BY <1>14, <1>15 DEF n, s

(* Of every tree the rules fly over: what the rules for null checks report *)
(* is so.  A check called broken is one that lets through the null it      *)
(* looks for, or one whose messages are never heard; one called misplaced, *)
(* redundant or unnecessary changes nothing.                               *)
THEOREM NullCheckReportsAreRight == NullCheckSpec => []NullCheckReportsHold
<1>1. InFlight /\ NullChecksMade => NullCheckReportsHold
  BY BrokenChecksCrash, MisplacedChecksAre, RedundantNilChecksAre, BrokenNilChecksAre, NeedlessChecksAre
     DEF NullCheckReportsHold
<1> QED
  BY <1>1, NullCheckFlightInvariance, PTL
-----------------------------------------------------------------------------
(***************************************************************************)
(* Trees over numbers, kind by kind.                                       *)
(***************************************************************************)
LEMMA OverNumbersBelow ==
    ASSUME NEW t, IsOverNumbers(t), NEW m \in Contained(t)
    PROVE  IsOverNumbers(m)
<1>1. IsTree(t)
  BY DEF IsOverNumbers
<1>2. IsTree(m) /\ Contained(m) \subseteq Contained(t)
  BY <1>1, Subtree
<1> QED
  BY <1>2, Zenon DEF IsOverNumbers

LEMMA OverNumbersAbove ==
    ASSUME NEW n, n = Node(n.k, n.kids), n.kids \in Seq(ToSet(n.kids)),
           \A i \in DOMAIN n.kids : IsOverNumbers(n.kids[i]), HasItsParts(n)
    PROVE  IsOverNumbers(n)
<1>1. IsTree(n)
  <2>1. \A i \in DOMAIN n.kids : IsTree(n.kids[i])
    BY DEF IsOverNumbers
  <2> QED
    BY <2>1, NodeIsTree
<1>2. ASSUME NEW m \in Contained(n) PROVE HasItsParts(m)
  <2>1. CASE m = n
    BY <2>1
  <2>2. CASE m # n
    <3>1. PICK k \in ToSet(n.kids) : m \in Contained(k)
      BY <1>1, <2>2, ContainedBelow
    <3>2. PICK i \in DOMAIN n.kids : k = n.kids[i]
      BY DEF ToSet
    <3>3. IsOverNumbers(k)
      BY <3>2
    <3> QED
      BY <3>1, <3>3 DEF IsOverNumbers
  <2> QED
    BY <2>1, <2>2
<1> HIDE DEF HasItsParts
<1> QED
  BY <1>1, <1>2 DEF IsOverNumbers

Numerals == UnaryOperators \cup BinaryOperators \cup {"paren", "?:", "return", "if", "compound"}

LEMMA NumbersApart ==
    /\ \A name \in Names : name \notin Literals /\ name \notin Numerals /\ name # "bits"
    /\ \A lit \in Literals : lit \notin Numerals
<1>1. \A name \in Names : name \notin Literals /\ name \notin Numerals /\ name # "bits"
  BY ConditionAssumption, Zenon DEF Numerals
<1>2. \A lit \in Literals : lit \notin Numerals
  BY DEF Literals, CXXBools, ObjCBools, CastIntegers, Integers_, Floats, Characters, Strings, Numerals,
         UnaryOperators, BinaryOperators
<1> QED
  BY <1>1, <1>2

LEMMA NumbersShape ==
    ASSUME NEW t, IsOverNumbers(t)
    PROVE  /\ IsTree(t) /\ t \in Contained(t) /\ t.kids \in Seq(ToSet(t.kids))
           /\ Len(t.kids) \in Nat /\ DOMAIN t.kids = 1..Len(t.kids)
           /\ Is(t, Names \cup Literals) => t.kids = <<>>
           /\ Is(t, UnaryOperators \cup {"paren"}) => Len(t.kids) = 1
           /\ Is(t, {"return"}) => Len(t.kids) \in {0, 1}
           /\ Is(t, BinaryOperators) => Len(t.kids) = 2
           /\ Is(t, {"?:"}) => Len(t.kids) = 3
           /\ Is(t, {"if"}) => Len(t.kids) \in {2, 3}
           /\ \A i \in 1..Len(t.kids) :
                /\ IsOverNumbers(t.kids[i])
                /\ t.kids[i] \in ToSet(t.kids) /\ t.kids[i] \in Contained(t)
                /\ Contained(t.kids[i]) \subseteq Contained(t)
                /\ Is(t, Expressions \cup {"return"}) => Is(t.kids[i], Expressions)
                /\ Is(t, {"if"}) => Is(t.kids[i], IF i = 1 THEN Expressions ELSE Instructions)
                /\ Is(t, {"="}) => Is(t.kids[i], IF i = 1 THEN Names ELSE Expressions)
                /\ Is(t, {"compound"}) => Is(t.kids[i], Instructions)
           /\ Is(t, {"%"}) => Is(t.kids[2], Literals) /\ LiteralValue[t.kids[2].k] # 0
<1>1. IsTree(t) /\ t \in Contained(t)
  BY ContainsItself DEF IsOverNumbers
<1>2. /\ Len(t.kids) \in Nat /\ DOMAIN t.kids = 1..Len(t.kids) /\ t.kids \in Seq(ToSet(t.kids))
      /\ \A i \in DOMAIN t.kids : t.kids[i] \in ToSet(t.kids)
  BY <1>1, NodesAre
<1>3. HasItsParts(t)
  BY <1>1 DEF IsOverNumbers
<1>4. /\ Is(t, Names \cup Literals) => t.kids = <<>>
      /\ Is(t, UnaryOperators \cup {"paren"}) => Len(t.kids) = 1
      /\ Is(t, {"return"}) => Len(t.kids) \in {0, 1}
      /\ Is(t, BinaryOperators) => Len(t.kids) = 2
      /\ Is(t, {"?:"}) => Len(t.kids) = 3
      /\ Is(t, {"if"}) => Len(t.kids) \in {2, 3}
      /\ Is(t, Instructions) => \A i \in DOMAIN t.kids : Is(t.kids[i], MayHold(t, i))
      /\ Is(t, {"%"}) => Is(t.kids[2], Literals) /\ LiteralValue[t.kids[2].k] # 0
  BY <1>3, Zenon DEF HasItsParts
<1>5. ASSUME NEW i \in 1..Len(t.kids)
      PROVE  /\ IsOverNumbers(t.kids[i]) /\ t.kids[i] \in Contained(t)
             /\ Contained(t.kids[i]) \subseteq Contained(t)
  <2>1. t.kids[i] \in Contained(t) /\ Contained(t.kids[i]) \subseteq Contained(t)
    BY <1>1, <1>2, ChildrenAreTrees
  <2> QED
    BY <2>1, OverNumbersBelow
<1>6. {"if", "=", "compound"} \cap (Expressions \cup {"return"}) = {}
  BY NumbersApart DEF Expressions, Literals, CXXBools, ObjCBools, CastIntegers, Integers_, Floats, Characters, Strings,
                      UnaryOperators, BinaryOperators, Numerals
<1>7. Expressions \cup {"return", "if", "=", "compound"} \subseteq Instructions
  BY DEF Instructions
<1>8. ASSUME NEW i \in 1..Len(t.kids)
      PROVE  /\ Is(t, Expressions \cup {"return"}) => Is(t.kids[i], Expressions)
             /\ Is(t, {"if"}) => Is(t.kids[i], IF i = 1 THEN Expressions ELSE Instructions)
             /\ Is(t, {"="}) => Is(t.kids[i], IF i = 1 THEN Names ELSE Expressions)
             /\ Is(t, {"compound"}) => Is(t.kids[i], Instructions)
  <2>1. Is(t, Instructions) => Is(t.kids[i], MayHold(t, i))
    BY <1>2, <1>4
  <2>2. /\ Is(t, Expressions \cup {"return"}) => MayHold(t, i) = Expressions
        /\ Is(t, {"if"}) => MayHold(t, i) = IF i = 1 THEN Expressions ELSE Instructions
        /\ Is(t, {"="}) => MayHold(t, i) = IF i = 1 THEN Names ELSE Expressions
        /\ Is(t, {"compound"}) => MayHold(t, i) = Instructions
    <3> HIDE DEF Expressions, Instructions
    <3>1. \A k \in {"if", "=", "compound"} : k \notin Expressions \cup {"return"}
      BY <1>6
    <3> QED
      BY <3>1 DEF MayHold, Is
  <2> QED
    BY <1>7, <2>1, <2>2 DEF Is
<1> QED
  BY <1>1, <1>2, <1>4, <1>5, <1>8

LEMMA LiteralValues ==
    /\ \A lit \in Literals : LiteralValue[lit] \in Nat
    /\ \A lit \in (CXXBools \cup ObjCBools \cup CastIntegers) \ {"(char)2"} : lit \in Literals /\ LiteralValue[lit] \in {0, 1}
    /\ LiteralValue["0"] = 0 /\ LiteralValue["1"] = 1 /\ LiteralValue["2"] = 2
BY DEF LiteralValue, Literals, CXXBools, ObjCBools, CastIntegers, Integers_, Floats, Characters, Strings
-----------------------------------------------------------------------------
(***************************************************************************)
(* Values.                                                                 *)
(***************************************************************************)
LEMMA Remainders ==
    ASSUME NEW x \in Int, NEW r \in Nat, r # 0
    PROVE  Remainder(x, r) \in Int
BY DEF Remainder

LEMMA ValueFromIs ==
    ASSUME NEW m, NEW below, NEW env
    PROVE  /\ Is(m, Names) => ValueFrom(m, below, env) = env[m.k]
           /\ Is(m, Literals) => ValueFrom(m, below, env) = LiteralValue[m.k]
           /\ Is(m, {"paren", "plus"}) => ValueFrom(m, below, env) = below[1]
           /\ Is(m, {"not"}) => ValueFrom(m, below, env) = Num(below[1] = 0)
           /\ Is(m, {"~"}) => ValueFrom(m, below, env) = -below[1] - 1
           /\ Is(m, {"neg"}) => ValueFrom(m, below, env) = -below[1]
           /\ Is(m, {"=="}) => ValueFrom(m, below, env) = Num(below[1] = below[2])
           /\ Is(m, {"!="}) => ValueFrom(m, below, env) = Num(below[1] # below[2])
           /\ Is(m, {"and"}) => ValueFrom(m, below, env) = Num(below[1] # 0 /\ below[2] # 0)
           /\ Is(m, {"or"}) => ValueFrom(m, below, env) = Num(below[1] # 0 \/ below[2] # 0)
           /\ Is(m, {"%"}) => ValueFrom(m, below, env) = Remainder(below[1], below[2])
           /\ Is(m, {"&"}) /\ below[2] = 0 => ValueFrom(m, below, env) = 0
           /\ Is(m, {"&"}) /\ below[2] = 1 => ValueFrom(m, below, env) = below[1] % 2
           /\ Is(m, {"&"}) /\ below[2] \notin {0, 1} => ValueFrom(m, below, env) = env["bits"]
           /\ Is(m, {"?:"}) => ValueFrom(m, below, env) = IF below[1] # 0 THEN below[2] ELSE below[3]
           /\ ~Is(m, Names \cup Literals \cup {"paren", "plus", "not", "~", "neg", "==", "!=", "and", "or", "%", "&", "?:"})
                => ValueFrom(m, below, env) = env["bits"]
<1>1. \A k \in {"paren", "plus", "not", "~", "neg", "==", "!=", "and", "or", "%", "&", "?:"} :
        k \notin Names /\ k \notin Literals
  <2>1. \A k \in {"paren", "plus", "not", "~", "neg", "==", "!=", "and", "or", "%", "&", "?:"} : k \in Numerals
    BY DEF Numerals, UnaryOperators, BinaryOperators
  <2> QED
    BY <2>1, NumbersApart
<1>2. \A name \in Names : name \notin Literals
  BY NumbersApart
<1> DEFINE l == below[1]
           r == below[2]
           o == below[3]
<1>3. ValueFrom(m, below, env) =
        CASE m.k \in Names -> env[m.k]
          [] m.k \in Literals -> LiteralValue[m.k]
          [] m.k \in {"paren", "plus"} -> l
          [] m.k = "not" -> Num(l = 0)
          [] m.k = "~" -> -l - 1
          [] m.k = "neg" -> -l
          [] m.k = "==" -> Num(l = r)
          [] m.k = "!=" -> Num(l # r)
          [] m.k = "and" -> Num(l # 0 /\ r # 0)
          [] m.k = "or" -> Num(l # 0 \/ r # 0)
          [] m.k = "%" -> Remainder(l, r)
          [] m.k = "&" /\ r = 0 -> 0
          [] m.k = "&" /\ r = 1 -> l % 2
          [] m.k = "?:" -> IF l # 0 THEN r ELSE o
          [] OTHER -> env["bits"]
  BY DEF ValueFrom
<1> DEFINE v == ValueFrom(m, below, env)
           z == Num(l = 0)
           c == -l - 1
           g == -l
           e == Num(l = r)
           d == Num(l # r)
           a == Num(l # 0 /\ r # 0)
           b == Num(l # 0 \/ r # 0)
           q == Remainder(l, r)
           w == l % 2
           i == IF l # 0 THEN r ELSE o
<1> HIDE DEF l, r, o, v, z, c, g, e, d, a, b, q, w, i
<1>4. v = CASE m.k \in Names -> env[m.k]
            [] m.k \in Literals -> LiteralValue[m.k]
            [] m.k \in {"paren", "plus"} -> l
            [] m.k = "not" -> z
            [] m.k = "~" -> c
            [] m.k = "neg" -> g
            [] m.k = "==" -> e
            [] m.k = "!=" -> d
            [] m.k = "and" -> a
            [] m.k = "or" -> b
            [] m.k = "%" -> q
            [] m.k = "&" /\ r = 0 -> 0
            [] m.k = "&" /\ r = 1 -> w
            [] m.k = "?:" -> i
            [] OTHER -> env["bits"]
  BY <1>3 DEF v, z, c, g, e, d, a, b, q, w, i
<1>5. /\ Is(m, Names) => v = env[m.k]
      /\ Is(m, Literals) => v = LiteralValue[m.k]
      /\ Is(m, {"paren", "plus"}) => v = l
      /\ Is(m, {"not"}) => v = z
      /\ Is(m, {"~"}) => v = c
      /\ Is(m, {"neg"}) => v = g
  BY <1>1, <1>2, <1>4 DEF Is
<1>6. /\ Is(m, {"=="}) => v = e
      /\ Is(m, {"!="}) => v = d
      /\ Is(m, {"and"}) => v = a
      /\ Is(m, {"or"}) => v = b
      /\ Is(m, {"%"}) => v = q
      /\ Is(m, {"?:"}) => v = i
  BY <1>1, <1>2, <1>4 DEF Is
<1>7. /\ Is(m, {"&"}) /\ r = 0 => v = 0
      /\ Is(m, {"&"}) /\ r = 1 => v = w
      /\ Is(m, {"&"}) /\ r \notin {0, 1} => v = env["bits"]
      /\ ~Is(m, Names \cup Literals \cup {"paren", "plus", "not", "~", "neg", "==", "!=", "and", "or", "%", "&", "?:"})
           => v = env["bits"]
  BY <1>1, <1>2, <1>4 DEF Is
<1> QED
  BY <1>5, <1>6, <1>7 DEF l, r, o, v, z, c, g, e, d, a, b, q, w, i

LEMMA ValueFromType ==
    ASSUME NEW t, IsOverNumbers(t), NEW m \in Contained(t), NEW env \in Valuations,
           NEW below \in [DOMAIN m.kids -> Int], Is(m, {"%"}) => below[2] \in Nat /\ below[2] # 0
    PROVE  ValueFrom(m, below, env) \in Int
<1>1. IsOverNumbers(m)
  BY OverNumbersBelow
<1>2. DOMAIN m.kids = 1..Len(m.kids)
  BY <1>1, NumbersShape
<1>3. /\ Is(m, UnaryOperators \cup {"paren"}) => Len(m.kids) = 1
      /\ Is(m, BinaryOperators) => Len(m.kids) = 2
      /\ Is(m, {"?:"}) => Len(m.kids) = 3
  BY <1>1, NumbersShape
<1>4. 1 \in 1..1 /\ 1 \in 1..2 /\ 2 \in 1..2 /\ 1 \in 1..3 /\ 2 \in 1..3 /\ 3 \in 1..3
  OBVIOUS
<1>5. /\ Is(m, UnaryOperators \cup {"paren"}) => below[1] \in Int
      /\ Is(m, BinaryOperators) => below[1] \in Int /\ below[2] \in Int
      /\ Is(m, {"?:"}) => below[1] \in Int /\ below[2] \in Int /\ below[3] \in Int
  BY <1>2, <1>3, <1>4
<1>6. /\ env["bits"] \in Int
      /\ Is(m, Names) => env[m.k] \in Int
      /\ Is(m, Literals) => LiteralValue[m.k] \in Int
  BY LiteralValues DEF Valuations, Is
<1>7. \A truth \in BOOLEAN : Num(truth) \in Int
  BY DEF Num
<1> DEFINE l == below[1]
           r == below[2]
           o == below[3]
<1> HIDE DEF l, r, o
<1>8. /\ Is(m, {"paren", "plus", "not", "~", "neg"}) => l \in Int
      /\ Is(m, {"%", "&"}) => l \in Int /\ r \in Int
      /\ Is(m, {"?:"}) => r \in Int /\ o \in Int
      /\ Is(m, {"%"}) => r \in Nat /\ r # 0
  BY <1>5 DEF Is, UnaryOperators, BinaryOperators, l, r, o
<1>9. /\ Is(m, {"~"}) => -l - 1 \in Int
      /\ Is(m, {"neg"}) => -l \in Int
      /\ Is(m, {"&"}) => l % 2 \in Int
      /\ Is(m, {"%"}) => Remainder(l, r) \in Int
  BY <1>8, Remainders DEF Is
<1>10. Is(m, Names \cup Literals \cup {"paren", "plus", "~", "neg", "%"}) => ValueFrom(m, below, env) \in Int
  <2>1. /\ Is(m, Names) => ValueFrom(m, below, env) = env[m.k]
        /\ Is(m, Literals) => ValueFrom(m, below, env) = LiteralValue[m.k]
        /\ Is(m, {"paren", "plus"}) => ValueFrom(m, below, env) = l
        /\ Is(m, {"~"}) => ValueFrom(m, below, env) = -l - 1
        /\ Is(m, {"neg"}) => ValueFrom(m, below, env) = -l
        /\ Is(m, {"%"}) => ValueFrom(m, below, env) = Remainder(l, r)
    BY ValueFromIs DEF l, r
  <2>2. Is(m, {"paren", "plus"}) => l \in Int
    BY <1>8 DEF Is
  <2> QED
    BY <1>6, <1>9, <2>1, <2>2, Zenon DEF Is
<1>11. Is(m, {"not", "==", "!=", "and", "or"}) => ValueFrom(m, below, env) \in Int
  <2>1. Is(m, {"not"}) => ValueFrom(m, below, env) = Num(below[1] = 0)
    BY ValueFromIs
  <2>2. Is(m, {"=="}) => ValueFrom(m, below, env) = Num(below[1] = below[2])
    BY ValueFromIs
  <2>3. Is(m, {"!="}) => ValueFrom(m, below, env) = Num(below[1] # below[2])
    BY ValueFromIs
  <2>4. Is(m, {"and"}) => ValueFrom(m, below, env) = Num(below[1] # 0 /\ below[2] # 0)
    BY ValueFromIs
  <2>5. Is(m, {"or"}) => ValueFrom(m, below, env) = Num(below[1] # 0 \/ below[2] # 0)
    BY ValueFromIs
  <2> QED
    BY <1>7, <2>1, <2>2, <2>3, <2>4, <2>5 DEF Is
<1>12. Is(m, {"&"}) => ValueFrom(m, below, env) \in Int
  BY <1>6, <1>9, ValueFromIs DEF Is, l, r
<1>13. Is(m, {"?:"}) => ValueFrom(m, below, env) \in Int
  <2>1. Is(m, {"?:"}) => ValueFrom(m, below, env) = IF l # 0 THEN r ELSE o
    BY ValueFromIs DEF l, r, o
  <2> QED
    BY <1>8, <2>1
<1>14. ~Is(m, Names \cup Literals \cup {"paren", "plus", "not", "~", "neg", "==", "!=", "and", "or", "%", "&", "?:"})
         => ValueFrom(m, below, env) \in Int
  BY <1>6, ValueFromIs
<1> QED
  BY <1>10, <1>11, <1>12, <1>13, <1>14 DEF Is

LEMMA ValueIs ==
    ASSUME NEW t, IsOverNumbers(t), NEW env \in Valuations
    PROVE  /\ Value(t, env) \in Int
           /\ Value(t, env) = ValueFrom(t, [i \in DOMAIN t.kids |-> Value(t.kids[i], env)], env)
<1> DEFINE G == [m \in Contained(t) |->
                   [below \in [DOMAIN m.kids -> Int] |->
                      IF ValueFrom(m, below, env) \in Int THEN ValueFrom(m, below, env) ELSE 0]]
           Unfolded(f, e) == [m \in Contained(e) |-> ValueFrom(m, [i \in DOMAIN m.kids |-> f[m.kids[i]]], env)]
           made(e) == CHOOSE f : f = Unfolded(f, e)
<1>1. IsTree(t)
  BY DEF IsOverNumbers
<1>2. \A m \in Contained(t) : G[m] \in [[DOMAIN m.kids -> Int] -> Int]
  OBVIOUS
<1>3. PICK h : FollowsTree(h, t, Int, G)
  <2> HIDE DEF G
  <2> QED
    BY <1>1, <1>2, TreeRecursion
<1>4. ASSUME NEW m \in Contained(t)
      PROVE  h[m] \in Int /\ h[m] = ValueFrom(m, [i \in DOMAIN m.kids |-> h[m.kids[i]]], env)
  <2>1. h[m] \in Int /\ h[m] = G[m][Below(h, m)]
    BY <1>3 DEF FollowsTree
  <2>2. \A x \in Contained(t) : Below(h, x) \in [DOMAIN x.kids -> Int] /\ h[x] = G[x][Below(h, x)]
    BY <1>1, <1>3, NodesAre DEF Below, FollowsTree
  <2>3. \A x \in Contained(t) : h[x] = IF ValueFrom(x, Below(h, x), env) \in Int THEN ValueFrom(x, Below(h, x), env) ELSE 0
    BY <2>2
  <2> HIDE DEF G
  (* What is divided by is a literal other than 0.                         *)
  <2>4. \A x \in Contained(t) : Is(x, Literals) => h[x] = LiteralValue[x.k]
    <3> SUFFICES ASSUME NEW x \in Contained(t), Is(x, Literals) PROVE h[x] = LiteralValue[x.k]
      OBVIOUS
    <3>1. x.k \in Literals /\ x.k \notin Names /\ x.k \notin Numerals
      BY NumbersApart DEF Is
    <3>2. ValueFrom(x, Below(h, x), env) = LiteralValue[x.k]
      BY <3>1 DEF ValueFrom, Numerals, UnaryOperators, BinaryOperators
    <3> QED
      BY <2>3, <3>1, <3>2, LiteralValues
  <2>5. Is(m, {"%"}) => Below(h, m)[2] \in Nat /\ Below(h, m)[2] # 0
    <3> SUFFICES ASSUME Is(m, {"%"}) PROVE Below(h, m)[2] \in Nat /\ Below(h, m)[2] # 0
      OBVIOUS
    <3>1. IsOverNumbers(m)
      BY OverNumbersBelow
    <3>2. Len(m.kids) = 2 /\ Is(m.kids[2], Literals) /\ LiteralValue[m.kids[2].k] # 0
      BY <3>1, NumbersShape DEF Is, BinaryOperators
    <3>3. DOMAIN m.kids = 1..2
      BY <3>1, <3>2, NumbersShape
    <3>4. m.kids[2] \in Contained(t) /\ 2 \in DOMAIN m.kids
      BY <1>1, <3>3, OneAndTwo, NodesAre
    <3>5. Below(h, m)[2] = h[m.kids[2]]
      BY <3>4 DEF Below
    <3> QED
      BY <2>4, <3>2, <3>4, <3>5, LiteralValues DEF Is
  <2>6. ValueFrom(m, Below(h, m), env) \in Int
    BY <2>2, <2>5, ValueFromType
  <2>7. h[m] = ValueFrom(m, Below(h, m), env)
    BY <2>3, <2>6
  <2> QED
    BY <2>1, <2>7 DEF Below
<1> HIDE DEF G
<1>5. ASSUME NEW e \in Contained(t) PROVE Value(e, env) = h[e]
  <2>1. Value(e, env) = made(e)[e]
    BY DEF Value, FromBelow
  <2>2. IsTree(e) /\ Contained(e) \subseteq Contained(t) /\ e \in Contained(e)
    BY <1>1, Subtree, ContainsItself
  <2>3. [m \in Contained(e) |-> h[m]] = Unfolded([m \in Contained(e) |-> h[m]], e)
    <3>1. ASSUME NEW m \in Contained(e)
          PROVE  h[m] = ValueFrom(m, [i \in DOMAIN m.kids |-> [x \in Contained(e) |-> h[x]][m.kids[i]]], env)
      <4>1. \A i \in DOMAIN m.kids : m.kids[i] \in Contained(e)
        BY <2>2, NodesAre
      <4>2. [i \in DOMAIN m.kids |-> [x \in Contained(e) |-> h[x]][m.kids[i]]] = [i \in DOMAIN m.kids |-> h[m.kids[i]]]
        BY <4>1
      <4> QED
        BY <1>4, <2>2, <4>2
    <3> QED
      BY <3>1
  <2>4. made(e) = Unfolded(made(e), e)
    <3> HIDE DEF Unfolded
    <3> QED
      BY <2>3
  <2> HIDE DEF made
  <2> DEFINE S == {m \in Contained(e) : made(e)[m] = h[m]}
  <2>5. ASSUME NEW m \in Contained(e), ToSet(m.kids) \subseteq S PROVE m \in S
    <3>1. \A i \in DOMAIN m.kids : made(e)[m.kids[i]] = h[m.kids[i]]
      BY <2>2, <2>5, NodesAre
    <3>2. made(e)[m] = ValueFrom(m, [i \in DOMAIN m.kids |-> made(e)[m.kids[i]]], env)
      BY <2>4
    <3>3. [i \in DOMAIN m.kids |-> made(e)[m.kids[i]]] = [i \in DOMAIN m.kids |-> h[m.kids[i]]]
      BY <3>1
    <3> QED
      BY <1>4, <2>2, <3>2, <3>3
  <2>6. Contained(e) \subseteq S
    <3> HIDE DEF S
    <3> QED
      BY <2>2, <2>5, TreeInduction
  <2> QED
    BY <2>1, <2>2, <2>6
<1>6. \A i \in DOMAIN t.kids : Value(t.kids[i], env) = h[t.kids[i]]
  BY <1>1, <1>5, ChildrenAreTrees
<1>7. [i \in DOMAIN t.kids |-> Value(t.kids[i], env)] = [i \in DOMAIN t.kids |-> h[t.kids[i]]]
  BY <1>6
<1>8. t \in Contained(t)
  BY <1>1, ContainsItself
<1> QED
  BY <1>4, <1>5, <1>7, <1>8
LEMMA UpToThree == 1 \in 1..1 /\ 1 \in 1..2 /\ 2 \in 1..2 /\ 1 \in 1..3 /\ 2 \in 1..3 /\ 3 \in 1..3
OBVIOUS

LEMMA ValueOf ==
    ASSUME NEW t, IsOverNumbers(t), NEW env \in Valuations
    PROVE  /\ Is(t, Names) => Value(t, env) = env[t.k]
           /\ Is(t, Literals) => Value(t, env) = LiteralValue[t.k]
           /\ Is(t, {"paren"}) => Value(t, env) = Value(t.kids[1], env)
           /\ Is(t, {"not"}) => Value(t, env) = Num(Value(t.kids[1], env) = 0)
           /\ Is(t, {"~"}) => Value(t, env) = -Value(t.kids[1], env) - 1
           /\ Is(t, {"=="}) => Value(t, env) = Num(Value(t.kids[1], env) = Value(t.kids[2], env))
           /\ Is(t, {"!="}) => Value(t, env) = Num(Value(t.kids[1], env) # Value(t.kids[2], env))
           /\ Is(t, {"%"}) => Value(t, env) = Remainder(Value(t.kids[1], env), Value(t.kids[2], env))
           /\ Is(t, {"&"}) /\ Value(t.kids[2], env) = 1 => Value(t, env) = Value(t.kids[1], env) % 2
           /\ Is(t, {"?:"}) => Value(t, env) =
                IF Value(t.kids[1], env) # 0 THEN Value(t.kids[2], env) ELSE Value(t.kids[3], env)
<1> DEFINE below == [i \in DOMAIN t.kids |-> Value(t.kids[i], env)]
<1>1. Value(t, env) = ValueFrom(t, below, env)
  BY ValueIs
<1>2. /\ Is(t, {"paren", "not", "~"}) => Len(t.kids) = 1
      /\ Is(t, {"==", "!=", "%", "&"}) => Len(t.kids) = 2
      /\ Is(t, {"?:"}) => Len(t.kids) = 3
  BY NumbersShape DEF Is, UnaryOperators, BinaryOperators
<1>3. DOMAIN t.kids = 1..Len(t.kids)
  BY NumbersShape
<1>4. /\ Is(t, {"paren", "not", "~", "==", "!=", "%", "&", "?:"}) => below[1] = Value(t.kids[1], env)
      /\ Is(t, {"==", "!=", "%", "&", "?:"}) => below[2] = Value(t.kids[2], env)
      /\ Is(t, {"?:"}) => below[3] = Value(t.kids[3], env)
  <2>1. /\ Is(t, {"paren", "not", "~", "==", "!=", "%", "&", "?:"}) => 1 \in DOMAIN t.kids
        /\ Is(t, {"==", "!=", "%", "&", "?:"}) => 2 \in DOMAIN t.kids
        /\ Is(t, {"?:"}) => 3 \in DOMAIN t.kids
    BY <1>2, <1>3, UpToThree DEF Is
  <2> QED
    BY <2>1
<1> HIDE DEF below
<1> DEFINE l == Value(t.kids[1], env)
           r == Value(t.kids[2], env)
           o == Value(t.kids[3], env)
<1> HIDE DEF l, r, o
<1>5. /\ Is(t, {"paren", "not", "~", "==", "!=", "%", "&", "?:"}) => below[1] = l
      /\ Is(t, {"==", "!=", "%", "&", "?:"}) => below[2] = r
      /\ Is(t, {"?:"}) => below[3] = o
  BY <1>4 DEF l, r, o
<1>6. /\ Is(t, Names) => Value(t, env) = env[t.k]
      /\ Is(t, Literals) => Value(t, env) = LiteralValue[t.k]
      /\ Is(t, {"paren"}) => Value(t, env) = l
      /\ Is(t, {"%"}) => Value(t, env) = Remainder(l, r)
      /\ Is(t, {"&"}) /\ r = 1 => Value(t, env) = l % 2
      /\ Is(t, {"~"}) => Value(t, env) = -l - 1
  BY <1>1, <1>5, ValueFromIs DEF Is
<1>7. /\ Is(t, {"not"}) => Value(t, env) = Num(l = 0)
      /\ Is(t, {"=="}) => Value(t, env) = Num(l = r)
      /\ Is(t, {"!="}) => Value(t, env) = Num(l # r)
      /\ Is(t, {"?:"}) => Value(t, env) = IF l # 0 THEN r ELSE o
  BY <1>1, <1>5, ValueFromIs DEF Is
<1> QED
  BY <1>6, <1>7 DEF l, r, o

(* Parentheses, and blocks of one statement.                               *)
LEMMA InnerFromType ==
    ASSUME NEW t, IsOverNumbers(t), NEW m \in Contained(t), NEW below \in [DOMAIN m.kids -> Contained(t)]
    PROVE  InnerFrom(m, below) \in Contained(t) /\ UnwrappedFrom(m, below) \in Contained(t)
<1>1. IsOverNumbers(m)
  BY OverNumbersBelow
<1>2. Is(m, {"paren"}) => Len(m.kids) = 1
  BY <1>1, NumbersShape DEF Is
<1>3. Len(m.kids) = 1 => below[1] \in Contained(t)
  <2>1. DOMAIN m.kids = 1..Len(m.kids)
    BY <1>1, NumbersShape
  <2> QED
    BY <2>1, UpToThree
<1> QED
  BY <1>2, <1>3 DEF InnerFrom, UnwrappedFrom

LEMMA IgnoreParensIs ==
    ASSUME NEW t, IsOverNumbers(t)
    PROVE  /\ IgnoreParens(t) \in Contained(t)
           /\ IgnoreParens(t) = InnerFrom(t, [i \in DOMAIN t.kids |-> IgnoreParens(t.kids[i])])
<1> DEFINE V == Contained(t)
           G == [m \in Contained(t) |-> [below \in [DOMAIN m.kids -> V] |-> InnerFrom(m, below)]]
           Unfolded(f, e) == [m \in Contained(e) |-> InnerFrom(m, [i \in DOMAIN m.kids |-> f[m.kids[i]]])]
           made(e) == CHOOSE f : f = Unfolded(f, e)
<1>1. IsTree(t)
  BY NumbersShape
<1>2. \A m \in Contained(t) : G[m] \in [[DOMAIN m.kids -> V] -> V]
  BY InnerFromType
<1> HIDE DEF V
<1>3. PICK h : FollowsTree(h, t, V, G)
  <2> HIDE DEF G
  <2> QED
    BY <1>1, <1>2, TreeRecursion
<1>4. ASSUME NEW m \in Contained(t)
      PROVE  h[m] \in V /\ h[m] = InnerFrom(m, [i \in DOMAIN m.kids |-> h[m.kids[i]]])
  <2>1. h[m] \in V /\ h[m] = G[m][Below(h, m)]
    BY <1>3 DEF FollowsTree
  <2>2. Below(h, m) \in [DOMAIN m.kids -> V]
    BY <1>1, <1>3, NodesAre DEF Below, FollowsTree
  <2> QED
    BY <2>1, <2>2 DEF Below
<1> HIDE DEF G
<1>5. ASSUME NEW e \in Contained(t) PROVE IgnoreParens(e) = h[e]
  <2>1. IgnoreParens(e) = made(e)[e]
    BY DEF IgnoreParens, FromBelow
  <2>2. IsTree(e) /\ Contained(e) \subseteq Contained(t) /\ e \in Contained(e)
    BY <1>1, Subtree, ContainsItself
  <2>3. [m \in Contained(e) |-> h[m]] = Unfolded([m \in Contained(e) |-> h[m]], e)
    <3>1. ASSUME NEW m \in Contained(e)
          PROVE  h[m] = InnerFrom(m, [i \in DOMAIN m.kids |-> [x \in Contained(e) |-> h[x]][m.kids[i]]])
      <4>1. \A i \in DOMAIN m.kids : m.kids[i] \in Contained(e)
        BY <2>2, NodesAre
      <4>2. [i \in DOMAIN m.kids |-> [x \in Contained(e) |-> h[x]][m.kids[i]]] = [i \in DOMAIN m.kids |-> h[m.kids[i]]]
        BY <4>1
      <4> QED
        BY <1>4, <2>2, <4>2
    <3> QED
      BY <3>1
  <2>4. made(e) = Unfolded(made(e), e)
    <3> HIDE DEF Unfolded
    <3> QED
      BY <2>3
  <2> HIDE DEF made
  <2> DEFINE S == {m \in Contained(e) : made(e)[m] = h[m]}
  <2>5. ASSUME NEW m \in Contained(e), ToSet(m.kids) \subseteq S PROVE m \in S
    <3>1. \A i \in DOMAIN m.kids : made(e)[m.kids[i]] = h[m.kids[i]]
      BY <2>2, <2>5, NodesAre
    <3>2. made(e)[m] = InnerFrom(m, [i \in DOMAIN m.kids |-> made(e)[m.kids[i]]])
      BY <2>4
    <3>3. [i \in DOMAIN m.kids |-> made(e)[m.kids[i]]] = [i \in DOMAIN m.kids |-> h[m.kids[i]]]
      BY <3>1
    <3> QED
      BY <1>4, <2>2, <3>2, <3>3
  <2>6. Contained(e) \subseteq S
    <3> HIDE DEF S
    <3> QED
      BY <2>2, <2>5, TreeInduction
  <2> QED
    BY <2>1, <2>2, <2>6
<1>6. \A i \in DOMAIN t.kids : IgnoreParens(t.kids[i]) = h[t.kids[i]]
  BY <1>1, <1>5, ChildrenAreTrees
<1>7. [i \in DOMAIN t.kids |-> IgnoreParens(t.kids[i])] = [i \in DOMAIN t.kids |-> h[t.kids[i]]]
  BY <1>6
<1>8. t \in Contained(t)
  BY <1>1, ContainsItself
<1> QED
  BY <1>4, <1>5, <1>7, <1>8 DEF V

LEMMA UnwrappedIs ==
    ASSUME NEW t, IsOverNumbers(t)
    PROVE  /\ Unwrapped(t) \in Contained(t)
           /\ Unwrapped(t) = UnwrappedFrom(t, [i \in DOMAIN t.kids |-> Unwrapped(t.kids[i])])
<1> DEFINE V == Contained(t)
           G == [m \in Contained(t) |-> [below \in [DOMAIN m.kids -> V] |-> UnwrappedFrom(m, below)]]
           Unfolded(f, e) == [m \in Contained(e) |-> UnwrappedFrom(m, [i \in DOMAIN m.kids |-> f[m.kids[i]]])]
           made(e) == CHOOSE f : f = Unfolded(f, e)
<1>1. IsTree(t)
  BY NumbersShape
<1>2. \A m \in Contained(t) : G[m] \in [[DOMAIN m.kids -> V] -> V]
  BY InnerFromType
<1> HIDE DEF V
<1>3. PICK h : FollowsTree(h, t, V, G)
  <2> HIDE DEF G
  <2> QED
    BY <1>1, <1>2, TreeRecursion
<1>4. ASSUME NEW m \in Contained(t)
      PROVE  h[m] \in V /\ h[m] = UnwrappedFrom(m, [i \in DOMAIN m.kids |-> h[m.kids[i]]])
  <2>1. h[m] \in V /\ h[m] = G[m][Below(h, m)]
    BY <1>3 DEF FollowsTree
  <2>2. Below(h, m) \in [DOMAIN m.kids -> V]
    BY <1>1, <1>3, NodesAre DEF Below, FollowsTree
  <2> QED
    BY <2>1, <2>2 DEF Below
<1> HIDE DEF G
<1>5. ASSUME NEW e \in Contained(t) PROVE Unwrapped(e) = h[e]
  <2>1. Unwrapped(e) = made(e)[e]
    BY DEF Unwrapped, FromBelow
  <2>2. IsTree(e) /\ Contained(e) \subseteq Contained(t) /\ e \in Contained(e)
    BY <1>1, Subtree, ContainsItself
  <2>3. [m \in Contained(e) |-> h[m]] = Unfolded([m \in Contained(e) |-> h[m]], e)
    <3>1. ASSUME NEW m \in Contained(e)
          PROVE  h[m] = UnwrappedFrom(m, [i \in DOMAIN m.kids |-> [x \in Contained(e) |-> h[x]][m.kids[i]]])
      <4>1. \A i \in DOMAIN m.kids : m.kids[i] \in Contained(e)
        BY <2>2, NodesAre
      <4>2. [i \in DOMAIN m.kids |-> [x \in Contained(e) |-> h[x]][m.kids[i]]] = [i \in DOMAIN m.kids |-> h[m.kids[i]]]
        BY <4>1
      <4> QED
        BY <1>4, <2>2, <4>2
    <3> QED
      BY <3>1
  <2>4. made(e) = Unfolded(made(e), e)
    <3> HIDE DEF Unfolded
    <3> QED
      BY <2>3
  <2> HIDE DEF made
  <2> DEFINE S == {m \in Contained(e) : made(e)[m] = h[m]}
  <2>5. ASSUME NEW m \in Contained(e), ToSet(m.kids) \subseteq S PROVE m \in S
    <3>1. \A i \in DOMAIN m.kids : made(e)[m.kids[i]] = h[m.kids[i]]
      BY <2>2, <2>5, NodesAre
    <3>2. made(e)[m] = UnwrappedFrom(m, [i \in DOMAIN m.kids |-> made(e)[m.kids[i]]])
      BY <2>4
    <3>3. [i \in DOMAIN m.kids |-> made(e)[m.kids[i]]] = [i \in DOMAIN m.kids |-> h[m.kids[i]]]
      BY <3>1
    <3> QED
      BY <1>4, <2>2, <3>2, <3>3
  <2>6. Contained(e) \subseteq S
    <3> HIDE DEF S
    <3> QED
      BY <2>2, <2>5, TreeInduction
  <2> QED
    BY <2>1, <2>2, <2>6
<1>6. \A i \in DOMAIN t.kids : Unwrapped(t.kids[i]) = h[t.kids[i]]
  BY <1>1, <1>5, ChildrenAreTrees
<1>7. [i \in DOMAIN t.kids |-> Unwrapped(t.kids[i])] = [i \in DOMAIN t.kids |-> h[t.kids[i]]]
  BY <1>6
<1>8. t \in Contained(t)
  BY <1>1, ContainsItself
<1> QED
  BY <1>4, <1>5, <1>7, <1>8 DEF V

LEMMA ParensDoNothing ==
    ASSUME NEW t, IsOverNumbers(t), NEW env \in Valuations
    PROVE  Value(IgnoreParens(t), env) = Value(t, env)
<1> DEFINE S == {m \in Contained(t) : Value(IgnoreParens(m), env) = Value(m, env)}
<1>1. ASSUME NEW m \in Contained(t), ToSet(m.kids) \subseteq S PROVE m \in S
  <2>1. IsOverNumbers(m)
    BY OverNumbersBelow
  <2>2. IgnoreParens(m) = InnerFrom(m, [i \in DOMAIN m.kids |-> IgnoreParens(m.kids[i])])
    BY <2>1, IgnoreParensIs
  <2>3. CASE Is(m, {"paren"})
    <3>1. Len(m.kids) = 1 /\ DOMAIN m.kids = 1..Len(m.kids)
      BY <2>1, <2>3, NumbersShape DEF Is
    <3>2. IgnoreParens(m) = IgnoreParens(m.kids[1])
      BY <2>2, <2>3, <3>1, UpToThree DEF InnerFrom
    <3>3. m.kids[1] \in S
      BY <1>1, <2>1, <3>1, UpToThree, NumbersShape
    <3> QED
      BY <2>1, <2>3, <3>2, <3>3, ValueOf
  <2>4. CASE ~Is(m, {"paren"})
    BY <2>2, <2>4 DEF InnerFrom
  <2> QED
    BY <2>3, <2>4
<1>2. Contained(t) \subseteq S
  <2>1. IsTree(t)
    BY NumbersShape
  <2> HIDE DEF S
  <2> QED
    BY <1>1, <2>1, TreeInduction
<1> QED
  BY <1>2, NumbersShape
-----------------------------------------------------------------------------
(***************************************************************************)
(* What statements do.                                                     *)
(***************************************************************************)
Outcomes == [returned : BOOLEAN, value : SUBSET Int, env : Valuations]
Effects == [Valuations -> Outcomes]

LEMMA ThroughType ==
    ASSUME NEW env \in Valuations, NEW value \in SUBSET Int
    PROVE  /\ Through(env) \in Outcomes /\ ~Through(env).returned /\ Through(env).env = env
           /\ Returned(value, env) \in Outcomes
BY DEF Through, Returned, Outcomes

LEMMA OneByOneIs ==
    ASSUME NEW effects \in Seq(Effects), NEW before \in Valuations
    PROVE  /\ OneByOne(effects, before) \in Outcomes
           /\ Len(effects) = 1 => OneByOne(effects, before) = effects[1][before]
<1> DEFINE N == Len(effects)
           Turn_(i, last) == IF last.returned THEN last ELSE effects[i][last.env]
           Unfolded(f) == [i \in 0..N |-> IF i = 0 THEN Through(before) ELSE Turn_(i, f[i - 1])]
           after == CHOOSE f : f = Unfolded(f)
           G == [i \in 1..N |-> [last \in Outcomes |-> Turn_(i, last)]]
<1>1. N \in Nat /\ \A i \in 1..N : effects[i] \in Effects
  BY LenProperties, ElementOfSeq
<1>2. OneByOne(effects, before) = after[N]
  BY DEF OneByOne
<1> HIDE DEF N
<1>3. G \in [1..N -> [Outcomes -> Outcomes]]
  <2>1. ASSUME NEW i \in 1..N, NEW last \in Outcomes PROVE Turn_(i, last) \in Outcomes
    <3>1. effects[i] \in [Valuations -> Outcomes] /\ last.env \in Valuations
      BY <1>1 DEF Effects, Outcomes
    <3> QED
      BY <3>1
  <2> HIDE DEF Turn_
  <2> QED
    BY <2>1
<1>4. Through(before) \in Outcomes /\ ~Through(before).returned /\ Through(before).env = before
  BY ThroughType
<1>5. PICK h : IsRecursion(h, Outcomes, Through(before), N, G)
  <2> HIDE DEF G
  <2> QED
    BY <1>1, <1>3, <1>4, RecursionExists
<1> HIDE DEF Turn_
<1>6. /\ h \in [0..N -> Outcomes] /\ h[0] = Through(before)
      /\ \A i \in 1..N : h[i - 1] \in Outcomes /\ h[i] = Turn_(i, h[i - 1])
  <2>1. h \in [0..N -> Outcomes] /\ h[0] = Through(before) /\ \A i \in 1..N : h[i] = G[i][h[i - 1]]
    BY <1>5 DEF IsRecursion
  <2>2. \A i \in 1..N : i - 1 \in 0..N
    BY <1>1
  <2>3. \A i \in 1..N : h[i - 1] \in Outcomes
    BY <2>1, <2>2
  <2> QED
    BY <2>1, <2>3
<1> HIDE DEF G
<1>7. h = Unfolded(h)
  <2>1. \A i \in 0..N : i = 0 \/ i \in 1..N
    BY <1>1
  <2>2. \A i \in 0..N : h[i] = IF i = 0 THEN Through(before) ELSE Turn_(i, h[i - 1])
    BY <1>6, <2>1
  <2> QED
    BY <1>6, <2>2
<1>8. after = Unfolded(after)
  <2> HIDE DEF Unfolded
  <2> QED
    BY <1>7
<1> HIDE DEF after
<1>9. /\ after[0] = Through(before)
      /\ \A i \in 1..N : after[i] = Turn_(i, after[i - 1])
  <2>1. 0 \in 0..N /\ \A i \in 1..N : i \in 0..N /\ i # 0
    BY <1>1
  <2> QED
    BY <1>8, <2>1
<1> DEFINE T == {i \in 0..N : after[i] = h[i]}
<1>10. 0 \in T
  BY <1>1, <1>6, <1>9
<1>11. ASSUME NEW i \in T, i < N PROVE i + 1 \in T
  <2>1. i + 1 \in 1..N /\ i + 1 \in 0..N /\ (i + 1) - 1 = i
    BY <1>1, <1>11
  <2> QED
    BY <1>6, <1>9, <2>1
<1>12. T = 0..N
  <2>1. T \in SUBSET (0..N)
    OBVIOUS
  <2> HIDE DEF T
  <2> QED
    BY <1>1, <1>10, <1>11, <2>1, BoundedInduction
<1>13. N \in 0..N
  BY <1>1
<1>14. OneByOne(effects, before) \in Outcomes
  <2>1. N \in T
    BY <1>12, <1>13
  <2> QED
    BY <1>2, <1>6, <1>13, <2>1
<1>15. N = 1 => OneByOne(effects, before) = effects[1][before]
  <2> SUFFICES ASSUME N = 1 PROVE after[1] = effects[1][before]
    BY <1>2
  <2>1. after[1] = Turn_(1, Through(before))
    <3>1. 1 \in 1..N /\ 1 - 1 = 0
      OBVIOUS
    <3> QED
      BY <1>9, <3>1
  <2> QED
    BY <1>4, <2>1 DEF Turn_
<1> QED
  BY <1>14, <1>15 DEF N

(* What is needed of a tree to know what it does.                          *)
Executes(t) ==
    /\ IsTree(t)
    /\ \A m \in Contained(t) :
        /\ Is(m, {"return"}) => \A e \in ToSet(m.kids), env \in Valuations : Value(e, env) \in Int
        /\ Is(m, {"="}) => m.kids[1].k \in Names /\ \A env \in Valuations : Value(m.kids[2], env) \in Int
        /\ Is(m, {"if"}) => Len(m.kids) \in {2, 3}

LEMMA NumbersExecute == ASSUME NEW t, IsOverNumbers(t) PROVE Executes(t)
<1>1. IsTree(t)
  BY DEF IsOverNumbers
<1>2. ASSUME NEW m \in Contained(t)
      PROVE  /\ Is(m, {"return"}) => \A e \in ToSet(m.kids), env \in Valuations : Value(e, env) \in Int
             /\ Is(m, {"="}) => m.kids[1].k \in Names /\ \A env \in Valuations : Value(m.kids[2], env) \in Int
             /\ Is(m, {"if"}) => Len(m.kids) \in {2, 3}
  <2>1. IsOverNumbers(m)
    BY OverNumbersBelow
  <2>2. \A e \in ToSet(m.kids), env \in Valuations : Value(e, env) \in Int
    <3>1. \A e \in ToSet(m.kids) : e \in Contained(t)
      BY <1>1, ContainsChildren
    <3> QED
      BY <3>1, OverNumbersBelow, ValueIs
  <2>3. Is(m, {"="}) => m.kids[1].k \in Names /\ m.kids[2] \in ToSet(m.kids)
    <3>1. Is(m, {"="}) => Len(m.kids) = 2
      BY <2>1, NumbersShape DEF Is, BinaryOperators
    <3> QED
      BY <2>1, <3>1, UpToThree, NumbersShape DEF Is
  <2> QED
    BY <2>1, <2>2, <2>3, NumbersShape
<1> QED
  BY <1>1, <1>2 DEF Executes

LEMMA EffectFromType ==
    ASSUME NEW t, Executes(t), NEW m \in Contained(t), NEW below \in [DOMAIN m.kids -> Effects]
    PROVE  EffectFrom(m, below) \in Effects
<1>1. /\ Is(m, {"return"}) => \A e \in ToSet(m.kids), env \in Valuations : Value(e, env) \in Int
      /\ Is(m, {"="}) => m.kids[1].k \in Names /\ \A env \in Valuations : Value(m.kids[2], env) \in Int
      /\ Is(m, {"if"}) => Len(m.kids) \in {2, 3}
  BY DEF Executes
<1>2. IsTree(t)
  BY DEF Executes
<1>3. DOMAIN m.kids = 1..Len(m.kids) /\ Len(m.kids) \in Nat
  BY <1>2, NodesAre
<1>4. ASSUME NEW before \in Valuations
      PROVE  (CASE m.k = "return" -> Returned({Value(e, before) : e \in ToSet(m.kids)}, before)
                [] m.k = "=" -> Through([before EXCEPT ![m.kids[1].k] = Value(m.kids[2], before)])
                [] m.k = "compound" -> OneByOne(below, before)
                [] m.k = "if" /\ Value(m.kids[1], before) # 0 -> below[2][before]
                [] m.k = "if" /\ HasElse(m) /\ Value(m.kids[1], before) = 0 -> below[3][before]
                [] OTHER -> Through(before)) \in Outcomes
  <2>1. m.k = "return" => Returned({Value(e, before) : e \in ToSet(m.kids)}, before) \in Outcomes
    <3>1. m.k = "return" => {Value(e, before) : e \in ToSet(m.kids)} \in SUBSET Int
      BY <1>1 DEF Is
    <3> QED
      BY <3>1, ThroughType
  <2>2. m.k = "=" => Through([before EXCEPT ![m.kids[1].k] = Value(m.kids[2], before)]) \in Outcomes
    <3>1. m.k = "=" => m.kids[1].k \in Names /\ Value(m.kids[2], before) \in Int
      BY <1>1 DEF Is
    <3>2. m.k = "=" => [before EXCEPT ![m.kids[1].k] = Value(m.kids[2], before)] \in Valuations
      BY <3>1 DEF Valuations
    <3> QED
      BY <3>2, ThroughType
  <2>3. OneByOne(below, before) \in Outcomes
    <3>1. below \in Seq(Effects)
      BY <1>3
    <3> QED
      BY <3>1, OneByOneIs
  <2>4. /\ m.k = "if" => below[2][before] \in Outcomes
        /\ m.k = "if" /\ HasElse(m) => below[3][before] \in Outcomes
    <3>1. /\ m.k = "if" => below[2] \in Effects
          /\ m.k = "if" /\ HasElse(m) => below[3] \in Effects
      BY <1>1, <1>3, UpToThree DEF Is, HasElse
    <3> QED
      BY <3>1 DEF Effects
  <2>5. Through(before) \in Outcomes
    BY ThroughType
  <2> QED
    BY <2>1, <2>2, <2>3, <2>4, <2>5, Zenon
<1> QED
  BY <1>4 DEF EffectFrom, Effects

Effect(s) == FromBelow(EffectFrom, s)

LEMMA EffectIs ==
    ASSUME NEW t, Executes(t)
    PROVE  /\ Effect(t) \in Effects
           /\ Effect(t) = EffectFrom(t, [i \in DOMAIN t.kids |-> Effect(t.kids[i])])
<1> DEFINE V == Effects
           G == [m \in Contained(t) |-> [below \in [DOMAIN m.kids -> V] |-> EffectFrom(m, below)]]
           Unfolded(f, e) == [m \in Contained(e) |-> EffectFrom(m, [i \in DOMAIN m.kids |-> f[m.kids[i]]])]
           made(e) == CHOOSE f : f = Unfolded(f, e)
<1>1. IsTree(t)
  BY DEF Executes
<1>2. \A m \in Contained(t) : G[m] \in [[DOMAIN m.kids -> V] -> V]
  BY EffectFromType
<1> HIDE DEF V
<1>3. PICK h : FollowsTree(h, t, V, G)
  <2> HIDE DEF G
  <2> QED
    BY <1>1, <1>2, TreeRecursion
<1>4. ASSUME NEW m \in Contained(t)
      PROVE  h[m] \in V /\ h[m] = EffectFrom(m, [i \in DOMAIN m.kids |-> h[m.kids[i]]])
  <2>1. h[m] \in V /\ h[m] = G[m][Below(h, m)]
    BY <1>3 DEF FollowsTree
  <2>2. Below(h, m) \in [DOMAIN m.kids -> V]
    BY <1>1, <1>3, NodesAre DEF Below, FollowsTree
  <2> QED
    BY <2>1, <2>2 DEF Below
<1> HIDE DEF G
<1>5. ASSUME NEW e \in Contained(t) PROVE Effect(e) = h[e]
  <2>1. Effect(e) = made(e)[e]
    BY DEF Effect, FromBelow
  <2>2. IsTree(e) /\ Contained(e) \subseteq Contained(t) /\ e \in Contained(e)
    BY <1>1, Subtree, ContainsItself
  <2>3. [m \in Contained(e) |-> h[m]] = Unfolded([m \in Contained(e) |-> h[m]], e)
    <3>1. ASSUME NEW m \in Contained(e)
          PROVE  h[m] = EffectFrom(m, [i \in DOMAIN m.kids |-> [x \in Contained(e) |-> h[x]][m.kids[i]]])
      <4>1. \A i \in DOMAIN m.kids : m.kids[i] \in Contained(e)
        BY <2>2, NodesAre
      <4>2. [i \in DOMAIN m.kids |-> [x \in Contained(e) |-> h[x]][m.kids[i]]] = [i \in DOMAIN m.kids |-> h[m.kids[i]]]
        BY <4>1
      <4> QED
        BY <1>4, <2>2, <4>2
    <3> QED
      BY <3>1
  <2>4. made(e) = Unfolded(made(e), e)
    <3> HIDE DEF Unfolded
    <3> QED
      BY <2>3
  <2> HIDE DEF made
  <2> DEFINE S == {m \in Contained(e) : made(e)[m] = h[m]}
  <2>5. ASSUME NEW m \in Contained(e), ToSet(m.kids) \subseteq S PROVE m \in S
    <3>1. \A i \in DOMAIN m.kids : made(e)[m.kids[i]] = h[m.kids[i]]
      BY <2>2, <2>5, NodesAre
    <3>2. made(e)[m] = EffectFrom(m, [i \in DOMAIN m.kids |-> made(e)[m.kids[i]]])
      BY <2>4
    <3>3. [i \in DOMAIN m.kids |-> made(e)[m.kids[i]]] = [i \in DOMAIN m.kids |-> h[m.kids[i]]]
      BY <3>1
    <3> QED
      BY <1>4, <2>2, <3>2, <3>3
  <2>6. Contained(e) \subseteq S
    <3> HIDE DEF S
    <3> QED
      BY <2>2, <2>5, TreeInduction
  <2> QED
    BY <2>1, <2>2, <2>6
<1>6. \A i \in DOMAIN t.kids : Effect(t.kids[i]) = h[t.kids[i]]
  BY <1>1, <1>5, ChildrenAreTrees
<1>7. [i \in DOMAIN t.kids |-> Effect(t.kids[i])] = [i \in DOMAIN t.kids |-> h[t.kids[i]]]
  BY <1>6
<1>8. t \in Contained(t)
  BY <1>1, ContainsItself
<1> QED
  BY <1>4, <1>5, <1>7, <1>8 DEF V
LEMMA ExecutedOf ==
    ASSUME NEW t, Executes(t), NEW env \in Valuations
    PROVE  /\ Is(t, {"return"}) => Executed(t, env) = Returned({Value(e, env) : e \in ToSet(t.kids)}, env)
           /\ Is(t, {"="}) => Executed(t, env) = Through([env EXCEPT ![t.kids[1].k] = Value(t.kids[2], env)])
           /\ Is(t, {"if"}) /\ Value(t.kids[1], env) # 0 => Executed(t, env) = Executed(t.kids[2], env)
           /\ Is(t, {"if"}) /\ HasElse(t) /\ Value(t.kids[1], env) = 0 => Executed(t, env) = Executed(t.kids[3], env)
           /\ Is(t, {"compound"}) /\ Len(t.kids) = 1 => Executed(t, env) = Executed(t.kids[1], env)
           /\ ~Is(t, {"return", "=", "compound", "if"}) => Executed(t, env) = Through(env)
<1> DEFINE below == [i \in DOMAIN t.kids |-> Effect(t.kids[i])]
<1>1. \A s : Executed(s, env) = Effect(s)[env]
  BY DEF Executed, Effect
<1>2. Effect(t) = EffectFrom(t, below)
  BY EffectIs
<1>3. IsTree(t) /\ DOMAIN t.kids = 1..Len(t.kids) /\ Len(t.kids) \in Nat
  <2>1. IsTree(t)
    BY DEF Executes
  <2> QED
    BY <2>1, ContainsItself, NodesAre
<1>4. \A i \in DOMAIN t.kids : IsTree(t.kids[i]) /\ Executes(t.kids[i])
  <2>1. \A i \in DOMAIN t.kids : IsTree(t.kids[i]) /\ Contained(t.kids[i]) \subseteq Contained(t)
    BY <1>3, ChildrenAreTrees
  <2> QED
    BY <2>1 DEF Executes
<1>5. below \in Seq(Effects) /\ Len(below) = Len(t.kids)
  <2>1. \A i \in 1..Len(t.kids) : Effect(t.kids[i]) \in Effects
    BY <1>3, <1>4, EffectIs
  <2> QED
    BY <1>3, <2>1
<1>6. \A i \in 1..Len(t.kids) : below[i] = Effect(t.kids[i])
  BY <1>3
<1> HIDE DEF below
<1>7. Executed(t, env) =
        CASE t.k = "return" -> Returned({Value(e, env) : e \in ToSet(t.kids)}, env)
          [] t.k = "=" -> Through([env EXCEPT ![t.kids[1].k] = Value(t.kids[2], env)])
          [] t.k = "compound" -> OneByOne(below, env)
          [] t.k = "if" /\ Value(t.kids[1], env) # 0 -> below[2][env]
          [] t.k = "if" /\ HasElse(t) /\ Value(t.kids[1], env) = 0 -> below[3][env]
          [] OTHER -> Through(env)
  BY <1>1, <1>2 DEF EffectFrom
<1> DEFINE returns == Returned({Value(e, env) : e \in ToSet(t.kids)}, env)
           assigns == Through([env EXCEPT ![t.kids[1].k] = Value(t.kids[2], env)])
           goes == OneByOne(below, env)
           cond == Value(t.kids[1], env)
<1>8. Executed(t, env) =
        CASE t.k = "return" -> returns
          [] t.k = "=" -> assigns
          [] t.k = "compound" -> goes
          [] t.k = "if" /\ cond # 0 -> below[2][env]
          [] t.k = "if" /\ HasElse(t) /\ cond = 0 -> below[3][env]
          [] OTHER -> Through(env)
  BY <1>7
<1> HIDE DEF returns, assigns, goes, cond
<1>9. /\ Is(t, {"return"}) => Executed(t, env) = returns
      /\ Is(t, {"="}) => Executed(t, env) = assigns
      /\ Is(t, {"compound"}) => Executed(t, env) = goes
      /\ Is(t, {"if"}) /\ cond # 0 => Executed(t, env) = below[2][env]
      /\ Is(t, {"if"}) /\ HasElse(t) /\ cond = 0 => Executed(t, env) = below[3][env]
      /\ ~Is(t, {"return", "=", "compound", "if"}) => Executed(t, env) = Through(env)
  BY <1>8 DEF Is
<1>10. /\ Is(t, {"if"}) => below[2][env] = Executed(t.kids[2], env)
       /\ Is(t, {"if"}) /\ HasElse(t) => below[3][env] = Executed(t.kids[3], env)
  <2>1. Is(t, {"if"}) => Len(t.kids) \in {2, 3}
    BY <1>3, ContainsItself DEF Executes
  <2>2. /\ Is(t, {"if"}) => 2 \in 1..Len(t.kids)
        /\ Is(t, {"if"}) /\ HasElse(t) => 3 \in 1..Len(t.kids)
    BY <2>1, UpToThree DEF HasElse
  <2> QED
    BY <1>1, <1>6, <2>2
<1>11. Len(t.kids) = 1 => goes = Executed(t.kids[1], env)
  <2>1. Len(t.kids) = 1 => goes = below[1][env]
    BY <1>5, OneByOneIs DEF goes
  <2> QED
    BY <1>1, <1>6, <2>1, UpToThree
<1> QED
  BY <1>9, <1>10, <1>11 DEF returns, assigns, cond

LEMMA BlocksDoNothing ==
    ASSUME NEW t, IsOverNumbers(t), NEW env \in Valuations
    PROVE  Executed(Unwrapped(t), env) = Executed(t, env)
<1> DEFINE S == {m \in Contained(t) : Executed(Unwrapped(m), env) = Executed(m, env)}
<1>1. ASSUME NEW m \in Contained(t), ToSet(m.kids) \subseteq S PROVE m \in S
  <2>1. IsOverNumbers(m)
    BY OverNumbersBelow
  <2>2. Unwrapped(m) = UnwrappedFrom(m, [i \in DOMAIN m.kids |-> Unwrapped(m.kids[i])])
    BY <2>1, UnwrappedIs
  <2>3. CASE Is(m, {"compound"}) /\ Len(m.kids) = 1
    <3>1. DOMAIN m.kids = 1..Len(m.kids)
      BY <2>1, NumbersShape
    <3>2. Unwrapped(m) = Unwrapped(m.kids[1])
      BY <2>2, <2>3, <3>1, UpToThree DEF UnwrappedFrom
    <3>3. m.kids[1] \in S
      BY <1>1, <2>1, <2>3, UpToThree, NumbersShape
    <3>4. Executed(m, env) = Executed(m.kids[1], env)
      BY <2>1, <2>3, NumbersExecute, ExecutedOf
    <3> QED
      BY <3>2, <3>3, <3>4
  <2>4. CASE ~(Is(m, {"compound"}) /\ Len(m.kids) = 1)
    BY <2>2, <2>4 DEF UnwrappedFrom
  <2> QED
    BY <2>3, <2>4
<1>2. Contained(t) \subseteq S
  <2>1. IsTree(t)
    BY NumbersShape
  <2> HIDE DEF S
  <2> QED
    BY <1>1, <2>1, TreeInduction
<1> QED
  BY <1>2, NumbersShape

(* A return, or an operator, with something else on its right.             *)
EndsInValue(s) == (Is(s, {"return"}) /\ Len(s.kids) = 1) \/ Is(s, BinaryOperators)

LEMMA OtherChild ==
    ASSUME NEW k, NEW a, NEW b
    PROVE  Instead(Node(k, <<a>>), b) = Node(k, <<b>>)
<1> DEFINE q == Node(k, <<a>>)
<1>1. [q EXCEPT !.kids[1] = b] = Node(k, <<b>>)
  <2>1. [<<a>> EXCEPT ![1] = b] = <<b>>
    BY SMT
  <2> QED
    BY <2>1 DEF Node
<1>2. Len(q.kids) = 1
  BY DEF Node
<1> HIDE DEF q
<1>3. Instead(q, b) = [q EXCEPT !.kids[1] = b]
  BY <1>2 DEF Instead
<1> QED
  BY <1>1, <1>3 DEF q

LEMMA InsteadIs ==
    ASSUME NEW s, IsOverNumbers(s), EndsInValue(s), NEW e
    PROVE  /\ Len(s.kids) \in {1, 2}
           /\ Len(s.kids) = 1 => Is(s, {"return"}) /\ Instead(s, e) = Node(s.k, <<e>>)
           /\ Len(s.kids) = 2 => Is(s, BinaryOperators) /\ Instead(s, e) = Node(s.k, <<s.kids[1], e>>)
           /\ Instead(s, Last(s.kids)) = s
<1>1. (Len(s.kids) = 1 /\ Is(s, {"return"})) \/ (Len(s.kids) = 2 /\ Is(s, BinaryOperators))
  BY NumbersShape DEF EndsInValue
<1>2. /\ Len(s.kids) = 1 => s = Node(s.k, <<s.kids[1]>>)
      /\ Len(s.kids) = 2 => s = Node(s.k, <<s.kids[1], s.kids[2]>>)
  BY NumbersShape, OneChild
<1>3. Last(s.kids) = s.kids[Len(s.kids)]
  BY DEF Last
<1>4. ASSUME Len(s.kids) = 1
      PROVE  Instead(s, e) = Node(s.k, <<e>>) /\ Instead(s, Last(s.kids)) = s
  <2>1. \A k, a, b : Instead(Node(k, <<a>>), b) = Node(k, <<b>>)
    BY OtherChild
  <2>2. \A b : Instead(s, b) = Node(s.k, <<b>>)
    <3>1. s = Node(s.k, <<s.kids[1]>>)
      BY <1>2, <1>4
    <3> QED
      BY <2>1, <3>1
  <2> QED
    BY <1>2, <1>3, <1>4, <2>2
<1>5. ASSUME Len(s.kids) = 2
      PROVE  Instead(s, e) = Node(s.k, <<s.kids[1], e>>) /\ Instead(s, Last(s.kids)) = s
  <2>1. \A k, a, c, b : [Node(k, <<a, c>>) EXCEPT !.kids[2] = b] = Node(k, <<a, b>>)
    BY DEF Node
  <2>2. \A b : Instead(s, b) = Node(s.k, <<s.kids[1], b>>)
    BY <1>2, <1>5, <2>1 DEF Instead
  <2> QED
    BY <1>2, <1>3, <1>5, <2>2
<1> QED
  BY <1>1, <1>4, <1>5

LEMMA ExecutedInstead ==
    ASSUME NEW s, IsOverNumbers(s), EndsInValue(s), NEW e, IsOverNumbers(e), NEW env \in Valuations
    PROVE  Executed(Instead(s, e), env) =
             IF Is(s, {"return"}) THEN Returned({Value(e, env)}, env)
             ELSE IF Is(s, {"="}) THEN Through([env EXCEPT ![s.kids[1].k] = Value(e, env)])
             ELSE Through(env)
<1> DEFINE u == Instead(s, e)
<1>1. /\ (Len(s.kids) = 1 /\ Is(s, {"return"})) \/ (Len(s.kids) = 2 /\ Is(s, BinaryOperators))
      /\ Len(s.kids) = 1 => u = Node(s.k, <<e>>)
      /\ Len(s.kids) = 2 => u = Node(s.k, <<s.kids[1], e>>)
  BY InsteadIs
<1> HIDE DEF u
<1>2. /\ u.k = s.k /\ u = Node(u.k, u.kids)
      /\ Len(s.kids) = 1 => u.kids = <<e>>
      /\ Len(s.kids) = 2 => u.kids = <<s.kids[1], e>>
  <2>1. \A k, a : /\ Node(k, a).k = k /\ Node(k, a).kids = a
                  /\ Node(k, a) = Node(Node(k, a).k, Node(k, a).kids)
    BY DEF Node
  <2>2. CASE Len(s.kids) = 1
    <3>1. u = Node(s.k, <<e>>)
      BY <1>1, <2>2
    <3>2. Len(s.kids) # 2
      BY <2>2
    <3> QED
      BY <2>1, <3>1, <3>2
  <2>3. CASE Len(s.kids) = 2
    <3>1. u = Node(s.k, <<s.kids[1], e>>)
      BY <1>1, <2>3
    <3>2. Len(s.kids) # 1
      BY <2>3
    <3> QED
      BY <2>1, <3>1, <3>2
  <2> QED
    BY <1>1, <2>2, <2>3
<1>3. /\ u.kids \in Seq(ToSet(u.kids))
      /\ DOMAIN u.kids = 1..Len(s.kids)
      /\ Len(s.kids) = 1 => ToSet(u.kids) = {e} /\ u.kids[1] = e
      /\ Len(s.kids) = 2 => ToSet(u.kids) = {s.kids[1], e} /\ u.kids[1] = s.kids[1] /\ u.kids[2] = e
  <2>1. \A a : <<a>> \in Seq(ToSet(<<a>>)) /\ DOMAIN <<a>> = 1..1 /\ ToSet(<<a>>) = {a} /\ <<a>>[1] = a
    BY DEF ToSet
  <2>2. \A a, b : /\ <<a, b>> \in Seq(ToSet(<<a, b>>)) /\ DOMAIN <<a, b>> = 1..2 /\ ToSet(<<a, b>>) = {a, b}
                  /\ <<a, b>>[1] = a /\ <<a, b>>[2] = b
    BY DEF ToSet
  <2>3. CASE Len(s.kids) = 1
    <3>1. u.kids = <<e>> /\ Len(s.kids) # 2
      BY <1>2, <2>3
    <3> QED
      BY <2>1, <2>3, <3>1
  <2>4. CASE Len(s.kids) = 2
    <3>1. u.kids = <<s.kids[1], e>> /\ Len(s.kids) # 1
      BY <1>2, <2>4
    <3> QED
      BY <2>2, <2>4, <3>1
  <2> QED
    BY <1>1, <2>3, <2>4
<1>4. Executes(e) /\ (Len(s.kids) = 2 => Executes(s.kids[1]))
  <2>1. Len(s.kids) = 2 => IsOverNumbers(s.kids[1])
    BY UpToThree, NumbersShape
  <2> QED
    BY <2>1, NumbersExecute
<1>5. \A k \in ToSet(u.kids) : Executes(k)
  BY <1>1, <1>3, <1>4
<1>6. IsTree(u)
  <2>1. \A i \in DOMAIN u.kids : IsTree(u.kids[i])
    BY <1>5 DEF Executes, ToSet
  <2> QED
    BY <1>2, <1>3, <2>1, NodeIsTree
<1>7. \A v \in Valuations : Value(e, v) \in Int
  BY ValueIs
<1>8. \A k \in BinaryOperators : k \notin {"return", "compound", "if"}
  BY DEF BinaryOperators
<1>9. Is(s, {"="}) => s.kids[1].k \in Names
  <2>1. Is(s, {"="}) => Len(s.kids) = 2
    BY NumbersShape DEF Is, BinaryOperators
  <2> QED
    BY <2>1, UpToThree, NumbersShape DEF Is
<1>10. Executes(u)
  <2>1. ASSUME NEW m \in Contained(u)
        PROVE  /\ Is(m, {"return"}) => \A x \in ToSet(m.kids), v \in Valuations : Value(x, v) \in Int
               /\ Is(m, {"="}) => m.kids[1].k \in Names /\ \A v \in Valuations : Value(m.kids[2], v) \in Int
               /\ Is(m, {"if"}) => Len(m.kids) \in {2, 3}
    <3>1. CASE m = u
      <4>1. Is(u, {"return"}) => ToSet(u.kids) = {e}
        BY <1>1, <1>2, <1>3, <1>8 DEF Is
      <4>2. Is(u, {"="}) => u.kids[1] = s.kids[1] /\ u.kids[2] = e /\ Is(s, {"="})
        BY <1>1, <1>2, <1>3 DEF Is
      <4>3. ~Is(u, {"if"})
        BY <1>1, <1>2, <1>8 DEF Is
      <4> QED
        BY <1>7, <1>9, <3>1, <4>1, <4>2, <4>3
    <3>2. CASE m # u
      <4>1. PICK k \in ToSet(u.kids) : m \in Contained(k)
        BY <1>6, <3>2, ContainedBelow
      <4> QED
        BY <1>5, <4>1 DEF Executes
    <3> QED
      BY <3>1, <3>2
  <2> QED
    BY <1>6, <2>1 DEF Executes
<1>11. CASE Is(s, {"return"})
  <2>1. Is(u, {"return"}) /\ ToSet(u.kids) = {e}
    BY <1>1, <1>2, <1>3, <1>8, <1>11 DEF Is
  <2>2. Executed(u, env) = Returned({Value(x, env) : x \in ToSet(u.kids)}, env)
    BY <1>10, <2>1, ExecutedOf
  <2>3. {Value(x, env) : x \in {e}} = {Value(e, env)}
    OBVIOUS
  <2> QED
    BY <1>11, <2>1, <2>2, <2>3 DEF u
<1>12. CASE Is(s, {"="})
  <2>1. Is(u, {"="}) /\ u.kids[1] = s.kids[1] /\ u.kids[2] = e /\ ~Is(s, {"return"})
    BY <1>1, <1>2, <1>3, <1>12 DEF Is
  <2>2. Executed(u, env) = Through([env EXCEPT ![u.kids[1].k] = Value(u.kids[2], env)])
    BY <1>10, <2>1, ExecutedOf
  <2> QED
    BY <1>12, <2>1, <2>2 DEF u
<1>13. CASE ~Is(s, {"return", "="})
  <2>1. ~Is(u, {"return", "=", "compound", "if"}) /\ ~Is(s, {"return"}) /\ ~Is(s, {"="})
    BY <1>1, <1>2, <1>8, <1>13 DEF Is
  <2>2. Executed(u, env) = Through(env)
    BY <1>10, <2>1, ExecutedOf
  <2> QED
    BY <2>1, <2>2 DEF u
<1> QED
  BY <1>11, <1>12, <1>13 DEF Is
-----------------------------------------------------------------------------
(***************************************************************************)
(* What the rules about conditions have reported.                          *)
(***************************************************************************)
LEMMA ConditionReported ==
    ASSUME InFlight, ConditionsMade, NEW rule \in ConditionRuleNames, Have(rule)
    PROVE  /\ IsOverNumbers(tree)
           /\ \A p : p \in At_(rule) <=>
                \E r \in Positions(tree) : \E q \in ConditionFindingsAt(rule, At(tree, r)) : p = r \o q
<1>1. HasFlown(rule) /\ \E flight \in Flights : rule \in ToSet(flight.rules) /\ tree \in flight.trees
  BY HaveFlown
<1>2. IsOverNumbers(tree)
  BY <1>1, ConditionTreesAssumption
<1>3. At_(rule) = ConditionFindings(rule)
  BY <1>1 DEF ConditionsMade
<1>4. \A p : p \in ConditionFindings(rule) <=>
               \E r \in Positions(tree) : p \in {r \o q : q \in ConditionFindingsAt(rule, At(tree, r))}
  BY Zenon DEF ConditionFindings
<1> QED
  BY <1>2, <1>3, <1>4

HereRules == {"RedundantIf", "RedundantConditional", "DoubleNegative", "MultipleUnary", "BrokenOddness"}

LEMMA ConditionReportedHere ==
    ASSUME InFlight, ConditionsMade, NEW rule \in HereRules, Have(rule)
    PROVE  /\ IsOverNumbers(tree)
           /\ \A p : p \in At_(rule) <=> p \in Positions(tree) /\ ConditionFindingsAt(rule, At(tree, p)) = Here
<1>1. rule \in ConditionRuleNames
  BY DEF HereRules, ConditionRuleNames
<1>2. /\ IsOverNumbers(tree)
      /\ \A p : p \in At_(rule) <=>
           \E r \in Positions(tree) : \E q \in ConditionFindingsAt(rule, At(tree, r)) : p = r \o q
  BY <1>1, ConditionReported
<1>3. \A n : ConditionFindingsAt(rule, n) \in {Here, Nowhere}
  BY DEF ConditionFindingsAt, HereRules, RedundantIf, RedundantConditional, DoubleNegative, MultipleUnary,
         BrokenOddness, ReportIf
<1>4. ASSUME NEW p \in Positions(tree) PROVE p \o <<>> = p
  <2>1. p \in Seq(Nat)
    BY <1>2, NumbersShape, PositionsAre
  <2> QED
    BY <2>1, ConcatEmptySeq
<1>5. <<>> \in Here /\ \A q \in Here : q = <<>>
  BY DEF Here
<1>6. \A q : q \notin Nowhere
  BY DEF Nowhere
<1> HIDE DEF Here, Nowhere
<1>7. ASSUME NEW p
      PROVE  p \in At_(rule) <=> p \in Positions(tree) /\ ConditionFindingsAt(rule, At(tree, p)) = Here
  <2>1. ASSUME p \in At_(rule)
        PROVE  p \in Positions(tree) /\ ConditionFindingsAt(rule, At(tree, p)) = Here
    <3>1. PICK r \in Positions(tree) : \E q \in ConditionFindingsAt(rule, At(tree, r)) : p = r \o q
      BY <1>2, <2>1
    <3>2. ConditionFindingsAt(rule, At(tree, r)) = Here
      BY <1>3, <1>6, <3>1
    <3>3. p = r \o <<>>
      BY <1>5, <3>1, <3>2
    <3> QED
      BY <1>4, <3>2, <3>3
  <2>2. ASSUME p \in Positions(tree), ConditionFindingsAt(rule, At(tree, p)) = Here
        PROVE  p \in At_(rule)
    BY <1>2, <1>4, <1>5, <2>2
  <2> QED
    BY <2>1, <2>2
<1> QED
  BY <1>2, <1>7

(* A report of RedundantIf, and of the others, is about a node of numbers. *)
LEMMA ConditionReportedAt ==
    ASSUME InFlight, ConditionsMade, NEW rule \in HereRules, Have(rule), NEW p \in At_(rule)
    PROVE  IsOverNumbers(At(tree, p)) /\ ConditionFindingsAt(rule, At(tree, p)) = Here
<1>1. IsOverNumbers(tree) /\ p \in Positions(tree) /\ ConditionFindingsAt(rule, At(tree, p)) = Here
  BY ConditionReportedHere
<1>2. At(tree, p) \in Contained(tree)
  BY <1>1, NumbersShape, PositionsAre
<1> QED
  BY <1>1, <1>2, OverNumbersBelow

LEMMA FrontOfAppended == ASSUME NEW r \in Seq(Nat) PROVE Front(Append(r, 1)) = r
BY DEF Front

LEMMA InvertedReported ==
    ASSUME InFlight, ConditionsMade, Have("InvertedLogic"), NEW p \in At_("InvertedLogic")
    PROVE  LET n == At(tree, Front(p))
           IN /\ IsOverNumbers(n) /\ IsInvertedLogic(n.kids[1])
              /\ (Is(n, {"if"}) /\ HasElse(n)) \/ Is(n, {"?:"})
<1>1. "InvertedLogic" \in ConditionRuleNames
  BY DEF ConditionRuleNames
<1>2. IsOverNumbers(tree)
  BY <1>1, ConditionReported
<1>3. PICK r \in Positions(tree) : \E q \in ConditionFindingsAt("InvertedLogic", At(tree, r)) : p = r \o q
  BY <1>1, ConditionReported
<1> DEFINE n == At(tree, r)
<1>4. PICK q \in InvertedLogic(n) : p = r \o q
  BY <1>3 DEF ConditionFindingsAt
<1>5. q = <<1>> /\ IsInvertedLogic(n.kids[1]) /\ ((Is(n, {"if"}) /\ HasElse(n)) \/ Is(n, {"?:"}))
  BY <1>4 DEF InvertedLogic, Nowhere
<1>6. r \in Seq(Nat) /\ n \in Contained(tree)
  BY <1>2, NumbersShape, PositionsAre
<1>7. IsOverNumbers(n)
  BY <1>2, <1>6, OverNumbersBelow
<1>8. Front(p) = r
  <2>1. p = Append(r, 1)
    BY <1>4, <1>5, <1>6
  <2> QED
    BY <1>6, <2>1, FrontOfAppended
<1> QED
  BY <1>5, <1>7, <1>8
-----------------------------------------------------------------------------
(***************************************************************************)
(* Trees over numbers that are made up of others.                          *)
(***************************************************************************)
LEMMA KindsApart ==
    /\ \A k \in Literals : k \in Instructions /\ k \notin Numerals
    /\ \A k \in UnaryOperators : k \in Expressions \ (Names \cup Literals \cup BinaryOperators \cup {"return", "?:", "if", "compound", "%"})
    /\ \A k \in BinaryOperators : k \in Instructions \ (Names \cup Literals \cup UnaryOperators \cup {"paren", "return", "?:", "if", "compound"})
    /\ \A k \in {"?:", "if"} : k \in Instructions \ (Names \cup Literals \cup UnaryOperators \cup BinaryOperators \cup {"paren", "return", "%", "="})
    /\ \A k \in BinaryOperators \ {"="} : k \in Expressions
    /\ "%" \in BinaryOperators /\ "=" \in BinaryOperators
<1>1. \A k \in Numerals : k \notin Names /\ k \notin Literals
  BY NumbersApart
<1> QED
  BY <1>1, NumbersApart DEF Expressions, Instructions, Numerals, UnaryOperators, BinaryOperators

LEMMA MayHoldIs ==
    ASSUME NEW m, NEW i
    PROVE  /\ Is(m, Expressions) => MayHold(m, i) = Expressions
           /\ Is(m, {"if"}) => MayHold(m, i) = IF i = 1 THEN Expressions ELSE Instructions
<1>1. \A k \in {"if", "=", "compound"} : k \notin Expressions
  BY NumbersApart DEF Expressions, Literals, CXXBools, ObjCBools, CastIntegers, Integers_, Floats, Characters, Strings,
                      UnaryOperators, BinaryOperators, Numerals
<1> HIDE DEF Expressions, Instructions
<1> QED
  BY <1>1 DEF MayHold, Is

LEMMA LiteralsAreOverNumbers ==
    ASSUME NEW lit \in Literals
    PROVE  IsOverNumbers(Leaf(lit)) /\ Leaf(lit).k = lit
<1> DEFINE n == Leaf(lit)
<1>1. n = Node(n.k, n.kids) /\ n.kids = <<>> /\ n.k = lit /\ n.kids \in Seq(ToSet(n.kids)) /\ DOMAIN n.kids = {}
  BY DEF Leaf, Node
<1>2. lit \notin Numerals
  BY NumbersApart
<1> HIDE DEF n
<1>3. HasItsParts(n)
  BY <1>1, <1>2 DEF HasItsParts, Is, Numerals, BinaryOperators
<1>4. IsOverNumbers(n)
  BY <1>1, <1>3, OverNumbersAbove
<1> QED
  BY <1>1, <1>4 DEF n

LEMMA UnaryIsOverNumbers ==
    ASSUME NEW c, IsOverNumbers(c), Is(c, Expressions), NEW k \in UnaryOperators
    PROVE  /\ IsOverNumbers(Unary(k, c)) /\ Is(Unary(k, c), Expressions)
           /\ Unary(k, c).k = k /\ Unary(k, c).kids[1] = c
<1> DEFINE n == Unary(k, c)
<1>1. /\ n = Node(n.k, n.kids) /\ n.k = k /\ Len(n.kids) = 1 /\ DOMAIN n.kids = {1} /\ n.kids[1] = c
      /\ n.kids \in Seq(ToSet(n.kids))
  BY DEF Unary, Node, ToSet
<1>2. k \in Expressions \ (Names \cup Literals \cup BinaryOperators \cup {"return", "?:", "if", "compound", "%"})
  BY KindsApart
<1> HIDE DEF n
<1>3. MayHold(n, 1) = Expressions
  BY <1>1, <1>2, MayHoldIs DEF Is
<1>4. HasItsParts(n)
  BY <1>1, <1>2, <1>3 DEF HasItsParts, Is
<1>5. IsOverNumbers(n)
  BY <1>1, <1>4, OverNumbersAbove
<1> QED
  BY <1>1, <1>2, <1>5 DEF n, Is

LEMMA BinaryIsOverNumbers ==
    ASSUME NEW c, IsOverNumbers(c), Is(c, Expressions), NEW d, IsOverNumbers(d), Is(d, Expressions),
           NEW k \in BinaryOperators \ {"="}, k = "%" => Is(d, Literals) /\ LiteralValue[d.k] # 0
    PROVE  /\ IsOverNumbers(Binary(k, c, d)) /\ Is(Binary(k, c, d), Expressions)
           /\ Binary(k, c, d).k = k /\ Binary(k, c, d).kids[1] = c /\ Binary(k, c, d).kids[2] = d
<1> DEFINE n == Binary(k, c, d)
<1>1. /\ n = Node(n.k, n.kids) /\ n.k = k /\ Len(n.kids) = 2 /\ DOMAIN n.kids = {1, 2}
      /\ n.kids[1] = c /\ n.kids[2] = d /\ n.kids \in Seq(ToSet(n.kids))
  BY DEF Binary, Node, ToSet
<1>2. /\ k \in Expressions
      /\ k \in Instructions \ (Names \cup Literals \cup UnaryOperators \cup {"paren", "return", "?:", "if", "compound"})
  BY KindsApart
<1> HIDE DEF n
<1>3. \A i : MayHold(n, i) = Expressions
  BY <1>1, <1>2, MayHoldIs DEF Is
<1>4. HasItsParts(n)
  BY <1>1, <1>2, <1>3 DEF HasItsParts, Is
<1>5. IsOverNumbers(n)
  BY <1>1, <1>4, OverNumbersAbove
<1> QED
  BY <1>1, <1>2, <1>5 DEF n, Is

LEMMA ThreeAreOverNumbers ==
    ASSUME NEW k \in {"?:", "if"}, NEW c, IsOverNumbers(c), Is(c, Expressions),
           NEW d, IsOverNumbers(d), NEW e, IsOverNumbers(e),
           Is(d, IF k = "if" THEN Instructions ELSE Expressions), Is(e, IF k = "if" THEN Instructions ELSE Expressions)
    PROVE  LET n == Node(k, <<c, d, e>>)
           IN /\ IsOverNumbers(n) /\ n.k = k /\ HasElse(n)
              /\ n.kids[1] = c /\ n.kids[2] = d /\ n.kids[3] = e
<1> DEFINE n == Node(k, <<c, d, e>>)
<1>1. /\ n = Node(n.k, n.kids) /\ n.k = k /\ Len(n.kids) = 3 /\ DOMAIN n.kids = {1, 2, 3}
      /\ n.kids[1] = c /\ n.kids[2] = d /\ n.kids[3] = e /\ n.kids \in Seq(ToSet(n.kids))
  BY DEF Node, ToSet
<1>2. k \in Instructions \ (Names \cup Literals \cup UnaryOperators \cup BinaryOperators \cup {"paren", "return", "%", "="})
  BY KindsApart
<1>3. "?:" \in Expressions
  BY DEF Expressions
<1> HIDE DEF n
<1>4. \A i : MayHold(n, i) = IF i = 1 \/ k = "?:" THEN Expressions ELSE Instructions
  BY <1>1, <1>3, MayHoldIs DEF Is
<1>5. HasItsParts(n)
  <2>1. \A i \in {1, 2, 3} : Is(n.kids[i], MayHold(n, i))
    BY <1>1, <1>4
  <2> QED
    BY <1>1, <1>2, <2>1 DEF HasItsParts, Is
<1>6. IsOverNumbers(n)
  BY <1>1, <1>5, OverNumbersAbove
<1> QED
  BY <1>1, <1>6 DEF n, HasElse
LEMMA NegationsAre ==
    ASSUME NEW c, IsOverNumbers(c), Is(c, Expressions)
    PROVE  LET no == Unary("not", c)
               yes == Unary("not", Unary("not", c))
           IN /\ IsOverNumbers(no) /\ IsOverNumbers(yes) /\ no \in Truths(c) /\ yes \in Truths(c)
              /\ \A env \in Valuations : /\ Value(no, env) = Num(Value(c, env) = 0)
                                         /\ Value(yes, env) = Num(Value(c, env) # 0)
<1> DEFINE no == Unary("not", c)
           yes == Unary("not", no)
<1>1. "not" \in UnaryOperators
  BY DEF UnaryOperators
<1>2. IsOverNumbers(no) /\ Is(no, Expressions) /\ no.k = "not" /\ no.kids[1] = c
  BY <1>1, UnaryIsOverNumbers
<1>3. no \in Truths(c) /\ yes \in Truths(c)
  BY DEF Truths
<1> HIDE DEF no
<1>4. IsOverNumbers(yes) /\ yes.k = "not" /\ yes.kids[1] = no
  BY <1>1, <1>2, UnaryIsOverNumbers
<1> HIDE DEF yes
<1>5. ASSUME NEW env \in Valuations
      PROVE  Value(no, env) = Num(Value(c, env) = 0) /\ Value(yes, env) = Num(Value(c, env) # 0)
  <2>1. Value(no, env) = Num(Value(c, env) = 0)
    BY <1>2, ValueOf DEF Is
  <2>2. Value(yes, env) = Num(Value(no, env) = 0)
    BY <1>4, ValueOf DEF Is
  <2> QED
    BY <2>1, <2>2 DEF Num
<1> QED
  BY <1>2, <1>3, <1>4, <1>5 DEF no, yes

-----------------------------------------------------------------------------
(***************************************************************************)
(* Ifs and ?: that only turn a condition into a value.                     *)
(***************************************************************************)
LEMMA TruthsDiffer ==
    ASSUME NEW a, NEW b, NotEquals(a, b), a.k # "(char)2", b.k # "(char)2"
    PROVE  /\ Is(a, Literals) /\ Is(b, Literals)
           /\ \/ LiteralValue[a.k] = 1 /\ LiteralValue[b.k] = 0
              \/ LiteralValue[a.k] = 0 /\ LiteralValue[b.k] = 1
<1>1. PICK kind \in {CXXBools, ObjCBools, CastIntegers} : Both(a, b, kind) /\ ~SameTruth(a, b)
  BY DEF NotEquals
<1>2. a.k \in (CXXBools \cup ObjCBools \cup CastIntegers) \ {"(char)2"}
  BY <1>1 DEF Both, Is
<1>3. b.k \in (CXXBools \cup ObjCBools \cup CastIntegers) \ {"(char)2"}
  BY <1>1 DEF Both, Is
<1>4. /\ a.k \in Literals /\ LiteralValue[a.k] \in {0, 1}
      /\ b.k \in Literals /\ LiteralValue[b.k] \in {0, 1}
  BY <1>2, <1>3, LiteralValues
<1> QED
  BY <1>1, <1>4 DEF SameTruth, Is

LEMMA ConstantsAgree ==
    ASSUME NEW a, NEW b, SameConstant(a, b), a.k # "(char)2", b.k # "(char)2"
    PROVE  Is(a, Literals) /\ Is(b, Literals) /\ LiteralValue[a.k] = LiteralValue[b.k]
<1>1. CASE \E kind \in {CXXBools, ObjCBools, CastIntegers} : Both(a, b, kind) /\ SameTruth(a, b)
  <2>1. PICK kind \in {CXXBools, ObjCBools, CastIntegers} : Both(a, b, kind) /\ SameTruth(a, b)
    BY <1>1
  <2>2. a.k \in (CXXBools \cup ObjCBools \cup CastIntegers) \ {"(char)2"}
    BY <2>1 DEF Both, Is
  <2>3. b.k \in (CXXBools \cup ObjCBools \cup CastIntegers) \ {"(char)2"}
    BY <2>1 DEF Both, Is
  <2>4. /\ a.k \in Literals /\ LiteralValue[a.k] \in {0, 1}
        /\ b.k \in Literals /\ LiteralValue[b.k] \in {0, 1}
    BY <2>2, <2>3, LiteralValues
  <2> QED
    BY <2>1, <2>4 DEF SameTruth, Is
<1>2. CASE \E kind \in {Integers_, Floats, Characters, Strings} : Both(a, b, kind) /\ SameValue(a, b)
  <2>1. \A kind \in {Integers_, Floats, Characters, Strings} : kind \subseteq Literals
    BY Zenon DEF Literals
  <2> QED
    BY <1>2, <2>1 DEF Both, Is, SameValue
<1> QED
  BY <1>1, <1>2 DEF SameConstant

LEMMA ThreeExpressions ==
    ASSUME NEW n, IsOverNumbers(n), Is(n, {"?:"}) \/ (Is(n, {"if"}) /\ HasElse(n))
    PROVE  /\ Len(n.kids) = 3 /\ HasElse(n)
           /\ \A i \in {1, 2, 3} : IsOverNumbers(n.kids[i]) /\ n.kids[i] \in Contained(n) /\ Contained(n.kids[i]) \subseteq Contained(n)
           /\ Is(n.kids[1], Expressions)
           /\ \A i \in {2, 3} : Is(n.kids[i], IF n.k = "if" THEN Instructions ELSE Expressions)
<1>1. Len(n.kids) = 3
  BY NumbersShape DEF HasElse
<1>2. "?:" \in Expressions \cup {"return"}
  BY DEF Expressions
<1>3. \A i \in {1, 2, 3} : i \in 1..Len(n.kids)
  BY <1>1
<1>4. \A i \in {1, 2, 3} :
        /\ IsOverNumbers(n.kids[i]) /\ n.kids[i] \in Contained(n) /\ Contained(n.kids[i]) \subseteq Contained(n)
        /\ Is(n, Expressions \cup {"return"}) => Is(n.kids[i], Expressions)
        /\ Is(n, {"if"}) => Is(n.kids[i], IF i = 1 THEN Expressions ELSE Instructions)
  BY <1>3, NumbersShape
<1>5. n.k \in {"?:", "if"}
  BY DEF Is
<1>6. CASE n.k = "?:"
  <2>1. \A i \in {1, 2, 3} : Is(n.kids[i], Expressions)
    BY <1>2, <1>4, <1>6 DEF Is
  <2> QED
    BY <1>1, <1>4, <1>6, <2>1 DEF HasElse
<1>7. CASE n.k = "if"
  <2>1. \A i \in {1, 2, 3} : Is(n.kids[i], IF i = 1 THEN Expressions ELSE Instructions)
    BY <1>4, <1>7 DEF Is
  <2> QED
    BY <1>1, <1>4, <1>7, <2>1 DEF HasElse
<1> QED
  BY <1>5, <1>6, <1>7
LEMMA RedundantConditionalsAre == InFlight /\ ConditionsMade => RedundantConditionalsAreSimpler
<1> SUFFICES ASSUME InFlight, ConditionsMade, Have("RedundantConditional"), NEW p \in At_("RedundantConditional"),
                    ~Holds(At(tree, p), {"(char)2"})
             PROVE  \E e \in Truths(At(tree, p).kids[1]) \cup {At(tree, p).kids[2]} : SameValueAs(At(tree, p), e)
  BY DEF RedundantConditionalsAreSimpler
<1> DEFINE n == At(tree, p)
           c == n.kids[1]
           a == n.kids[2]
           b == n.kids[3]
<1>1. IsOverNumbers(n) /\ ConditionFindingsAt("RedundantConditional", n) = Here
  BY ConditionReportedAt DEF HereRules
<1>2. Here # Nowhere
  BY DEF Here, Nowhere
<1>3. Is(n, {"?:"}) /\ (NotEquals(a, b) \/ SameConstant(a, b) \/ SameVariable(a, b))
  <2>1. RedundantConditional(n) = Here
    BY <1>1 DEF ConditionFindingsAt
  <2> QED
    BY <1>2, <2>1 DEF RedundantConditional, ReportIf
<1> HIDE DEF n
<1>4. /\ IsOverNumbers(c) /\ IsOverNumbers(a) /\ IsOverNumbers(b) /\ Is(c, Expressions)
      /\ a \in Contained(n) /\ b \in Contained(n)
  BY <1>1, <1>3, ThreeExpressions
<1>5. a.k # "(char)2" /\ b.k # "(char)2"
  BY <1>4 DEF Holds, Is, n
<1>6. Environments \subseteq Valuations
  BY ConditionAssumption
<1>7. \A env \in Environments : Value(n, env) = IF Value(c, env) # 0 THEN Value(a, env) ELSE Value(b, env)
  BY <1>1, <1>3, <1>6, ValueOf
<1> DEFINE no == Unary("not", c)
           yes == Unary("not", Unary("not", c))
<1>8. /\ no \in Truths(c) /\ yes \in Truths(c)
      /\ \A env \in Environments : /\ Value(no, env) = Num(Value(c, env) = 0)
                                   /\ Value(yes, env) = Num(Value(c, env) # 0)
  BY <1>4, <1>6, NegationsAre
<1> HIDE DEF c, a, b, no, yes
<1>9. CASE NotEquals(a, b)
  <2>1. /\ Is(a, Literals) /\ Is(b, Literals)
        /\ \/ LiteralValue[a.k] = 1 /\ LiteralValue[b.k] = 0
           \/ LiteralValue[a.k] = 0 /\ LiteralValue[b.k] = 1
    BY <1>5, <1>9, TruthsDiffer
  <2>2. \A env \in Environments : Value(a, env) = LiteralValue[a.k] /\ Value(b, env) = LiteralValue[b.k]
    BY <1>4, <1>6, <2>1, ValueOf
  <2>3. CASE LiteralValue[a.k] = 1 /\ LiteralValue[b.k] = 0
    <3>1. \A env \in Environments : Value(n, env) = Value(yes, env)
      BY <1>7, <1>8, <2>2, <2>3 DEF Num
    <3> QED
      BY <1>8, <3>1 DEF SameValueAs, c, n
  <2>4. CASE LiteralValue[a.k] = 0 /\ LiteralValue[b.k] = 1
    <3>1. \A env \in Environments : Value(n, env) = Value(no, env)
      BY <1>7, <1>8, <2>2, <2>4 DEF Num
    <3> QED
      BY <1>8, <3>1 DEF SameValueAs, c, n
  <2> QED
    BY <2>1, <2>3, <2>4
<1>10. CASE SameConstant(a, b) \/ SameVariable(a, b)
  <2>1. \A env \in Environments : Value(a, env) = Value(b, env)
    <3>1. CASE SameConstant(a, b)
      <4>1. Is(a, Literals) /\ Is(b, Literals) /\ LiteralValue[a.k] = LiteralValue[b.k]
        BY <1>5, <3>1, ConstantsAgree
      <4> QED
        BY <1>4, <1>6, <4>1, ValueOf
    <3>2. CASE SameVariable(a, b)
      BY <3>2 DEF SameVariable
    <3> QED
      BY <1>10, <3>1, <3>2
  <2>2. \A env \in Environments : Value(n, env) = Value(a, env)
    BY <1>7, <2>1
  <2> QED
    BY <2>2 DEF SameValueAs, a, n
<1> QED
  BY <1>3, <1>9, <1>10 DEF a, b

LEMMA SameInstead ==
    ASSUME NEW s, IsOverNumbers(s), EndsInValue(s), NEW e, IsOverNumbers(e), NEW f, IsOverNumbers(f),
           NEW env \in Valuations, Value(e, env) = Value(f, env)
    PROVE  Executed(Instead(s, e), env) = Executed(Instead(s, f), env)
<1>1. \A x : x = e \/ x = f =>
        Executed(Instead(s, x), env) =
          IF Is(s, {"return"}) THEN Returned({Value(e, env)}, env)
          ELSE IF Is(s, {"="}) THEN Through([env EXCEPT ![s.kids[1].k] = Value(e, env)])
          ELSE Through(env)
  BY ExecutedInstead
<1> QED
  BY <1>1

LEMMA RedundantIfFound ==
    ASSUME NEW n, IsOverNumbers(n), RedundantIf(n) = Here
    PROVE  LET s == Unwrapped(n.kids[2])
               t == Unwrapped(n.kids[3])
           IN /\ Is(n, {"if"}) /\ HasElse(n)
              /\ IsOverNumbers(s) /\ s \in Contained(n) /\ EndsInValue(s)
              /\ IsOverNumbers(t) /\ t \in Contained(n) /\ EndsInValue(t)
              /\ NotEquals(Last(s.kids), Last(t.kids))
<1> DEFINE s == Unwrapped(n.kids[2])
           t == Unwrapped(n.kids[3])
<1>1. Here # Nowhere
  BY DEF Here, Nowhere
<1>2. /\ Is(n, {"if"}) /\ HasElse(n)
      /\ \/ /\ Is(s, {"return"}) /\ Is(t, {"return"})
            /\ \E e \in ToSet(s.kids), f \in ToSet(t.kids) : NotEquals(e, f)
         \/ /\ Is(s, BinaryOperators) /\ Is(t, BinaryOperators)
            /\ NotEquals(s.kids[2], t.kids[2])
  BY <1>1 DEF RedundantIf, ReportIf, ExtractStmt
<1>3. /\ IsOverNumbers(n.kids[2]) /\ Contained(n.kids[2]) \subseteq Contained(n)
      /\ IsOverNumbers(n.kids[3]) /\ Contained(n.kids[3]) \subseteq Contained(n)
  BY <1>2, ThreeExpressions
<1>4. s \in Contained(n.kids[2]) /\ t \in Contained(n.kids[3])
  BY <1>3, UnwrappedIs
<1>5. IsOverNumbers(s) /\ s \in Contained(n) /\ IsOverNumbers(t) /\ t \in Contained(n)
  BY <1>3, <1>4, OverNumbersBelow
<1> HIDE DEF s, t
<1>6. Last(s.kids) = s.kids[Len(s.kids)] /\ Last(t.kids) = t.kids[Len(t.kids)]
  BY DEF Last
<1>7. ASSUME NEW u, IsOverNumbers(u), Is(u, {"return"}), ToSet(u.kids) # {}
      PROVE  EndsInValue(u) /\ ToSet(u.kids) = {u.kids[Len(u.kids)]}
  <2>1. Len(u.kids) \in {0, 1} /\ DOMAIN u.kids = 1..Len(u.kids)
    BY <1>7, NumbersShape
  <2>2. Len(u.kids) # 0
    BY <1>7, <2>1 DEF ToSet
  <2> QED
    BY <1>7, <2>1, <2>2 DEF EndsInValue, ToSet
<1>8. CASE /\ Is(s, {"return"}) /\ Is(t, {"return"})
           /\ \E e \in ToSet(s.kids), f \in ToSet(t.kids) : NotEquals(e, f)
  <2>1. EndsInValue(s) /\ ToSet(s.kids) = {s.kids[Len(s.kids)]}
    BY <1>5, <1>7, <1>8
  <2>2. EndsInValue(t) /\ ToSet(t.kids) = {t.kids[Len(t.kids)]}
    BY <1>5, <1>7, <1>8
  <2> QED
    BY <1>2, <1>5, <1>6, <1>8, <2>1, <2>2 DEF s, t
<1>9. CASE /\ Is(s, BinaryOperators) /\ Is(t, BinaryOperators)
           /\ NotEquals(s.kids[2], t.kids[2])
  <2>1. Len(s.kids) = 2 /\ Len(t.kids) = 2
    BY <1>5, <1>9, NumbersShape
  <2> QED
    BY <1>2, <1>5, <1>6, <1>9, <2>1 DEF EndsInValue, s, t
<1> QED
  BY <1>2, <1>8, <1>9
LEMMA LastIsContained ==
    ASSUME NEW s, IsOverNumbers(s), EndsInValue(s)
    PROVE  Last(s.kids) \in Contained(s) /\ IsOverNumbers(Last(s.kids))
<1>1. Len(s.kids) \in {1, 2}
  BY InsteadIs
<1>2. Last(s.kids) = s.kids[Len(s.kids)] /\ Len(s.kids) \in 1..Len(s.kids)
  BY <1>1 DEF Last
<1> QED
  BY <1>2, NumbersShape

LEMMA RedundantIfsAre == InFlight /\ ConditionsMade => RedundantIfsAreOneStatement
<1> SUFFICES ASSUME InFlight, ConditionsMade, Have("RedundantIf"), NEW p \in At_("RedundantIf"),
                    Unwrapped(At(tree, p).kids[3]) =
                        Instead(Unwrapped(At(tree, p).kids[2]), Last(Unwrapped(At(tree, p).kids[3]).kids)),
                    ~Holds(At(tree, p), {"(char)2"})
             PROVE  \E e \in Truths(At(tree, p).kids[1]) :
                        SameEffectAs(At(tree, p), Instead(Unwrapped(At(tree, p).kids[2]), e))
  BY DEF RedundantIfsAreOneStatement
<1> DEFINE n == At(tree, p)
           c == n.kids[1]
           s == Unwrapped(n.kids[2])
           t == Unwrapped(n.kids[3])
           a == Last(s.kids)
           b == Last(t.kids)
<1>1. IsOverNumbers(n) /\ RedundantIf(n) = Here
  BY ConditionReportedAt DEF HereRules, ConditionFindingsAt
<1> HIDE DEF n
<1>2. /\ Is(n, {"if"}) /\ HasElse(n)
      /\ IsOverNumbers(s) /\ s \in Contained(n) /\ EndsInValue(s)
      /\ IsOverNumbers(t) /\ t \in Contained(n) /\ EndsInValue(t)
      /\ NotEquals(a, b)
  BY <1>1, RedundantIfFound
<1>3. /\ IsOverNumbers(c) /\ Is(c, Expressions)
      /\ IsOverNumbers(n.kids[2]) /\ IsOverNumbers(n.kids[3])
  BY <1>1, <1>2, ThreeExpressions
<1>4. Environments \subseteq Valuations
  BY ConditionAssumption
<1> HIDE DEF c, s, t
<1>5. t = Instead(s, b) /\ s = Instead(s, a)
  <2>1. t = Instead(s, b)
    BY DEF s, t, n
  <2> QED
    BY <1>2, <2>1, InsteadIs
<1>6. /\ a \in Contained(s) /\ IsOverNumbers(a)
      /\ b \in Contained(t) /\ IsOverNumbers(b)
  BY <1>2, LastIsContained
<1>7. a \in Contained(n) /\ b \in Contained(n)
  BY <1>1, <1>2, <1>6, NumbersShape, Subtree
<1>8. a.k # "(char)2" /\ b.k # "(char)2"
  BY <1>7 DEF Holds, Is, n
<1> HIDE DEF a, b
<1>9. /\ Is(a, Literals) /\ Is(b, Literals)
      /\ \/ LiteralValue[a.k] = 1 /\ LiteralValue[b.k] = 0
         \/ LiteralValue[a.k] = 0 /\ LiteralValue[b.k] = 1
  BY <1>2, <1>8, TruthsDiffer
<1>10. \A env \in Environments : Value(a, env) = LiteralValue[a.k] /\ Value(b, env) = LiteralValue[b.k]
  BY <1>4, <1>6, <1>9, ValueOf
<1>11. ASSUME NEW env \in Environments
       PROVE  Executed(n, env) = IF Value(c, env) # 0 THEN Executed(s, env) ELSE Executed(t, env)
  <2>1. env \in Valuations /\ Executes(n)
    BY <1>1, <1>4, NumbersExecute
  <2>2. Executed(s, env) = Executed(n.kids[2], env) /\ Executed(t, env) = Executed(n.kids[3], env)
    BY <1>3, <2>1, BlocksDoNothing DEF s, t
  <2> QED
    BY <1>2, <2>1, <2>2, ExecutedOf DEF c
<1> DEFINE no == Unary("not", c)
           yes == Unary("not", Unary("not", c))
<1>12. /\ no \in Truths(c) /\ yes \in Truths(c) /\ IsOverNumbers(no) /\ IsOverNumbers(yes)
       /\ \A env \in Environments : /\ Value(no, env) = Num(Value(c, env) = 0)
                                    /\ Value(yes, env) = Num(Value(c, env) # 0)
  BY <1>3, <1>4, NegationsAre
<1> HIDE DEF no, yes
<1>13. ASSUME NEW e, IsOverNumbers(e),
              \A env \in Environments : Value(e, env) = IF Value(c, env) # 0 THEN Value(a, env) ELSE Value(b, env)
       PROVE  SameEffectAs(n, Instead(s, e))
  <2>1. ASSUME NEW env \in Environments
        PROVE  Executed(n, env) = Executed(Instead(s, e), env)
    <3>1. env \in Valuations
      BY <1>4
    <3>2. CASE Value(c, env) # 0
      <4>1. Value(e, env) = Value(a, env)
        BY <1>13, <3>2
      <4>2. Executed(Instead(s, e), env) = Executed(Instead(s, a), env)
        BY <1>2, <1>6, <1>13, <3>1, <4>1, SameInstead
      <4> QED
        BY <1>5, <1>11, <3>2, <4>2
    <3>3. CASE Value(c, env) = 0
      <4>1. Value(e, env) = Value(b, env)
        BY <1>13, <3>3
      <4>2. Executed(Instead(s, e), env) = Executed(Instead(s, b), env)
        BY <1>2, <1>6, <1>13, <3>1, <4>1, SameInstead
      <4> QED
        BY <1>5, <1>11, <3>3, <4>2
    <3> QED
      BY <3>2, <3>3
  <2> QED
    BY <2>1 DEF SameEffectAs
<1>14. CASE LiteralValue[a.k] = 1 /\ LiteralValue[b.k] = 0
  <2>1. \A env \in Environments : Value(yes, env) = IF Value(c, env) # 0 THEN Value(a, env) ELSE Value(b, env)
    BY <1>10, <1>12, <1>14 DEF Num
  <2>2. SameEffectAs(n, Instead(s, yes))
    BY <1>12, <1>13, <2>1
  <2> QED
    BY <1>12, <2>2 DEF c, s, n
<1>15. CASE LiteralValue[a.k] = 0 /\ LiteralValue[b.k] = 1
  <2>1. \A env \in Environments : Value(no, env) = IF Value(c, env) # 0 THEN Value(a, env) ELSE Value(b, env)
    BY <1>10, <1>12, <1>15 DEF Num
  <2>2. SameEffectAs(n, Instead(s, no))
    BY <1>12, <1>13, <2>1
  <2> QED
    BY <1>12, <2>2 DEF c, s, n
<1> QED
  BY <1>9, <1>14, <1>15
-----------------------------------------------------------------------------
(***************************************************************************)
(* Negations.                                                              *)
(***************************************************************************)
LEMMA OppositeIs ==
    ASSUME NEW c, IsOverNumbers(c), IsInvertedLogic(c)
    PROVE  /\ IsOverNumbers(Opposite(c)) /\ Is(Opposite(c), Expressions)
           /\ \A env \in Valuations : Value(Opposite(c), env) = 0 <=> Value(c, env) # 0
<1>1. {"!=", "not"} \subseteq Expressions \cup {"return"} /\ "not" \in UnaryOperators \cup {"paren"}
  BY DEF Expressions, UnaryOperators, BinaryOperators
<1>2. CASE Is(c, {"!="})
  <2>1. "!=" \in BinaryOperators /\ "==" \in BinaryOperators \ {"="}
    BY DEF BinaryOperators
  <2>2. Len(c.kids) = 2
    BY <1>2, <2>1, NumbersShape DEF Is
  <2>3. /\ IsOverNumbers(c.kids[1]) /\ Is(c.kids[1], Expressions)
        /\ IsOverNumbers(c.kids[2]) /\ Is(c.kids[2], Expressions)
    BY <1>1, <1>2, <2>2, UpToThree, NumbersShape DEF Is
  <2> DEFINE o == Binary("==", c.kids[1], c.kids[2])
  <2>4. o = Opposite(c)
    BY <1>2 DEF Opposite
  <2>5. IsOverNumbers(o) /\ Is(o, Expressions) /\ o.k = "==" /\ o.kids[1] = c.kids[1] /\ o.kids[2] = c.kids[2]
    <3>1. \A d, e : /\ IsOverNumbers(d) /\ Is(d, Expressions)
                    /\ IsOverNumbers(e) /\ Is(e, Expressions)
                    => /\ IsOverNumbers(Binary("==", d, e)) /\ Is(Binary("==", d, e), Expressions)
                       /\ Binary("==", d, e).k = "=="
                       /\ Binary("==", d, e).kids[1] = d /\ Binary("==", d, e).kids[2] = e
      BY <2>1, BinaryIsOverNumbers
    <3> QED
      BY <2>3, <3>1
  <2> HIDE DEF o
  <2>6. ASSUME NEW env \in Valuations PROVE Value(o, env) = 0 <=> Value(c, env) # 0
    <3>1. Value(o, env) = Num(Value(c.kids[1], env) = Value(c.kids[2], env))
      BY <2>5, ValueOf DEF Is
    <3>2. Value(c, env) = Num(Value(c.kids[1], env) # Value(c.kids[2], env))
      BY <1>2, ValueOf
    <3> QED
      BY <3>1, <3>2 DEF Num
  <2> QED
    BY <2>4, <2>5, <2>6
<1>3. CASE Is(c, {"not"})
  <2>1. Len(c.kids) = 1
    BY <1>1, <1>3, NumbersShape DEF Is
  <2>2. IsOverNumbers(c.kids[1]) /\ Is(c.kids[1], Expressions)
    BY <1>1, <1>3, <2>1, UpToThree, NumbersShape DEF Is
  <2>3. Opposite(c) = c.kids[1]
    BY <1>3 DEF Opposite, Is
  <2>4. ASSUME NEW env \in Valuations PROVE Value(c.kids[1], env) = 0 <=> Value(c, env) # 0
    <3>1. Value(c, env) = Num(Value(c.kids[1], env) = 0)
      BY <1>3, ValueOf
    <3> QED
      BY <3>1 DEF Num
  <2> QED
    BY <2>2, <2>3, <2>4
<1> QED
  BY <1>2, <1>3 DEF IsInvertedLogic, Is

LEMMA InvertedLogicIs == InFlight /\ ConditionsMade => InvertedLogicCanBeSwapped
<1> SUFFICES ASSUME InFlight, ConditionsMade, Have("InvertedLogic"), NEW p \in At_("InvertedLogic")
             PROVE  LET n == At(tree, Front(p))
                    IN IF Is(n, {"if"}) THEN SameEffectAs(n, Swapped(n)) ELSE SameValueAs(n, Swapped(n))
  BY DEF InvertedLogicCanBeSwapped
<1> DEFINE n == At(tree, Front(p))
           c == n.kids[1]
           o == Opposite(c)
           m == Node(n.k, <<o, n.kids[3], n.kids[2]>>)
<1>1. /\ IsOverNumbers(n) /\ IsInvertedLogic(c)
      /\ (Is(n, {"if"}) /\ HasElse(n)) \/ Is(n, {"?:"})
  BY InvertedReported
<1> HIDE DEF n
<1>2. /\ HasElse(n)
      /\ \A i \in {1, 2, 3} : IsOverNumbers(n.kids[i])
      /\ \A i \in {2, 3} : Is(n.kids[i], IF n.k = "if" THEN Instructions ELSE Expressions)
  BY <1>1, ThreeExpressions
<1> HIDE DEF c
<1>3. /\ IsOverNumbers(o) /\ Is(o, Expressions)
      /\ \A env \in Valuations : Value(o, env) = 0 <=> Value(c, env) # 0
  <2>1. IsOverNumbers(c)
    BY <1>2 DEF c
  <2> QED
    BY <1>1, <2>1, OppositeIs
<1>4. Swapped(n) = m
  <2>1. n = Node(n.k, n.kids)
    BY <1>1, NumbersShape, NodesAre
  <2>2. \A k, a, b : [Node(k, a) EXCEPT !.kids = b] = Node(k, b)
    BY DEF Node
  <2>3. \A b : [n EXCEPT !.kids = b] = Node(n.k, b)
    BY <2>1, <2>2
  <2> QED
    BY <2>3 DEF Swapped, c
<1> HIDE DEF o
<1>5. n.k \in {"?:", "if"}
  BY <1>1 DEF Is
<1>6. /\ IsOverNumbers(m) /\ m.k = n.k /\ HasElse(m)
      /\ m.kids[1] = o /\ m.kids[2] = n.kids[3] /\ m.kids[3] = n.kids[2]
  BY <1>2, <1>3, <1>5, ThreeAreOverNumbers
<1> HIDE DEF m
<1>7. Environments \subseteq Valuations
  BY ConditionAssumption
<1>8. CASE Is(n, {"if"})
  <2>1. ASSUME NEW env \in Environments PROVE Executed(n, env) = Executed(m, env)
    <3>1. env \in Valuations /\ Executes(n) /\ Executes(m) /\ Is(m, {"if"})
      BY <1>1, <1>6, <1>7, <1>8, NumbersExecute DEF Is
    <3>2. Executed(n, env) = IF Value(c, env) # 0 THEN Executed(n.kids[2], env) ELSE Executed(n.kids[3], env)
      BY <1>2, <1>8, <3>1, ExecutedOf DEF c
    <3>3. Executed(m, env) = IF Value(o, env) # 0 THEN Executed(m.kids[2], env) ELSE Executed(m.kids[3], env)
      BY <1>6, <3>1, ExecutedOf
    <3> QED
      BY <1>3, <1>6, <3>1, <3>2, <3>3
  <2> QED
    BY <1>4, <1>8, <2>1 DEF SameEffectAs, n
<1>9. CASE ~Is(n, {"if"})
  <2>1. ASSUME NEW env \in Environments PROVE Value(n, env) = Value(m, env)
    <3>1. env \in Valuations /\ Is(n, {"?:"}) /\ Is(m, {"?:"})
      BY <1>1, <1>6, <1>7, <1>9 DEF Is
    <3>2. Value(n, env) = IF Value(c, env) # 0 THEN Value(n.kids[2], env) ELSE Value(n.kids[3], env)
      BY <1>1, <3>1, ValueOf DEF c
    <3>3. Value(m, env) = IF Value(o, env) # 0 THEN Value(m.kids[2], env) ELSE Value(m.kids[3], env)
      BY <1>6, <3>1, ValueOf
    <3> QED
      BY <1>3, <1>6, <3>1, <3>2, <3>3
  <2> QED
    BY <1>4, <1>9, <2>1 DEF SameValueAs, n
<1> QED
  BY <1>8, <1>9 DEF n

LEMMA NegatedTwice ==
    ASSUME NEW n, IsOverNumbers(n), DoubleNegative(n) = Here
    PROVE  \E operator \in {"not", "~"} :
             LET inner == IgnoreParens(n.kids[1])
             IN /\ Is(n, {operator}) /\ Is(inner, {operator})
                /\ IsOverNumbers(n.kids[1]) /\ IsOverNumbers(inner) /\ IsOverNumbers(inner.kids[1])
<1>1. Here # Nowhere
  BY DEF Here, Nowhere
<1>2. PICK operator \in {"not", "~"} : Is(n, {operator}) /\ Is(IgnoreParens(n.kids[1]), {operator})
  BY <1>1 DEF DoubleNegative, ReportIf
<1>3. operator \in UnaryOperators \cup {"paren"}
  BY DEF UnaryOperators
<1>4. ASSUME NEW m, IsOverNumbers(m), Is(m, {operator}) PROVE IsOverNumbers(m.kids[1])
  <2>1. Len(m.kids) = 1
    BY <1>3, <1>4, NumbersShape DEF Is
  <2> QED
    BY <1>4, <2>1, UpToThree, NumbersShape
<1>5. IsOverNumbers(n.kids[1])
  BY <1>2, <1>4
<1>6. IsOverNumbers(IgnoreParens(n.kids[1]))
  BY <1>5, IgnoreParensIs, OverNumbersBelow
<1> QED
  BY <1>2, <1>4, <1>5, <1>6

LEMMA DoubleNegativesAre == InFlight /\ ConditionsMade => DoubleNegativesHaveNoPoint
<1> SUFFICES ASSUME InFlight, ConditionsMade, Have("DoubleNegative"), NEW p \in At_("DoubleNegative")
             PROVE  LET n == At(tree, p)
                        positive == IgnoreParens(n.kids[1]).kids[1]
                    IN /\ \A env \in Environments : (Value(n, env) # 0) = (Value(positive, env) # 0)
                       /\ Is(n, {"~"}) => SameValueAs(n, positive)
  BY DEF DoubleNegativesHaveNoPoint
<1> DEFINE n == At(tree, p)
           inner == IgnoreParens(n.kids[1])
           positive == inner.kids[1]
<1>1. IsOverNumbers(n) /\ DoubleNegative(n) = Here
  BY ConditionReportedAt DEF HereRules, ConditionFindingsAt
<1> HIDE DEF n
<1>2. PICK operator \in {"not", "~"} :
        /\ Is(n, {operator}) /\ Is(inner, {operator})
        /\ IsOverNumbers(n.kids[1]) /\ IsOverNumbers(inner) /\ IsOverNumbers(positive)
  BY <1>1, NegatedTwice
<1>3. ASSUME NEW env \in Environments
      PROVE  /\ (Value(n, env) # 0) = (Value(positive, env) # 0)
             /\ Is(n, {"~"}) => Value(n, env) = Value(positive, env)
  <2>1. env \in Valuations
    BY ConditionAssumption
  <2>2. Value(inner, env) = Value(n.kids[1], env)
    BY <1>2, <2>1, ParensDoNothing
  <2> HIDE DEF inner
  <2>3. CASE operator = "not"
    <3>1. Value(n, env) = Num(Value(n.kids[1], env) = 0)
      BY <1>1, <1>2, <2>1, <2>3, ValueOf
    <3>2. Value(inner, env) = Num(Value(positive, env) = 0)
      BY <1>2, <2>1, <2>3, ValueOf
    <3>3. ~Is(n, {"~"})
      BY <1>2, <2>3 DEF Is
    <3> QED
      BY <2>2, <3>1, <3>2, <3>3 DEF Num
  <2>4. CASE operator = "~"
    <3>1. Value(n, env) = -Value(n.kids[1], env) - 1
      BY <1>1, <1>2, <2>1, <2>4, ValueOf
    <3>2. Value(inner, env) = -Value(positive, env) - 1
      BY <1>2, <2>1, <2>4, ValueOf
    <3>3. Value(positive, env) \in Int
      BY <1>2, <2>1, ValueIs
    <3> QED
      BY <2>2, <3>1, <3>2, <3>3
  <2> QED
    BY <2>3, <2>4
<1> QED
  BY <1>3 DEF SameValueAs, n

LEMMA DoubleNegativesAreMultiples == InFlight /\ ConditionsMade => DoubleNegativesAreMultiple
<1> SUFFICES ASSUME InFlight, ConditionsMade, Have("DoubleNegative"), Have("MultipleUnary"),
                    NEW p \in At_("DoubleNegative")
             PROVE  p \in At_("MultipleUnary")
  BY DEF DoubleNegativesAreMultiple
<1>1. p \in Positions(tree) /\ DoubleNegative(At(tree, p)) = Here
  BY ConditionReportedHere DEF HereRules, ConditionFindingsAt
<1>2. Here # Nowhere
  BY DEF Here, Nowhere
<1>3. {"not", "~"} \subseteq UnaryOperators
  BY DEF UnaryOperators
<1>4. MultipleUnary(At(tree, p)) = Here
  BY <1>1, <1>2, <1>3 DEF DoubleNegative, MultipleUnary, ReportIf, Is
<1> QED
  BY <1>1, <1>4, ConditionReportedHere DEF HereRules, ConditionFindingsAt
-----------------------------------------------------------------------------
(***************************************************************************)
(* Oddness.                                                                *)
(***************************************************************************)
LEMMA OddRemainders ==
    ASSUME NEW x \in Int
    PROVE  /\ x % 2 \in {0, 1}
           /\ Remainder(x, 2) = 1 <=> x % 2 = 1 /\ x > 0
           /\ Remainder(x, 2) # 0 <=> x % 2 = 1
BY DEF Remainder

LEMMA RemedyIs ==
    ASSUME NEW x, IsOverNumbers(x), Is(x, Expressions), NEW e \in Remedies(x), NEW env \in Valuations
    PROVE  (Value(e, env) # 0) = (Value(x, env) % 2 = 1)
<1> DEFINE one == Leaf("1")
           two == Leaf("2")
           zero == Leaf("0")
           equal == Binary("==", one, one)
           bit == Binary("&", x, equal)
           remainder == Binary("%", x, two)
           differs == Binary("!=", remainder, zero)
<1>1. {"==", "&", "%", "!="} \subseteq BinaryOperators \ {"="}
  BY DEF BinaryOperators
<1>2. {"0", "1", "2"} \subseteq Literals
  BY DEF Literals, Integers_
<1>3. \A k \in {"==", "&", "!="} : \A c, d :
        /\ IsOverNumbers(c) /\ Is(c, Expressions)
        /\ IsOverNumbers(d) /\ Is(d, Expressions)
        => /\ IsOverNumbers(Binary(k, c, d)) /\ Is(Binary(k, c, d), Expressions)
           /\ Binary(k, c, d).k = k /\ Binary(k, c, d).kids[1] = c /\ Binary(k, c, d).kids[2] = d
  <2>1. ASSUME NEW k \in {"==", "&", "!="}, NEW c, IsOverNumbers(c), Is(c, Expressions),
               NEW d, IsOverNumbers(d), Is(d, Expressions)
        PROVE  /\ IsOverNumbers(Binary(k, c, d)) /\ Is(Binary(k, c, d), Expressions)
               /\ Binary(k, c, d).k = k /\ Binary(k, c, d).kids[1] = c /\ Binary(k, c, d).kids[2] = d
    <3>1. k # "%" /\ k \in BinaryOperators \ {"="}
      BY <1>1
    <3> QED
      BY <2>1, <3>1, BinaryIsOverNumbers
  <2> QED
    BY <2>1
<1>4. \A c, d :
        /\ IsOverNumbers(c) /\ Is(c, Expressions)
        /\ IsOverNumbers(d) /\ Is(d, Expressions) /\ Is(d, Literals) /\ LiteralValue[d.k] # 0
        => /\ IsOverNumbers(Binary("%", c, d)) /\ Is(Binary("%", c, d), Expressions)
           /\ Binary("%", c, d).k = "%" /\ Binary("%", c, d).kids[1] = c /\ Binary("%", c, d).kids[2] = d
  BY <1>1, BinaryIsOverNumbers
<1>5. Literals \subseteq Expressions
  BY Zenon DEF Expressions
<1>6. \A lit \in {"0", "1", "2"} :
        /\ IsOverNumbers(Leaf(lit)) /\ Leaf(lit).k = lit /\ Is(Leaf(lit), Literals) /\ Is(Leaf(lit), Expressions)
        /\ Value(Leaf(lit), env) = LiteralValue[lit]
  <2>1. \A lit \in {"0", "1", "2"} :
          IsOverNumbers(Leaf(lit)) /\ Leaf(lit).k = lit /\ Is(Leaf(lit), Literals)
    BY <1>2, LiteralsAreOverNumbers DEF Is
  <2> QED
    BY <1>5, <2>1, ValueOf DEF Is
<1>7. LiteralValue["0"] = 0 /\ LiteralValue["1"] = 1 /\ LiteralValue["2"] = 2
  BY LiteralValues
<1>8. /\ IsOverNumbers(one) /\ Is(one, Expressions) /\ Value(one, env) = 1
      /\ IsOverNumbers(two) /\ Is(two, Expressions) /\ Value(two, env) = 2
      /\ IsOverNumbers(zero) /\ Is(zero, Expressions) /\ Value(zero, env) = 0
      /\ Is(two, Literals) /\ LiteralValue[two.k] # 0
  BY <1>6, <1>7
<1> HIDE DEF one, two, zero
<1>9. /\ IsOverNumbers(equal) /\ Is(equal, Expressions)
      /\ equal.k = "==" /\ equal.kids[1] = one /\ equal.kids[2] = one
  BY <1>3, <1>8
<1>10. /\ IsOverNumbers(remainder) /\ Is(remainder, Expressions)
       /\ remainder.k = "%" /\ remainder.kids[1] = x /\ remainder.kids[2] = two
  BY <1>4, <1>8
<1> HIDE DEF equal, remainder
<1>11. IsOverNumbers(bit) /\ bit.k = "&" /\ bit.kids[1] = x /\ bit.kids[2] = equal
  BY <1>3, <1>9
<1>12. IsOverNumbers(differs) /\ differs.k = "!=" /\ differs.kids[1] = remainder /\ differs.kids[2] = zero
  BY <1>3, <1>8, <1>10
<1> HIDE DEF bit, differs
<1>13. Value(x, env) \in Int
  BY ValueIs
<1>14. (Value(bit, env) # 0) = (Value(x, env) % 2 = 1)
  <2>1. Value(equal, env) = 1
    BY <1>8, <1>9, ValueOf DEF Is, Num
  <2>2. Value(bit, env) = Value(x, env) % 2
    BY <1>11, <2>1, ValueOf DEF Is
  <2> QED
    BY <1>13, <2>2, OddRemainders
<1>15. (Value(differs, env) # 0) = (Value(x, env) % 2 = 1)
  <2>1. Value(remainder, env) = Remainder(Value(x, env), 2)
    BY <1>8, <1>10, ValueOf DEF Is
  <2>2. Value(differs, env) = Num(Remainder(Value(x, env), 2) # 0)
    BY <1>8, <1>12, <2>1, ValueOf DEF Is
  <2> QED
    BY <1>13, <2>2, OddRemainders DEF Num
<1>16. e = bit \/ e = differs
  BY DEF Remedies, bit, differs, equal, remainder, one, two, zero
<1> QED
  BY <1>14, <1>15, <1>16

LEMMA BrokenOddnessFound ==
    ASSUME NEW n, IsOverNumbers(n), BrokenOddness(n) = Here, NEW env \in Valuations
    PROVE  /\ IsOverNumbers(Checked(n)) /\ Is(Checked(n), Expressions)
           /\ Value(n, env) = Num(Remainder(Value(Checked(n), env), 2) = 1)
<1>1. Here # Nowhere
  BY DEF Here, Nowhere
<1>2. /\ Is(n, {"=="})
      /\ IsRemainderEqualsOne(n.kids[1], n.kids[2]) \/ IsRemainderEqualsOne(n.kids[2], n.kids[1])
  BY <1>1 DEF BrokenOddness, ReportIf
<1>3. "==" \in BinaryOperators /\ "%" \in BinaryOperators /\ "%" \in Expressions \cup {"return"}
      /\ "1" \in Literals /\ "2" \in Literals
  BY DEF BinaryOperators, Expressions, Literals, Integers_
<1>4. Len(n.kids) = 2
  BY <1>2, <1>3, NumbersShape DEF Is
<1>5. IsOverNumbers(n.kids[1]) /\ IsOverNumbers(n.kids[2])
  BY <1>4, UpToThree, NumbersShape
<1>6. ASSUME NEW l, IsOverNumbers(l), NEW one, IsOverNumbers(one), IsRemainderEqualsOne(l, one)
      PROVE  /\ IsOverNumbers(l.kids[1]) /\ Is(l.kids[1], Expressions)
             /\ Value(l, env) = Remainder(Value(l.kids[1], env), 2)
             /\ Value(one, env) = 1
  <2>1. Is(one, {"1"}) /\ Is(l, {"%"}) /\ Is(l.kids[2], {"2"})
    BY <1>6 DEF IsRemainderEqualsOne
  <2>2. Len(l.kids) = 2
    BY <1>3, <1>6, <2>1, NumbersShape DEF Is
  <2>3. IsOverNumbers(l.kids[1]) /\ IsOverNumbers(l.kids[2]) /\ Is(l.kids[1], Expressions)
    BY <1>3, <1>6, <2>1, <2>2, UpToThree, NumbersShape DEF Is
  <2>4. one.k = "1" /\ l.kids[2].k = "2" /\ Is(one, Literals) /\ Is(l.kids[2], Literals)
    BY <1>3, <2>1 DEF Is
  <2>5. Value(one, env) = 1 /\ Value(l.kids[2], env) = 2
    BY <1>6, <2>3, <2>4, ValueOf, LiteralValues
  <2>6. Value(l, env) = Remainder(Value(l.kids[1], env), Value(l.kids[2], env))
    BY <1>6, <2>1, ValueOf
  <2> QED
    BY <2>3, <2>5, <2>6
<1>7. Value(n, env) = Num(Value(n.kids[1], env) = Value(n.kids[2], env))
  BY <1>2, ValueOf
<1>8. CASE IsRemainderEqualsOne(n.kids[1], n.kids[2])
  <2>1. Checked(n) = n.kids[1].kids[1]
    BY <1>8 DEF Checked, IsRemainderEqualsOne
  <2> QED
    BY <1>5, <1>6, <1>7, <1>8, <2>1
<1>9. CASE IsRemainderEqualsOne(n.kids[2], n.kids[1])
  <2>1. Checked(n) = n.kids[2].kids[1]
    BY <1>9 DEF Checked, IsRemainderEqualsOne, Is
  <2>2. /\ IsOverNumbers(Checked(n)) /\ Is(Checked(n), Expressions)
        /\ Value(n.kids[2], env) = Remainder(Value(Checked(n), env), 2)
        /\ Value(n.kids[1], env) = 1
    BY <1>5, <1>6, <1>9, <2>1
  <2>3. \A r : Num(1 = r) = Num(r = 1)
    BY DEF Num
  <2> QED
    BY <1>7, <2>2, <2>3
<1> QED
  BY <1>2, <1>8, <1>9

LEMMA OddnessChecksAre == InFlight /\ ConditionsMade => OddnessIsBrokenForNegatives
<1> SUFFICES ASSUME InFlight, ConditionsMade, Have("BrokenOddness"), NEW p \in At_("BrokenOddness"),
                    NEW env \in Environments
             PROVE  LET n == At(tree, p)
                        x == Value(Checked(n), env)
                    IN /\ (Value(n, env) # 0) = (x % 2 = 1 /\ x > 0)
                       /\ \A e \in Remedies(Checked(n)) : (Value(e, env) # 0) = (x % 2 = 1)
  BY DEF OddnessIsBrokenForNegatives
<1> DEFINE n == At(tree, p)
           x == Value(Checked(n), env)
<1>1. IsOverNumbers(n) /\ BrokenOddness(n) = Here
  BY ConditionReportedAt DEF HereRules, ConditionFindingsAt
<1>2. env \in Valuations
  BY ConditionAssumption
<1> HIDE DEF n
<1>3. /\ IsOverNumbers(Checked(n)) /\ Is(Checked(n), Expressions)
      /\ Value(n, env) = Num(Remainder(x, 2) = 1)
  BY <1>1, <1>2, BrokenOddnessFound
<1>4. x \in Int
  BY <1>2, <1>3, ValueIs
<1>5. \A e \in Remedies(Checked(n)) : (Value(e, env) # 0) = (x % 2 = 1)
  BY <1>2, <1>3, RemedyIs
<1> HIDE DEF x
<1>6. (Value(n, env) # 0) = (x % 2 = 1 /\ x > 0)
  BY <1>3, <1>4, OddRemainders DEF Num
<1> QED
  BY <1>5, <1>6 DEF n, x

-----------------------------------------------------------------------------
(* What RedundantIfStatementRule, RedundantConditionalOperatorRule,        *)
(* InvertedLogicRule, DoubleNegativeRule and BrokenOddnessCheckRule advise *)
(* instead of what they report does the same, whatever the tree, and the   *)
(* oddness check they call broken is: the comments of ConditionRules say   *)
(* it rule by rule.                                                        *)
THEOREM ConditionReportsAreRight == ConditionSpec => []ConditionReportsHold
<1>1. InFlight /\ ConditionsMade => ConditionReportsHold
  BY RedundantIfsAre, RedundantConditionalsAre, InvertedLogicIs, DoubleNegativesAre, DoubleNegativesAreMultiples,
     OddnessChecksAre DEF ConditionReportsHold
<1> QED
  BY <1>1, ConditionFlightInvariance, PTL
-----------------------------------------------------------------------------
(***************************************************************************)
(* The positions of a tree in visiting order.  A position is a path of steps *)
(* down; what precedes it in the order follows from its last step.         *)
(***************************************************************************)
Paths == Seq(Nat)
Under(i, q) == <<i>> \o q

LEMMA AppendedUnder ==
    \A i \in Nat : \A s \in Paths : \A last \in Nat : Under(i, Append(s, last)) = Append(Under(i, s), last)
<1> SUFFICES ASSUME NEW i \in Nat, NEW s \in Paths, NEW last \in Nat
             PROVE  Under(i, Append(s, last)) = Append(Under(i, s), last)
  OBVIOUS
<1>1. <<i>> \in Seq(Nat) /\ <<last>> \in Seq(Nat) /\ s \in Seq(Nat)
  BY DEF Paths
<1>2. <<i>> \o s \in Seq(Nat)
  BY <1>1, ConcatProperties
<1>3. Append(s, last) = s \o <<last>> /\ Append(<<i>> \o s, last) = (<<i>> \o s) \o <<last>>
  BY <1>1, <1>2, AppendIsConcat
<1>4. (<<i>> \o s) \o <<last>> = <<i>> \o (s \o <<last>>)
  BY <1>1, ConcatAssociative
<1> QED
  BY <1>3, <1>4 DEF Under

(* One step down and a path from there that ends in k is a path that ends  *)
(* in k: the step alone or one that begins with it.                        *)
LEMMA StepDown ==
    ASSUME NEW i \in Nat, NEW q \in Paths, NEW r \in Paths, NEW last \in Nat
    PROVE  Under(i, q) = Append(r, last) <=>
             \/ r = <<>> /\ q = <<>> /\ last = i
             \/ \E s \in Paths : r = Under(i, s) /\ q = Append(s, last)
<1>1. <<i>> \in Seq(Nat) /\ Len(<<i>>) = 1 /\ <<i>>[1] = i
  BY LenProperties
<1> USE DEF Paths
<1>2. /\ <<i>> \o q \in Seq(Nat) /\ Len(<<i>> \o q) = 1 + Len(q) /\ Len(q) \in Nat
      /\ \A j \in 1..(1 + Len(q)) : (<<i>> \o q)[j] = IF j <= 1 THEN <<i>>[j] ELSE q[j - 1]
  BY <1>1, ConcatProperties, LenProperties DEF Paths
<1>3. /\ Append(r, last) \in Seq(Nat) /\ Len(Append(r, last)) = Len(r) + 1 /\ Len(r) \in Nat
      /\ \A j \in 1..Len(r) : Append(r, last)[j] = r[j]
      /\ Append(r, last)[Len(r) + 1] = last
  BY AppendProperties, LenProperties DEF Paths
<1> HIDE DEF Paths
<1>8. ASSUME NEW s \in Seq(Nat) PROVE Append(<<i>> \o s, last) = <<i>> \o Append(s, last)
  BY AppendedUnder DEF Paths, Under
<1>4. ASSUME r = <<>>, q = <<>>, last = i PROVE <<i>> \o q = Append(r, last)
  BY <1>4, <1>1
<1>5. ASSUME NEW s \in Paths, r = <<i>> \o s, q = Append(s, last) PROVE <<i>> \o q = Append(r, last)
  BY <1>5, <1>8 DEF Paths
<1>6. ASSUME <<i>> \o q = Append(r, last), r = <<>> PROVE q = <<>> /\ last = i
  <2>1. Len(r) = 0 /\ Len(q) = 0
    BY <1>2, <1>3, <1>6, EmptySeq
  <2>2. q = <<>>
    BY <2>1, EmptySeq DEF Paths
  <2>3. (<<i>> \o q)[1] = i
    BY <1>1, <1>2, <2>1
  <2> QED
    BY <1>3, <1>6, <2>1, <2>2, <2>3
<1>7. ASSUME <<i>> \o q = Append(r, last), r # <<>>
      PROVE  \E s \in Paths : r = <<i>> \o s /\ q = Append(s, last)
  <2>1. Len(r) # 0 /\ Len(q) = Len(r)
    BY <1>2, <1>3, <1>7, EmptySeq DEF Paths
  <2>2. /\ Tail(r) \in Seq(Nat) /\ Len(Tail(r)) = Len(r) - 1
        /\ \A j \in 1..(Len(r) - 1) : Tail(r)[j] = r[j + 1]
    BY <1>7, HeadTailProperties DEF Paths
  <2>3. r = <<i>> \o Tail(r)
    <3>1. /\ <<i>> \o Tail(r) \in Seq(Nat) /\ Len(<<i>> \o Tail(r)) = 1 + Len(Tail(r))
          /\ \A j \in 1..(1 + Len(Tail(r))) : (<<i>> \o Tail(r))[j] = IF j <= 1 THEN <<i>>[j] ELSE Tail(r)[j - 1]
      BY <1>1, <2>2, ConcatProperties
    <3>2. r[1] = i
      <4>1. 1 \in 1..Len(r) /\ 1 \in 1..(1 + Len(q))
        BY <1>2, <1>3, <2>1
      <4>2. Append(r, last)[1] = r[1] /\ (<<i>> \o q)[1] = <<i>>[1]
        BY <1>2, <1>3, <4>1
      <4> QED
        BY <1>1, <1>7, <4>2
    <3>3. ASSUME NEW j \in 1..Len(r) PROVE r[j] = (<<i>> \o Tail(r))[j]
      <4>1. CASE j = 1
        BY <1>1, <1>3, <2>2, <3>1, <3>2, <4>1
      <4>2. CASE j # 1
        <5>1. ~(j <= 1) /\ j \in 1..(1 + Len(Tail(r))) /\ j - 1 \in 1..(Len(r) - 1) /\ (j - 1) + 1 = j
          BY <1>3, <2>2, <4>2
        <5> QED
          BY <2>2, <3>1, <5>1
      <4> QED
        BY <4>1, <4>2
    <3>4. Len(r) = Len(<<i>> \o Tail(r))
      BY <1>3, <2>2, <3>1
    <3> QED
      BY <3>1, <3>3, <3>4, SeqEqual DEF Paths
  <2>4. q = Append(Tail(r), last)
    <3>1. <<i>> \o q = <<i>> \o Append(Tail(r), last)
      <4>1. Append(r, last) = <<i>> \o Append(Tail(r), last)
        BY <1>8, <2>2, <2>3
      <4> QED
        BY <1>7, <4>1
    <3>2. Append(Tail(r), last) \in Seq(Nat)
      BY <2>2, AppendProperties
    <3> QED
      BY <1>1, <3>1, <3>2, ConcatSimplifications DEF Paths
  <2> QED
    BY <2>2, <2>3, <2>4 DEF Paths
<1> QED
  BY <1>4, <1>5, <1>6, <1>7 DEF Under

(* For all steps and paths at once.                                        *)
LEMMA StepsDown ==
    \A i \in Nat : \A q \in Paths : \A r \in Paths : \A last \in Nat :
        Under(i, q) = Append(r, last) =>
            \/ r = <<>> /\ q = <<>> /\ last = i
            \/ \E s \in Paths : r = Under(i, s) /\ q = Append(s, last)
<1> SUFFICES ASSUME NEW i \in Nat, NEW q \in Paths, NEW r \in Paths, NEW last \in Nat,
                    Under(i, q) = Append(r, last)
             PROVE  \/ r = <<>> /\ q = <<>> /\ last = i
                    \/ \E s \in Paths : r = Under(i, s) /\ q = Append(s, last)
  OBVIOUS
<1> QED
  BY StepDown

(* The positions of a node in order: the root, then those of one child     *)
(* after the other.                                                        *)
Deeper(i, ps) == [j \in DOMAIN ps |-> Under(i, ps[j])]

LEMMA DeeperIs ==
    ASSUME NEW i \in Nat, NEW ps \in Seq(Paths)
    PROVE  /\ Deeper(i, ps) \in Seq(Paths) /\ Len(Deeper(i, ps)) = Len(ps)
           /\ \A j \in 1..Len(ps) : Deeper(i, ps)[j] = Under(i, ps[j])
<1>1. Len(ps) \in Nat /\ DOMAIN ps = 1..Len(ps) /\ \A j \in 1..Len(ps) : ps[j] \in Paths
  BY LenProperties, ElementOfSeq
<1>2. ASSUME NEW q \in Paths PROVE Under(i, q) \in Paths
  BY ConcatProperties DEF Paths, Under
<1>3. Deeper(i, ps) = [j \in 1..Len(ps) |-> Under(i, ps[j])]
  BY <1>1 DEF Deeper
<1> HIDE DEF Deeper
<1>4. Deeper(i, ps) \in [1..Len(ps) -> Paths]
  BY <1>1, <1>2, <1>3
<1>5. Deeper(i, ps) \in Seq(Paths)
  BY <1>1, <1>4
<1>6. DOMAIN Deeper(i, ps) = 1..Len(ps)
  BY <1>3
<1>7. Len(Deeper(i, ps)) = Len(ps)
  <2>1. DOMAIN Deeper(i, ps) = 1..Len(Deeper(i, ps)) /\ Len(Deeper(i, ps)) \in Nat
    BY <1>5, LenProperties
  <2> HIDE DEF Paths
  <2> QED
    BY <1>1, <1>6, <2>1
<1>8. \A j \in 1..Len(ps) : Deeper(i, ps)[j] = Under(i, ps[j])
  BY <1>3
<1> QED
  BY <1>5, <1>7, <1>8

(* PreorderFrom as a loop over the children.                               *)
LEMMA PreorderFromIs ==
    ASSUME NEW m, m.kids \in Seq(ToSet(m.kids)), NEW below \in [DOMAIN m.kids -> Seq(Paths)]
    PROVE  \E upTo :
             /\ PreorderFrom(m, below) = upTo[Len(m.kids)] /\ upTo[0] = <<<<>>>>
             /\ \A i \in 0..Len(m.kids) : upTo[i] \in Seq(Paths)
             /\ \A i \in 1..Len(m.kids) : upTo[i] = upTo[i - 1] \o Deeper(i, below[i])
<1> DEFINE N == Len(m.kids)
           Turn_(i, last) == last \o [j \in DOMAIN below[i] |-> <<i>> \o below[i][j]]
           Unfolded(f) == [i \in 0..N |-> IF i = 0 THEN <<<<>>>> ELSE Turn_(i, f[i - 1])]
           upTo == CHOOSE f : f = Unfolded(f)
           G == [i \in 1..N |-> [last \in Seq(Paths) |-> Turn_(i, last)]]
<1>1. N \in Nat /\ DOMAIN m.kids = 1..N /\ \A i \in 1..N : below[i] \in Seq(Paths) /\ i \in Nat
  BY LenProperties
<1>2. PreorderFrom(m, below) = upTo[N]
  BY DEF PreorderFrom
<1> HIDE DEF N
<1>3. \A i, last : Turn_(i, last) = last \o Deeper(i, below[i])
  BY DEF Deeper, Under
<1>4. G \in [1..N -> [Seq(Paths) -> Seq(Paths)]]
  <2>1. ASSUME NEW i \in 1..N, NEW last \in Seq(Paths) PROVE Turn_(i, last) \in Seq(Paths)
    <3>1. Deeper(i, below[i]) \in Seq(Paths)
      BY <1>1, DeeperIs
    <3>2. last \o Deeper(i, below[i]) \in Seq(Paths)
      BY <3>1, ConcatProperties
    <3> QED
      BY <1>3, <3>2
  <2> HIDE DEF Turn_
  <2> QED
    BY <2>1
<1> HIDE DEF Turn_
<1>5. <<<<>>>> \in Seq(Paths)
  <2>1. <<>> \in Paths
    BY EmptySeq DEF Paths
  <2> QED
    BY <2>1
<1>6. PICK h : IsRecursion(h, Seq(Paths), <<<<>>>>, N, G)
  <2> HIDE DEF G
  <2> QED
    BY <1>1, <1>4, <1>5, RecursionExists
<1>7. /\ h \in [0..N -> Seq(Paths)] /\ h[0] = <<<<>>>>
      /\ \A i \in 1..N : h[i - 1] \in Seq(Paths) /\ h[i] = Turn_(i, h[i - 1])
  <2>1. h \in [0..N -> Seq(Paths)] /\ h[0] = <<<<>>>> /\ \A i \in 1..N : h[i] = G[i][h[i - 1]]
    BY <1>6 DEF IsRecursion
  <2>2. \A i \in 1..N : i - 1 \in 0..N
    BY <1>1
  <2>3. \A i \in 1..N : h[i - 1] \in Seq(Paths)
    BY <2>1, <2>2
  <2> QED
    BY <2>1, <2>3
<1> HIDE DEF G
<1>8. h = Unfolded(h)
  <2>1. \A i \in 0..N : i = 0 \/ i \in 1..N
    BY <1>1
  <2>2. \A i \in 0..N : h[i] = IF i = 0 THEN <<<<>>>> ELSE Turn_(i, h[i - 1])
    BY <1>7, <2>1
  <2> QED
    BY <1>7, <2>2
<1>9. upTo = Unfolded(upTo)
  <2> HIDE DEF Unfolded
  <2> QED
    BY <1>8
<1> HIDE DEF upTo
<1>10. upTo[0] = <<<<>>>> /\ \A i \in 1..N : upTo[i] = Turn_(i, upTo[i - 1])
  <2>1. 0 \in 0..N /\ \A i \in 1..N : i \in 0..N /\ i # 0
    BY <1>1
  <2> QED
    BY <1>9, <2>1
<1> DEFINE T == {i \in 0..N : upTo[i] = h[i]}
<1>11. 0 \in T
  <2>1. upTo[0] = h[0]
    BY <1>7, <1>10, Zenon
  <2> QED
    BY <1>1, <2>1
<1>12. ASSUME NEW i \in T, i < N PROVE i + 1 \in T
  <2>1. i + 1 \in 1..N /\ i + 1 \in 0..N /\ (i + 1) - 1 = i
    BY <1>1, <1>12
  <2> QED
    BY <1>7, <1>10, <2>1
<1>13. T = 0..N
  <2>1. T \in SUBSET (0..N)
    OBVIOUS
  <2> HIDE DEF T
  <2> QED
    BY <1>1, <1>11, <1>12, <2>1, BoundedInduction
<1>14. \A i \in 0..N : upTo[i] \in Seq(Paths)
  BY <1>7, <1>13
<1> QED
  BY <1>2, <1>3, <1>10, <1>14 DEF N

LEMMA PreorderFromType ==
    ASSUME NEW m, m.kids \in Seq(ToSet(m.kids)), NEW below \in [DOMAIN m.kids -> Seq(Paths)]
    PROVE  PreorderFrom(m, below) \in Seq(Paths)
<1>1. PICK upTo : /\ PreorderFrom(m, below) = upTo[Len(m.kids)]
                  /\ \A i \in 0..Len(m.kids) : upTo[i] \in Seq(Paths)
  BY PreorderFromIs
<1>2. Len(m.kids) \in 0..Len(m.kids)
  BY LenProperties
<1> QED
  BY <1>1, <1>2

(* The positions of a tree from those of its children.                     *)
LEMMA PreorderIs ==
    ASSUME NEW t, IsTree(t)
    PROVE  /\ PreorderPositions(t) \in Seq(Paths)
           /\ PreorderPositions(t) = PreorderFrom(t, [i \in DOMAIN t.kids |-> PreorderPositions(t.kids[i])])
<1> DEFINE V == Seq(Paths)
           G == [m \in Contained(t) |-> [below \in [DOMAIN m.kids -> V] |-> PreorderFrom(m, below)]]
           Unfolded(f, e) == [m \in Contained(e) |-> PreorderFrom(m, [i \in DOMAIN m.kids |-> f[m.kids[i]]])]
           made(e) == CHOOSE f : f = Unfolded(f, e)
<1>2. \A m \in Contained(t) : G[m] \in [[DOMAIN m.kids -> V] -> V]
  BY NodesAre, PreorderFromType
<1> HIDE DEF V
<1>3. PICK h : FollowsTree(h, t, V, G)
  <2> HIDE DEF G
  <2> QED
    BY <1>2, TreeRecursion
<1>4. ASSUME NEW m \in Contained(t)
      PROVE  h[m] \in V /\ h[m] = PreorderFrom(m, [i \in DOMAIN m.kids |-> h[m.kids[i]]])
  <2>1. h[m] \in V /\ h[m] = G[m][Below(h, m)]
    BY <1>3 DEF FollowsTree
  <2>2. Below(h, m) \in [DOMAIN m.kids -> V]
    BY <1>3, NodesAre DEF Below, FollowsTree
  <2> QED
    BY <2>1, <2>2 DEF Below
<1> HIDE DEF G
<1>5. ASSUME NEW e \in Contained(t) PROVE PreorderPositions(e) = h[e]
  <2>1. PreorderPositions(e) = made(e)[e]
    BY DEF PreorderPositions, FromBelow
  <2>2. IsTree(e) /\ Contained(e) \subseteq Contained(t) /\ e \in Contained(e)
    BY Subtree, ContainsItself
  <2>3. [m \in Contained(e) |-> h[m]] = Unfolded([m \in Contained(e) |-> h[m]], e)
    <3>1. ASSUME NEW m \in Contained(e)
          PROVE  h[m] = PreorderFrom(m, [i \in DOMAIN m.kids |-> [x \in Contained(e) |-> h[x]][m.kids[i]]])
      <4>1. \A i \in DOMAIN m.kids : m.kids[i] \in Contained(e)
        BY <2>2, NodesAre
      <4>2. [i \in DOMAIN m.kids |-> [x \in Contained(e) |-> h[x]][m.kids[i]]] = [i \in DOMAIN m.kids |-> h[m.kids[i]]]
        BY <4>1
      <4> QED
        BY <1>4, <2>2, <4>2
    <3> QED
      BY <3>1
  <2>4. made(e) = Unfolded(made(e), e)
    <3> HIDE DEF Unfolded
    <3> QED
      BY <2>3
  <2> HIDE DEF made
  <2> DEFINE S == {m \in Contained(e) : made(e)[m] = h[m]}
  <2>5. ASSUME NEW m \in Contained(e), ToSet(m.kids) \subseteq S PROVE m \in S
    <3>1. \A i \in DOMAIN m.kids : made(e)[m.kids[i]] = h[m.kids[i]]
      BY <2>2, <2>5, NodesAre
    <3>2. made(e)[m] = PreorderFrom(m, [i \in DOMAIN m.kids |-> made(e)[m.kids[i]]])
      BY <2>4
    <3>3. [i \in DOMAIN m.kids |-> made(e)[m.kids[i]]] = [i \in DOMAIN m.kids |-> h[m.kids[i]]]
      BY <3>1
    <3> QED
      BY <1>4, <2>2, <3>2, <3>3
  <2>6. Contained(e) \subseteq S
    <3> HIDE DEF S
    <3> QED
      BY <2>2, <2>5, TreeInduction
  <2> QED
    BY <2>1, <2>2, <2>6
<1>6. \A i \in DOMAIN t.kids : PreorderPositions(t.kids[i]) = h[t.kids[i]]
  BY <1>5, ChildrenAreTrees
<1>7. [i \in DOMAIN t.kids |-> PreorderPositions(t.kids[i])] = [i \in DOMAIN t.kids |-> h[t.kids[i]]]
  BY <1>6
<1>8. t \in Contained(t)
  BY ContainsItself
<1> QED
  BY <1>4, <1>5, <1>7, <1>8 DEF V

(* And as a loop, for proofs by induction over the children.               *)
LEMMA PreorderTurns ==
    ASSUME NEW t, IsTree(t)
    PROVE  \E upTo :
             /\ PreorderPositions(t) = upTo[Len(t.kids)] /\ upTo[0] = <<<<>>>>
             /\ \A i \in 0..Len(t.kids) : upTo[i] \in Seq(Paths)
             /\ \A i \in 1..Len(t.kids) : upTo[i] = upTo[i - 1] \o Deeper(i, PreorderPositions(t.kids[i]))
<1> DEFINE below == [i \in DOMAIN t.kids |-> PreorderPositions(t.kids[i])]
<1>1. t.kids \in Seq(ToSet(t.kids)) /\ DOMAIN t.kids = 1..Len(t.kids)
  BY ContainsItself, NodesAre
<1>2. below \in [DOMAIN t.kids -> Seq(Paths)]
  BY ChildrenAreTrees, PreorderIs
<1>3. PreorderPositions(t) = PreorderFrom(t, below)
  BY PreorderIs
<1>4. \A i \in 1..Len(t.kids) : below[i] = PreorderPositions(t.kids[i])
  BY <1>1
<1> HIDE DEF below
<1>5. PICK upTo :
        /\ PreorderFrom(t, below) = upTo[Len(t.kids)] /\ upTo[0] = <<<<>>>>
        /\ \A i \in 0..Len(t.kids) : upTo[i] \in Seq(Paths)
        /\ \A i \in 1..Len(t.kids) : upTo[i] = upTo[i - 1] \o Deeper(i, below[i])
  BY <1>1, <1>2, PreorderFromIs
<1> QED
  BY <1>3, <1>4, <1>5

(* What v, the positions of m or of its first children, says about what    *)
(* comes before a position: its parent, if it is a first child; and its    *)
(* elder sibling, if that has no children.                                 *)
Preceded(m, v) ==
    /\ \A j \in 1..Len(v) : \A r \in Paths :
        v[j] = Append(r, 1) => j > 1 /\ v[j - 1] = r
    /\ \A j \in 1..Len(v) : \A r \in Paths : \A i \in Nat :
        i > 0 /\ v[j] = Append(r, i + 1) /\ At(m, Append(r, i)).kids = <<>>
            => j > 1 /\ v[j - 1] = Append(r, i)

InOrder(m, v) ==
    /\ v \in Seq(Paths) /\ Len(v) > 0
    /\ \A j \in 1..Len(v) : v[j] = <<>> <=> j = 1
    /\ ToSet(v) = Positions(m)
    /\ m.kids = <<>> => Len(v) = 1
    /\ Preceded(m, v)

(* With one child more.                                                    *)
LEMMA OneChildMore ==
    ASSUME NEW m, IsTree(m), NEW c \in 1..Len(m.kids), NEW v, InOrder(m.kids[c], v),
           NEW w \in Seq(Paths), Len(w) > 0, Preceded(m, w), \A j \in 1..Len(w) : w[j] = <<>> <=> j = 1,
           c = 1 => Len(w) = 1,
           c > 1 /\ m.kids[c - 1].kids = <<>> => w[Len(w)] = <<c - 1>>
    PROVE  LET x == w \o Deeper(c, v)
           IN /\ x \in Seq(Paths) /\ Len(x) > 0 /\ Preceded(m, x)
              /\ \A j \in 1..Len(x) : x[j] = <<>> <=> j = 1
              /\ ToSet(x) = ToSet(w) \cup {Under(c, p) : p \in Positions(m.kids[c])}
              /\ m.kids[c].kids = <<>> => x[Len(x)] = <<c>>
<1> DEFINE x == w \o Deeper(c, v)
           N == Len(w)
           M == Len(v)
           k == m.kids[c]
<1>1. /\ v \in Seq(Paths) /\ M \in Nat /\ M > 0 /\ N \in Nat /\ c \in Nat /\ Preceded(k, v)
      /\ \A o \in 1..M : v[o] \in Paths /\ (v[o] = <<>> <=> o = 1)
      /\ ToSet(v) = Positions(k) /\ (k.kids = <<>> => M = 1)
  <2>1. v \in Seq(Paths) /\ Len(m.kids) \in Nat
    BY ContainsItself, NodesAre DEF InOrder
  <2>2. \A o \in 1..M : v[o] \in Paths
    BY <2>1, ElementOfSeq
  <2> QED
    BY <2>1, <2>2, LenProperties DEF InOrder
<1>2. /\ x \in Seq(Paths) /\ Len(x) = N + M
      /\ \A j \in 1..N : x[j] = w[j]
      /\ \A o \in 1..M : x[N + o] = Under(c, v[o])
  <2>1. /\ Deeper(c, v) \in Seq(Paths) /\ Len(Deeper(c, v)) = M
        /\ \A o \in 1..M : Deeper(c, v)[o] = Under(c, v[o])
    BY <1>1, DeeperIs
  <2>5. \A d \in Seq(Paths) :
          /\ w \o d \in Seq(Paths) /\ Len(w \o d) = Len(w) + Len(d)
          /\ \A j \in 1..(Len(w) + Len(d)) : (w \o d)[j] = IF j <= Len(w) THEN w[j] ELSE d[j - Len(w)]
    BY ConcatProperties
  <2>2. /\ x \in Seq(Paths) /\ Len(x) = N + M
        /\ \A j \in 1..(N + M) : x[j] = IF j <= N THEN w[j] ELSE Deeper(c, v)[j - N]
    BY <2>1, <2>5
  <2>3. \A j \in 1..N : j \in 1..(N + M) /\ j <= N
    BY <1>1
  <2>4. \A o \in 1..M : N + o \in 1..(N + M) /\ ~(N + o <= N) /\ (N + o) - N = o
    BY <1>1
  <2> HIDE DEF x
  <2> QED
    BY <2>1, <2>2, <2>3, <2>4
<1> HIDE DEF x
<1>3. ASSUME NEW j \in 1..Len(x) PROVE j \in 1..N \/ \E o \in 1..M : j = N + o
  <2>1. CASE ~(j <= N)
    <3>1. j - N \in 1..M /\ j = N + (j - N)
      BY <1>1, <1>2, <2>1
    <3> QED
      BY <3>1
  <2> QED
    BY <1>1, <1>2, <2>1
<1>4. \A o \in 1..M : Under(c, v[o]) # <<>>
  <2>1. ASSUME NEW q \in Paths PROVE Under(c, q) # <<>>
    <3>1. Len(<<c>> \o q) = 1 + Len(q) /\ Len(q) \in Nat
      BY <1>1, ConcatProperties, LenProperties DEF Paths
    <3> QED
      BY <3>1, EmptySeq DEF Under
  <2> QED
    BY <1>1, <2>1
<1>5. \A j \in 1..Len(x) : x[j] = <<>> <=> j = 1
  <2> SUFFICES ASSUME NEW j \in 1..Len(x) PROVE x[j] = <<>> <=> j = 1
    OBVIOUS
  <2>1. CASE j \in 1..N
    BY <1>2, <2>1
  <2>2. CASE \E o \in 1..M : j = N + o
    <3>1. PICK o \in 1..M : j = N + o
      BY <2>2
    <3>2. j # 1
      BY <1>1, <3>1
    <3> QED
      BY <1>2, <1>4, <3>1, <3>2
  <2> QED
    BY <1>3, <2>1, <2>2
<1>6. ToSet(x) = ToSet(w) \cup {Under(c, p) : p \in Positions(k)}
  <2>1. ToSet(x) = {x[j] : j \in 1..Len(x)} /\ ToSet(w) = {w[j] : j \in 1..N} /\ ToSet(v) = {v[o] : o \in 1..M}
    BY <1>1, <1>2, LenProperties DEF ToSet
  <2>2. ASSUME NEW e \in ToSet(x) PROVE e \in ToSet(w) \cup {Under(c, p) : p \in Positions(k)}
    <3>1. PICK j \in 1..Len(x) : e = x[j]
      BY <2>1
    <3>2. CASE j \in 1..N
      BY <1>2, <2>1, <3>1, <3>2
    <3>3. CASE \E o \in 1..M : j = N + o
      <4>1. PICK o \in 1..M : j = N + o
        BY <3>3
      <4>2. v[o] \in Positions(k)
        BY <1>1, <2>1
      <4> QED
        BY <1>2, <3>1, <4>1, <4>2
    <3> QED
      BY <1>3, <3>2, <3>3
  <2>3. ASSUME NEW j \in 1..N PROVE w[j] \in ToSet(x)
    <3>1. j \in 1..Len(x)
      BY <1>1, <1>2
    <3> QED
      BY <1>2, <2>1, <3>1
  <2>4. ASSUME NEW p \in Positions(k) PROVE Under(c, p) \in ToSet(x)
    <3>1. PICK o \in 1..M : p = v[o]
      BY <1>1, <2>1
    <3>2. N + o \in 1..Len(x)
      BY <1>1, <1>2
    <3> QED
      BY <1>2, <2>1, <3>1, <3>2
  <2> QED
    BY <2>1, <2>2, <2>3, <2>4
<1>7. k.kids = <<>> => x[Len(x)] = <<c>>
  <2> SUFFICES ASSUME k.kids = <<>> PROVE x[N + M] = <<c>>
    BY <1>2
  <2>1. 1 \in 1..M /\ v[1] = <<>> /\ M = 1
    BY <1>1
  <2>2. Under(c, <<>>) = <<c>>
    <3>1. <<c>> \in Seq(Nat)
      BY <1>1
    <3> QED
      BY <3>1, ConcatEmptySeq DEF Under
  <2> QED
    BY <1>2, <2>1, <2>2
<1>8. ASSUME NEW j \in 1..Len(x), NEW r \in Paths, x[j] = Append(r, 1)
      PROVE  j > 1 /\ x[j - 1] = r
  <2>1. CASE j \in 1..N
    <3>1. j > 1 /\ w[j - 1] = r
      BY <1>2, <1>8, <2>1 DEF Preceded
    <3>2. j - 1 \in 1..N
      BY <1>1, <2>1, <3>1
    <3> QED
      BY <1>2, <3>1, <3>2
  <2>2. CASE \E o \in 1..M : j = N + o
    <3>1. PICK o \in 1..M : j = N + o
      BY <2>2
    <3>2. Under(c, v[o]) = Append(r, 1) /\ v[o] \in Paths
      BY <1>1, <1>2, <1>8, <3>1
    <3>3. CASE r = <<>> /\ v[o] = <<>> /\ 1 = c
      <4>1. o = 1 /\ N = 1 /\ w[1] = <<>>
        BY <1>1, <3>3
      <4>2. j = 2 /\ j - 1 = 1 /\ 1 \in 1..N
        BY <3>1, <4>1
      <4> QED
        BY <1>2, <3>3, <4>1, <4>2
    <3>4. ASSUME NEW s \in Paths, r = Under(c, s), v[o] = Append(s, 1)
          PROVE  j > 1 /\ x[j - 1] = r
      <4>1. o > 1 /\ v[o - 1] = s
        BY <1>1, <3>4 DEF Preceded
      <4>2. o - 1 \in 1..M /\ j - 1 = N + (o - 1) /\ j > 1
        BY <1>1, <3>1, <4>1
      <4> QED
        BY <1>2, <3>4, <4>1, <4>2
    <3>5. \/ r = <<>> /\ v[o] = <<>> /\ 1 = c
          \/ \E s \in Paths : r = Under(c, s) /\ v[o] = Append(s, 1)
      <4>1. c \in Nat /\ 1 \in Nat
        BY <1>1
      <4> QED
        BY <3>2, <4>1, StepDown
    <3> QED
      BY <3>3, <3>4, <3>5
  <2> QED
    BY <1>3, <2>1, <2>2
<1>9. ASSUME NEW j \in 1..Len(x), NEW r \in Paths, NEW i \in Nat, i > 0, x[j] = Append(r, i + 1),
             At(m, Append(r, i)).kids = <<>>
      PROVE  j > 1 /\ x[j - 1] = Append(r, i)
  <2>3. i > 0 /\ x[j] = Append(r, i + 1) /\ i + 1 \in Nat
    BY <1>9
  <2>4. At(m, Append(r, i)).kids = <<>>
    BY <1>9
  <2>1. CASE j \in 1..N
    <3>1. j > 1 /\ w[j - 1] = Append(r, i)
      <4>1. w[j] = Append(r, i + 1)
        BY <1>2, <2>1, <2>3
      <4> QED
        BY <2>1, <2>3, <2>4, <4>1 DEF Preceded
    <3>2. j - 1 \in 1..N
      BY <1>1, <2>1, <3>1
    <3> QED
      BY <1>2, <3>1, <3>2
  <2>2. CASE \E o \in 1..M : j = N + o
    <3>1. PICK o \in 1..M : j = N + o
      BY <2>2
    <3>2. Under(c, v[o]) = Append(r, i + 1) /\ v[o] \in Paths /\ i + 1 \in Nat
      BY <1>1, <1>2, <2>3, <3>1
    <3>3. CASE r = <<>> /\ v[o] = <<>> /\ i + 1 = c
      <4>1. o = 1 /\ c > 1 /\ c - 1 = i
        BY <1>1, <2>3, <3>3
      <4>2. Append(r, i) = <<i>> /\ <<i>> = <<i>> \o <<>>
        BY <3>3, ConcatEmptySeq
      <4>3. At(m, <<i>>) = m.kids[i]
        <5>1. <<>> \in Seq(Nat)
          BY EmptySeq
        <5>2. At(m, <<i>> \o <<>>) = At(m.kids[i], <<>>)
          BY <5>1, AtChild
        <5>3. At(m.kids[i], <<>>) = m.kids[i]
          BY AtRoot
        <5> QED
          BY <4>2, <5>2, <5>3
      <4>4. w[N] = <<i>>
        <5>1. m.kids[i].kids = <<>>
          BY <2>4, <4>2, <4>3
        <5> QED
          BY <4>1, <5>1
      <4>5. j - 1 = N /\ N \in 1..N /\ j > 1
        BY <1>1, <3>1, <4>1
      <4> QED
        BY <1>2, <4>2, <4>4, <4>5
    <3>4. ASSUME NEW s \in Paths, r = Under(c, s), v[o] = Append(s, i + 1)
          PROVE  j > 1 /\ x[j - 1] = Append(r, i)
      <4>1. Append(r, i) = Under(c, Append(s, i)) /\ Append(s, i) \in Seq(Nat)
        <5>1. Append(s, i) \in Paths
          BY AppendProperties DEF Paths
        <5>2. r \in Paths
          OBVIOUS
        <5>3. c \in Nat /\ i \in Nat
          BY <1>1
        <5>4. Under(c, Append(s, i)) = Append(r, i)
          BY <3>4, <5>3, AppendedUnder
        <5> QED
          BY <5>1, <5>4 DEF Paths
      <4>2. At(m, Append(r, i)) = At(k, Append(s, i))
        BY <1>1, <4>1, AtChild DEF Under
      <4>3. o > 1 /\ v[o - 1] = Append(s, i)
        <5>1. At(k, Append(s, i)).kids = <<>>
          BY <2>4, <4>2
        <5> QED
          BY <1>1, <2>3, <3>4, <5>1 DEF Preceded
      <4>4. o - 1 \in 1..M /\ j - 1 = N + (o - 1) /\ j > 1
        <5>1. o > 1 /\ N \in Nat /\ M \in Nat
          BY <1>1, <4>3
        <5> HIDE DEF N, M
        <5> QED
          BY <3>1, <5>1
      <4> QED
        BY <1>2, <4>1, <4>3, <4>4
    <3>5. \/ r = <<>> /\ v[o] = <<>> /\ i + 1 = c
          \/ \E s \in Paths : r = Under(c, s) /\ v[o] = Append(s, i + 1)
      <4>1. c \in Nat /\ v[o] \in Paths
        BY <1>1
      <4> QED
        BY <2>3, <3>2, <4>1, StepsDown, Zenon
    <3> QED
      BY <3>3, <3>4, <3>5
  <2> QED
    BY <1>3, <2>1, <2>2
<1>10. Preceded(m, x)
  BY <1>8, <1>9 DEF Preceded
<1>11. Len(x) > 0
  BY <1>1, <1>2
<1> QED
  BY <1>2, <1>5, <1>6, <1>7, <1>10, <1>11 DEF x

(* The positions of any tree are in order.                                 *)
LEMMA PreorderInOrder ==
    ASSUME NEW t, IsTree(t)
    PROVE  InOrder(t, PreorderPositions(t))
<1> DEFINE S == {m \in Contained(t) : InOrder(m, PreorderPositions(m))}
<1>1. ASSUME NEW m \in Contained(t), ToSet(m.kids) \subseteq S PROVE m \in S
  <2> DEFINE N == Len(m.kids)
  <2>1. IsTree(m) /\ N \in Nat /\ DOMAIN m.kids = 1..N /\ m.kids \in Seq(ToSet(m.kids))
    BY Subtree, NodesAre
  <2>2. PICK upTo :
          /\ PreorderPositions(m) = upTo[N] /\ upTo[0] = <<<<>>>>
          /\ \A i \in 0..N : upTo[i] \in Seq(Paths)
          /\ \A i \in 1..N : upTo[i] = upTo[i - 1] \o Deeper(i, PreorderPositions(m.kids[i]))
    BY <2>1, PreorderTurns
  <2>3. \A i \in 1..N : InOrder(m.kids[i], PreorderPositions(m.kids[i]))
    BY <1>1, <2>1 DEF ToSet
  <2> HIDE DEF N
  <2> DEFINE So(c) ==
               /\ Len(upTo[c]) > 0 /\ Preceded(m, upTo[c])
               /\ \A j \in 1..Len(upTo[c]) : upTo[c][j] = <<>> <=> j = 1
               /\ ToSet(upTo[c]) = {<<>>} \cup UNION {{Under(i, p) : p \in Positions(m.kids[i])} : i \in 1..c}
               /\ c = 0 => Len(upTo[c]) = 1
               /\ c > 0 /\ m.kids[c].kids = <<>> => upTo[c][Len(upTo[c])] = <<c>>
             T == {c \in 0..N : So(c)}
  <2>4. 0 \in T
    <3> DEFINE w == upTo[0]
    <3>1. Len(w) = 1 /\ w[1] = <<>> /\ w = <<<<>>>>
      BY <2>2
    <3>2. Preceded(m, w)
      <4>1. \A r \in Paths : \A e \in Nat : w[1] # Append(r, e)
        <5>1. \A r \in Paths : \A e \in Nat : Append(r, e) # <<>>
          BY AppendProperties DEF Paths
        <5> QED
          BY <3>1, <5>1
      <4>2. \A j \in 1..Len(w) : j = 1
        BY <3>1
      <4>3. ASSUME NEW r \in Paths, NEW i \in Nat PROVE w[1] # Append(r, i + 1)
        BY <4>1
      <4> HIDE DEF w
      <4> QED
        BY <4>1, <4>2, <4>3 DEF Preceded
    <3>3. ToSet(w) = {<<>>}
      <4>1. DOMAIN w = {1}
        BY <3>1
      <4> HIDE DEF w
      <4> QED
        BY <3>1, <4>1 DEF ToSet
    <3>4. UNION {{Under(i, p) : p \in Positions(m.kids[i])} : i \in 1..0} = {}
      OBVIOUS
    <3>5. \A j \in 1..Len(w) : w[j] = <<>> <=> j = 1
      BY <3>1
    <3> HIDE DEF w
    <3>6. 0 \in 0..N
      BY <2>1 DEF N
    <3> QED
      BY <3>1, <3>2, <3>3, <3>4, <3>5, <3>6 DEF w
  <2>5. ASSUME NEW c \in T, c < N PROVE c + 1 \in T
    <3> DEFINE d == c + 1
               x == upTo[d]
               w == upTo[c]
    <3>1. d \in 1..Len(m.kids) /\ d \in 1..N /\ d \in 0..N /\ d - 1 = c /\ c \in 0..N
      BY <2>1, <2>5 DEF N
    <3>2. x = w \o Deeper(d, PreorderPositions(m.kids[d]))
      BY <2>2, <3>1
    <3>3. w \in Seq(Paths) /\ InOrder(m.kids[d], PreorderPositions(m.kids[d]))
      BY <2>2, <2>3, <3>1
    <3>4. So(c)
      BY <2>5
    <3>5. /\ Len(w) > 0 /\ Preceded(m, w) /\ \A j \in 1..Len(w) : w[j] = <<>> <=> j = 1
          /\ d = 1 => Len(w) = 1
          /\ d > 1 /\ m.kids[d - 1].kids = <<>> => w[Len(w)] = <<d - 1>>
      BY <3>1, <3>4
    <3>6. ToSet(w) = {<<>>} \cup UNION {{Under(i, p) : p \in Positions(m.kids[i])} : i \in 1..c}
      BY <3>4
    <3>7. 1..d = (1..c) \cup {d}
      BY <3>1
    <3> HIDE DEF So, d, w
    <3>8. /\ x \in Seq(Paths) /\ Len(x) > 0 /\ Preceded(m, x)
          /\ \A j \in 1..Len(x) : x[j] = <<>> <=> j = 1
          /\ ToSet(x) = ToSet(w) \cup {Under(d, p) : p \in Positions(m.kids[d])}
          /\ m.kids[d].kids = <<>> => x[Len(x)] = <<d>>
      <4> DEFINE v == PreorderPositions(m.kids[d])
                 y == w \o Deeper(d, v)
      <4>1. InOrder(m.kids[d], v) /\ x = y
        BY <3>2, <3>3
      <4> HIDE DEF v, x
      <4>2. /\ y \in Seq(Paths) /\ Len(y) > 0 /\ Preceded(m, y)
            /\ \A j \in 1..Len(y) : y[j] = <<>> <=> j = 1
            /\ ToSet(y) = ToSet(w) \cup {Under(d, p) : p \in Positions(m.kids[d])}
            /\ m.kids[d].kids = <<>> => y[Len(y)] = <<d>>
        BY <2>1, <3>1, <3>3, <3>5, <4>1, OneChildMore
      <4> HIDE DEF y
      <4> QED
        BY <4>1, <4>2
    <3>9. ToSet(x) = {<<>>} \cup UNION {{Under(i, p) : p \in Positions(m.kids[i])} : i \in 1..d}
      BY <3>6, <3>7, <3>8
    <3>10. So(d)
      <4>1. d # 0
        BY <3>1
      <4> QED
        BY <3>8, <3>9, <4>1 DEF So
    <3> QED
      BY <3>1, <3>10 DEF d
  <2>6. So(N)
    <3>1. T \in SUBSET (0..N) /\ N \in Nat
      BY <2>1 DEF N
    <3> HIDE DEF T
    <3>2. T = 0..N
      BY <2>4, <2>5, <3>1, BoundedInduction
    <3>3. N \in T
      BY <3>1, <3>2
    <3> QED
      BY <3>3 DEF T
  <2>7. ToSet(upTo[N]) = Positions(m)
    <3>1. Positions(m) = PositionsFrom(m, [i \in DOMAIN m.kids |-> Positions(m.kids[i])])
      BY <2>1, PositionsIs
    <3>2. Positions(m) = {<<>>} \cup UNION {{Under(i, p) : p \in Positions(m.kids[i])} : i \in 1..N}
      <4>1. DOMAIN m.kids = 1..N
        BY <2>1 DEF N
      <4> DEFINE below == [e \in DOMAIN m.kids |-> Positions(m.kids[e])]
                 A(i) == {<<i>> \o p : p \in below[i]}
                 B(i) == {Under(i, p) : p \in Positions(m.kids[i])}
      <4>2. \A i \in 1..N : A(i) = B(i)
        BY <4>1 DEF Under
      <4>3. Positions(m) = {<<>>} \cup UNION {A(i) : i \in 1..N}
        BY <3>1, <4>1 DEF PositionsFrom
      <4> HIDE DEF A, B
      <4>4. Positions(m) = {<<>>} \cup UNION {B(i) : i \in 1..N}
        BY <4>2, <4>3
      <4> QED
        BY <4>4 DEF B
    <3> QED
      BY <2>6, <3>2
  <2>8. m.kids = <<>> => Len(upTo[N]) = 1
    <3> SUFFICES ASSUME m.kids = <<>> PROVE Len(upTo[N]) = 1
      OBVIOUS
    <3>1. N = 0
      BY DEF N
    <3> QED
      BY <2>6, <3>1
  <2>9. N \in 0..N
    BY <2>1 DEF N
  <2> QED
    BY <2>2, <2>6, <2>7, <2>8, <2>9 DEF InOrder
<1>2. Contained(t) \subseteq S
  <2> HIDE DEF S
  <2> QED
    BY <1>1, TreeInduction
<1> QED
  BY <1>2, ContainsItself

(* One step further down.                                                  *)
LEMMA AtAppended ==
    ASSUME NEW n, NEW p \in Seq(Nat), NEW i \in Nat
    PROVE  At(n, Append(p, i)) = At(n, p).kids[i]
<1> DEFINE q == Append(p, i)
           N == Len(p)
<1>1. N \in Nat /\ q \in Seq(Nat) /\ Len(q) = N + 1 /\ q[N + 1] = i /\ \A k \in 1..N : q[k] = p[k]
  BY AppendProperties, LenProperties
<1> HIDE DEF q, N
<1>2. PICK f : /\ At(n, q) = f[Len(q)] /\ f[0] = n
               /\ \A k \in 1..Len(q) : f[k] = f[k - 1].kids[q[k]]
  <2>1. \A s \in Seq(Nat) : \E f : /\ At(n, s) = f[Len(s)] /\ f[0] = n
                                   /\ \A k \in 1..Len(s) : f[k] = f[k - 1].kids[s[k]]
    <3> SUFFICES ASSUME NEW s \in Seq(Nat)
                 PROVE  \E f : /\ At(n, s) = f[Len(s)] /\ f[0] = n
                               /\ \A k \in 1..Len(s) : f[k] = f[k - 1].kids[s[k]]
      OBVIOUS
    <3> QED
      BY AtIs
  <2> QED
    BY <1>1, <2>1
<1>3. PICK g : /\ At(n, p) = g[N] /\ g[0] = n
               /\ \A k \in 1..N : g[k] = g[k - 1].kids[p[k]]
  BY AtIs DEF N
<1> DEFINE T == {k \in 0..N : f[k] = g[k]}
<1>4. 0 \in T
  BY <1>1, <1>2, <1>3
<1>5. ASSUME NEW k \in T, k < N PROVE k + 1 \in T
  <2>1. k + 1 \in 1..N /\ k + 1 \in 1..Len(q) /\ k + 1 \in 0..N /\ (k + 1) - 1 = k
    BY <1>1, <1>5
  <2>2. f[k + 1] = f[k].kids[q[k + 1]] /\ g[k + 1] = g[k].kids[p[k + 1]]
    BY <1>2, <1>3, <2>1
  <2> QED
    BY <1>1, <2>1, <2>2
<1>6. N \in T
  <2>1. T \in SUBSET (0..N)
    OBVIOUS
  <2> HIDE DEF T
  <2>2. T = 0..N
    BY <1>1, <1>4, <1>5, <2>1, BoundedInduction
  <2> QED
    BY <1>1, <2>2
<1>7. N + 1 \in 1..Len(q) /\ (N + 1) - 1 = N
  BY <1>1
<1>8. At(n, q) = f[N].kids[i]
  BY <1>1, <1>2, <1>7
<1> QED
  BY <1>3, <1>6, <1>8 DEF q

(* The variables in the head of a loop.                                    *)
LEMMA HeadIs ==
    ASSUME IsOfNames(tree), NEW p \in Positions(tree), Is(At(tree, p), Heads)
    PROVE  LET decls == At(tree, p).kids[1]
               n == Len(decls.kids)
           IN /\ p \in Paths /\ n \in Nat /\ DOMAIN decls.kids = 1..n
              /\ Append(p, 1) \in Paths /\ At(tree, Append(p, 1)) = decls /\ Is(decls, {"decls"})
              /\ HandleDeclStmt(p, decls.kids) \in Seq(Paths) /\ Len(HandleDeclStmt(p, decls.kids)) = n
              /\ \A i \in 1..n :
                    /\ HandleDeclStmt(p, decls.kids)[i] = Append(Append(p, 1), i)
                    /\ p \o <<1, i>> = Append(Append(p, 1), i)
                    /\ At(tree, Append(Append(p, 1), i)) = decls.kids[i]
                    /\ InHead(Append(Append(p, 1), i))
<1> DEFINE decls == At(tree, p).kids[1]
           n == Len(decls.kids)
           H == HandleDeclStmt(p, decls.kids)
<1>1. IsTree(tree) /\ p \in Seq(Nat) /\ At(tree, p) \in Contained(tree)
  BY PositionsAre DEF IsOfNames
<1>2. Len(At(tree, p).kids) = 2 /\ Is(decls, {"decls"})
  BY <1>1 DEF IsOfNames
<1>3. decls \in Contained(tree)
  <2>1. 1 \in DOMAIN At(tree, p).kids
    BY <1>1, <1>2, NodesAre
  <2> QED
    BY <1>1, <2>1, NodesAre
<1>4. n \in Nat /\ DOMAIN decls.kids = 1..n
  BY <1>1, <1>3, NodesAre
<1>5. Append(p, 1) \in Seq(Nat) /\ At(tree, Append(p, 1)) = decls
  BY <1>1, AppendProperties, AtAppended
<1> HIDE DEF decls, n
<1>6. ASSUME NEW i \in 1..n
      PROVE  /\ p \o <<1, i>> = Append(Append(p, 1), i) /\ Append(Append(p, 1), i) \in Seq(Nat)
             /\ At(tree, Append(Append(p, 1), i)) = decls.kids[i]
             /\ InHead(Append(Append(p, 1), i))
  <2>1. i \in Nat
    BY <1>4
  <2>2. Append(Append(p, 1), i) \in Seq(Nat) /\ Append(Append(p, 1), i) # <<>>
    BY <1>5, <2>1, AppendProperties
  <2>3. At(tree, Append(Append(p, 1), i)) = decls.kids[i]
    BY <1>5, <2>1, AtAppended
  <2>4. p \o <<1, i>> = Append(Append(p, 1), i)
    <3>1. <<1>> \in Seq(Nat) /\ <<i>> \in Seq(Nat) /\ <<1, i>> = <<1>> \o <<i>>
      BY <2>1
    <3>2. Append(p, 1) = p \o <<1>> /\ Append(Append(p, 1), i) = Append(p, 1) \o <<i>>
      BY <1>1, <1>5, <2>1, AppendIsConcat
    <3>3. (p \o <<1>>) \o <<i>> = p \o (<<1>> \o <<i>>)
      BY <1>1, <3>1, ConcatAssociative
    <3> QED
      BY <3>1, <3>2, <3>3
  <2>5. Front(Append(Append(p, 1), i)) = Append(p, 1)
    <3>1. \A r \in Seq(Nat) : \A e \in Nat : Front(Append(r, e)) = r
      BY DEF Front
    <3> QED
      BY <1>5, <2>1, <3>1
  <2>6. InHead(Append(Append(p, 1), i))
    BY <1>2, <1>5, <2>2, <2>5 DEF InHead
  <2> QED
    BY <2>2, <2>3, <2>4, <2>6
<1>7. H = [i \in 1..n |-> p \o <<1, i>>]
  BY <1>4 DEF HandleDeclStmt
<1>8. H \in Seq(Paths) /\ Len(H) = n
  <2>1. \A i \in 1..n : p \o <<1, i>> \in Paths
    BY <1>6 DEF Paths
  <2>2. H \in [1..n -> Paths]
    BY <1>7, <2>1
  <2>3. H \in Seq(Paths)
    BY <1>4, <2>2
  <2>4. DOMAIN H = 1..Len(H) /\ Len(H) \in Nat
    BY <2>3, LenProperties
  <2>5. DOMAIN H = 1..n
    BY <2>2
  <2>6. Len(H) = n
    <3> HIDE DEF H
    <3>1. n \in Nat /\ Len(H) \in Nat /\ 1..Len(H) = 1..n
      BY <1>4, <2>4, <2>5
    <3> QED
      BY <3>1
  <2> QED
    BY <2>3, <2>6
<1>9. \A i \in 1..n : H[i] = Append(Append(p, 1), i)
  BY <1>6, <1>7
<1> QED
  BY <1>1, <1>2, <1>4, <1>5, <1>6, <1>8, <1>9 DEF decls, n, Paths

(* The loop over the nodes in visiting order.                              *)
Stacks == [suppressed : Seq(Paths), found : SUBSET Paths]

LEMMA VisitIs ==
    ASSUME IsOfNames(tree), NEW state \in Stacks, NEW p \in Positions(tree)
    PROVE  Visit(state, p) \in Stacks
<1>1. p \in Paths
  BY PositionsAre DEF IsOfNames, Paths
<1>2. CASE Is(At(tree, p), Heads)
  <2>1. HandleDeclStmt(p, At(tree, p).kids[1].kids) \in Seq(Paths)
    BY <1>2, HeadIs
  <2>2. Visit(state, p) = [state EXCEPT !.suppressed = HandleDeclStmt(p, At(tree, p).kids[1].kids)]
    BY <1>2 DEF Visit, VisitHead
  <2> QED
    BY <2>1, <2>2 DEF Stacks
<1>3. CASE ~Is(At(tree, p), Heads)
  <2>1. Visit(state, p) = VisitVarDecl(state, p)
    BY <1>3 DEF Visit
  <2>2. CASE ~Is(At(tree, p), {"short"})
    BY <2>1, <2>2 DEF VisitVarDecl
  <2>3. CASE Is(At(tree, p), {"short"}) /\ state.suppressed = <<>>
    <3>1. Visit(state, p) = [state EXCEPT !.found = @ \cup {p}]
      BY <2>1, <2>3 DEF VisitVarDecl
    <3> QED
      BY <1>1, <3>1 DEF Stacks
  <2>4. CASE Is(At(tree, p), {"short"}) /\ state.suppressed # <<>>
    <3>1. state.suppressed \in Seq(Paths) /\ state.found \in SUBSET Paths
      BY DEF Stacks
    <3>2. Tail(state.suppressed) \in Seq(Paths)
      BY <2>4, <3>1, HeadTailProperties
    <3>3. Visit(state, p) =
            [suppressed |-> Tail(state.suppressed),
             found |-> IF Head(state.suppressed) = p THEN state.found ELSE state.found \cup {p}]
      BY <2>1, <2>4 DEF VisitVarDecl
    <3> QED
      BY <1>1, <3>1, <3>2, <3>3 DEF Stacks
  <2> QED
    BY <2>2, <2>3, <2>4
<1> QED
  BY <1>2, <1>3

(* The states of the loop, one before each visit and one at the end.       *)
IsLoop(after, left) ==
    LET visits == PreorderPositions(tree)
    IN /\ ShortVariableName(left) = after[Len(visits)].found
       /\ after[0] = [suppressed |-> left, found |-> {}]
       /\ \A i \in 0..Len(visits) : after[i] \in Stacks
       /\ \A i \in 1..Len(visits) : after[i] = Visit(after[i - 1], visits[i])

(* ShortVariableName makes such a loop.                                    *)
LEMMA ShortVariableNameIs ==
    ASSUME IsOfNames(tree), NEW left \in Seq(Paths)
    PROVE  \E after : IsLoop(after, left)
<1> DEFINE visits == PreorderPositions(tree)
           N == Len(visits)
           first == [suppressed |-> left, found |-> {}]
           Unfolded(f) == [i \in 0..N |-> IF i = 0 THEN first ELSE Visit(f[i - 1], visits[i])]
           after == CHOOSE f : f = Unfolded(f)
           G == [i \in 1..N |-> [last \in Stacks |-> Visit(last, visits[i])]]
<1>1. N \in Nat /\ \A i \in 1..N : visits[i] \in Positions(tree)
  <2>1. InOrder(tree, visits)
    BY PreorderInOrder DEF IsOfNames
  <2>2. visits \in Seq(Paths) /\ ToSet(visits) = Positions(tree)
    BY <2>1 DEF InOrder
  <2>3. N \in Nat /\ DOMAIN visits = 1..N
    BY <2>2, LenProperties
  <2> QED
    BY <2>2, <2>3 DEF ToSet
<1>2. ShortVariableName(left) = after[N].found
  BY DEF ShortVariableName
<1> HIDE DEF visits, N
<1>3. G \in [1..N -> [Stacks -> Stacks]]
  BY <1>1, VisitIs
<1>4. first \in Stacks
  BY DEF Stacks
<1> HIDE DEF first
<1>5. PICK h : IsRecursion(h, Stacks, first, N, G)
  <2> HIDE DEF G
  <2> QED
    BY <1>1, <1>3, <1>4, RecursionExists
<1>6. /\ h \in [0..N -> Stacks] /\ h[0] = first
      /\ \A i \in 1..N : h[i - 1] \in Stacks /\ h[i] = Visit(h[i - 1], visits[i])
  <2>1. h \in [0..N -> Stacks] /\ h[0] = first /\ \A i \in 1..N : h[i] = G[i][h[i - 1]]
    BY <1>5 DEF IsRecursion
  <2>2. \A i \in 1..N : i - 1 \in 0..N
    BY <1>1
  <2>3. \A i \in 1..N : h[i - 1] \in Stacks
    BY <2>1, <2>2
  <2> QED
    BY <2>1, <2>3
<1> HIDE DEF G
<1>7. h = Unfolded(h)
  <2>1. \A i \in 0..N : i = 0 \/ i \in 1..N
    BY <1>1
  <2>2. \A i \in 0..N : h[i] = IF i = 0 THEN first ELSE Visit(h[i - 1], visits[i])
    BY <1>6, <2>1
  <2> QED
    BY <1>6, <2>2
<1>8. after = Unfolded(after)
  <2> HIDE DEF Unfolded
  <2> QED
    BY <1>7
<1> HIDE DEF after
<1>9. after[0] = first /\ \A i \in 1..N : after[i] = Visit(after[i - 1], visits[i])
  <2>1. 0 \in 0..N /\ \A i \in 1..N : i \in 0..N /\ i # 0
    BY <1>1
  <2> QED
    BY <1>8, <2>1
<1> DEFINE T == {i \in 0..N : after[i] = h[i]}
<1>10. 0 \in T
  BY <1>1, <1>6, <1>9
<1>11. ASSUME NEW i \in T, i < N PROVE i + 1 \in T
  <2>1. i + 1 \in 1..N /\ i + 1 \in 0..N /\ (i + 1) - 1 = i
    BY <1>1, <1>11
  <2> QED
    BY <1>6, <1>9, <2>1
<1>12. T = 0..N
  <2>1. T \in SUBSET (0..N)
    OBVIOUS
  <2> HIDE DEF T
  <2> QED
    BY <1>1, <1>10, <1>11, <2>1, BoundedInduction
<1>13. \A i \in 0..N : after[i] \in Stacks
  BY <1>6, <1>12
<1> QED
  BY <1>2, <1>9, <1>13 DEF IsLoop, visits, N, first

(* What is on the stack was there before the unit or stands in a head, so  *)
(* a short name elsewhere is found unless it was there before.             *)
LEMMA OthersAreFound ==
    ASSUME IsOfNames(tree), NEW left \in Seq(Paths), NEW p \in Positions(tree),
           Is(At(tree, p), {"short"}), ~InHead(p), p \notin ToSet(left)
    PROVE  p \in ShortVariableName(left)
<1> DEFINE visits == PreorderPositions(tree)
           N == Len(visits)
<1>1. PICK after : IsLoop(after, left)
  BY ShortVariableNameIs
<1>2. /\ ShortVariableName(left) = after[N].found
      /\ after[0] = [suppressed |-> left, found |-> {}]
      /\ \A i \in 0..N : after[i] \in Stacks
      /\ \A i \in 1..N : after[i] = Visit(after[i - 1], visits[i])
  BY <1>1 DEF IsLoop
<1>3. visits \in Seq(Paths) /\ N \in Nat /\ DOMAIN visits = 1..N /\ ToSet(visits) = Positions(tree)
  <2>1. InOrder(tree, visits)
    BY PreorderInOrder DEF IsOfNames
  <2>2. visits \in Seq(Paths) /\ ToSet(visits) = Positions(tree)
    BY <2>1 DEF InOrder
  <2> QED
    BY <2>2, LenProperties
<1> HIDE DEF visits, N
<1>4. \A i \in 1..N : visits[i] \in Positions(tree)
  BY <1>3 DEF ToSet
<1> DEFINE Known(s) == \A e \in ToSet(s) : e \in ToSet(left) \/ InHead(e)
           T == {i \in 0..N :
                   /\ Known(after[i].suppressed)
                   /\ \A j \in 1..i : visits[j] = p => p \in after[i].found}
<1>5. 0 \in T
  BY <1>2, <1>3
<1>6. ASSUME NEW i \in T, i < N PROVE i + 1 \in T
  <2> DEFINE s == after[i]
             q == visits[i + 1]
  <2>1. i + 1 \in 1..N /\ i + 1 \in 0..N /\ (i + 1) - 1 = i /\ i \in 0..N
    BY <1>3, <1>6
  <2>2. after[i + 1] = Visit(s, q) /\ s \in Stacks /\ q \in Positions(tree)
    BY <1>2, <1>4, <2>1
  <2>3. Known(s.suppressed) /\ \A j \in 1..i : visits[j] = p => p \in s.found
    BY <1>6
  <2>4. s.suppressed \in Seq(Paths)
    BY <2>2 DEF Stacks
  <2> HIDE DEF Known, s
  <2>5. CASE Is(At(tree, q), Heads)
    <3> DEFINE H == HandleDeclStmt(q, At(tree, q).kids[1].kids)
    <3>1. Visit(s, q) = [s EXCEPT !.suppressed = H]
      BY <2>5 DEF Visit, VisitHead
    <3>2. Visit(s, q).suppressed = H /\ Visit(s, q).found = s.found
      BY <2>2, <3>1 DEF Stacks
    <3>3. q # p
      BY <2>5 DEF Is, Heads
    <3>4. Known(H)
      <4>1. /\ H \in Seq(Paths)
            /\ \A e \in 1..Len(H) : InHead(H[e])
        <5> DEFINE n == Len(At(tree, q).kids[1].kids)
        <5>1. /\ H \in Seq(Paths) /\ Len(H) = n
              /\ \A e \in 1..n : H[e] = Append(Append(q, 1), e) /\ InHead(Append(Append(q, 1), e))
          BY <2>2, <2>5, HeadIs
        <5> HIDE DEF H, n
        <5> QED
          BY <5>1
      <4>2. DOMAIN H = 1..Len(H)
        BY <4>1, LenProperties
      <4> HIDE DEF H
      <4> QED
        BY <4>1, <4>2 DEF Known, ToSet
    <3>5. \A j \in 1..(i + 1) : visits[j] = p => j \in 1..i
      BY <2>1, <3>3
    <3> HIDE DEF H
    <3> QED
      BY <2>1, <2>2, <2>3, <3>2, <3>4, <3>5
  <2>6. CASE ~Is(At(tree, q), Heads)
    <3>1. Visit(s, q) = VisitVarDecl(s, q)
      BY <2>6 DEF Visit
    <3>2. \A j \in 1..(i + 1) : j \in 1..i \/ j = i + 1
      BY <2>1
    <3>3. CASE ~Is(At(tree, q), {"short"})
      <4>1. Visit(s, q) = s /\ q # p
        BY <3>1, <3>3 DEF VisitVarDecl
      <4> QED
        BY <2>1, <2>2, <2>3, <3>2, <4>1
    <3>4. CASE Is(At(tree, q), {"short"}) /\ s.suppressed = <<>>
      <4>1. Visit(s, q) = [s EXCEPT !.found = @ \cup {q}]
        BY <3>1, <3>4 DEF VisitVarDecl
      <4>2. Visit(s, q).suppressed = s.suppressed /\ Visit(s, q).found = s.found \cup {q}
        BY <2>2, <4>1 DEF Stacks
      <4> QED
        BY <2>1, <2>2, <2>3, <3>2, <4>2
    <3>5. CASE Is(At(tree, q), {"short"}) /\ s.suppressed # <<>>
      <4>1. /\ Visit(s, q).suppressed = Tail(s.suppressed)
            /\ Visit(s, q).found = IF Head(s.suppressed) = q THEN s.found ELSE s.found \cup {q}
        BY <3>1, <3>5 DEF VisitVarDecl
      <4>2. Head(s.suppressed) \in ToSet(s.suppressed) /\ ToSet(Tail(s.suppressed)) \subseteq ToSet(s.suppressed)
        <5>1. /\ Tail(s.suppressed) \in Seq(Paths) /\ Len(Tail(s.suppressed)) = Len(s.suppressed) - 1
              /\ \A e \in 1..Len(Tail(s.suppressed)) : Tail(s.suppressed)[e] = s.suppressed[e + 1]
          BY <2>4, <3>5, HeadTailProperties
        <5>2. DOMAIN s.suppressed = 1..Len(s.suppressed) /\ Len(s.suppressed) \in Nat /\ Len(s.suppressed) # 0
          BY <2>4, <3>5, LenProperties, EmptySeq
        <5>3. DOMAIN Tail(s.suppressed) = 1..(Len(s.suppressed) - 1)
          BY <5>1, LenProperties
        <5>4. Head(s.suppressed) = s.suppressed[1] /\ 1 \in DOMAIN s.suppressed
          BY <2>4, <3>5, <5>2
        <5>5. \A e \in 1..(Len(s.suppressed) - 1) : e + 1 \in DOMAIN s.suppressed
          BY <5>2
        <5> QED
          BY <5>1, <5>3, <5>4, <5>5 DEF ToSet
      <4>3. Known(Tail(s.suppressed))
        BY <2>3, <4>2 DEF Known
      <4>4. q = p => Head(s.suppressed) # q
        BY <2>3, <4>2 DEF Known
      <4> QED
        BY <2>1, <2>2, <2>3, <3>2, <4>1, <4>3, <4>4
    <3> QED
      BY <3>3, <3>4, <3>5
  <2> QED
    BY <2>5, <2>6
<1>7. T = 0..N
  <2>1. T \in SUBSET (0..N)
    OBVIOUS
  <2> HIDE DEF T
  <2> QED
    BY <1>3, <1>5, <1>6, <2>1, BoundedInduction
<1>8. PICK j \in 1..N : visits[j] = p
  BY <1>3 DEF ToSet
<1>9. N \in T
  BY <1>3, <1>7
<1> QED
  BY <1>2, <1>8, <1>9

(* What is found was visited when something else was on top.               *)
LEMMA FoundAre ==
    ASSUME IsOfNames(tree), NEW left \in Seq(Paths), NEW after, IsLoop(after, left),
           NEW p \in ShortVariableName(left)
    PROVE  \E j \in 1..Len(PreorderPositions(tree)) :
             /\ PreorderPositions(tree)[j] = p
             /\ after[j - 1].suppressed # <<>> => Head(after[j - 1].suppressed) # p
<1> DEFINE visits == PreorderPositions(tree)
           N == Len(visits)
           Strange(j) == after[j - 1].suppressed # <<>> => Head(after[j - 1].suppressed) # p
<1>1. /\ ShortVariableName(left) = after[N].found
      /\ after[0] = [suppressed |-> left, found |-> {}]
      /\ \A i \in 0..N : after[i] \in Stacks
      /\ \A i \in 1..N : after[i] = Visit(after[i - 1], visits[i])
  BY DEF IsLoop
<1>2. N \in Nat
  <2>1. visits \in Seq(Paths)
    BY PreorderIs DEF IsOfNames
  <2> QED
    BY <2>1, LenProperties
<1> HIDE DEF visits, N
<1> DEFINE T == {i \in 0..N : p \in after[i].found => \E j \in 1..i : visits[j] = p /\ Strange(j)}
<1>3. 0 \in T
  BY <1>1, <1>2
<1>4. ASSUME NEW i \in T, i < N PROVE i + 1 \in T
  <2> DEFINE s == after[i]
             q == visits[i + 1]
  <2>1. i + 1 \in 1..N /\ i + 1 \in 0..N /\ (i + 1) - 1 = i /\ i \in 0..N /\ 1..i \subseteq 1..(i + 1) /\ i + 1 \in 1..(i + 1)
    BY <1>2, <1>4
  <2>2. after[i + 1] = Visit(s, q) /\ s \in Stacks
    BY <1>1, <2>1
  <2> SUFFICES ASSUME p \in after[i + 1].found PROVE \E j \in 1..(i + 1) : visits[j] = p /\ Strange(j)
    BY <2>1
  <2>3. CASE p \in s.found
    BY <1>4, <2>1, <2>3
  <2>4. CASE p \notin s.found
    <3>1. q = p /\ (s.suppressed # <<>> => Head(s.suppressed) # q)
      <4>1. Visit(s, q) = IF Is(At(tree, q), Heads) THEN VisitHead(s, q) ELSE VisitVarDecl(s, q)
        BY DEF Visit
      <4>2. VisitHead(s, q).found = s.found
        BY <2>2 DEF VisitHead, Stacks
      <4>3. VisitVarDecl(s, q) = s \/ Is(At(tree, q), {"short"})
        BY DEF VisitVarDecl
      <4>4. CASE s.suppressed = <<>> /\ Is(At(tree, q), {"short"})
        <5>1. VisitVarDecl(s, q).found = s.found \cup {q}
          BY <2>2, <4>4 DEF VisitVarDecl, Stacks
        <5> QED
          BY <2>2, <2>4, <4>1, <4>2, <4>4, <5>1
      <4>5. CASE s.suppressed # <<>> /\ Is(At(tree, q), {"short"})
        <5>1. VisitVarDecl(s, q).found = IF Head(s.suppressed) = q THEN s.found ELSE s.found \cup {q}
          BY <4>5 DEF VisitVarDecl
        <5> QED
          BY <2>2, <2>4, <4>1, <4>2, <5>1
      <4> QED
        BY <2>2, <2>4, <4>1, <4>2, <4>3, <4>4, <4>5
    <3>2. visits[i + 1] = p /\ Strange(i + 1)
      BY <2>1, <3>1
    <3> QED
      BY <2>1, <3>2
  <2> QED
    BY <2>3, <2>4
<1>5. T = 0..N
  <2>1. T \in SUBSET (0..N)
    OBVIOUS
  <2> HIDE DEF T
  <2> QED
    BY <1>2, <1>3, <1>4, <2>1, BoundedInduction
<1>6. N \in T
  BY <1>2, <1>5
<1>7. \E j \in 1..N : visits[j] = p /\ Strange(j)
  BY <1>1, <1>6
<1> QED
  BY <1>7 DEF visits, N

(* Sequences that have elements.                                           *)
LEMMA NotEmpty ==
    ASSUME NEW S, NEW s \in Seq(S), Len(s) # 0
    PROVE  s # <<>>
BY EmptySeq

(* The variables of a head in which all are short come one after the       *)
(* other behind it, each on top of the stack when it is its turn.          *)
LEMMA HeadsAreExempt ==
    ASSUME IsOfNames(tree), NEW left \in Seq(Paths), NEW p \in Positions(tree), Is(At(tree, p), Heads),
           \A i \in DOMAIN At(tree, p).kids[1].kids : At(tree, p).kids[1].kids[i] = Leaf("short"),
           NEW i \in DOMAIN At(tree, p).kids[1].kids
    PROVE  p \o <<1, i>> \notin ShortVariableName(left)
<1> DEFINE visits == PreorderPositions(tree)
           N == Len(visits)
           decls == At(tree, p).kids[1]
           n == Len(decls.kids)
           H == HandleDeclStmt(p, decls.kids)
           d == Append(p, 1)
<1>1. /\ p \in Paths /\ n \in Nat /\ DOMAIN decls.kids = 1..n
      /\ d \in Paths /\ At(tree, d) = decls /\ Is(decls, {"decls"})
      /\ H \in Seq(Paths) /\ Len(H) = n
      /\ \A e \in 1..n :
           H[e] = Append(d, e) /\ p \o <<1, e>> = Append(d, e) /\ At(tree, Append(d, e)) = decls.kids[e]
  BY HeadIs
<1>2. PICK after : IsLoop(after, left)
  BY ShortVariableNameIs
<1>3. /\ \A e \in 0..N : after[e] \in Stacks
      /\ \A e \in 1..N : after[e] = Visit(after[e - 1], visits[e])
  BY <1>2 DEF IsLoop
<1>4. /\ visits \in Seq(Paths) /\ N \in Nat
      /\ \A j \in 1..N : \A r \in Paths : visits[j] = Append(r, 1) => j > 1 /\ visits[j - 1] = r
      /\ \A j \in 1..N : \A r \in Paths : \A e \in Nat :
           e > 0 /\ visits[j] = Append(r, e + 1) /\ At(tree, Append(r, e)).kids = <<>>
             => j > 1 /\ visits[j - 1] = Append(r, e)
  <2>1. InOrder(tree, visits)
    BY PreorderInOrder DEF IsOfNames
  <2>2. visits \in Seq(Paths) /\ Preceded(tree, visits)
    BY <2>1 DEF InOrder
  <2> QED
    BY <2>2, LenProperties DEF Preceded
<1>5. \A e \in 1..n : At(tree, Append(d, e)) = Leaf("short")
  BY <1>1
<1> HIDE DEF visits, N, n, H, d
<1>6. \A e \in 1..n : Is(At(tree, Append(d, e)), {"short"}) /\ At(tree, Append(d, e)).kids = <<>>
  BY <1>5 DEF Leaf, Node, Is
<1> DEFINE Ready(e) == \A j \in 1..N : visits[j] = Append(d, e) => after[j - 1].suppressed = SubSeq(H, e, n)
           T == {e \in 0..n : e = 0 \/ Ready(e)}
<1>7. 0 \in T
  BY <1>1
<1>8. ASSUME n > 0 PROVE Ready(1)
  <2> SUFFICES ASSUME NEW j \in 1..N, visits[j] = Append(d, 1)
               PROVE  after[j - 1].suppressed = SubSeq(H, 1, n)
    OBVIOUS
  <2>1. j > 1 /\ visits[j - 1] = d
    BY <1>1, <1>4
  <2>2. j - 1 \in 1..N
    BY <1>4, <2>1
  <2>3. j - 1 > 1 /\ visits[(j - 1) - 1] = p
    BY <1>1, <1>4, <2>1, <2>2 DEF d
  <2>4. (j - 1) - 1 \in 1..N /\ ((j - 1) - 1) - 1 \in 0..N /\ (j - 1) - 1 \in 0..N
    BY <1>4, <2>2, <2>3
  <2>5. after[(j - 1) - 1].suppressed = H
    <3> DEFINE s == after[((j - 1) - 1) - 1]
    <3>1. after[(j - 1) - 1] = Visit(s, p) /\ s \in Stacks
      BY <1>3, <2>3, <2>4
    <3> HIDE DEF s
    <3>2. Visit(s, p) = [s EXCEPT !.suppressed = H]
      BY DEF Visit, VisitHead, H
    <3> QED
      BY <3>1, <3>2 DEF Stacks
  <2>6. after[j - 1] = after[(j - 1) - 1]
    <3>1. after[j - 1] = Visit(after[(j - 1) - 1], d)
      BY <1>3, <2>1, <2>2
    <3>2. ~Is(At(tree, d), Heads) /\ ~Is(At(tree, d), {"short"})
      BY <1>1 DEF Is, Heads
    <3> QED
      BY <3>1, <3>2 DEF Visit, VisitVarDecl
  <2> QED
    BY <1>1, <2>5, <2>6, SubSeqFull
<1>9. ASSUME NEW e \in T, e < n PROVE e + 1 \in T
  <2>1. CASE e = 0
    BY <1>1, <1>8, <1>9, <2>1
  <2>2. CASE e # 0
    <3>1. e \in 1..n /\ e \in Nat /\ e > 0 /\ e + 1 \in 0..n /\ Ready(e)
      BY <1>1, <1>9, <2>2
    <3>2. ASSUME NEW j \in 1..N, visits[j] = Append(d, e + 1)
          PROVE  after[j - 1].suppressed = SubSeq(H, e + 1, n)
      <4>1. j > 1 /\ visits[j - 1] = Append(d, e)
        BY <1>1, <1>4, <1>6, <3>1, <3>2
      <4>2. j - 1 \in 1..N /\ (j - 1) - 1 \in 0..N
        BY <1>4, <4>1
      <4> DEFINE s == after[(j - 1) - 1]
      <4>3. after[j - 1] = Visit(s, Append(d, e)) /\ s.suppressed = SubSeq(H, e, n)
        BY <1>3, <3>1, <4>1, <4>2
      <4> HIDE DEF s
      <4>4. Head(SubSeq(H, e, n)) = H[e] /\ Tail(SubSeq(H, e, n)) = SubSeq(H, e + 1, n)
        <5>1. e \in 1..Len(H) /\ n \in e..Len(H)
          BY <1>1, <3>1
        <5> QED
          BY <1>1, <5>1, HeadTailOfSubSeq
      <4>5. SubSeq(H, e, n) # <<>>
        <5>1. n \in Int /\ e \in Int /\ e <= n /\ \A k \in e..n : H[k] \in Paths
          BY <1>1, <3>1, ElementOfSeq
        <5>2. Len(SubSeq(H, e, n)) = n - e + 1
          BY <5>1, SubSeqProperties
        <5> DEFINE rest == SubSeq(H, e, n)
        <5>3. rest \in Seq(Paths) /\ Len(rest) # 0
          BY <5>1, <5>2, SubSeqProperties
        <5> HIDE DEF rest
        <5>4. rest # <<>>
          BY <5>3, NotEmpty
        <5> QED
          BY <5>4 DEF rest
      <4>6. Is(At(tree, Append(d, e)), {"short"}) /\ ~Is(At(tree, Append(d, e)), Heads)
        BY <1>6, <3>1 DEF Is, Heads
      <4>7. Visit(s, Append(d, e)).suppressed = Tail(s.suppressed)
        BY <4>3, <4>5, <4>6 DEF Visit, VisitVarDecl
      <4> QED
        BY <4>3, <4>4, <4>7
    <3> QED
      BY <3>1, <3>2
  <2> QED
    BY <2>1, <2>2
<1>10. T = 0..n
  <2>1. T \in SUBSET (0..n)
    OBVIOUS
  <2> HIDE DEF T
  <2> QED
    BY <1>1, <1>7, <1>9, <2>1, BoundedInduction
<1>11. i \in 1..n /\ Ready(i)
  <2>1. i \in 1..n /\ i # 0 /\ i \in 0..n
    BY <1>1
  <2>2. i \in T
    BY <1>10, <2>1
  <2> QED
    BY <2>1, <2>2
<1> SUFFICES ASSUME Append(d, i) \in ShortVariableName(left) PROVE FALSE
  BY <1>1, <1>11
<1>12. PICK j \in 1..N : /\ visits[j] = Append(d, i)
                         /\ after[j - 1].suppressed # <<>> => Head(after[j - 1].suppressed) # Append(d, i)
  <2> DEFINE q == Append(d, i)
  <2>1. q \in ShortVariableName(left)
    OBVIOUS
  <2> HIDE DEF q
  <2>2. \E j \in 1..N : visits[j] = q /\ (after[j - 1].suppressed # <<>> => Head(after[j - 1].suppressed) # q)
    <3>1. IsLoop(after, left)
      BY <1>2
    <3>2. \E j \in 1..Len(PreorderPositions(tree)) :
             /\ PreorderPositions(tree)[j] = q
             /\ after[j - 1].suppressed # <<>> => Head(after[j - 1].suppressed) # q
      BY <2>1, <3>1, FoundAre
    <3> QED
      BY <3>2 DEF visits, N
  <2> QED
    BY <2>2 DEF q
<1>13. after[j - 1].suppressed = SubSeq(H, i, n)
  BY <1>11, <1>12
<1>14. i \in 1..Len(H) /\ n \in i..Len(H)
  BY <1>1, <1>11
<1>15. Head(SubSeq(H, i, n)) = H[i]
  BY <1>1, <1>14, HeadTailOfSubSeq
<1>16. SubSeq(H, i, n) # <<>>
  <2>1. n \in Int /\ i \in Int /\ i <= n /\ \A k \in i..n : H[k] \in Paths
    BY <1>1, <1>14, ElementOfSeq
  <2>2. Len(SubSeq(H, i, n)) = n - i + 1
    BY <2>1, SubSeqProperties
  <2> DEFINE rest == SubSeq(H, i, n)
  <2>3. rest \in Seq(Paths) /\ Len(rest) # 0
    BY <2>1, <2>2, SubSeqProperties
  <2> HIDE DEF rest
  <2>4. rest # <<>>
    BY <2>3, NotEmpty
  <2> QED
    BY <2>4 DEF rest
<1> QED
  BY <1>1, <1>11, <1>12, <1>13, <1>15, <1>16

-----------------------------------------------------------------------------
(***************************************************************************)
(* The invariant: what has been reported was found from some stack that    *)
(* earlier units left, and a rule that has flown has reported all it found. *)
(***************************************************************************)
NamesMade ==
    /\ At_("ShortVariableName") \subseteq UNION {ShortVariableName(left) : left \in LeftByEarlierUnits}
    /\ HasFlown("ShortVariableName") =>
         \E left \in LeftByEarlierUnits : ShortVariableName(left) \subseteq At_("ShortVariableName")
    /\ HasFlown("LongVariableName") => LongVariableName \subseteq At_("LongVariableName")

(* What is found depends on the tree and on the stack before, on nothing   *)
(* else that a step may change.                                            *)
FoundIn(t, left) ==
    LET visits == PreorderPositions(t)
        after[i \in 0..Len(visits)] ==
            IF i = 0 THEN [suppressed |-> left, found |-> {}]
            ELSE LET last == after[i - 1]
                     p == visits[i]
                 IN IF Is(At(t, p), Heads) THEN [last EXCEPT !.suppressed = HandleDeclStmt(p, At(t, p).kids[1].kids)]
                    ELSE IF ~Is(At(t, p), {"short"}) THEN last
                    ELSE IF last.suppressed = <<>> THEN [last EXCEPT !.found = @ \cup {p}]
                    ELSE [suppressed |-> Tail(last.suppressed),
                          found |-> IF Head(last.suppressed) = p THEN last.found ELSE last.found \cup {p}]
    IN after[Len(visits)].found

LEMMA SameIsFound ==
    ASSUME tree' = tree, NEW left
    PROVE  ShortVariableName(left)' = ShortVariableName(left)
<1>1. ShortVariableName(left) = FoundIn(tree, left)
  BY Zenon DEF ShortVariableName, FoundIn, Visit, VisitHead, VisitVarDecl
<1>2. ShortVariableName(left)' = FoundIn(tree', left)
  BY Zenon DEF ShortVariableName, FoundIn, Visit, VisitHead, VisitVarDecl
<1> QED
  BY <1>1, <1>2

(* Every step keeps it, whatever the other rules report or crash on.       *)
LEMMA NamesFlightStep ==
    InFlight /\ NamesMade /\ [NamingRuleFlies \/ AnotherFlies(NamingRuleNames) \/ Rest]_vars
        => InFlight' /\ NamesMade'
<1> SUFFICES ASSUME InFlight, NamesMade, [NamingRuleFlies \/ AnotherFlies(NamingRuleNames) \/ Rest]_vars
             PROVE  InFlight' /\ NamesMade'
  OBVIOUS
<1>1. rules' = rules /\ tree' = tree
  BY DEF NamingRuleFlies, AnotherFlies, Rest, Report, vars
<1>2. /\ \A left : ShortVariableName(left)' = ShortVariableName(left)
      /\ LongVariableName' = LongVariableName
      /\ LeftByEarlierUnits' = LeftByEarlierUnits
  <2>1. \A left : ShortVariableName(left)' = ShortVariableName(left)
    BY <1>1, SameIsFound
  <2>2. LongVariableName' = LongVariableName
    BY <1>1 DEF LongVariableName
  <2>3. LeftByEarlierUnits' = LeftByEarlierUnits
    BY <1>1 DEF LeftByEarlierUnits
  <2> QED
    BY <2>1, <2>2, <2>3
<1>3. InFlight'
  <2>1. PICK flight \in Flights : rules = flight.rules /\ tree \in flight.trees
    BY DEF InFlight
  <2>2. Len(rules) \in Nat /\ flown \in 0..Len(rules)
    BY <2>1, FlightsAssumption, LenProperties DEF InFlight
  <2>3. flown' = flown \/ (flown' = flown + 1 /\ flown < Len(rules))
    BY DEF NamingRuleFlies, AnotherFlies, Rest, Report, vars, Aloft
  <2> QED
    BY <1>1, <2>1, <2>2, <2>3 DEF InFlight
<1> DEFINE S == UNION {ShortVariableName(left) : left \in LeftByEarlierUnits}
<1>4. S' = S
  BY <1>2
<1> HIDE DEF S
<1>5. /\ At_("ShortVariableName")' \subseteq S
      /\ HasFlown("ShortVariableName")' =>
           \E left \in LeftByEarlierUnits : ShortVariableName(left) \subseteq At_("ShortVariableName")'
      /\ HasFlown("LongVariableName")' => LongVariableName \subseteq At_("LongVariableName")'
  <2>1. /\ At_("ShortVariableName") \subseteq S
        /\ HasFlown("ShortVariableName") =>
             \E left \in LeftByEarlierUnits : ShortVariableName(left) \subseteq At_("ShortVariableName")
        /\ HasFlown("LongVariableName") => LongVariableName \subseteq At_("LongVariableName")
    BY DEF NamesMade, S
  <2>2. CASE Rest \/ UNCHANGED vars
    <3>1. flown' = flown /\ reported' = reported
      BY <2>2 DEF Rest, vars
    <3>2. \A rule : At_(rule)' = At_(rule) /\ (HasFlown(rule)' <=> HasFlown(rule))
      BY <1>1, <3>1 DEF HasFlown, At_
    <3> QED
      BY <2>1, <3>2
  <2>3. CASE AnotherFlies(NamingRuleNames)
    <3>1. \A rule \in NamingRuleNames : At_(rule)' = At_(rule)
      BY <2>3, ReportedByAnother
    <3>2. Turn \notin NamingRuleNames /\ Aloft /\ (flown' = flown \/ flown' = flown + 1)
      BY <2>3 DEF AnotherFlies
    <3>3. ASSUME NEW rule \in NamingRuleNames PROVE HasFlown(rule)' <=> HasFlown(rule)
      <4>1. CASE flown' = flown + 1
        BY <1>1, <3>2, <4>1, OneMoreHasFlown
      <4>2. CASE flown' = flown
        BY <1>1, <4>2 DEF HasFlown
      <4> QED
        BY <3>2, <4>1, <4>2
    <3> QED
      BY <2>1, <3>1, <3>3 DEF NamingRuleNames
  <2>4. CASE NamingRuleFlies
    <3>1. PICK places : /\ Aloft /\ Report(places)
                        /\ \/ /\ Turn = "ShortVariableName"
                              /\ \E left \in LeftByEarlierUnits : places = ShortVariableName(left)
                           \/ Turn = "LongVariableName" /\ places = LongVariableName
      BY <2>4 DEF NamingRuleFlies
    <3>2. flown' = flown + 1
      BY <3>1 DEF Report
    <3>3. \A rule : At_(rule)' = At_(rule) \cup (IF rule = Turn THEN places ELSE {})
      BY <3>1, ReportedBy
    <3>4. \A rule : HasFlown(rule)' <=> HasFlown(rule) \/ rule = Turn
      BY <1>1, <3>1, <3>2, OneMoreHasFlown
    <3>5. CASE Turn = "ShortVariableName"
      <4>1. PICK left \in LeftByEarlierUnits : places = ShortVariableName(left)
        BY <3>1, <3>5
      <4>2. places \subseteq S
        BY <4>1, Zenon DEF S
      <4>3. /\ At_("ShortVariableName")' = At_("ShortVariableName") \cup places
            /\ At_("LongVariableName")' = At_("LongVariableName")
            /\ HasFlown("LongVariableName")' <=> HasFlown("LongVariableName")
        BY <3>3, <3>4, <3>5
      <4> QED
        BY <2>1, <4>1, <4>2, <4>3
    <3>6. CASE Turn = "LongVariableName"
      <4>1. /\ At_("ShortVariableName")' = At_("ShortVariableName")
            /\ At_("LongVariableName")' = At_("LongVariableName") \cup places
            /\ HasFlown("ShortVariableName")' <=> HasFlown("ShortVariableName")
            /\ places = LongVariableName
        BY <3>1, <3>3, <3>4, <3>6
      <4> QED
        BY <2>1, <4>1
    <3> QED
      BY <3>1, <3>5, <3>6
  <2> QED
    BY <2>2, <2>3, <2>4
<1>6. NamesMade'
  <2>1. At_("ShortVariableName")' \subseteq S'
    BY <1>4, <1>5
  <2>2. (\E left \in LeftByEarlierUnits : ShortVariableName(left) \subseteq At_("ShortVariableName"))'
          <=> \E left \in LeftByEarlierUnits : ShortVariableName(left) \subseteq At_("ShortVariableName")'
    BY <1>2
  <2> QED
    BY <1>2, <1>5, <2>1, <2>2 DEF NamesMade, S
<1> QED
  BY <1>3, <1>6

(* The invariant of flights with the two rules.                            *)
LEMMA NamesFlightInvariance == NamingSpec => [](InFlight /\ NamesMade)
<1>1. Init => InFlight /\ NamesMade
  <2> SUFFICES ASSUME Init PROVE InFlight /\ NamesMade
    OBVIOUS
  <2>1. InFlight /\ flown = 0 /\ \A rule : At_(rule) = {}
    BY InFlightInit
  <2>2. \A rule : ~HasFlown(rule)
    BY <2>1 DEF HasFlown
  <2> QED
    BY <2>1, <2>2 DEF NamesMade
<1> QED
  BY <1>1, NamesFlightStep, PTL DEF NamingSpec

(* What earlier units leave is a short sequence of positions.              *)
LEMMA LeftIs ==
    ASSUME IsOfNames(tree), NEW left \in LeftByEarlierUnits
    PROVE  left \in Seq(Paths) /\ Len(left) \in Nat /\ Len(left) <= MaxLeft
<1> DEFINE P == {p \in Positions(tree) : Is(At(tree, p), {"short"})} \cup {<<>>}
<1>1. P \subseteq Paths
  BY PositionsAre, EmptySeq DEF IsOfNames, Paths
<1> HIDE DEF P
<1>2. PICK m \in 0..MaxLeft : left \in [1..m -> P]
  BY DEF LeftByEarlierUnits, BoundedSeq, SeqOf, P
<1>3. m \in Nat /\ m <= MaxLeft
  BY <1>2, NamingAssumption
<1>4. left \in [1..m -> Paths]
  BY <1>1, <1>2
<1>5. left \in Seq(Paths)
  BY <1>3, <1>4
<1>6. Len(left) = m
  BY <1>3, <1>4, <1>5, LenProperties
<1> QED
  BY <1>3, <1>5, <1>6

(* Not more can be missed than are left.                                   *)
LEMMA FewLeft ==
    ASSUME NEW left \in Seq(Paths), NEW missed, missed \subseteq ToSet(left)
    PROVE  Cardinality(missed) \in Nat /\ Cardinality(missed) <= Len(left)
<1>1. Len(left) \in Nat /\ DOMAIN left = 1..Len(left)
  BY LenProperties
<1>2. left \in Surjection(1..Len(left), ToSet(left))
  BY <1>1 DEF Surjection, ToSet
<1>3. IsFiniteSet(ToSet(left)) /\ Cardinality(ToSet(left)) <= Len(left)
  <2>1. ExistsSurjection(1..Len(left), ToSet(left))
    BY <1>2 DEF ExistsSurjection
  <2>2. IsFiniteSet(1..Len(left))
    BY <1>1, FS_Interval
  <2> QED
    BY <1>1, <1>2, <2>1, <2>2, FS_Surjection, FS_SurjCardinalityBound
<1>4. IsFiniteSet(missed) /\ Cardinality(missed) <= Cardinality(ToSet(left))
  BY <1>3, FS_Subset
<1>5. Cardinality(missed) \in Nat /\ Cardinality(ToSet(left)) \in Nat
  BY <1>3, <1>4, FS_CardinalityType
<1> QED
  BY <1>1, <1>3, <1>4, <1>5

(* ShortVariableName: no short variable of a head of short variables.      *)
LEMMA HeadsMayBeShort ==
    ASSUME InFlight, NamesMade
    PROVE  HeadsMayUseShortNames
<1> SUFFICES ASSUME Have("ShortVariableName"), NEW p \in Positions(tree), Is(At(tree, p), Heads),
                    \A i \in DOMAIN At(tree, p).kids[1].kids : At(tree, p).kids[1].kids[i] = Leaf("short"),
                    NEW i \in DOMAIN At(tree, p).kids[1].kids
             PROVE  p \o <<1, i>> \notin At_("ShortVariableName")
  BY DEF HeadsMayUseShortNames
<1>1. IsOfNames(tree)
  BY HaveFlown, NamingTreesAssumption DEF NamingRuleNames
<1>2. \A left \in LeftByEarlierUnits : p \o <<1, i>> \notin ShortVariableName(left)
  BY <1>1, LeftIs, HeadsAreExempt
<1> DEFINE q == p \o <<1, i>>
<1>3. q \notin UNION {ShortVariableName(left) : left \in LeftByEarlierUnits}
  <2>1. \A left \in LeftByEarlierUnits : q \notin ShortVariableName(left)
    BY <1>2
  <2> HIDE DEF q
  <2> QED
    BY <2>1, Zenon
<1> HIDE DEF q
<1>4. q \notin At_("ShortVariableName")
  BY <1>3 DEF NamesMade
<1> QED
  BY <1>4 DEF q

(* The others are found, but for those that the stack held before.         *)
LEMMA UnfitAreReported ==
    ASSUME InFlight, NamesMade
    PROVE  UnfitNamesAreReported
<1> DEFINE unfit == {p \in Positions(tree) : Is(At(tree, p), {"short", "long"}) /\ ~InHead(p)}
           missed == unfit \ (At_("ShortVariableName") \cup At_("LongVariableName"))
<1> SUFFICES ASSUME Have("ShortVariableName"), Have("LongVariableName")
             PROVE  Cardinality(missed) <= MaxLeft /\ \A p \in missed : Is(At(tree, p), {"short"})
  BY DEF UnfitNamesAreReported
<1>1. IsOfNames(tree)
  BY HaveFlown, NamingTreesAssumption DEF NamingRuleNames
<1>2. PICK left \in LeftByEarlierUnits : ShortVariableName(left) \subseteq At_("ShortVariableName")
  BY HaveFlown DEF NamesMade
<1>3. LongVariableName \subseteq At_("LongVariableName")
  BY HaveFlown DEF NamesMade
<1>4. left \in Seq(Paths) /\ Len(left) \in Nat /\ Len(left) <= MaxLeft
  BY <1>1, LeftIs
<1>5. ASSUME NEW p \in missed
      PROVE  p \in Positions(tree) /\ Is(At(tree, p), {"short"}) /\ ~InHead(p) /\ p \notin ShortVariableName(left)
  <2>1. ~Is(At(tree, p), {"long"})
    BY <1>3 DEF LongVariableName
  <2> QED
    BY <1>2, <2>1 DEF Is
<1> HIDE DEF missed
<1>6. missed \subseteq ToSet(left)
  BY <1>1, <1>4, <1>5, OthersAreFound
<1>7. Cardinality(missed) \in Nat /\ Cardinality(missed) <= Len(left)
  BY <1>4, <1>6, FewLeft
<1> QED
  BY <1>4, <1>5, <1>7, NamingAssumption

(* What ShortVariableNameRule and LongVariableNameRule report of any tree, *)
(* however deep and whatever the stack held before: nothing in a head of   *)
(* short names, and elsewhere all names that do not fit but for as many    *)
(* as earlier units left on the stack.                                     *)
THEOREM NameReportsAreRight == NamingSpec => []NameReportsHold
<1>1. InFlight /\ NamesMade => NameReportsHold
  BY HeadsMayBeShort, UnfitAreReported DEF NameReportsHold
<1> QED
  BY <1>1, NamesFlightInvariance, PTL
=============================================================================
