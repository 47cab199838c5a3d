------------------------------ MODULE Induction ------------------------------
(***************************************************************************)
(* Induction over data, as facts about sets and functions.  The passes of  *)
(* the program over its vectors and maps are recursive functions of the    *)
(* model; a recursive function is a CHOOSE, so a proof about one needs     *)
(* that the function exists and then an induction over its argument.  Both *)
(* are stated here without a predicate or operator parameter: the formula  *)
(* to prove for every n is the set of the n it holds for, and the n-th step *)
(* of a recursion is the function G[n].                                    *)
(***************************************************************************)
EXTENDS Integers, TLAPS, FiniteSetTheorems, SequencesExt, SequenceTheorems

(***************************************************************************)
(* Every set of natural numbers that is not empty has a least element: the *)
(* segments 0 .. m of its elements are finite sets, and strict inclusion   *)
(* of finite sets is well founded.                                         *)
(***************************************************************************)
LEMMA LeastElement ==
    ASSUME NEW S \in SUBSET Nat, S # {}
    PROVE  \E m \in S : \A k \in S : m <= k
<1> DEFINE T == {0 .. m : m \in S}
<1>1. T \subseteq FiniteSubsetsOf(Nat) /\ T # {}
  <2>1. \A m \in Nat : IsFiniteSet(0 .. m) /\ 0 .. m \subseteq Nat
    BY FS_Interval
  <2> QED
    BY <2>1 DEF FiniteSubsetsOf
<1>2. PICK x \in T : \A y \in T : ~(<<y, x>> \in StrictSubsetOrdering(Nat))
  <2> HIDE DEF T
  <2>1. IsWellFoundedOn(StrictSubsetOrdering(Nat), FiniteSubsetsOf(Nat))
    BY FS_StrictSubsetOrderingWellFounded
  <2> QED
    BY <1>1, <2>1, WFMin
<1>3. PICK m \in S : x = 0 .. m
  OBVIOUS
<1>4. ASSUME NEW k \in S, k < m PROVE FALSE
  <2>1. 0 .. k \in T
    OBVIOUS
  <2>2. <<0 .. k, 0 .. m>> \in StrictSubsetOrdering(Nat)
    BY <1>4 DEF StrictSubsetOrdering
  <2> QED
    BY <1>2, <1>3, <2>1, <2>2
<1> QED
  BY <1>4

(* A set that holds 0 and with every n also n + 1 holds every number.      *)
LEMMA SetInduction ==
    ASSUME NEW S \in SUBSET Nat,
           0 \in S,
           \A n \in S : n + 1 \in S
    PROVE  S = Nat
<1>1. SUFFICES ASSUME Nat \ S # {} PROVE FALSE
  OBVIOUS
<1>2. PICK m \in Nat \ S : \A k \in Nat \ S : m <= k
  BY <1>1, LeastElement
<1>3. m - 1 \in Nat \ S
  BY <1>2
<1> QED
  BY <1>2, <1>3

(* The same up to a bound: what an induction over the indices of a         *)
(* sequence of length N needs.                                             *)
LEMMA BoundedInduction ==
    ASSUME NEW N \in Nat,
           NEW S \in SUBSET (0 .. N),
           0 \in S,
           \A n \in S : n < N => n + 1 \in S
    PROVE  S = 0 .. N
<1> DEFINE T == {n \in Nat : n <= N => n \in S}
<1>1. 0 \in T
  OBVIOUS
<1>2. ASSUME NEW n \in T PROVE n + 1 \in T
  OBVIOUS
<1>3. T = Nat
  <2> HIDE DEF T
  <2>1. T \in SUBSET Nat
    BY DEF T
  <2> QED
    BY <1>1, <1>2, <2>1, SetInduction
<1>4. ASSUME NEW n \in 0 .. N PROVE n \in S
  BY <1>3, n \in T
<1> QED
  BY <1>4

(***************************************************************************)
(* f goes through the values of a loop that starts with a and whose n-th   *)
(* turn, of N, applies G[n].                                               *)
(***************************************************************************)
IsRecursion(f, S, a, N, G) ==
    /\ f \in [0 .. N -> S]
    /\ f[0] = a
    /\ \A n \in 1 .. N : f[n] = G[n][f[n - 1]]

(* Every loop that stays in S has such an f.                               *)
LEMMA RecursionExists ==
    ASSUME NEW S, NEW a \in S, NEW N \in Nat,
           NEW G \in [1 .. N -> [S -> S]]
    PROVE  \E f : IsRecursion(f, S, a, N, G)
<1> DEFINE Solves(f, m) ==
             f[0] = a /\ \A n \in 1 .. m : f[n] = G[n][f[n - 1]]
           T == {m \in 0 .. N : \E f \in [0 .. m -> S] : Solves(f, m)}
<1>1. 0 \in T
  <2> DEFINE f == [k \in 0 .. 0 |-> a]
  <2>1. f \in [0 .. 0 -> S] /\ f[0] = a
    OBVIOUS
  <2>2. Solves(f, 0)
    BY <2>1
  <2> HIDE DEF f, Solves
  <2> QED
    BY <2>1, <2>2
<1>2. ASSUME NEW m \in T, m < N PROVE m + 1 \in T
  <2>1. PICK f \in [0 .. m -> S] : Solves(f, m)
    OBVIOUS
  <2> DEFINE g == [k \in 0 .. (m + 1) |->
                     IF k = m + 1 THEN G[m + 1][f[m]] ELSE f[k]]
  <2>0. m \in 0 .. m /\ m + 1 \in 1 .. N /\ m \in Nat
    BY <1>2
  <2>2. G[m + 1][f[m]] \in S
    <3>1. f[m] \in S /\ G[m + 1] \in [S -> S]
      BY <2>0
    <3> QED
      BY <3>1
  <2>3. g \in [0 .. (m + 1) -> S]
    BY <2>0, <2>2
  <2>4. \A k \in 0 .. m : g[k] = f[k]
    BY <2>0
  <2>5. g[m + 1] = G[m + 1][g[m]]
    <3>1. g[m + 1] = G[m + 1][f[m]]
      BY <2>0
    <3>2. g[m] = f[m]
      BY <2>0, <2>4
    <3> HIDE DEF g
    <3> QED
      BY <3>1, <3>2
  <2>6. Solves(g, m + 1)
    <3> HIDE DEF g
    <3>1. ASSUME NEW n \in 1 .. (m + 1) PROVE g[n] = G[n][g[n - 1]]
      <4>1. CASE n = m + 1
        BY <4>1, <2>5, <2>0
      <4>2. CASE n \in 1 .. m
        <5>1. n \in 0 .. m /\ n - 1 \in 0 .. m
          BY <4>2
        <5> QED
          BY <4>2, <5>1, <2>1, <2>4
      <4> QED
        BY <4>1, <4>2, <2>0
    <3> QED
      BY <3>1, <2>1, <2>4, <2>0
  <2>7. m + 1 \in 0 .. N
    BY <2>0
  <2> HIDE DEF g, Solves
  <2> QED
    BY <2>3, <2>6, <2>7
<1>3. T = 0 .. N
  <2> HIDE DEF T
  <2>1. T \in SUBSET (0 .. N)
    BY DEF T
  <2> QED
    BY <1>1, <1>2, <2>1, BoundedInduction
<1>4. \E f \in [0 .. N -> S] : Solves(f, N)
  BY <1>3
<1> QED
  BY <1>4 DEF IsRecursion

(***************************************************************************)
(* One sequence after the other, as FlattenSeq puts them.                  *)
(***************************************************************************)
LEMMA FlattenTurns ==
    ASSUME NEW S, NEW sets \in Seq(Seq(S))
    PROVE  /\ Len(sets) = 0 => FlattenSeq(sets) = <<>>
           /\ Len(sets) # 0 => \E flat :
                /\ FlattenSeq(sets) = flat[Len(sets)]
                /\ \A n \in 1..Len(sets) :
                     /\ flat[n] \in Seq(S)
                     /\ flat[n] = IF n = 1 THEN sets[n] ELSE flat[n - 1] \o sets[n]
<1> DEFINE N == Len(sets)
           G == [n \in 1..N |-> [s \in Seq(S) |-> s \o sets[n]]]
           Body(f) == [n \in 1..N |-> IF n = 1 THEN sets[n] ELSE f[n - 1] \o sets[n]]
           flat == CHOOSE f : f = Body(f)
<1>1. N \in Nat /\ \A n \in 1..N : sets[n] \in Seq(S)
  BY LenProperties, ElementOfSeq
<1>2. CASE N = 0
  <2>1. sets = <<>> /\ FlattenSeq(sets) = sets
    BY <1>2, EmptySeq DEF FlattenSeq
  <2> QED
    BY <1>2, <2>1
<1>3. CASE N # 0
  <2>1. FlattenSeq(sets) = flat[N]
    BY <1>3 DEF FlattenSeq
  <2>2. G \in [1..N -> [Seq(S) -> Seq(S)]]
    <3>1. \A n \in 1..N, s \in Seq(S) : s \o sets[n] \in Seq(S)
      BY <1>1, ConcatProperties
    <3> QED
      BY <3>1
  <2>3. <<>> \in Seq(S)
    BY EmptySeq
  <2>4. PICK h : IsRecursion(h, Seq(S), <<>>, N, G)
    <3> HIDE DEF N, G
    <3> QED
      BY <1>1, <2>2, <2>3, RecursionExists
  <2> HIDE DEF N
  <2>5. \A n \in 1..N : h[n - 1] \in Seq(S) /\ h[n] = h[n - 1] \o sets[n]
    <3>1. ASSUME NEW n \in 1..N
          PROVE  h[n - 1] \in Seq(S) /\ h[n] = h[n - 1] \o sets[n]
      <4>1. n - 1 \in 0..N
        BY <1>1
      <4>2. h[n - 1] \in Seq(S) /\ h[n] = G[n][h[n - 1]]
        BY <4>1, <2>4 DEF IsRecursion
      <4> QED
        BY <4>2
    <3> QED
      BY <3>1
  <2> DEFINE f == [n \in 1..N |-> h[n]]
  <2>6. f = Body(f)
    <3>1. ASSUME NEW n \in 1..N
          PROVE  h[n] = IF n = 1 THEN sets[n] ELSE f[n - 1] \o sets[n]
      <4>1. CASE n = 1
        <5>0. h[n - 1] = <<>>
          BY <4>1, <2>4 DEF IsRecursion
        <5>1. h[n] = <<>> \o sets[n]
          BY <5>0, <2>5
        <5> QED
          BY <4>1, <5>1, <1>1, ConcatEmptySeq
      <4>2. CASE n # 1
        <5>1. n - 1 \in 1..N
          BY <4>2, <1>1
        <5> QED
          BY <4>2, <5>1, <2>5
      <4> QED
        BY <4>1, <4>2
    <3> QED
      BY <3>1
  <2> HIDE DEF f, Body
  <2>7. flat = Body(flat)
    BY <2>6
  <2> HIDE DEF flat
  <2>8. \A n \in 1..N : flat[n] = IF n = 1 THEN sets[n] ELSE flat[n - 1] \o sets[n]
    BY <2>7 DEF Body
  <2> DEFINE T == {n \in 0..N : n > 0 => flat[n] \in Seq(S)}
  <2>9. 0 \in T
    BY <1>1
  <2>10. ASSUME NEW n \in T, n < N PROVE n + 1 \in T
    <3>1. n \in 0..N /\ n + 1 \in 1..N /\ (n + 1) - 1 = n
      BY <1>1, <2>10
    <3>2. sets[n + 1] \in Seq(S) /\ (n > 0 => flat[n] \in Seq(S))
      BY <1>1, <3>1
    <3> HIDE DEF T
    <3>3. CASE n = 0
      <4>1. flat[n + 1] = sets[n + 1]
        BY <2>8, <3>1, <3>3
      <4> QED
        BY <3>1, <3>2, <4>1 DEF T
    <3>4. CASE n # 0
      <4>1. flat[n + 1] = flat[n] \o sets[n + 1]
        <5>1. n + 1 # 1
          BY <3>1, <3>4
        <5>2. flat[n + 1] = flat[(n + 1) - 1] \o sets[n + 1]
          BY <5>1, <2>8, <3>1
        <5> QED
          BY <5>2, <3>1
      <4>2. flat[n] \in Seq(S)
        BY <3>1, <3>2, <3>4
      <4>3. flat[n + 1] \in Seq(S)
        BY <4>1, <4>2, <3>2, ConcatProperties
      <4> QED
        BY <3>1, <4>3 DEF T
    <3> QED
      BY <3>3, <3>4
  <2>11. T = 0..N
    <3>1. T \in SUBSET (0..N)
      OBVIOUS
    <3> HIDE DEF T
    <3> QED
      BY <1>1, <2>9, <2>10, <3>1, BoundedInduction
  <2>12. \A n \in 1..N : n \in T /\ n > 0
    BY <2>11, <1>1
  <2>13. \A n \in 1..N : flat[n] \in Seq(S)
    BY <2>12
  <2> HIDE DEF T
  <2> QED
    BY <1>3, <2>1, <2>8, <2>13 DEF N
<1> QED
  BY <1>2, <1>3 DEF N

LEMMA FlattenType ==
    ASSUME NEW S, NEW sets \in Seq(Seq(S))
    PROVE  FlattenSeq(sets) \in Seq(S)
<1>1. Len(sets) \in Nat
  BY LenProperties
<1>2. CASE Len(sets) = 0
  BY <1>2, FlattenTurns, EmptySeq
<1>3. CASE Len(sets) # 0
  <2>1. Len(sets) \in 1..Len(sets)
    BY <1>1, <1>3
  <2> QED
    BY <1>3, <2>1, FlattenTurns
<1> QED
  BY <1>2, <1>3

(* Each element of each of them is an element of the whole.                *)
LEMMA FlattenHolds ==
    ASSUME NEW S, NEW sets \in Seq(Seq(S)), NEW j \in 1..Len(sets), NEW k \in 1..Len(sets[j])
    PROVE  \E n \in 1..Len(FlattenSeq(sets)) : FlattenSeq(sets)[n] = sets[j][k]
<1> DEFINE N == Len(sets)
<1>1. N \in Nat /\ N # 0 /\ \A n \in 1..N : sets[n] \in Seq(S) /\ Len(sets[n]) \in Nat
  BY LenProperties, ElementOfSeq
<1>2. PICK flat :
        /\ FlattenSeq(sets) = flat[N]
        /\ \A n \in 1..N :
             /\ flat[n] \in Seq(S)
             /\ flat[n] = IF n = 1 THEN sets[n] ELSE flat[n - 1] \o sets[n]
  BY <1>1, FlattenTurns
<1> HIDE DEF N
<1> DEFINE Has(s) == \E i \in 1..Len(s) : s[i] = sets[j][k]
           T == {n \in 0..N : n >= j => Has(flat[n])}
<1>3. j \in 1..N /\ Has(sets[j])
  BY DEF N
<1>4. \A s, t \in Seq(S) : Has(s) \/ Has(t) => Has(s \o t)
  <2>1. ASSUME NEW s \in Seq(S), NEW t \in Seq(S)
        PROVE  /\ Len(s) \in Nat /\ Len(t) \in Nat
               /\ Len(s \o t) = Len(s) + Len(t)
               /\ \A i \in 1..Len(s) : (s \o t)[i] = s[i]
               /\ \A i \in 1..Len(t) : (s \o t)[Len(s) + i] = t[i]
    <3>1. Len(s) \in Nat /\ Len(t) \in Nat
      BY LenProperties
    <3>2. /\ Len(s \o t) = Len(s) + Len(t)
          /\ \A i \in 1..(Len(s) + Len(t)) :
               (s \o t)[i] = IF i <= Len(s) THEN s[i] ELSE t[i - Len(s)]
      BY ConcatProperties
    <3>3. \A i \in 1..Len(s) : (s \o t)[i] = s[i]
      BY <3>1, <3>2
    <3>4. ASSUME NEW i \in 1..Len(t) PROVE (s \o t)[Len(s) + i] = t[i]
      <4>1. Len(s) + i \in 1..(Len(s) + Len(t)) /\ ~(Len(s) + i <= Len(s)) /\ (Len(s) + i) - Len(s) = i
        BY <3>1
      <4> QED
        BY <3>2, <4>1
    <3> QED
      BY <3>1, <3>2, <3>3, <3>4
  <2>2. ASSUME NEW s \in Seq(S), NEW t \in Seq(S), Has(s) \/ Has(t) PROVE Has(s \o t)
    <3>1. CASE Has(s)
      <4>1. PICK i \in 1..Len(s) : s[i] = sets[j][k]
        BY <3>1
      <4>2. i \in 1..Len(s \o t) /\ (s \o t)[i] = sets[j][k]
        BY <2>1, <4>1
      <4> QED
        BY <4>2
    <3>2. CASE Has(t)
      <4>1. PICK i \in 1..Len(t) : t[i] = sets[j][k]
        BY <3>2
      <4>2. Len(s) + i \in 1..Len(s \o t) /\ (s \o t)[Len(s) + i] = sets[j][k]
        BY <2>1, <4>1
      <4> QED
        BY <4>2
    <3> QED
      BY <2>2, <3>1, <3>2
  <2> QED
    BY <2>2
<1> HIDE DEF Has
<1>5. 0 \in T
  BY <1>1, <1>3
<1>6. ASSUME NEW n \in T, n < N PROVE n + 1 \in T
  <2>1. n \in 0..N /\ n + 1 \in 1..N /\ (n + 1) - 1 = n
    BY <1>1, <1>6
  <2>2. CASE n = 0
    <3>1. flat[n + 1] = sets[n + 1]
      BY <1>2, <2>1, <2>2
    <3>2. n + 1 >= j => n + 1 = j
      BY <1>3, <2>2
    <3> QED
      BY <1>3, <2>1, <3>1, <3>2
  <2>3. CASE n # 0
    <3>1. n \in 1..N
      BY <2>1, <2>3
    <3>2. flat[n + 1] = flat[n] \o sets[n + 1]
      <4>1. n + 1 # 1
        BY <2>1, <2>3
      <4>2. flat[n + 1] = flat[(n + 1) - 1] \o sets[n + 1]
        BY <1>2, <2>1, <4>1
      <4> QED
        BY <2>1, <4>2
    <3>3. flat[n] \in Seq(S) /\ sets[n + 1] \in Seq(S)
      BY <1>1, <1>2, <2>1, <3>1
    <3>4. ASSUME n >= j PROVE Has(flat[n + 1])
      <4>1. Has(flat[n])
        BY <1>6, <3>4
      <4> QED
        BY <1>4, <3>2, <3>3, <4>1
    <3>5. ASSUME n + 1 = j PROVE Has(flat[n + 1])
      <4>1. Has(sets[n + 1])
        BY <1>3, <3>5
      <4> QED
        BY <1>4, <3>2, <3>3, <4>1
    <3>6. n + 1 >= j => n >= j \/ n + 1 = j
      BY <1>3, <2>1
    <3>7. n + 1 \in 0..N
      BY <1>1, <2>1
    <3> HIDE DEF T
    <3>8. n + 1 >= j => Has(flat[n + 1])
      BY <3>4, <3>5, <3>6
    <3> QED
      BY <3>7, <3>8 DEF T
  <2> QED
    BY <2>2, <2>3
<1>7. T = 0..N
  <2>1. T \in SUBSET (0..N)
    OBVIOUS
  <2> HIDE DEF T
  <2> QED
    BY <1>1, <1>5, <1>6, <2>1, BoundedInduction
<1>8. N >= j
  BY <1>1, <1>3
<1>9. N \in T
  <2> HIDE DEF T
  <2> QED
    BY <1>1, <1>7
<1> QED
  BY <1>2, <1>8, <1>9 DEF Has
=============================================================================
