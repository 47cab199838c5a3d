-------------------------- MODULE SuppressionProofs --------------------------
(***************************************************************************)
(* What the maps of SuppressHelper guarantee, for every set of units,      *)
(* rules, comments and annotations: verdicts are stable always, and right  *)
(* under two conditions.                                                   *)
(***************************************************************************)
EXTENDS Suppression, TLAPS

(* While a rule flies there is a unit, with a name, and a rule.            *)
LEMMA FlyingTypes ==
    ASSUME TypeOK, Flying
    PROVE  /\ Unit \in Units
           /\ Rule \in Rules
           /\ MainFile[Unit] \in Names
  BY SuppressionAssumption DEF TypeOK, Flying, Unit, Rule

(* What is computed for the maps has the type of their values.             *)
LEMMA ComputedTypes ==
    ASSUME NEW u \in Units, NEW r \in Rules
    PROVE  /\ CommentLines(u) \subseteq Lines
           /\ Collect(u, r) \subseteq Lines \X Lines
<1>1. CommentLines(u) \subseteq Lines
  BY SuppressionAssumption DEF CommentLines
<1>2. Traversed(u) \subseteq Nodes
  BY SuppressionAssumption DEF Traversed
<1>3. Collect(u, r) \subseteq Lines \X Lines
  BY <1>2, SuppressionAssumption DEF Collect
<1>4. QED
  BY <1>1, <1>3

(* The two ways a rule adds a violation, with the query that is judged.    *)
NodeQuery(n) == [unit |-> Unit, rule |-> Rule, node |-> n, line |-> First[n]]
LineQuery(line) == [unit |-> Unit, rule |-> Rule, node |-> NoNode, line |-> line]

(* A query is one of the violations a rule can raise.                      *)
LEMMA QueryTypes ==
    ASSUME TypeOK, Flying
    PROVE  /\ \A n \in Reportable(Unit) : NodeQuery(n) \in Raised /\ n # NoNode
           /\ \A line \in Lines : LineQuery(line) \in Raised
  BY FlyingTypes, SuppressionAssumption DEF NodeQuery, LineQuery, Raised, Reportable

(* What is looked up has the type of the values of the map.                *)
LEMMA LookupTypes ==
    ASSUME TypeOK, Flying
    PROVE  /\ Commented \subseteq Lines
           /\ Annotated \subseteq Lines \X Lines
  BY FlyingTypes, ComputedTypes DEF Commented, Annotated, Lookup, TypeOK

(* Storing a value of the right type keeps the type of a map.              *)
LEMMA StoredTypes ==
    ASSUME NEW S, NEW map, NEW name \in Names, NEW value \in SUBSET S,
           DOMAIN map \subseteq Names,
           \A n \in DOMAIN map : map[n] \subseteq S
    PROVE  /\ DOMAIN Stored(map, name, value) \subseteq Names
           /\ \A n \in DOMAIN Stored(map, name, value) :
                  Stored(map, name, value)[n] \subseteq S
  BY DEF Stored

(* Every step keeps the types.                                             *)
LEMMA TypeStep == TypeOK /\ [Next]_vars => TypeOK'
<1> SUFFICES ASSUME TypeOK, [Next]_vars PROVE TypeOK'
  OBVIOUS
<1>1. ASSUME Flying, NEW n \in Reportable(Unit), AddNodeViolation(n) PROVE TypeOK'
  <2>1. /\ passed' \subseteq Raised
        /\ silenced' \subseteq Raised
    <3>1. NodeQuery(n) \in Raised
      BY <1>1, QueryTypes
    <3>2. QED
      BY <1>1, <3>1 DEF AddNodeViolation, Judge, NodeQuery, TypeOK
  <2>2. \/ singleLineMapping' = singleLineMapping
        \/ singleLineMapping' = Stored(singleLineMapping, MainFile[Unit], Commented)
    BY <1>1 DEF AddNodeViolation, RememberComments
  <2>3. /\ DOMAIN singleLineMapping' \subseteq Names
        /\ \A name \in DOMAIN singleLineMapping' : singleLineMapping'[name] \subseteq Lines
    BY <1>1, <2>2, StoredTypes, FlyingTypes, LookupTypes DEF TypeOK
  <2>4. QED
    BY <1>1, <2>1, <2>3 DEF AddNodeViolation, TypeOK
<1>2. ASSUME Flying, NEW line \in Lines, AddLineViolation(line) PROVE TypeOK'
  <2>1. /\ passed' \subseteq Raised
        /\ silenced' \subseteq Raised
    <3>1. LineQuery(line) \in Raised
      BY <1>2, QueryTypes
    <3>2. QED
      BY <1>2, <3>1 DEF AddLineViolation, Judge, LineQuery, TypeOK
  <2>2. singleLineMapping' = Stored(singleLineMapping, MainFile[Unit], Commented)
    BY <1>2 DEF AddLineViolation, RememberComments
  <2>3. /\ DOMAIN singleLineMapping' \subseteq Names
        /\ \A name \in DOMAIN singleLineMapping' : singleLineMapping'[name] \subseteq Lines
    BY <1>2, <2>2, StoredTypes, FlyingTypes, LookupTypes DEF TypeOK
  <2>4. \/ rangeMapping' = rangeMapping
        \/ rangeMapping' = Stored(rangeMapping, MainFile[Unit], Annotated)
    BY <1>2 DEF AddLineViolation
  <2>5. /\ DOMAIN rangeMapping' \subseteq Names
        /\ \A name \in DOMAIN rangeMapping' : rangeMapping'[name] \subseteq Lines \X Lines
    BY <1>2, <2>4, StoredTypes, FlyingTypes, LookupTypes DEF TypeOK
  <2>6. QED
    BY <1>2, <2>1, <2>3, <2>5 DEF AddLineViolation, TypeOK
<1>3. CASE NextRule \/ NextUnit
  BY <1>3, SuppressionAssumption DEF NextRule, NextUnit, TypeOK
<1>4. CASE UNCHANGED vars
  BY <1>4 DEF vars, TypeOK
<1>5. QED
  BY <1>1, <1>2, <1>3, <1>4 DEF Next, Done

(* Every variable keeps its type.                                          *)
THEOREM SuppressionTypes == Spec => []TypeOK
<1>1. Init => TypeOK
  BY SuppressionAssumption DEF Init, TypeOK
<1>2. QED
  BY <1>1, TypeStep, PTL DEF Spec

-----------------------------------------------------------------------------
(* A step of a rule leaves every entry of a map as it is.                  *)
LEMMA StoredKeeps ==
    ASSUME NEW map, NEW name, NEW computed
    PROVE  LET new == Stored(map, name, Lookup(map, name, computed)) IN
           /\ name \in DOMAIN new
           /\ new[name] = Lookup(map, name, computed)
           /\ \A n \in DOMAIN map : n \in DOMAIN new /\ new[n] = map[n]
  BY DEF Stored, Lookup

(* The maps only grow.                                                     *)
MapsGrow ==
    /\ \A name \in DOMAIN singleLineMapping :
         /\ name \in DOMAIN singleLineMapping'
         /\ singleLineMapping'[name] = singleLineMapping[name]
    /\ \A name \in DOMAIN rangeMapping :
         /\ name \in DOMAIN rangeMapping'
         /\ rangeMapping'[name] = rangeMapping[name]

(* Every step of the program lets the maps grow only.                      *)
LEMMA GrowStep == ASSUME [Next]_vars PROVE MapsGrow
<1>1. ASSUME NEW n, AddNodeViolation(n) PROVE MapsGrow
  <2>1. CASE UNCHANGED singleLineMapping
    BY <1>1, <2>1 DEF AddNodeViolation, MapsGrow
  <2>2. CASE RememberComments
    BY <1>1, <2>2, StoredKeeps DEF AddNodeViolation, MapsGrow, RememberComments, Commented
  <2>3. QED
    BY <1>1, <2>1, <2>2 DEF AddNodeViolation
<1>2. ASSUME NEW line, AddLineViolation(line) PROVE MapsGrow
  <2>1. \A name \in DOMAIN singleLineMapping :
          /\ name \in DOMAIN singleLineMapping'
          /\ singleLineMapping'[name] = singleLineMapping[name]
    BY <1>2, StoredKeeps DEF AddLineViolation, RememberComments, Commented
  <2>2. CASE UNCHANGED rangeMapping
    BY <2>1, <2>2 DEF MapsGrow
  <2>3. CASE rangeMapping' = Stored(rangeMapping, MainFile[Unit], Annotated)
    BY <2>1, <2>3, StoredKeeps DEF MapsGrow, Annotated
  <2>4. QED
    BY <1>2, <2>2, <2>3 DEF AddLineViolation
<1>3. CASE NextRule \/ NextUnit \/ UNCHANGED vars
  BY <1>3 DEF NextRule, NextUnit, vars, MapsGrow
<1>4. QED
  BY <1>1, <1>2, <1>3 DEF Next, Done

(* A verdict that is settled stays settled while the maps grow.            *)
LEMMA SettledGrows ==
    ASSUME MapsGrow, NEW q
    PROVE  /\ SettledPassed(q) => SettledPassed(q)'
           /\ SettledSilenced(q) => SettledSilenced(q)'
  BY DEF MapsGrow, SettledPassed, SettledSilenced, CommentKnown, OnComment, RangesKnown, InRanges

(* A query gets its verdict in this step, and the maps settle it.          *)
Given(q) ==
    \/ /\ passed' = passed
       /\ silenced' = silenced \cup {q}
       /\ SettledSilenced(q)'
    \/ /\ passed' = passed \cup {q}
       /\ silenced' = silenced
       /\ SettledPassed(q)'

(* The verdict on a node is settled when it is given.                      *)
LEMMA NodeVerdict ==
    ASSUME TypeOK, Flying, NEW n \in Reportable(Unit), AddNodeViolation(n)
    PROVE  \E q : q.node # NoNode /\ Given(q)
<1>1. PICK q : q = NodeQuery(n)
  OBVIOUS
<1>2. /\ q.unit = Unit /\ q.rule = Rule /\ q.node = n /\ q.line = First[n] /\ n # NoNode
  BY <1>1, QueryTypes DEF NodeQuery
<1>3. CASE ShouldSuppressNode(n, Rule)
  <2>1. SettledSilenced(q)'
    BY <1>2, <1>3 DEF SettledSilenced
  <2>2. QED
    BY <1>1, <1>2, <1>3, <2>1 DEF AddNodeViolation, Judge, NodeQuery, Given
<1>4. CASE ~ShouldSuppressNode(n, Rule)
  <2>1. /\ MainFile[Unit] \in DOMAIN singleLineMapping'
        /\ singleLineMapping'[MainFile[Unit]] = Commented
    BY <1>4, StoredKeeps DEF AddNodeViolation, RememberComments, Commented
  <2>2. CASE First[n] \in Commented
    <3>1. SettledSilenced(q)'
      BY <1>2, <2>1, <2>2 DEF SettledSilenced, OnComment, CommentKnown
    <3>2. QED
      BY <1>1, <1>2, <1>4, <2>2, <3>1 DEF AddNodeViolation, Judge, NodeQuery, Given
  <2>3. CASE First[n] \notin Commented
    <3>1. SettledPassed(q)'
      BY <1>2, <1>4, <2>1, <2>3 DEF SettledPassed, OnComment, CommentKnown
    <3>2. QED
      BY <1>1, <1>2, <1>4, <2>3, <3>1 DEF AddNodeViolation, Judge, NodeQuery, Given
  <2>4. QED
    BY <2>2, <2>3
<1>5. QED
  BY <1>3, <1>4

(* The verdict on a line is settled when it is given.                      *)
LEMMA LineVerdict ==
    ASSUME TypeOK, Flying, NEW line \in Lines, AddLineViolation(line)
    PROVE  \E q : q.rule \in Readers /\ Given(q)
<1>1. PICK q : q = LineQuery(line)
  OBVIOUS
<1>2. /\ q.unit = Unit /\ q.rule = Rule /\ q.node = NoNode /\ q.line = line
      /\ Rule \in Readers
  BY <1>1 DEF LineQuery, AddLineViolation
<1>3. /\ MainFile[Unit] \in DOMAIN singleLineMapping'
      /\ singleLineMapping'[MainFile[Unit]] = Commented
  BY StoredKeeps DEF AddLineViolation, RememberComments, Commented
<1>4. CASE line \in Commented
  <2>1. SettledSilenced(q)'
    BY <1>2, <1>3, <1>4 DEF SettledSilenced, OnComment, CommentKnown
  <2>2. QED
    BY <1>1, <1>2, <1>4, <2>1 DEF AddLineViolation, Judge, LineQuery, Given
<1>5. CASE line \notin Commented
  <2>1. /\ MainFile[Unit] \in DOMAIN rangeMapping'
        /\ rangeMapping'[MainFile[Unit]] = Annotated
    BY <1>5, StoredKeeps DEF AddLineViolation, Annotated
  <2>2. CASE \E range \in Annotated : InRange(line, range)
    <3>1. SettledSilenced(q)'
      BY <1>2, <2>1, <2>2 DEF SettledSilenced, InRanges, RangesKnown
    <3>2. QED
      BY <1>1, <1>2, <1>5, <2>2, <3>1 DEF AddLineViolation, Judge, LineQuery, Given
  <2>3. CASE ~\E range \in Annotated : InRange(line, range)
    <3>1. SettledPassed(q)'
      BY <1>2, <1>3, <1>5, <2>1, <2>3
      DEF SettledPassed, OnComment, CommentKnown, InRanges, RangesKnown
    <3>2. QED
      BY <1>1, <1>2, <1>5, <2>3, <3>1 DEF AddLineViolation, Judge, LineQuery, Given
  <2>4. QED
    BY <2>2, <2>3
<1>6. QED
  BY <1>4, <1>5

(* Every step keeps the verdicts settled.                                  *)
LEMMA SettledStep == TypeOK /\ Settled /\ [Next]_vars => Settled'
<1> SUFFICES ASSUME TypeOK, Settled, [Next]_vars PROVE Settled'
  OBVIOUS
<1>1. MapsGrow
  BY GrowStep
<1>2. /\ \A q \in passed : SettledPassed(q)'
      /\ \A q \in silenced : SettledSilenced(q)'
  BY <1>1, SettledGrows DEF Settled
<1>3. \A q \in passed \cup silenced : q.node = NoNode => q.rule \in Readers
  BY DEF Settled
<1>4. ASSUME NEW q, Given(q), q.node = NoNode => q.rule \in Readers PROVE Settled'
  BY <1>2, <1>3, <1>4 DEF Settled, Given
<1>5. ASSUME Flying, NEW n \in Reportable(Unit), AddNodeViolation(n) PROVE Settled'
  BY <1>4, <1>5, NodeVerdict
<1>6. ASSUME Flying, NEW line \in Lines, AddLineViolation(line) PROVE Settled'
  BY <1>4, <1>6, LineVerdict
<1>7. CASE passed' = passed /\ silenced' = silenced
  BY <1>2, <1>3, <1>7 DEF Settled
<1>8. QED
  BY <1>5, <1>6, <1>7 DEF Next, NextRule, NextUnit, Done, vars

(* Every verdict given is settled by the maps.                             *)
THEOREM VerdictsAreSettled == Spec => [](TypeOK /\ Settled)
<1>1. Init => TypeOK
  BY SuppressionAssumption DEF Init, TypeOK
<1>2. Init => Settled
  BY DEF Init, Settled
<1>3. QED
  BY <1>1, <1>2, TypeStep, SettledStep, PTL DEF Spec

(***************************************************************************)
(* The same violation is never both reported and silenced, whatever rules  *)
(* read the source and whatever names the files have.                      *)
(***************************************************************************)
THEOREM Stability == Spec => []VerdictsAreStable
<1>1. Settled => VerdictsAreStable
  BY DEF Settled, VerdictsAreStable, SettledPassed, SettledSilenced
<1>2. QED
  BY <1>1, VerdictsAreSettled, PTL

-----------------------------------------------------------------------------
(* Under the two conditions a miss stores what is true of every unit of    *)
(* that name.                                                              *)
LEMMA MapsStep ==
    ASSUME SameNameSameText, OneReader, TypeOK, MapsAreTrue, [Next]_vars
    PROVE  MapsAreTrue'
<1> DEFINE CommentsTrue(map) ==
              \A u \in Units : MainFile[u] \in DOMAIN map => map[MainFile[u]] = CommentLines(u)
           RangesTrue(map) ==
              \A u \in Units, r \in Readers :
                  MainFile[u] \in DOMAIN map => map[MainFile[u]] = Collect(u, r)
<1>1. ASSUME Flying PROVE CommentsTrue(Stored(singleLineMapping, MainFile[Unit], Commented))
  <2>1. Commented = CommentLines(Unit)
    BY <1>1, FlyingTypes DEF Commented, Lookup, MapsAreTrue
  <2>2. \A u \in Units : MainFile[u] = MainFile[Unit] => CommentLines(u) = CommentLines(Unit)
    BY <1>1, FlyingTypes DEF SameNameSameText
  <2>3. QED
    BY <2>1, <2>2 DEF Stored, MapsAreTrue
<1>2. ASSUME Flying, Rule \in Readers
      PROVE  RangesTrue(Stored(rangeMapping, MainFile[Unit], Annotated))
  <2>1. Annotated = Collect(Unit, Rule)
    BY <1>2, FlyingTypes DEF Annotated, Lookup, MapsAreTrue
  <2>2. \A u \in Units : MainFile[u] = MainFile[Unit] => Collect(u, Rule) = Collect(Unit, Rule)
    BY <1>2, FlyingTypes DEF SameNameSameText
  <2>3. \A r \in Readers : r = Rule
    BY <1>2 DEF OneReader
  <2>4. QED
    BY <2>1, <2>2, <2>3 DEF Stored, MapsAreTrue
<1>3. CommentsTrue(singleLineMapping) /\ RangesTrue(rangeMapping)
  BY DEF MapsAreTrue
<1>4. /\ \/ singleLineMapping' = singleLineMapping
         \/ Flying /\ singleLineMapping' = Stored(singleLineMapping, MainFile[Unit], Commented)
      /\ \/ rangeMapping' = rangeMapping
         \/ Flying /\ Rule \in Readers
              /\ rangeMapping' = Stored(rangeMapping, MainFile[Unit], Annotated)
  BY DEF Next, AddNodeViolation, AddLineViolation, RememberComments, NextRule, NextUnit, Done, vars
<1>5. CommentsTrue(singleLineMapping') /\ RangesTrue(rangeMapping')
  BY <1>1, <1>2, <1>3, <1>4
<1>6. QED
  BY <1>5 DEF MapsAreTrue

(* The ranges collected for a rule are the lines its annotations cover.    *)
LEMMA CollectCovers ==
    ASSUME NEW u, NEW r, NEW line
    PROVE  (\E range \in Collect(u, r) : InRange(line, range)) <=> Covered(u, r, line)
<1>1. ASSUME NEW range \in Collect(u, r), InRange(line, range) PROVE Covered(u, r, line)
  <2>1. PICK d \in Traversed(u) : MarkedAsSuppress(d, r) /\ range = <<First[d], Last[d]>>
    BY <1>1 DEF Collect
  <2>2. range[1] = First[d] /\ range[2] = Last[d]
    BY <2>1
  <2>3. QED
    BY <1>1, <2>1, <2>2 DEF Covered, InRange
<1>2. ASSUME Covered(u, r, line) PROVE \E range \in Collect(u, r) : InRange(line, range)
  <2>1. PICK d \in Traversed(u) : MarkedAsSuppress(d, r) /\ First[d] <= line /\ line <= Last[d]
    BY <1>2 DEF Covered
  <2>2. <<First[d], Last[d]>> \in Collect(u, r)
    BY <2>1 DEF Collect
  <2>3. InRange(line, <<First[d], Last[d]>>)
    BY <2>1 DEF InRange
  <2>4. QED
    BY <2>2, <2>3
<1>3. QED
  BY <1>1, <1>2

(* What is settled by maps that are true is justified.                     *)
LEMMA SettledIsRight ==
    ASSUME TypeOK, Settled, MapsAreTrue
    PROVE  NothingLeaks /\ NothingIsLost
<1>1. ASSUME NEW q \in Raised, q.rule \in Readers, RangesKnown(q)
      PROVE  InRanges(q) <=> Covered(q.unit, q.rule, q.line)
  <2>1. q.unit \in Units
    BY <1>1 DEF Raised
  <2>2. rangeMapping[MainFile[q.unit]] = Collect(q.unit, q.rule)
    BY <1>1, <2>1 DEF RangesKnown, MapsAreTrue
  <2>3. InRanges(q) <=> \E range \in Collect(q.unit, q.rule) : InRange(q.line, range)
    BY <1>1, <2>2 DEF InRanges
  <2>4. QED
    BY <2>3, CollectCovers
<1>2. ASSUME NEW q \in Raised, CommentKnown(q)
      PROVE  OnComment(q) <=> q.line \in CommentLines(q.unit)
  <2>1. q.unit \in Units
    BY <1>2 DEF Raised
  <2>2. QED
    BY <1>2, <2>1 DEF OnComment, CommentKnown, MapsAreTrue
<1>3. ASSUME NEW q \in passed PROVE ~Justified(q)
  <2>1. q \in Raised /\ SettledPassed(q) /\ (q.node = NoNode => q.rule \in Readers)
    BY <1>3 DEF TypeOK, Settled
  <2>2. QED
    BY <1>1, <1>2, <2>1 DEF SettledPassed, Justified, Marked
<1>4. ASSUME NEW q \in silenced PROVE Justified(q)
  <2>1. q \in Raised /\ SettledSilenced(q) /\ (q.node = NoNode => q.rule \in Readers)
    BY <1>4 DEF TypeOK, Settled
  <2>2. OnComment(q) => q.line \in CommentLines(q.unit)
    BY <1>2, <2>1 DEF OnComment
  <2>3. q.node = NoNode /\ InRanges(q) => Covered(q.unit, q.rule, q.line)
    BY <1>1, <2>1 DEF InRanges
  <2>4. QED
    BY <2>1, <2>2, <2>3 DEF SettledSilenced, Justified, Marked
<1>5. QED
  BY <1>3, <1>4 DEF NothingLeaks, NothingIsLost

(***************************************************************************)
(* With one reader rule, and one text to a name, no violation that should  *)
(* have been silenced is reported.                                         *)
(***************************************************************************)
THEOREM NoLeak == ASSUME SameNameSameText, OneReader PROVE Spec => []NothingLeaks
<1>1. Init => MapsAreTrue
  BY DEF Init, MapsAreTrue
<1>2. TypeOK /\ MapsAreTrue /\ [Next]_vars => MapsAreTrue'
  BY MapsStep
<1>3. TypeOK /\ Settled /\ MapsAreTrue => NothingLeaks
  BY SettledIsRight
<1>4. QED
  BY <1>1, <1>2, <1>3, VerdictsAreSettled, PTL DEF Spec

(***************************************************************************)
(* Under the same conditions no violation is silenced without a comment or *)
(* an annotation that says so.                                             *)
(***************************************************************************)
THEOREM NoLoss == ASSUME SameNameSameText, OneReader PROVE Spec => []NothingIsLost
<1>1. Init => MapsAreTrue
  BY DEF Init, MapsAreTrue
<1>2. TypeOK /\ MapsAreTrue /\ [Next]_vars => MapsAreTrue'
  BY MapsStep
<1>3. TypeOK /\ Settled /\ MapsAreTrue => NothingIsLost
  BY SettledIsRight
<1>4. QED
  BY <1>1, <1>2, <1>3, VerdictsAreSettled, PTL DEF Spec
=============================================================================
