----------------------------- MODULE Suppression -----------------------------
(***************************************************************************)
(* Which violations a rule raises reach the carrier.                       *)
(*                                                                         *)
(* Code: oclint-rules SuppressHelper, AttributeHelper, AbstractASTRuleBase *)
(* and AbstractSourceCodeReaderRule.  A violation of a syntax tree rule is *)
(* silenced by an annotation of a declaration around it or by a comment on *)
(* its line; one of a source code reader rule by a comment on its line or  *)
(* by the lines of an annotated declaration.  Comments and annotated lines *)
(* are remembered in two maps that live as long as the process.            *)
(*                                                                         *)
(* The syntax trees are data: nodes with their first parent, their lines   *)
(* and their annotations.                                                  *)
(***************************************************************************)
EXTENDS Integers, Sequences, FiniteSets

CONSTANTS
    Rules,           \* the rule objects
    Readers,         \* those that are source code reader rules
    Flown,           \* filteredRules, a sequence
    Units,           \* translation units
    InOrder,         \* the units in the order they are analysed
    Names,           \* names of main files
    MainFile,        \* MainFile[u]: the main file as the command spelled it
    Files,           \* the files themselves
    FileOf,          \* FileOf[u]: the file MainFile[u] names
    Lines,           \* line numbers
    Comments,        \* Comments[u]: //!OCLINT comments of u, headers included
    Nodes,           \* nodes of the syntax trees
    NoNode,
    Decls, Stmts,    \* the nodes of these two kinds
    Root,            \* Root[u]: the TranslationUnitDecl
    NodesOf,         \* NodesOf[u]: the nodes of u
    Parent,          \* Parent[n]: the first of getParents
    TopLevel,        \* TopLevel[n]: the top-level declaration n is in
    InMain,          \* declarations that start in the main file
    First, Last,     \* presumed lines of a node
    Marks,           \* Marks[d]: rules an annotation of d names, or Every
    Every,           \* the annotation oclint:suppress without a rule
    Property,        \* Property[d]: the property of an accessor, as a set
    ProtocolMethods, \* methods declared in a protocol
    InProtocol,      \* InProtocol[d]: what lookupMethod finds there, as a set
    InCategories     \* InCategories[d]: its redeclarations in categories

ASSUME SuppressionAssumption ==
    /\ Readers \subseteq Rules
    /\ Flown \in Seq(Rules)
    /\ InOrder \in Seq(Units)
    /\ MainFile \in [Units -> Names]
    /\ FileOf \in [Units -> Files]
    /\ Lines \subseteq Nat
    /\ Comments \in [Units -> SUBSET [file : Files, line : Lines]]
    /\ NoNode \notin Nodes
    /\ Decls \subseteq Nodes
    /\ First \in [Nodes -> Lines]
    /\ Last \in [Nodes -> Lines]
    /\ NodesOf \in [Units -> SUBSET Nodes]

VARIABLES
    unit,               \* index of the unit being analysed
    rule,               \* index of the rule that is flying
    singleLineMapping,  \* name of a main file -> commented lines
    rangeMapping,       \* name of a main file -> annotated ranges
    passed,             \* history: what reached the carrier
    silenced            \* history: what did not

vars == <<unit, rule, singleLineMapping, rangeMapping, passed, silenced>>

(* A violation a rule raises: at a node, or at a line and no node.         *)
Raised == [unit : Units, rule : Rules, node : Nodes \cup {NoNode}, line : Lines]

-----------------------------------------------------------------------------
(***************************************************************************)
(* declHasActionAttribute: an Objective-C method is also marked by its     *)
(* property, and by the protocol it is from or else its categories.        *)
(***************************************************************************)
Kin(d) ==
    Property[d] \cup
        IF d \in ProtocolMethods THEN InProtocol[d]
        ELSE UNION {{c} \cup Property[c] : c \in InCategories[d]}

MarkedAsSuppress(d, r) ==
    Every \in Marks[d] \/ \E k \in {d} \cup Kin(d) : r \in Marks[k]

(* The declarations and statements markedParentsAsSuppress climbs through: *)
(* it follows first parents and gives up at a node of another kind.        *)
Above[n \in Nodes] ==
    IF Parent[n] \in Decls \cup Stmts THEN {Parent[n]} \cup Above[Parent[n]] ELSE {}

ShouldSuppressNode(n, r) ==
    \E d \in ({n} \cup Above[n]) \cap Decls : MarkedAsSuppress(d, r)

(* What a rule may hand to addViolation.                                   *)
Reportable(u) == (NodesOf[u] \cap (Decls \cup Stmts)) \ {Root[u]}

(* What getRawCommentList has lines of: every file of the unit.            *)
CommentLines(u) == {c.line : c \in Comments[u]}

(***************************************************************************)
(* DeclAnnotationRangeCollector::collect: the declarations under those     *)
(* top-level ones that start in the main file.                             *)
(***************************************************************************)
Traversed(u) ==
    {d \in Decls \cap NodesOf[u] :
        TopLevel[d] \in InMain /\ Parent[TopLevel[d]] = Root[u]}

(* The annotations of every rule, whoever asks.                            *)
MutCollect(u, r) == {<<First[d], Last[d]>> : d \in {e \in Traversed(u) : Marks[e] # {}}}

Collect(u, r) ==
    {<<First[d], Last[d]>> : d \in {e \in Traversed(u) : MarkedAsSuppress(e, r)}}

-----------------------------------------------------------------------------
Unit == InOrder[unit]
Rule == Flown[rule]

Init ==
    /\ unit = 1
    /\ rule = 1
    /\ singleLineMapping = <<>>
    /\ rangeMapping = <<>>
    /\ passed = {}
    /\ silenced = {}

(* An entry that was moved out of the map when it was stored.              *)
MutLookup(map, name, computed) == IF name \in DOMAIN map THEN {} ELSE computed

(* The value of a name the map holds, or else the value to be stored.      *)
Lookup(map, name, computed) == IF name \in DOMAIN map THEN map[name] ELSE computed

Stored(map, name, value) ==
    [n \in DOMAIN map \cup {name} |-> IF n = name THEN value ELSE map[n]]

Commented == Lookup(singleLineMapping, MainFile[Unit], CommentLines(Unit))

(* The map is keyed by the file; the ranges are those of the rule that     *)
(* asks first.                                                             *)
Annotated == Lookup(rangeMapping, MainFile[Unit], Collect(Unit, Rule))

RememberComments ==
    singleLineMapping' = Stored(singleLineMapping, MainFile[Unit], Commented)

Judge(q, suppress) ==
    /\ passed' = IF suppress THEN passed ELSE passed \cup {q}
    /\ silenced' = IF suppress THEN silenced \cup {q} ELSE silenced

(***************************************************************************)
(* AbstractASTRuleBase::addViolation of a declaration or a statement: a    *)
(* marked one ends there; otherwise its line is asked for, without a rule. *)
(***************************************************************************)
AddNodeViolation(n) ==
    /\ Rule \notin Readers
    /\ LET q == [unit |-> Unit, rule |-> Rule, node |-> n, line |-> First[n]]
       IN IF ShouldSuppressNode(n, Rule)
          THEN Judge(q, TRUE) /\ UNCHANGED singleLineMapping
          ELSE Judge(q, First[n] \in Commented) /\ RememberComments
    /\ UNCHANGED <<unit, rule, rangeMapping>>

(***************************************************************************)
(* AbstractSourceCodeReaderRule::addViolation: the line, and then, unless  *)
(* a comment settled it, the ranges.                                       *)
(***************************************************************************)
MutInRange(line, range) == range[1] <= line /\ line < range[2]

InRange(line, range) == range[1] <= line /\ line <= range[2]

AddLineViolation(line) ==
    /\ Rule \in Readers
    /\ RememberComments
    /\ LET q == [unit |-> Unit, rule |-> Rule, node |-> NoNode, line |-> line]
       IN IF line \in Commented
          THEN Judge(q, TRUE) /\ UNCHANGED rangeMapping
          ELSE /\ Judge(q, \E range \in Annotated : InRange(line, range))
               /\ rangeMapping' = Stored(rangeMapping, MainFile[Unit], Annotated)
    /\ UNCHANGED <<unit, rule>>

(* The two loops of RulesetBasedAnalyzer::analyze.                         *)
NextRule ==
    /\ unit <= Len(InOrder)
    /\ rule <= Len(Flown)
    /\ rule' = rule + 1
    /\ UNCHANGED <<unit, singleLineMapping, rangeMapping, passed, silenced>>

NextUnit ==
    /\ unit <= Len(InOrder)
    /\ rule > Len(Flown)
    /\ unit' = unit + 1
    /\ rule' = 1
    /\ UNCHANGED <<singleLineMapping, rangeMapping, passed, silenced>>

Flying == unit <= Len(InOrder) /\ rule <= Len(Flown)

Done == unit > Len(InOrder) /\ UNCHANGED vars

Next ==
    \/ Flying /\ \E n \in Reportable(Unit) : AddNodeViolation(n)
    \/ Flying /\ \E line \in Lines : AddLineViolation(line)
    \/ NextRule
    \/ NextUnit
    \/ Done

Spec == Init /\ [][Next]_vars

-----------------------------------------------------------------------------
TypeOK ==
    /\ unit \in 1..(Len(InOrder) + 1)
    /\ rule \in 1..(Len(Flown) + 1)
    /\ DOMAIN singleLineMapping \subseteq Names
    /\ \A name \in DOMAIN singleLineMapping : singleLineMapping[name] \subseteq Lines
    /\ DOMAIN rangeMapping \subseteq Names
    /\ \A name \in DOMAIN rangeMapping : rangeMapping[name] \subseteq Lines \X Lines
    /\ passed \subseteq Raised
    /\ silenced \subseteq Raised

(* What silences a violation, without any map in between.                  *)
Covered(u, r, line) ==
    \E d \in Traversed(u) :
        MarkedAsSuppress(d, r) /\ First[d] <= line /\ line <= Last[d]

Marked(q) ==
    IF q.node = NoNode THEN Covered(q.unit, q.rule, q.line)
    ELSE ShouldSuppressNode(q.node, q.rule)

Justified(q) == q.line \in CommentLines(q.unit) \/ Marked(q)

(***************************************************************************)
(* A violation that reached the report is on no commented line of its      *)
(* unit and under no annotation for its rule: the maps forget nothing      *)
(* between two rules or two units.                                         *)
(***************************************************************************)
NothingLeaks == \A q \in passed : ~Justified(q)

(***************************************************************************)
(* A violation that was silenced has a comment of its unit on its line or  *)
(* an annotation for its rule around it: the maps carry nothing over from  *)
(* another rule or unit.                                                   *)
(***************************************************************************)
NothingIsLost == \A q \in silenced : Justified(q)

(***************************************************************************)
(* The same violation of the same unit has one verdict, whenever it is     *)
(* raised: what a map answers once, it answers for the whole process.      *)
(***************************************************************************)
VerdictsAreStable == passed \cap silenced = {}

(* When the two properties before hold: files that share a name share      *)
(* their text, and only one rule reads source lines.                       *)
SameNameSameText ==
    \A u, v \in Units :
        MainFile[u] = MainFile[v] =>
            /\ CommentLines(u) = CommentLines(v)
            /\ \A r \in Rules : Collect(u, r) = Collect(v, r)

OneReader == \A r, s \in Readers : r = s

-----------------------------------------------------------------------------
(***************************************************************************)
(* The inductive invariant behind them.  A verdict is settled by what the  *)
(* maps hold by then, and stays settled because they only grow.            *)
(***************************************************************************)
CommentKnown(q) == MainFile[q.unit] \in DOMAIN singleLineMapping

OnComment(q) == CommentKnown(q) /\ q.line \in singleLineMapping[MainFile[q.unit]]

RangesKnown(q) == MainFile[q.unit] \in DOMAIN rangeMapping

InRanges(q) ==
    RangesKnown(q) /\ \E range \in rangeMapping[MainFile[q.unit]] : InRange(q.line, range)

SettledPassed(q) ==
    /\ CommentKnown(q) /\ ~OnComment(q)
    /\ IF q.node = NoNode THEN RangesKnown(q) /\ ~InRanges(q)
       ELSE ~ShouldSuppressNode(q.node, q.rule)

SettledSilenced(q) ==
    \/ OnComment(q)
    \/ IF q.node = NoNode THEN InRanges(q) ELSE ShouldSuppressNode(q.node, q.rule)

Settled ==
    /\ \A q \in passed : SettledPassed(q)
    /\ \A q \in silenced : SettledSilenced(q)
    /\ \A q \in passed \cup silenced : q.node = NoNode => q.rule \in Readers

(* Under the two conditions, what the maps hold is true of every unit.     *)
MapsAreTrue ==
    /\ \A u \in Units :
         MainFile[u] \in DOMAIN singleLineMapping =>
             singleLineMapping[MainFile[u]] = CommentLines(u)
    /\ \A u \in Units, r \in Readers :
         MainFile[u] \in DOMAIN rangeMapping =>
             rangeMapping[MainFile[u]] = Collect(u, r)

-----------------------------------------------------------------------------
(***************************************************************************)
(* SuppressHelperTest, NoSuppress: a line of a file without comment and    *)
(* annotation is not silenced.                                             *)
(***************************************************************************)
Comment(q) == [file |-> FileOf[q.unit], line |-> q.line]

PlainLineIsHeard ==
    \A q \in silenced :
        q.node = NoNode => Comment(q) \in Comments[q.unit] \/ Covered(q.unit, q.rule, q.line)
=============================================================================
