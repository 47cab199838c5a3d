----------------------------- MODULE CocoaProofs -----------------------------
(***************************************************************************)
(* Proofs about the rules for Objective-C classes: for every hierarchy of  *)
(* classes and protocols and every program, silence means that classes     *)
(* keep their contract, and a method that is reported never runs.          *)
(***************************************************************************)
EXTENDS CocoaRules, Induction, SequenceTheorems

-----------------------------------------------------------------------------
(***************************************************************************)
(* The chain of a class.                                                   *)
(***************************************************************************)
(* Whoever is in S has his superclass there.                               *)
GoesUp(S) == \A c \in S : Superclass[c] # NoClass => Superclass[c] \in S

(* Chain is well defined: it is the least set that goes up.                *)
LEMMA ChainIs ==
    ASSUME NEW c \in Classes
    PROVE  /\ Chain[c] = {c} \cup (IF Superclass[c] = NoClass THEN {} ELSE Chain[Superclass[c]])
<1> DEFINE Up(x) == {d \in Classes : \A S \in SUBSET Classes : x \in S /\ GoesUp(S) => d \in S}
           Step(f) == [x \in Classes |->
                         {x} \cup (IF Superclass[x] = NoClass THEN {} ELSE f[Superclass[x]])]
           up == [x \in Classes |-> Up(x)]
<1>1. ASSUME NEW x \in Classes
      PROVE  Up(x) = {x} \cup (IF Superclass[x] = NoClass THEN {} ELSE Up(Superclass[x]))
  <2>1. x \in Up(x)
    OBVIOUS
  <2>2. CASE Superclass[x] = NoClass
    <3>1. {x} \in SUBSET Classes /\ GoesUp({x})
      BY <2>2 DEF GoesUp
    <3> QED
      BY <2>1, <2>2, <3>1
  <2>3. CASE Superclass[x] # NoClass
    <3> DEFINE y == Superclass[x]
    <3>1. y \in Classes
      BY <2>3, CocoaAssumption
    <3>2. Up(y) \subseteq Up(x)
      BY <2>3, <3>1 DEF GoesUp
    <3>3. ASSUME NEW d \in Up(x), d # x PROVE d \in Up(y)
      <4>1. SUFFICES ASSUME NEW S \in SUBSET Classes, y \in S, GoesUp(S) PROVE d \in S
        BY <3>3
      <4>2. S \cup {x} \in SUBSET Classes /\ GoesUp(S \cup {x})
        BY <4>1, <2>3 DEF GoesUp
      <4> QED
        BY <3>3, <4>2
    <3> QED
      BY <2>1, <2>3, <3>2, <3>3
  <2> QED
    BY <2>2, <2>3
<1>2. up = Step(up)
  <2>1. \A x \in Classes : Superclass[x] # NoClass => Superclass[x] \in Classes
    BY CocoaAssumption
  <2> HIDE DEF Up
  <2> QED
    BY <1>1, <2>1
<1>3. Chain = CHOOSE f : f = Step(f)
  BY DEF Chain
<1> HIDE DEF Step, up
<1>4. Chain = Step(Chain)
  BY <1>2, <1>3
<1> QED
  BY <1>4 DEF Step

LEMMA ChainIsLeast ==
    ASSUME NEW S \in SUBSET Classes, GoesUp(S), NEW c \in S
    PROVE  Chain[c] \subseteq S
<1> DEFINE T == {x \in S : ~(Chain[x] \subseteq S)}
<1>1. SUFFICES T = {}
  OBVIOUS
<1>2. SUFFICES ASSUME T # {} PROVE FALSE
  OBVIOUS
<1>3. PICK x \in T : Superclass[x] \notin T
  BY <1>2, CocoaAssumption
<1>4. Chain[x] = {x} \cup (IF Superclass[x] = NoClass THEN {} ELSE Chain[Superclass[x]])
  BY ChainIs
<1> QED
  BY <1>3, <1>4 DEF GoesUp

LEMMA ChainGoesUp ==
    ASSUME NEW c \in Classes
    PROVE  Chain[c] \subseteq Classes /\ c \in Chain[c] /\ GoesUp(Chain[c])
<1>1. Chain[c] \subseteq Classes
  <2>1. GoesUp(Classes)
    BY CocoaAssumption DEF GoesUp
  <2> QED
    BY <2>1, ChainIsLeast
<1>2. c \in Chain[c]
  BY ChainIs
<1>3. Chain[c] \subseteq {x \in Chain[c] : Superclass[x] # NoClass => Superclass[x] \in Chain[c]}
  <2> DEFINE S == {x \in Chain[c] : Chain[x] \subseteq Chain[c]}
  <2>1. c \in S /\ S \subseteq Classes
    BY <1>1, <1>2
  <2>2. ASSUME NEW x \in S, Superclass[x] # NoClass PROVE Superclass[x] \in S
    <3>1. Chain[x] = {x} \cup Chain[Superclass[x]] /\ Superclass[x] \in Classes
      BY <2>1, <2>2, ChainIs, CocoaAssumption
    <3>2. Superclass[x] \in Chain[Superclass[x]]
      BY <3>1, ChainIs
    <3> QED
      BY <3>1, <3>2
  <2>3. Chain[c] \subseteq S
    BY <2>1, <2>2, ChainIsLeast DEF GoesUp
  <2> QED
    BY <2>2, <2>3
<1> QED
  BY <1>1, <1>2, <1>3 DEF GoesUp

(* Above is a partial order, and a chain is one from bottom to top.        *)
LEMMA ChainTransitive ==
    ASSUME NEW c \in Classes, NEW d \in Chain[c]
    PROVE  d \in Classes /\ Chain[d] \subseteq Chain[c]
BY ChainGoesUp, ChainIsLeast

LEMMA ChainAntisymmetric ==
    ASSUME NEW c \in Classes, NEW d \in Chain[c], c \in Chain[d]
    PROVE  c = d
<1> DEFINE T == {x \in Chain[c] : c \in Chain[x]}
<1>1. SUFFICES ASSUME c # d PROVE FALSE
  OBVIOUS
<1>2. T \subseteq Classes /\ c \in T /\ d \in T
  BY ChainGoesUp
<1>3. PICK x \in T : Superclass[x] \notin T
  BY <1>2, CocoaAssumption
<1>4. Chain[x] = {x} \cup (IF Superclass[x] = NoClass THEN {} ELSE Chain[Superclass[x]])
  BY <1>2, ChainIs
<1>5. x = c
  <2>1. SUFFICES ASSUME x # c PROVE FALSE
    OBVIOUS
  <2>2. Superclass[x] # NoClass /\ c \in Chain[Superclass[x]]
    BY <1>4, <2>1
  <2>3. Superclass[x] \in Chain[c]
    BY <2>2, ChainGoesUp DEF GoesUp
  <2> QED
    BY <1>3, <2>2, <2>3
<1>6. Superclass[c] # NoClass /\ d \in Chain[Superclass[c]] /\ Superclass[c] \in Chain[c]
  BY <1>1, <1>4, <1>5, ChainGoesUp DEF GoesUp
<1>7. Superclass[c] \in Classes
  BY <1>6, CocoaAssumption
<1>8. c \in Chain[Superclass[c]]
  BY <1>6, <1>7, ChainTransitive
<1> QED
  BY <1>3, <1>5, <1>6, <1>8

LEMMA ChainLinear ==
    ASSUME NEW c \in Classes, NEW d \in Chain[c], NEW e \in Chain[c]
    PROVE  d \in Chain[e] \/ e \in Chain[d]
<1> DEFINE S == {x \in Chain[c] : e \in Chain[x] \/ x \in Chain[e]}
<1>1. S \subseteq Classes /\ c \in S
  BY ChainGoesUp
<1>2. ASSUME NEW x \in S, Superclass[x] # NoClass PROVE Superclass[x] \in S
  <2> DEFINE y == Superclass[x]
  <2>1. y \in Chain[c] /\ y \in Classes /\ e \in Classes
    BY <1>2, ChainGoesUp DEF GoesUp
  <2>2. Chain[x] = {x} \cup Chain[y]
    BY <1>1, <1>2, ChainIs
  <2>3. CASE e = x
    BY <1>2, <2>1, <2>3, ChainGoesUp DEF GoesUp
  <2>4. CASE e # x /\ e \in Chain[x]
    BY <2>1, <2>2, <2>4
  <2>5. CASE x \in Chain[e]
    BY <1>2, <2>1, <2>5, ChainGoesUp DEF GoesUp
  <2> QED
    BY <2>3, <2>4, <2>5
<1>3. Chain[c] \subseteq S
  BY <1>1, <1>2, ChainIsLeast DEF GoesUp
<1> QED
  BY <1>3

(* Among some classes of a chain one is below all others.                  *)
LEMMA LowestIs ==
    ASSUME NEW c \in Classes, NEW D \in SUBSET Chain[c], D # {}
    PROVE  \E x \in D : Lowest(D) = {x} /\ D \subseteq Chain[x]
<1> DEFINE T == {x \in Chain[c] : D \subseteq Chain[x]}
<1>1. T \subseteq Classes /\ c \in T
  BY ChainGoesUp
<1>2. PICK x \in T : Superclass[x] \notin T
  BY <1>1, CocoaAssumption
<1>3. x \in D
  <2>1. SUFFICES ASSUME x \notin D PROVE FALSE
    OBVIOUS
  <2>2. Chain[x] = {x} \cup (IF Superclass[x] = NoClass THEN {} ELSE Chain[Superclass[x]])
    BY <1>1, ChainIs
  <2>3. Superclass[x] # NoClass /\ D \subseteq Chain[Superclass[x]]
    BY <2>1, <2>2
  <2>4. Superclass[x] \in Chain[c]
    BY <2>3, ChainGoesUp DEF GoesUp
  <2> QED
    BY <1>2, <2>3, <2>4
<1>4. ASSUME NEW y \in Lowest(D) PROVE y = x
  <2>1. y \in D /\ x \in Chain[y] /\ y \in Chain[x] /\ y \in Classes
    BY <1>2, <1>3, <1>4, ChainGoesUp DEF Lowest
  <2> QED
    BY <2>1, ChainAntisymmetric
<1> QED
  BY <1>2, <1>3, <1>4 DEF Lowest

(* What clang finds for a message to a class is declared on its chain.     *)
LEMMA FoundIs ==
    ASSUME NEW class, NEW m, NEW d \in Found(class, m)
    PROVE  d.of \in Chain[class]
<1>1. PICK c \in Chain[class] : d \in DeclaredIn(c, "interface", m) \cup DeclaredIn(c, "category", m)
  BY DEF Found, Lowest
<1> QED
  BY <1>1 DEF DeclaredIn, Declared

-----------------------------------------------------------------------------
(***************************************************************************)
(* The flight: what a rule that has flown has reported.                    *)
(***************************************************************************)
InFlight ==
    /\ \E flight \in Flights : rules = flight.rules /\ tree \in flight.trees
    /\ flown \in 0..Len(rules)

(* Three rules miss none of their places, and the fourth reports only what *)
(* nothing in the implementation says is used.                             *)
ReportsMade ==
    /\ \A i \in 1..flown :
         /\ rules[i] = "MustCallSuper" => MustCallSuper \subseteq At_("MustCallSuper")
         /\ rules[i] = "ProtectedMethod" => ProtectedMethod \subseteq At_("ProtectedMethod")
         /\ rules[i] = "SubclassMustImplement" =>
              SubclassMustImplement \subseteq At_("SubclassMustImplement")
    /\ At_("MethodIsUsed") # {} => \E i \in 1..flown : rules[i] = "MethodIsUsed"
    /\ At_("MethodIsUsed") \subseteq MayBeUnused

IInv == InFlight /\ ReportsMade

(* The rules look at the program alone.                                    *)
LEMMA SameProgram ==
    ASSUME tree' = tree
    PROVE  /\ MustCallSuper' = MustCallSuper
           /\ ProtectedMethod' = ProtectedMethod
           /\ SubclassMustImplement' = SubclassMustImplement
           /\ MayBeUnused' = MayBeUnused
<1>1. MustCallSuper' = MustCallSuper
  <2>1. \A of, where, m : Overridden(of, where, m)' = Overridden(of, where, m)
    BY DEF Overridden, OverriddenAt, Searched, InProtocols, InProtocol, DeclaredIn, Declared, program
  <2>2. \A d, rule : Enforced(d, rule)' = Enforced(d, rule)
    BY DEF Enforced, Declared, program
  <2>3. \A of, where, m : DeclRequiresSuperCall(of, where, m)' = DeclRequiresSuperCall(of, where, m)
    BY <2>1, <2>2 DEF DeclRequiresSuperCall
  <2> QED
    BY <2>3 DEF MustCallSuper, Decls, Methods, program, ClassAt, MethodAt
<1>2. ProtectedMethod' = ProtectedMethod
  BY DEF ProtectedMethod, Statements, StatementAt, Found, Methods, program, DeclaredIn, Declared,
         Enforced, ClassAt, MethodAt
<1>3. SubclassMustImplement' = SubclassMustImplement
  BY DEF SubclassMustImplement, Impls, ClassAt, Declared, Enforced, Implements, MethodsOf, MethodAt,
         program, Methods
<1>4. MayBeUnused' = MayBeUnused
  <2>1. Methods' = Methods
    BY DEF Methods, program
  <2>2. ASSUME NEW p
        PROVE  InterfaceHierarchyDeclaresMethod(ClassAt(p), MethodAt(p))'
                 = InterfaceHierarchyDeclaresMethod(ClassAt(p), MethodAt(p))
    BY DEF InterfaceHierarchyDeclaresMethod, Declares, Declared, ProtocolDeclaresMethod, program,
           ClassAt, MethodAt
  <2>3. ASSUME NEW p PROVE Verdicts(p)' = Verdicts(p)
    BY DEF Verdicts, ImplementationCallsMethod, OtherStatements, VerdictsUpTo, program, MethodAt
  <2> QED
    BY <2>1, <2>2, <2>3 DEF MayBeUnused, Unexported
<1> QED
  BY <1>1, <1>2, <1>3, <1>4

LEMMA InFlightStep == IInv /\ [CocoaRuleFlies \/ Crash \/ AnotherRuleFlies \/ Rest]_vars => InFlight'
<1> SUFFICES ASSUME IInv, [CocoaRuleFlies \/ Crash \/ AnotherRuleFlies \/ Rest]_vars PROVE InFlight'
  OBVIOUS
<1>1. PICK flight \in Flights : rules = flight.rules /\ tree \in flight.trees
  BY DEF IInv, InFlight
<1>2. Len(rules) \in Nat /\ flown \in 0..Len(rules)
  BY <1>1, FlightsAssumption, LenProperties DEF IInv, InFlight
<1>3. rules' = rules /\ tree' = tree
  BY DEF CocoaRuleFlies, Crash, AnotherRuleFlies, Rest, Report, vars
<1>4. flown' = flown \/ (flown' = flown + 1 /\ flown < Len(rules))
  BY DEF CocoaRuleFlies, Crash, AnotherRuleFlies, Rest, Report, vars, Aloft
<1> QED
  BY <1>1, <1>2, <1>3, <1>4 DEF InFlight

LEMMA ReportsMadeStep ==
    IInv /\ [CocoaRuleFlies \/ Crash \/ AnotherRuleFlies \/ Rest]_vars => ReportsMade'
<1> SUFFICES ASSUME IInv, [CocoaRuleFlies \/ Crash \/ AnotherRuleFlies \/ Rest]_vars
             PROVE  ReportsMade'
  OBVIOUS
<1>1. flown \in Nat
  <2>1. Len(rules) \in Nat
    BY FlightsAssumption, LenProperties DEF IInv, InFlight
  <2> QED
    BY <2>1 DEF IInv, InFlight
<1>2. rules' = rules /\ tree' = tree
  BY DEF CocoaRuleFlies, Crash, AnotherRuleFlies, Rest, Report, vars
<1>3. /\ MustCallSuper' = MustCallSuper /\ ProtectedMethod' = ProtectedMethod
      /\ SubclassMustImplement' = SubclassMustImplement /\ MayBeUnused' = MayBeUnused
  BY <1>2, SameProgram
<1>4. CASE Crash \/ Rest \/ UNCHANGED vars
  <2>1. flown' = flown /\ reported' = reported
    BY <1>4 DEF Crash, Rest, vars
  <2> QED
    BY <1>2, <1>3, <2>1 DEF IInv, ReportsMade, At_
<1>5. CASE CocoaRuleFlies
  <2>1. PICK places \in PlacesOf(Turn) : Report(places)
    BY <1>5 DEF CocoaRuleFlies
  <2>2. flown' = flown + 1 /\ Turn \in CocoaRuleNames /\ Turn = rules[flown + 1]
    BY <1>5, <2>1 DEF CocoaRuleFlies, Report, Turn
  <2>3. \A rule : At_(rule)' = At_(rule) \cup (IF rule = Turn THEN places ELSE {})
    <3>1. reported' = reported \cup {[rule |-> Turn, at |-> p] : p \in places}
      BY <2>1 DEF Report
    <3>2. ASSUME NEW rule, NEW x
          PROVE  x \in At_(rule)' <=> x \in At_(rule) \/ (rule = Turn /\ x \in places)
      <4>1. x \in At_(rule)' <=> \E f \in reported' : f.rule = rule /\ f.at = x
        BY DEF At_
      <4>2. x \in At_(rule) <=> \E f \in reported : f.rule = rule /\ f.at = x
        BY DEF At_
      <4>3. (\E f \in {[rule |-> Turn, at |-> p] : p \in places} : f.rule = rule /\ f.at = x)
              <=> rule = Turn /\ x \in places
        <5>1. \A p : [rule |-> Turn, at |-> p].rule = Turn /\ [rule |-> Turn, at |-> p].at = p
          OBVIOUS
        <5> QED
          BY <5>1, Zenon
      <4> QED
        BY <3>1, <4>1, <4>2, <4>3
    <3> QED
      BY <3>2
  <2>4. /\ Turn = "MustCallSuper" => places = MustCallSuper
        /\ Turn = "ProtectedMethod" => places = ProtectedMethod
        /\ Turn = "SubclassMustImplement" => places = SubclassMustImplement
        /\ Turn = "MethodIsUsed" => places \subseteq MayBeUnused
    <3>1. MustBeUnused \subseteq MayBeUnused
      BY DEF MustBeUnused, MayBeUnused
    <3> QED
      BY <3>1 DEF PlacesOf
  <2>5. \A i \in 1..(flown + 1) : i \in 1..flown \/ i = flown + 1
    BY <1>1
  <2>6. flown + 1 \in 1..(flown + 1) /\ 1..flown \subseteq 1..(flown + 1)
    BY <1>1
  <2> QED
    BY <1>2, <1>3, <2>2, <2>3, <2>4, <2>5, <2>6 DEF IInv, ReportsMade
<1>6. CASE AnotherRuleFlies
  <2>1. flown' = flown + 1 /\ Turn \notin CocoaRuleNames /\ Turn = rules[flown + 1]
    BY <1>6 DEF AnotherRuleFlies, Turn
  <2>2. \A rule \in CocoaRuleNames : At_(rule)' = At_(rule)
    BY <1>6 DEF AnotherRuleFlies, At_
  <2>3. \A i \in 1..(flown + 1) : i \in 1..flown \/ i = flown + 1
    BY <1>1
  <2>4. 1..flown \subseteq 1..(flown + 1)
    BY <1>1
  <2> QED
    BY <1>2, <1>3, <2>1, <2>2, <2>3, <2>4 DEF IInv, ReportsMade, CocoaRuleNames
<1> QED
  BY <1>4, <1>5, <1>6

LEMMA FlightInvariance == CocoaSpec => []IInv
<1>1. Init => IInv
  <2> SUFFICES ASSUME Init PROVE IInv
    OBVIOUS
  <2>1. PICK flight \in Flights : rules = flight.rules /\ tree \in flight.trees
    BY DEF Init
  <2>2. Len(rules) \in Nat
    BY <2>1, FlightsAssumption, LenProperties
  <2>3. \A rule : At_(rule) = {}
    BY DEF Init, At_
  <2>4. flown = 0
    BY DEF Init
  <2> QED
    BY <2>1, <2>2, <2>3, <2>4 DEF IInv, InFlight, ReportsMade
<1>2. IInv /\ [CocoaRuleFlies \/ Crash \/ AnotherRuleFlies \/ Rest]_vars => IInv'
  BY InFlightStep, ReportsMadeStep DEF IInv
<1> QED
  BY <1>1, <1>2, PTL DEF CocoaSpec

-----------------------------------------------------------------------------
(***************************************************************************)
(* ObjCVerifyProtectedMethod.                                              *)
(***************************************************************************)
(* A rule that has flown has reported all its places.                      *)
LEMMA HaveFlown ==
    ASSUME IInv, NEW rule, Have(rule)
    PROVE  /\ \E i \in 1..flown : rules[i] = rule
           /\ rule \in CocoaRuleNames => IsProgram(tree)
<1>1. PICK flight \in Flights : rules = flight.rules /\ tree \in flight.trees
  BY DEF IInv, InFlight
<1>2. DOMAIN rules = 1..Len(rules)
  BY <1>1, FlightsAssumption, LenProperties
<1>3. PICK i \in 1..Len(rules) : rules[i] = rule
  BY <1>2 DEF Have, ToSet
<1>4. rule \in ToSet(flight.rules)
  BY <1>1 DEF Have
<1> QED
  BY <1>1, <1>3, <1>4, ProgramsAssumption DEF Have, Landed

LEMMA ProtectionHolds == IInv => OutsideCallsAreReported
<1> SUFFICES ASSUME IInv, Have("ProtectedMethod"), NEW p \in Statements,
                    NEW c \in Protectors(p), ClassAt(p) \notin Below(c)
             PROVE  p \in At_("ProtectedMethod")
  BY DEF OutsideCallsAreReported
<1> DEFINE s == StatementAt(p)
           m == [sel |-> s.sel, kind |-> s.method]
<1>1. ProtectedMethod \subseteq At_("ProtectedMethod") /\ IsProgram(tree)
  BY HaveFlown DEF IInv, ReportsMade, CocoaRuleNames
<1>2. /\ s.k = "message" /\ s.to \in Classes
      /\ \E d \in Found(s.to, m) : Enforced(d, "protected method") /\ c = d.of
  BY DEF Protectors
<1>3. PICK d \in Found(s.to, m) : Enforced(d, "protected method") /\ c = d.of
  BY <1>2
<1>4. c \in Chain[s.to]
  BY <1>3, FoundIs
<1>5. ClassAt(p) \in Classes
  BY <1>1 DEF Statements, Methods, IsProgram, ClassAt, program
<1>6. s.to \notin Chain[ClassAt(p)]
  BY <1>2, <1>4, <1>5, ChainTransitive DEF Below
<1>7. s.to # "super"
  BY <1>2, CocoaAssumption
<1>8. p \in ProtectedMethod
  BY <1>2, <1>3, <1>6, <1>7 DEF ProtectedMethod, IsObjCInterfaceClassOrSubclass
<1> QED
  BY <1>1, <1>8

-----------------------------------------------------------------------------
(***************************************************************************)
(* ObjCVerifySubclassMustImplement.                                        *)
(***************************************************************************)
(* From a class on the way to another one there is a class right below it. *)
LEMMA RightBelow ==
    ASSUME NEW c \in Classes, NEW d \in Chain[c], c # d
    PROVE  \E e \in Chain[c] : Superclass[e] = d
<1> DEFINE T == {x \in Chain[c] : d \in Chain[x] /\ x # d}
<1>1. T \subseteq Classes /\ c \in T
  BY ChainGoesUp
<1>2. PICK x \in T : Superclass[x] \notin T
  BY <1>1, CocoaAssumption
<1>3. Chain[x] = {x} \cup (IF Superclass[x] = NoClass THEN {} ELSE Chain[Superclass[x]])
  BY <1>1, ChainIs
<1>4. Superclass[x] # NoClass /\ d \in Chain[Superclass[x]]
  BY <1>2, <1>3
<1>5. Superclass[x] \in Chain[c]
  BY <1>4, ChainGoesUp DEF GoesUp
<1> QED
  BY <1>2, <1>4, <1>5

LEMMA ImplementationHolds == IInv => AbstractMethodsAreImplemented
<1> SUFFICES ASSUME IInv, Have("SubclassMustImplement"), At_("SubclassMustImplement") = {},
                    {ClassAt(i) : i \in Impls} = Classes,
                    NEW d \in ToSet(program.decls), d.where = "interface",
                    Enforced(d, "abstract method"),
                    NEW c \in Below(d.of) \ {d.of}
             PROVE  \E e \in Starts(c, d) : e \in Below(d.of) \ {d.of}
  BY DEF AbstractMethodsAreImplemented
<1>1. SubclassMustImplement = {} /\ IsProgram(tree)
  BY HaveFlown DEF IInv, ReportsMade, CocoaRuleNames
<1>2. c \in Classes /\ d.of \in Chain[c] /\ c # d.of /\ d.of \in Classes
  BY ChainGoesUp DEF Below
<1>3. PICK e \in Chain[c] : Superclass[e] = d.of
  BY <1>2, RightBelow
<1>4. e \in Classes /\ d.of \in Chain[e] /\ d.of # e
  <2>1. e \in Classes
    BY <1>2, ChainGoesUp
  <2>2. e \in Chain[e] /\ (Superclass[e] # NoClass => Superclass[e] \in Chain[e])
    BY <2>1, ChainGoesUp DEF GoesUp
  <2>3. Superclass[e] # NoClass
    BY <1>2, <1>3, CocoaAssumption
  <2>4. d.of # e
    <3>1. SUFFICES ASSUME d.of = e PROVE FALSE
      OBVIOUS
    <3>2. {e} \in SUBSET Classes /\ {e} # {}
      BY <2>1
    <3>3. \E x \in {e} : Superclass[x] \notin {e}
      BY <3>2, CocoaAssumption
    <3> QED
      BY <1>3, <3>1, <3>3
  <2> QED
    BY <1>3, <2>1, <2>2, <2>3, <2>4
<1>5. PICK i \in Impls : ClassAt(i) = e
  BY <1>4
<1>6. Implements(i, d)
  <2>1. d \in Declared(Superclass[ClassAt(i)], "interface")
    BY <1>3, <1>5 DEF Declared
  <2> QED
    BY <1>1, <2>1 DEF SubclassMustImplement
<1>7. Bodies(e, d) # {}
  <2>1. PICK n \in Methods : n[1] = i[1] /\ MethodsAreEqual(MethodAt(n), d)
    BY <1>6 DEF Implements, MethodsOf
  <2>2. ClassAt(n) = e
    BY <1>5, <2>1 DEF ClassAt
  <2> QED
    BY <2>1, <2>2 DEF Bodies
<1> DEFINE D == Implementers(c, d)
<1>8. D \in SUBSET Chain[c] /\ e \in D
  BY <1>7 DEF Implementers
<1>9. PICK x \in D : Lowest(D) = {x} /\ D \subseteq Chain[x]
  <2> HIDE DEF D
  <2>1. c \in Classes /\ D # {}
    BY <1>2, <1>8
  <2>2. \A S \in SUBSET Chain[c] :
          S # {} => \E x \in S : Lowest(S) = {x} /\ S \subseteq Chain[x]
    BY <2>1, LowestIs
  <2> QED
    BY <1>8, <2>1, <2>2
<1>10. x \in Classes /\ e \in Chain[x] /\ d.of \in Chain[x]
  BY <1>2, <1>4, <1>8, <1>9, ChainGoesUp, ChainTransitive
<1>11. x # d.of
  BY <1>2, <1>4, <1>10, ChainAntisymmetric
<1> QED
  BY <1>9, <1>10, <1>11 DEF Starts, Below

-----------------------------------------------------------------------------
(***************************************************************************)
(* ObjCVerifyMustCallSuper.                                                *)
(***************************************************************************)
(* A method overrides what the nearest class above says whose interface    *)
(* declares it.                                                            *)
LEMMA NearestIs ==
    ASSUME NEW x \in Classes, NEW d \in ToSet(program.decls), d.where = "interface",
           d.of \in Chain[x], d.of # x, NEW m, MethodsAreEqual(d, m)
    PROVE  \E z \in Chain[x] \ {x} :
             /\ d.of \in Chain[z]
             /\ DeclaredIn(z, "interface", m) # {}
             /\ \A where : where # "protocol" =>
                  DeclaredIn(z, "interface", m) \subseteq Overridden(x, where, m)
<1> DEFINE D == {z \in Chain[x] \ {x} : DeclaredIn(z, "interface", m) # {}}
<1>1. D \in SUBSET Chain[x] /\ d.of \in D
  BY DEF DeclaredIn, Declared
<1>2. PICK z \in D : D \subseteq Chain[z]
  <2> HIDE DEF D
  <2>1. D # {}
    BY <1>1
  <2>2. \A S \in SUBSET Chain[x] : S # {} => \E z \in S : S \subseteq Chain[z]
    BY LowestIs
  <2> QED
    BY <1>1, <2>1, <2>2
<1>3. z \in Searched(x, m)
  <2>1. SUFFICES ASSUME NEW b \in Chain[x] \ {x, z}, z \in Chain[b],
                        DeclaredIn(b, "interface", m) # {}
                 PROVE  FALSE
    BY <1>2 DEF Searched
  <2>2. b \in Chain[z] /\ b \in Classes
    BY <1>2, <2>1, ChainGoesUp
  <2> QED
    BY <2>1, <2>2, ChainAntisymmetric
<1>4. OverriddenAt(z, m) = DeclaredIn(z, "interface", m)
  BY <1>2 DEF OverriddenAt
<1>5. ASSUME NEW where, where # "protocol"
      PROVE  DeclaredIn(z, "interface", m) \subseteq Overridden(x, where, m)
  BY <1>3, <1>4, <1>5 DEF Overridden
<1> QED
  BY <1>1, <1>2, <1>5

(* A marked method demands its call in a class below, where the classes in *)
(* between that declare it again say so too.                               *)
Passed(d, e, x) ==
    /\ e.where = "interface" /\ MethodsAreEqual(e, d)
    /\ e.of \in Chain[x] \ {x, d.of} /\ d.of \in Chain[e.of]

LEMMA MarkIsSeen ==
    ASSUME NEW x \in Classes, NEW d \in ToSet(program.decls), d.where = "interface",
           Enforced(d, "base method"), d.of \in Chain[x], d.of # x,
           NEW m, MethodsAreEqual(d, m), NEW where, where # "protocol",
           \A e \in ToSet(program.decls) : Passed(d, e, x) => Enforced(e, "base method")
    PROVE  DeclRequiresSuperCall(x, where, m)
<1>1. PICK z \in Chain[x] \ {x} :
        /\ d.of \in Chain[z]
        /\ DeclaredIn(z, "interface", m) # {}
        /\ DeclaredIn(z, "interface", m) \subseteq Overridden(x, where, m)
  BY NearestIs
<1>2. CASE z = d.of
  <2>1. d \in DeclaredIn(z, "interface", m)
    BY <1>2 DEF DeclaredIn, Declared
  <2> QED
    BY <1>1, <2>1 DEF DeclRequiresSuperCall
<1>3. CASE z # d.of
  <2>1. PICK e \in DeclaredIn(z, "interface", m) : TRUE
    BY <1>1
  <2>2. e \in ToSet(program.decls) /\ e.of = z /\ e.where = "interface" /\ MethodsAreEqual(e, d)
    BY <2>1 DEF DeclaredIn, Declared, MethodsAreEqual
  <2>3. Enforced(e, "base method")
    BY <1>1, <1>3, <2>2 DEF Passed
  <2> QED
    BY <1>1, <2>1, <2>3 DEF DeclRequiresSuperCall
<1> QED
  BY <1>2, <1>3

(* Where nothing is reported and nothing hides the mark, every class in    *)
(* between that declares the method again marks it: the highest that does  *)
(* not is visited, overrides a marked method and is reported.              *)
LEMMA AllAreMarked ==
    ASSUME MustCallSuper = {}, IsProgram(tree),
           NEW d \in ToSet(program.decls), d.where = "interface", Enforced(d, "base method"),
           NEW c \in Classes, ~MarkIsHidden(c, d),
           NEW e \in ToSet(program.decls), Passed(d, e, c)
    PROVE  Enforced(e, "base method")
<1> DEFINE R == {x \in Classes : \E f \in ToSet(program.decls) :
                    f.of = x /\ Passed(d, f, c) /\ ~Enforced(f, "base method")}
           T == {x \in Chain[c] : Chain[x] \cap R # {}}
<1>1. SUFFICES ASSUME ~Enforced(e, "base method") PROVE FALSE
  OBVIOUS
<1>2. T \subseteq Classes /\ e.of \in T
  <2>1. e.of \in Chain[c] /\ e.of \in Classes
    BY ChainGoesUp DEF Passed
  <2>2. e.of \in R
    BY <1>1, <2>1
  <2>3. e.of \in Chain[e.of]
    BY <2>1, ChainGoesUp
  <2> HIDE DEF R
  <2> QED
    BY <2>1, <2>2, <2>3, ChainGoesUp
<1>3. PICK x \in T : Superclass[x] \notin T
  <2> HIDE DEF T
  <2> QED
    BY <1>2, CocoaAssumption
<1>4. x \in Classes /\ Chain[x] = {x} \cup (IF Superclass[x] = NoClass THEN {} ELSE Chain[Superclass[x]])
  BY <1>2, ChainIs
<1>5. x \in R /\ (Chain[x] \ {x}) \cap R = {}
  <2> HIDE DEF R
  <2>1. Superclass[x] # NoClass => Superclass[x] \in Chain[c]
    BY ChainGoesUp DEF GoesUp
  <2>2. Superclass[x] # NoClass => Chain[Superclass[x]] \cap R = {}
    BY <1>3, <2>1
  <2>3. Chain[x] \cap R # {}
    BY <1>3
  <2> QED
    BY <1>4, <2>2, <2>3
<1>6. PICK f \in ToSet(program.decls) :
        f.of = x /\ Passed(d, f, c) /\ ~Enforced(f, "base method")
  BY <1>5
<1>7. f.visited
  <2>1. f.visited \in BOOLEAN
    BY DEF IsProgram, program
  <2> QED
    BY <1>6, <2>1 DEF MarkIsHidden, Passed
<1>8. /\ f.where = "interface" /\ MethodsAreEqual(d, f)
      /\ x \in Chain[c] /\ x # c /\ d.of \in Chain[x] /\ d.of # x
  BY <1>6 DEF Passed, MethodsAreEqual
<1>9. ASSUME NEW g \in ToSet(program.decls), Passed(d, g, x) PROVE Enforced(g, "base method")
  <2>1. g.of \in Chain[x] /\ g.of # x /\ g.of \in Classes
    BY <1>4, <1>9, ChainGoesUp DEF Passed
  <2>2. g.of \in Chain[c] /\ g.of # c
    <3>1. g.of \in Chain[c]
      BY <1>8, <2>1, ChainTransitive
    <3>2. g.of = c => x = c
      BY <1>4, <1>8, <2>1, ChainAntisymmetric
    <3> QED
      BY <1>8, <3>1, <3>2
  <2>3. Passed(d, g, c)
    BY <1>9, <2>2 DEF Passed
  <2>4. g.of \notin R
    <3> HIDE DEF R
    <3> QED
      BY <1>5, <2>1
  <2> QED
    BY <2>1, <2>3, <2>4
<1>10. DeclRequiresSuperCall(f.of, f.where, f)
  BY <1>4, <1>6, <1>8, <1>9, MarkIsSeen
<1>11. PICK k \in DOMAIN program.decls : program.decls[k] = f
  BY DEF ToSet
<1>12. <<0, k, 0>> \in Decls /\ <<0, k, 0>>[2] = k
  BY DEF Decls
<1>13. <<0, k, 0>> \in MustCallSuper
  BY <1>7, <1>10, <1>11, <1>12 DEF MustCallSuper
<1> QED
  BY <1>13

LEMMA BaseHolds == IInv => BaseMethodsRun
<1> SUFFICES ASSUME IInv, Have("MustCallSuper"), At_("MustCallSuper") = {},
                    NEW d \in ToSet(program.decls), d.where = "interface",
                    Enforced(d, "base method"), Bodies(d.of, d) # {},
                    NEW c \in Below(d.of), ~MarkIsHidden(c, d)
             PROVE  d.of \in Ran(c, d)
  BY DEF BaseMethodsRun
<1>1. MustCallSuper = {} /\ IsProgram(tree)
  BY HaveFlown DEF IInv, ReportsMade, CocoaRuleNames
<1>2. c \in Classes /\ d.of \in Chain[c] /\ d.of \in Classes
  BY ChainGoesUp DEF Below
<1>3. d.of \in Implementers(c, d)
  BY <1>2 DEF Implementers
<1>4. ASSUME NEW e \in Implementers(c, d) \ {d.of}, d.of \in Chain[e]
      PROVE  \E n \in Bodies(e, d) : CallsSuper(n)
  <2>1. e \in Classes /\ e \in Chain[c] /\ e # d.of
    BY <1>2, ChainGoesUp DEF Implementers
  <2>2. PICK n \in Bodies(e, d) : TRUE
    BY DEF Implementers
  <2>3. n \in Methods /\ ClassAt(n) = e /\ MethodsAreEqual(MethodAt(n), d)
    BY <2>2 DEF Bodies
  <2>4. MethodsAreEqual(d, MethodAt(n))
    BY <2>3 DEF MethodsAreEqual
  <2>5. ASSUME NEW f \in ToSet(program.decls), Passed(d, f, e) PROVE Enforced(f, "base method")
    <3>1. f.of \in Chain[e] /\ f.of # e /\ f.of \in Chain[c]
      BY <1>2, <2>1, <2>5, ChainTransitive DEF Passed
    <3>2. f.of # c
      BY <1>2, <2>1, <3>1, ChainAntisymmetric
    <3>3. Passed(d, f, c)
      BY <2>5, <3>1, <3>2 DEF Passed
    <3> QED
      BY <1>1, <1>2, <3>3, AllAreMarked
  <2>6. DeclRequiresSuperCall(ClassAt(n), "implementation", MethodAt(n))
    BY <1>4, <2>1, <2>3, <2>4, <2>5, MarkIsSeen
  <2>7. FoundSuperCall(MethodAt(n).sel, MethodAt(n).body)
    BY <1>1, <2>3, <2>6 DEF MustCallSuper
  <2>8. CallsSuper(n)
    BY <2>7 DEF FoundSuperCall, CallsSuper
  <2> QED
    BY <2>2, <2>8
<1> QED
  BY <1>3, <1>4 DEF Ran

-----------------------------------------------------------------------------
(***************************************************************************)
(* ObjCVerifyMethodIsUsed: what is exported.                               *)
(***************************************************************************)
(* Whoever is in S has the protocols he adopts there.                      *)
Adopting(S) == \A r \in S : Adopts[r] \subseteq S

LEMMA AdoptedIs ==
    ASSUME NEW p \in Protocols
    PROVE  /\ p \in Adopted(p) /\ Adopted(p) \subseteq Protocols
           /\ \A S \in SUBSET Protocols : p \in S /\ Adopting(S) => Adopted(p) \subseteq S
           /\ Adopted(p) = {p} \cup UNION {Adopted(q) : q \in Adopts[p]}
<1>1. p \in Adopted(p) /\ Adopted(p) \subseteq Protocols
  BY DEF Adopted
<1>2. \A S \in SUBSET Protocols : p \in S /\ Adopting(S) => Adopted(p) \subseteq S
  BY DEF Adopted, Adopting
<1>3. ASSUME NEW q \in Adopts[p] PROVE Adopted(q) \subseteq Adopted(p)
  <2>1. \A S \in SUBSET Protocols : p \in S /\ Adopting(S) => q \in S
    BY <1>3 DEF Adopting
  <2> QED
    BY <2>1 DEF Adopted, Adopting
<1>4. ASSUME NEW r \in Adopted(p), r # p PROVE \E q \in Adopts[p] : r \in Adopted(q)
  <2> DEFINE S == {p} \cup UNION {Adopted(q) : q \in Adopts[p]}
  <2>1. \A q \in Adopts[p] : q \in Protocols
    BY CocoaAssumption
  <2>2. \A q \in Protocols : q \in Adopted(q) /\ Adopted(q) \subseteq Protocols
    BY DEF Adopted
  <2>3. S \in SUBSET Protocols
    BY <2>1, <2>2
  <2>4. \A q \in Adopts[p] : \A x \in Adopted(q) : Adopts[x] \subseteq Adopted(q)
    <3>1. ASSUME NEW q \in Adopts[p], NEW x \in Adopted(q), NEW y \in Adopts[x]
          PROVE  y \in Adopted(q)
      <4>1. x \in Protocols
        BY <2>1, <2>2
      <4>2. y \in Protocols
        BY <4>1, CocoaAssumption
      <4>3. ASSUME NEW U \in SUBSET Protocols, q \in U, \A z \in U : Adopts[z] \subseteq U
            PROVE  y \in U
        <5>1. x \in U
          BY <4>3 DEF Adopted
        <5> QED
          BY <4>3, <5>1
      <4> QED
        BY <4>2, <4>3 DEF Adopted
    <3> QED
      BY <3>1
  <2>5. Adopts[p] \subseteq S
    BY <2>1, <2>2
  <2>6. Adopting(S)
    <3>1. ASSUME NEW x \in S PROVE Adopts[x] \subseteq S
      BY <2>4, <2>5
    <3> HIDE DEF S
    <3> QED
      BY <3>1 DEF Adopting
  <2>7. r \in S
    <3> HIDE DEF S
    <3>1. p \in S
      BY DEF S
    <3> QED
      BY <1>2, <2>3, <2>6, <3>1
  <2> QED
    BY <1>4, <2>7
<1>5. Adopted(p) = {p} \cup UNION {Adopted(q) : q \in Adopts[p]}
  BY <1>1, <1>3, <1>4
<1> QED
  BY <1>1, <1>2, <1>5

(* The descent of protocolDeclaresMethod finds what any adopted protocol   *)
(* declares.                                                               *)
LEMMA ProtocolDeclares ==
    ASSUME NEW p \in Protocols, NEW m, NEW q \in Adopted(p), Declares(q, "protocol", m)
    PROVE  ProtocolDeclaresMethod(p, m)
<1> DEFINE D(x) == Declares(x, "protocol", m)
           Step(f) == [x \in Protocols |-> D(x) \/ \E r \in Adopts[x] : f[r]]
           found == [x \in Protocols |-> \E r \in Adopted(x) : D(r)]
           declares == CHOOSE f : f = Step(f)
<1>1. \A x \in Protocols : Adopts[x] \subseteq Protocols
  BY CocoaAssumption
<1>2. ASSUME NEW x \in Protocols
      PROVE  (\E r \in Adopted(x) : D(r)) <=> D(x) \/ \E r \in Adopts[x] : found[r]
  <2>1. Adopted(x) = {x} \cup UNION {Adopted(r) : r \in Adopts[x]}
    BY AdoptedIs
  <2>2. \A r \in Adopts[x] : found[r] <=> \E y \in Adopted(r) : D(y)
    BY <1>1
  <2> HIDE DEF D, found
  <2> QED
    BY <2>1, <2>2
<1>3. found = Step(found)
  BY <1>2
<1>4. ProtocolDeclaresMethod(p, m) = declares[p]
  BY DEF ProtocolDeclaresMethod
<1>5. declares = Step(declares)
  <2> HIDE DEF Step, found
  <2> QED
    BY <1>3
<1> HIDE DEF declares
<1> DEFINE S == {x \in Protocols : ~declares[x]}
<1>6. \A x \in Protocols : declares[x] <=> D(x) \/ \E r \in Adopts[x] : declares[r]
  BY <1>5
<1>7. Adopting(S)
  BY <1>1, <1>6 DEF Adopting
<1>8. declares[p]
  <2>1. SUFFICES ASSUME ~declares[p] PROVE FALSE
    OBVIOUS
  <2>2. p \in S /\ S \in SUBSET Protocols
    BY <2>1
  <2> HIDE DEF S
  <2>3. q \in S
    BY <1>7, <2>2, AdoptedIs
  <2> QED
    BY <1>6, <2>3 DEF S
<1> QED
  BY <1>4, <1>8

LEMMA ExportedIsDeclared ==
    ASSUME IsProgram(tree), NEW c \in Classes, NEW m, Exported(program.decls, c, m)
    PROVE  InterfaceHierarchyDeclaresMethod(c, m)
<1>1. PICK d \in ToSet(program.decls) :
        /\ MethodsAreEqual(d, m)
        /\ IF d.where = "protocol"
           THEN \E e \in Chain[c] : \E p \in Conforms[e] : d.of \in Adopted(p)
           ELSE d.of \in Chain[c]
  BY DEF Exported
<1>2. CASE d.where # "protocol"
  <2>1. d.where \in {"interface", "category"}
    BY <1>2 DEF IsProgram, program
  <2>2. d \in Declared(d.of, d.where)
    BY DEF Declared
  <2> QED
    BY <1>1, <1>2, <2>1, <2>2 DEF InterfaceHierarchyDeclaresMethod, Declares
<1>3. CASE d.where = "protocol"
  <2>0. PICK e \in Chain[c] : \E p \in Conforms[e] : d.of \in Adopted(p)
    BY <1>1, <1>3
  <2>1. PICK p \in Conforms[e] : d.of \in Adopted(p)
    BY <2>0
  <2>2. e \in Classes
    BY ChainGoesUp
  <2>3. p \in Protocols
    BY <2>2, CocoaAssumption
  <2>4. Declares(d.of, "protocol", m)
    BY <1>1, <1>3 DEF Declares, Declared
  <2>5. ProtocolDeclaresMethod(p, m)
    BY <2>1, <2>3, <2>4, ProtocolDeclares
  <2> QED
    BY <2>1, <2>5 DEF InterfaceHierarchyDeclaresMethod
<1> QED
  BY <1>2, <1>3

(* A reported method is one the program has.                               *)
LEMMA ReportedIs ==
    ASSUME IInv, NEW p \in At_("MethodIsUsed")
    PROVE  /\ IsProgram(tree)
           /\ p \in Methods /\ ClassAt(p) \in Classes
           /\ ~InterfaceHierarchyDeclaresMethod(ClassAt(p), MethodAt(p))
           /\ "no" \in Verdicts(p)
<1>1. PICK flight \in Flights : rules = flight.rules /\ tree \in flight.trees
  BY DEF IInv, InFlight
<1>2. DOMAIN rules = 1..Len(rules) /\ Len(rules) \in Nat
  BY <1>1, FlightsAssumption, LenProperties
<1>3. PICK i \in 1..flown : rules[i] = "MethodIsUsed"
  BY DEF IInv, ReportsMade
<1>4. i \in DOMAIN rules
  BY <1>2 DEF IInv, InFlight
<1>5. IsProgram(tree)
  BY <1>1, <1>3, <1>4, ProgramsAssumption DEF ToSet, CocoaRuleNames
<1>6. p \in MayBeUnused
  BY DEF IInv, ReportsMade
<1>7. p \in Methods
  BY <1>6 DEF MayBeUnused, Unexported
<1>8. ClassAt(p) \in Classes
  BY <1>5, <1>7 DEF Methods, IsProgram, ClassAt, program
<1> QED
  BY <1>5, <1>6, <1>7, <1>8 DEF MayBeUnused, Unexported

LEMMA ExportHolds == IInv => ReportedMethodsAreNotExported
BY ReportedIs, ExportedIsDeclared DEF ReportedMethodsAreNotExported

-----------------------------------------------------------------------------
(***************************************************************************)
(* ObjCVerifyMethodIsUsed: what is used.                                   *)
(***************************************************************************)
AnyVerdict == {"no", "possibly", "used", "crash"}

LEMMA SaysType ==
    ASSUME NEW s, s.k \in {"selector", "message", "property"}, NEW class, NEW m
    PROVE  Says(s, class, m) \subseteq AnyVerdict
BY DEF Says, Collected, ReceiverSays, AnyVerdict

(* The verdicts after each statement are well defined.                     *)
LEMMA VerdictsTurns ==
    ASSUME NEW S, NEW statements \in Seq(S), NEW class, NEW m,
           \A s \in S : s.k \in {"selector", "message", "property"}
    PROVE  /\ VerdictsUpTo(statements, class, m)[0] = {"no"}
           /\ \A n \in 1..Len(statements) :
                VerdictsUpTo(statements, class, m)[n] =
                  {VerdictAfter(v, said) : v \in VerdictsUpTo(statements, class, m)[n - 1],
                                           said \in Says(statements[n], class, m)}
<1> DEFINE N == Len(statements)
           After(V, n) == {VerdictAfter(v, said) : v \in V, said \in Says(statements[n], class, m)}
           G == [n \in 1..N |-> [V \in SUBSET AnyVerdict |-> After(V, n)]]
           Body(f) == [n \in 0..N |-> IF n = 0 THEN {"no"} ELSE After(f[n - 1], n)]
<1>1. N \in Nat /\ \A n \in 1..N : Says(statements[n], class, m) \subseteq AnyVerdict
  BY LenProperties, ElementOfSeq, SaysType
<1>2. G \in [1..N -> [SUBSET AnyVerdict -> SUBSET AnyVerdict]]
  <2>1. \A n \in 1..N, V \in SUBSET AnyVerdict : After(V, n) \in SUBSET AnyVerdict
    <3>1. ASSUME NEW n \in 1..N, NEW V \in SUBSET AnyVerdict,
                 NEW v \in V, NEW said \in Says(statements[n], class, m)
          PROVE  VerdictAfter(v, said) \in AnyVerdict
      <4>1. v \in AnyVerdict /\ said \in AnyVerdict
        BY <1>1
      <4> QED
        BY <4>1 DEF VerdictAfter
    <3> QED
      BY <3>1
  <2> HIDE DEF After, N
  <2> QED
    BY <2>1
<1>3. PICK f : IsRecursion(f, SUBSET AnyVerdict, {"no"}, N, G)
  <2>1. {"no"} \in SUBSET AnyVerdict
    BY DEF AnyVerdict
  <2> HIDE DEF G, N
  <2> QED
    BY <1>1, <1>2, <2>1, RecursionExists
<1> HIDE DEF After, N
<1>4. \A n \in 1..N : f[n] = After(f[n - 1], n)
  <2>1. ASSUME NEW n \in 1..N PROVE f[n] = After(f[n - 1], n)
    <3>1. n - 1 \in 0..N
      BY <1>1
    <3>2. f[n - 1] \in SUBSET AnyVerdict /\ f[n] = G[n][f[n - 1]]
      BY <3>1, <1>3 DEF IsRecursion
    <3> QED
      BY <3>2
  <2> QED
    BY <2>1
<1>5. f = Body(f)
  <2>1. \A n \in 0..N : f[n] = IF n = 0 THEN {"no"} ELSE After(f[n - 1], n)
    BY <1>1, <1>3, <1>4 DEF IsRecursion
  <2>2. f = [n \in 0..N |-> f[n]]
    BY <1>3 DEF IsRecursion
  <2> QED
    BY <2>1, <2>2
<1>6. VerdictsUpTo(statements, class, m) = CHOOSE g : g = Body(g)
  BY DEF VerdictsUpTo, After, N
<1> HIDE DEF Body
<1>7. VerdictsUpTo(statements, class, m) = Body(VerdictsUpTo(statements, class, m))
  BY <1>5, <1>6
<1> DEFINE k == VerdictsUpTo(statements, class, m)
<1>8. k = [n \in 0..N |-> IF n = 0 THEN {"no"} ELSE After(k[n - 1], n)]
  BY <1>7 DEF Body
<1> HIDE DEF k
<1>9. k[0] = {"no"} /\ \A n \in 1..N : k[n] = After(k[n - 1], n)
  <2>1. N \in Nat
    BY <1>1
  <2>2. \A n \in 0..N : k[n] = IF n = 0 THEN {"no"} ELSE After(k[n - 1], n)
    BY <1>8, Zenon
  <2> QED
    BY <2>1, <2>2
<1> QED
  BY <1>9 DEF k, After, N

(* A method may only be called unused if every statement may say so.       *)
LEMMA NoMeansNo ==
    ASSUME NEW S, NEW statements \in Seq(S), NEW class, NEW m,
           \A s \in S : s.k \in {"selector", "message", "property"},
           "no" \in VerdictsUpTo(statements, class, m)[Len(statements)]
    PROVE  \A n \in 1..Len(statements) : "no" \in Says(statements[n], class, m)
<1> DEFINE N == Len(statements)
           V == VerdictsUpTo(statements, class, m)
           T == {n \in 0..N : "no" \in V[n] => \A i \in 1..n : "no" \in Says(statements[i], class, m)}
<1>1. N \in Nat
  BY LenProperties
<1>2. \A n \in 1..N :
        V[n] = {VerdictAfter(v, said) : v \in V[n - 1], said \in Says(statements[n], class, m)}
  BY VerdictsTurns
<1>3. "no" \in V[N]
  OBVIOUS
<1> HIDE DEF V, N
<1>4. 0 \in T
  BY <1>1
<1>5. ASSUME NEW n \in T, n < N PROVE n + 1 \in T
  <2>1. n \in 0..N /\ n + 1 \in 0..N /\ n + 1 \in 1..N /\ (n + 1) - 1 = n
    BY <1>1, <1>5
  <2>2. ASSUME "no" \in V[n + 1]
        PROVE  \A i \in 1..(n + 1) : "no" \in Says(statements[i], class, m)
    <3>1. PICK v \in V[n], said \in Says(statements[n + 1], class, m) :
            "no" = VerdictAfter(v, said)
      BY <1>2, <2>1, <2>2
    <3>2. v = "no" /\ said = "no"
      BY <3>1 DEF VerdictAfter
    <3>3. \A i \in 1..n : "no" \in Says(statements[i], class, m)
      BY <1>5, <3>2
    <3>4. \A i \in 1..(n + 1) : i \in 1..n \/ i = n + 1
      BY <2>1
    <3> QED
      BY <3>2, <3>3, <3>4
  <2> QED
    BY <2>1, <2>2
<1>6. T = 0..N
  <2>1. T \in SUBSET (0..N)
    OBVIOUS
  <2> HIDE DEF T
  <2> QED
    BY <1>1, <1>4, <1>5, <2>1, BoundedInduction
<1>7. N \in T
  BY <1>1, <1>6
<1> QED
  BY <1>3, <1>7 DEF N

(* The rule looks at every statement of the other methods.                 *)
BodiesOf(i) == UNION {ToSet(n.body) : n \in ToSet(program.impls[i].methods)}

LooksAt(i, m, s) ==
    \E n \in 1..Len(OtherStatements(i, m)) : OtherStatements(i, m)[n] = s

LEMMA OthersAre ==
    ASSUME IsProgram(tree), NEW i \in DOMAIN program.impls, NEW m
    PROVE  /\ OtherStatements(i, m) \in Seq(BodiesOf(i))
           /\ \A s \in BodiesOf(i) : IsStatement(tree, s)
           /\ \A j \in DOMAIN program.impls[i].methods :
                ~MethodsAreEqual(program.impls[i].methods[j], m) =>
                  \A k \in DOMAIN program.impls[i].methods[j].body :
                    LooksAt(i, m, program.impls[i].methods[j].body[k])
<1> DEFINE methods == program.impls[i].methods
           S == UNION {ToSet(n.body) : n \in ToSet(methods)}
           Other(n) == IF MethodsAreEqual(n, m) THEN <<>> ELSE n.body
           seqs == [j \in DOMAIN methods |-> Other(methods[j])]
           N == Len(methods)
<1>1. /\ methods \in Seq(ToSet(methods))
      /\ \A n \in ToSet(methods) :
           n.body \in Seq(ToSet(n.body)) /\ \A s \in ToSet(n.body) : IsStatement(tree, s)
  BY DEF IsProgram, program
<1>2. OtherStatements(i, m) = FlattenSeq(seqs)
  BY DEF OtherStatements
<1> HIDE DEF methods
<1>3. N \in Nat /\ DOMAIN methods = 1..N /\ \A j \in 1..N : methods[j] \in ToSet(methods)
  BY <1>1, LenProperties, ElementOfSeq
<1>4. ASSUME NEW j \in 1..N
      PROVE  /\ methods[j].body \in Seq(S) /\ Len(methods[j].body) \in Nat
             /\ DOMAIN methods[j].body = 1..Len(methods[j].body)
  <2> DEFINE body == methods[j].body
  <2>1. body \in Seq(ToSet(body)) /\ ToSet(body) \subseteq S
    BY <1>1, <1>3
  <2> HIDE DEF body, S
  <2>2. Len(body) \in Nat /\ body \in [1..Len(body) -> ToSet(body)]
    BY <2>1, LenProperties
  <2>3. DOMAIN body = 1..Len(body) /\ body \in [1..Len(body) -> S]
    BY <2>1, <2>2
  <2>4. body \in Seq(S)
    BY <2>2, <2>3, SeqDef
  <2> QED
    BY <2>2, <2>3, <2>4 DEF body
<1> HIDE DEF S, N
<1>5. \A j \in 1..N : Other(methods[j]) \in Seq(S)
  BY <1>4, EmptySeq
<1> HIDE DEF Other
<1>6. seqs \in [1..N -> Seq(S)]
  BY <1>3, <1>5
<1>7. seqs \in Seq(Seq(S)) /\ Len(seqs) = N
  <2> HIDE DEF seqs
  <2>0. N \in Nat
    BY <1>3
  <2>1. seqs \in Seq(Seq(S))
    BY <1>6, <2>0, SeqDef
  <2>2. DOMAIN seqs = 1..Len(seqs) /\ Len(seqs) \in Nat
    BY <2>1, LenProperties
  <2>3. DOMAIN seqs = 1..N
    BY <1>6
  <2> DEFINE L == Len(seqs)
  <2>4. L = N
    <3>1. L \in Nat /\ 1..L = 1..N
      BY <2>2, <2>3
    <3> HIDE DEF L
    <3>2. \A j \in Nat : j \in 1..L <=> j \in 1..N
      BY <3>1
    <3>3. ~(L < N) /\ ~(N < L)
      BY <2>0, <3>1, <3>2
    <3> QED
      BY <2>0, <3>1, <3>3
  <2> QED
    BY <2>1, <2>4
<1>8. OtherStatements(i, m) \in Seq(S)
  BY <1>2, <1>7, FlattenType
<1>9. ASSUME NEW j \in DOMAIN methods, ~MethodsAreEqual(methods[j], m),
             NEW k \in DOMAIN methods[j].body
      PROVE  \E n \in 1..Len(OtherStatements(i, m)) :
               OtherStatements(i, m)[n] = methods[j].body[k]
  <2>1. seqs[j] = methods[j].body
    BY <1>9 DEF Other
  <2> HIDE DEF seqs
  <2>2. j \in 1..Len(seqs) /\ k \in 1..Len(seqs[j])
    BY <1>3, <1>4, <1>7, <1>9, <2>1
  <2>3. \E n \in 1..Len(FlattenSeq(seqs)) : FlattenSeq(seqs)[n] = seqs[j][k]
    BY <1>7, <2>2, FlattenHolds
  <2> QED
    BY <1>2, <2>1, <2>3
<1>10. \A s \in S : IsStatement(tree, s)
  BY <1>1 DEF S
<1> QED
  BY <1>8, <1>9, <1>10 DEF S, methods, BodiesOf, LooksAt

(* Whatever another method of the implementation says may be no use.       *)
LEMMA EveryOtherSaysNo ==
    ASSUME IInv, NEW p \in At_("MethodIsUsed"), NEW q \in Statements,
           q[1] = p[1], ~MethodsAreEqual(MethodAt(q), MethodAt(p))
    PROVE  /\ "no" \in Says(StatementAt(q), ClassAt(p), MethodAt(p))
           /\ IsStatement(tree, StatementAt(q))
<1> DEFINE i == p[1]
           methods == program.impls[i].methods
           S == BodiesOf(i)
           others == OtherStatements(i, MethodAt(p))
<1>1. IsProgram(tree) /\ p \in Methods /\ "no" \in Verdicts(p)
  BY ReportedIs
<1>2. i \in DOMAIN program.impls
  BY <1>1 DEF Methods
<1>3. q[2] \in DOMAIN methods /\ q[3] \in DOMAIN methods[q[2]].body
      /\ MethodAt(q) = methods[q[2]] /\ StatementAt(q) = methods[q[2]].body[q[3]]
  BY DEF Statements, Methods, MethodAt, StatementAt
<1>4. /\ others \in Seq(S)
      /\ \A s \in S : IsStatement(tree, s)
      /\ LooksAt(i, MethodAt(p), StatementAt(q))
  BY <1>1, <1>2, <1>3, OthersAre
<1>5. "no" \in VerdictsUpTo(others, ClassAt(p), MethodAt(p))[Len(others)]
  BY <1>1 DEF Verdicts, ImplementationCallsMethod, ClassAt
<1> HIDE DEF others, S
<1>6. \A s \in S : s.k \in {"selector", "message", "property"}
  BY <1>4 DEF IsStatement
<1>7. PICK n \in 1..Len(others) : others[n] = StatementAt(q)
  BY <1>4 DEF LooksAt, others
<1>8. others[n] \in S
  BY <1>4, ElementOfSeq
<1>9. \A k \in 1..Len(others) : "no" \in Says(others[k], ClassAt(p), MethodAt(p))
  BY <1>4, <1>5, <1>6, NoMeansNo
<1> QED
  BY <1>4, <1>7, <1>8, <1>9

(* A message to an object that may be of the class: what clang found for   *)
(* it is exported, or a class above has the method too.                    *)
LEMMA MessageIsKnown ==
    ASSUME IInv, NEW p \in At_("MethodIsUsed"), NEW s, IsStatement(tree, s),
           s.k = "message", s.sel = MethodAt(p).sel, s.method = MethodAt(p).kind,
           s.method # "none", s.to \in Chain[ClassAt(p)], s.to \in Classes
    PROVE  \E e \in Chain[s.to] : e \in Implementers(ClassAt(p), MethodAt(p))
<1> DEFINE m == [sel |-> s.sel, kind |-> s.method]
           c == ClassAt(p)
<1>1. IsProgram(tree) /\ c \in Classes /\ ~InterfaceHierarchyDeclaresMethod(c, MethodAt(p))
  BY ReportedIs
<1>2. \A d : MethodsAreEqual(d, m) <=> MethodsAreEqual(d, MethodAt(p))
  BY DEF MethodsAreEqual
<1>3. Chain[s.to] \subseteq Chain[c]
  BY <1>1, ChainTransitive
<1>4. ~Exported(program.decls, s.to, m)
  <2>1. SUFFICES ASSUME Exported(program.decls, s.to, m) PROVE FALSE
    OBVIOUS
  <2> HIDE DEF m, c
  <2>2. Exported(program.decls, c, MethodAt(p))
    BY <1>2, <1>3, <2>1 DEF Exported
  <2> QED
    BY <1>1, <2>2, ExportedIsDeclared
<1>5. PICK i \in DOMAIN program.impls :
        /\ program.impls[i].class \in Chain[s.to]
        /\ \E n \in ToSet(program.impls[i].methods) : MethodsAreEqual(n, m)
  BY <1>4 DEF IsStatement, program
<1>6. PICK j \in DOMAIN program.impls[i].methods :
        MethodsAreEqual(program.impls[i].methods[j], m)
  BY <1>5 DEF ToSet
<1> DEFINE n == <<i, j, 0>>
           e == program.impls[i].class
<1>7. n \in Methods /\ ClassAt(n) = e /\ MethodAt(n) = program.impls[i].methods[j]
  BY DEF Methods, ClassAt, MethodAt
<1>8. n \in Bodies(e, MethodAt(p))
  BY <1>2, <1>6, <1>7 DEF Bodies
<1>9. e \in Chain[s.to] /\ e \in Implementers(c, MethodAt(p))
  BY <1>3, <1>5, <1>8 DEF Implementers
<1> QED
  BY <1>9

LEMMA UseHolds == IInv => ReportedMethodsNeverRun
<1> SUFFICES ASSUME IInv, NEW p \in At_("MethodIsUsed"), NEW q \in Statements,
                    q[1] = p[1], ~MethodsAreEqual(MethodAt(q), MethodAt(p))
             PROVE  /\ MayRun(StatementAt(q), p) => Escapes(StatementAt(q), p)
                    /\ StatementAt(q).k = "selector" /\ StatementAt(q).sel = MethodAt(p).sel =>
                         StatementAt(q).inBlock
  BY DEF ReportedMethodsNeverRun
<1> DEFINE s == StatementAt(q)
           c == ClassAt(p)
           m == MethodAt(p)
<1>1. "no" \in Says(s, c, m) /\ IsStatement(tree, s)
  BY EveryOtherSaysNo
<1>2. /\ c \in Classes
      /\ m.kind \in {"-", "+"}
  <2>1. IsProgram(tree) /\ p \in Methods /\ c \in Classes
    BY ReportedIs
  <2>2. p[1] \in DOMAIN tree.impls /\ p[2] \in DOMAIN tree.impls[p[1]].methods
        /\ m = tree.impls[p[1]].methods[p[2]]
    BY <2>1 DEF Methods, program, MethodAt
  <2>3. m \in ToSet(tree.impls[p[1]].methods)
    BY <2>2 DEF ToSet
  <2> QED
    BY <2>1, <2>2, <2>3 DEF IsProgram
<1> HIDE DEF s, c, m
<1>3. s.k = "selector" /\ s.sel = m.sel => s.inBlock
  BY <1>1 DEF Says, Collected
<1>4. ASSUME MayRun(s, p), ~Escapes(s, p) PROVE FALSE
  <2>1. /\ s.k = "message" /\ s.sel = m.sel /\ s.method \in {m.kind, "none"}
        /\ s.instance \/ m.kind = "+"
        /\ Collected(s)
        /\ ~(s.instance /\ m.kind = "+")
        /\ Implementers(c, m) = {c}
        /\ \E r \in Receivers(s) : c \in Starts(r, m)
    BY <1>4 DEF MayRun, Escapes, Collected, m, c
  <2>2. s.to # "super"
    BY <2>1, CocoaAssumption DEF Receivers
  <2>3. (m.kind = "-") = s.instance
    <3>1. s.instance \in BOOLEAN
      BY <1>1 DEF IsStatement
    <3>2. s.instance <=> m.kind = "-"
      BY <1>2, <2>1
    <3> QED
      BY <3>1, <3>2
  <2>4. s.method # "none" /\ s.method = m.kind
    BY <1>1, <2>1, <2>2, <2>3 DEF Says
  <2>5. "no" \in ReceiverSays(s.to, c)
    BY <1>1, <2>1, <2>2, <2>3, <2>4 DEF Says
  <2>6. s.to \in Classes /\ c \notin Chain[s.to]
    BY <2>5 DEF ReceiverSays
  <2>7. PICK r \in Below(s.to) : c \in Starts(r, m)
    BY <2>1, <2>6 DEF Receivers
  <2>8. r \in Classes /\ s.to \in Chain[r] /\ c \in Chain[r]
    BY <2>7 DEF Below, Starts, Lowest, Implementers
  <2>9. s.to \in Chain[c]
    BY <2>6, <2>8, ChainLinear
  <2>10. \E e \in Chain[s.to] : e \in Implementers(c, m)
    BY <1>1, <2>1, <2>4, <2>6, <2>9, MessageIsKnown DEF m, c
  <2> QED
    BY <2>1, <2>6, <2>10
<1> QED
  BY <1>3, <1>4 DEF s, m

-----------------------------------------------------------------------------
(***************************************************************************)
(* A marked method of a base class runs unless something is reported or a  *)
(* declaration that no visitor comes by hides the mark, a call of a        *)
(* protected method from outside is reported, an abstract method never     *)
(* answers for a subclass unless one is reported, and a method that is     *)
(* reported is not exported and only what Escapes lists can run it from    *)
(* its implementation: for every hierarchy, every program and whatever     *)
(* other rules report.  MayRun and Ran say what Objective-C runs.          *)
(***************************************************************************)
THEOREM ClassReportsAreReliable == CocoaSpec => []ClassReportsHold
<1>1. IInv => ClassReportsHold
  BY BaseHolds, ProtectionHolds, ImplementationHolds, UseHolds, ExportHolds DEF ClassReportsHold
<1> QED
  BY <1>1, FlightInvariance, PTL
=============================================================================
