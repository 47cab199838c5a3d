----------------------------- MODULE CocoaRules -----------------------------
(***************************************************************************)
(* The rules about Objective-C classes: ObjCVerifyMustCallSuper,           *)
(* ObjCVerifyProtectedMethod, ObjCVerifySubclassMustImplement and          *)
(* ObjCVerifyMethodIsUsed.                                                 *)
(*                                                                         *)
(* A program is one unit: a sequence of method declarations, those of its  *)
(* headers and of properties included, and a sequence of implementations,  *)
(* which are in its main file:                                             *)
(*   decls  [of, where, sel, kind, marks, visited]: of a class, in its     *)
(*          "interface" or in a "category", or of a "protocol"; kind is    *)
(*          "-" or "+"; marks are the rules that an annotation enforces;   *)
(*          visited says whether a visitor comes by, as it does where it   *)
(*          is written in the main file and not as a property              *)
(*   impls  [class, methods], methods being [sel, kind, body]              *)
(* A body is a sequence of [k, sel, to, instance, method, inBlock], where  *)
(* inBlock says whether it is written inside a block literal, and k is     *)
(*   "selector"  an expression that names the selector                     *)
(*   "message"   to a class or an object of that static type, "super",     *)
(*               "id" or "Class"; instance says whether the receiver is an *)
(*               expression, method is the kind of the method that clang   *)
(*               found, "none" if it found none                            *)
(*   "property"  an access to "super", to a class or to an "object"        *)
(***************************************************************************)
EXTENDS Flight

CONSTANTS
    Classes, Protocols,
    Superclass,   \* Superclass[c]: a class or NoClass
    NoClass,
    Conforms,     \* Conforms[c]: protocols that the class c names
    Adopts        \* Adopts[p]: protocols that the protocol p names

(* No class is above itself: of any classes one has its superclass outside.  *)
ASSUME CocoaAssumption ==
    /\ Classes \cap {NoClass, "super", "id", "Class", "object"} = {}
    /\ Superclass \in [Classes -> Classes \cup {NoClass}]
    /\ \A S \in SUBSET Classes : S # {} => \E c \in S : Superclass[c] \notin S
    /\ Conforms \in [Classes -> SUBSET Protocols]
    /\ Adopts \in [Protocols -> SUBSET Protocols]

program == tree

(* Places in the program.                                                  *)
Decls == {<<0, d, 0>> : d \in DOMAIN program.decls}
Impls == {<<i, 0, 0>> : i \in DOMAIN program.impls}
Methods ==
    UNION {{<<i, j, 0>> : j \in DOMAIN program.impls[i].methods} : i \in DOMAIN program.impls}

MethodAt(p) == program.impls[p[1]].methods[p[2]]
ClassAt(p) == program.impls[p[1]].class
StatementAt(p) == MethodAt(p).body[p[3]]

Statements == UNION {{<<m[1], m[2], k>> : k \in DOMAIN MethodAt(m).body} : m \in Methods}
MethodsOf(i) == {m \in Methods : m[1] = i[1]}

-----------------------------------------------------------------------------
(* The class and those above it.                                           *)
Chain[c \in Classes] ==
    {c} \cup (IF Superclass[c] = NoClass THEN {} ELSE Chain[Superclass[c]])

(* Of classes on one chain, the lowest.                                    *)
Lowest(classes) == {c \in classes : classes \subseteq Chain[c]}

MutIsObjCInterfaceClassOrSubclass(class, name) == class \in Chain[name]
IsObjCInterfaceClassOrSubclass(class, name) == name \in Chain[class]

MethodsAreEqual(m, n) == m.sel = n.sel /\ m.kind = n.kind

Declared(of, where) == {d \in ToSet(program.decls) : d.of = of /\ d.where = where}

(* declHasEnforceAttribute: also what a category says of the same method.  *)
Enforced(d, rule) ==
    \/ rule \in d.marks
    \/ /\ d.where = "interface"
       /\ \E e \in Declared(d.of, "category") : MethodsAreEqual(d, e) /\ rule \in e.marks

DeclaredIn(of, where, m) == {d \in Declared(of, where) : MethodsAreEqual(d, m)}

(* The declaration that clang finds for a message to a class.              *)
Found(class, m) ==
    UNION {LET own == DeclaredIn(c, "interface", m)
           IN IF own # {} THEN own ELSE DeclaredIn(c, "category", m) :
           c \in Lowest({c \in Chain[class] :
                    \E where \in {"interface", "category"} : DeclaredIn(c, where, m) # {}})}

(* In protocols, or else in those they adopt.                              *)
InProtocol(p, m) ==
    LET nearest[q \in Protocols] ==
            LET own == DeclaredIn(q, "protocol", m)
            IN IF own # {} THEN own ELSE UNION {nearest[r] : r \in Adopts[q]}
    IN nearest[p]

InProtocols(protocols, m) == UNION {InProtocol(p, m) : p \in protocols}

(* What a method overrides.  The search goes up to the first class whose   *)
(* interface declares it, and takes on its way what the categories of the  *)
(* classes and the protocols declare.                                      *)
Searched(class, m) ==
    LET above == Chain[class] \ {class}
    IN {c \in above : \A b \in above \ {c} : c \in Chain[b] => DeclaredIn(b, "interface", m) = {}}

OverriddenAt(class, m) ==
    LET own == DeclaredIn(class, "interface", m)
    IN IF own # {} THEN own ELSE DeclaredIn(class, "category", m) \cup InProtocols(Conforms[class], m)

Overridden(of, where, m) ==
    IF where = "protocol" THEN InProtocols(Adopts[of], m)
    ELSE InProtocols(Conforms[of], m) \cup UNION {OverriddenAt(c, m) : c \in Searched(of, m)}

-----------------------------------------------------------------------------
(***************************************************************************)
(* What a caller elsewhere may rely on: the protocols of a class with all  *)
(* those they adopt, and what the classes above declare.                   *)
(***************************************************************************)
Adopted(p) ==
    {q \in Protocols : \A S \in SUBSET Protocols :
        p \in S /\ (\A r \in S : Adopts[r] \subseteq S) => q \in S}

Exported(decls, class, m) ==
    \E d \in ToSet(decls) :
        /\ MethodsAreEqual(d, m)
        /\ IF d.where = "protocol"
           THEN \E c \in Chain[class] : \E p \in Conforms[c] : d.of \in Adopted(p)
           ELSE d.of \in Chain[class]

(* A program that clang has compiled: what it finds for a message to a     *)
(* class is exported there or implemented in this unit.                    *)
IsStatement(t, s) ==
    /\ s.k \in {"selector", "message", "property"}
    /\ {s.instance, s.inBlock} \subseteq BOOLEAN
    /\ s.k = "message" /\ s.to \in Classes /\ s.method # "none" =>
         LET m == [sel |-> s.sel, kind |-> s.method]
         IN \/ Exported(t.decls, s.to, m)
            \/ \E i \in DOMAIN t.impls :
                 /\ t.impls[i].class \in Chain[s.to]
                 /\ \E n \in ToSet(t.impls[i].methods) : MethodsAreEqual(n, m)

IsProgram(t) ==
    /\ \A d \in ToSet(t.decls) : d.visited \in BOOLEAN
    /\ \A d \in ToSet(t.decls) :
         \/ d.where \in {"interface", "category"} /\ d.of \in Classes
         \/ d.where = "protocol" /\ d.of \in Protocols
    /\ \A i \in DOMAIN t.impls :
         /\ t.impls[i].class \in Classes
         /\ t.impls[i].methods \in Seq(ToSet(t.impls[i].methods))
         /\ \A n \in ToSet(t.impls[i].methods) :
              /\ n.kind \in {"-", "+"}
              /\ n.body \in Seq(ToSet(n.body))
              /\ \A s \in ToSet(n.body) : IsStatement(t, s)

CocoaRuleNames == {"MustCallSuper", "ProtectedMethod", "SubclassMustImplement", "MethodIsUsed"}

ASSUME ProgramsAssumption ==
    \A flight \in Flights :
        ToSet(flight.rules) \cap CocoaRuleNames # {} => \A t \in flight.trees : IsProgram(t)

-----------------------------------------------------------------------------
(***************************************************************************)
(* ObjCVerifyMustCallSuper visits every method of the main file,           *)
(* declarations included.                                                  *)
(***************************************************************************)
DeclRequiresSuperCall(of, where, m) ==
    \E d \in Overridden(of, where, m) : Enforced(d, "base method")

(* The receiver kind SuperInstance, which class methods never have.        *)
FoundSuperCall(sel, body) ==
    \E s \in ToSet(body) : s.k = "message" /\ s.sel = sel /\ s.to = "super" /\ s.instance

MustCallSuper ==
    {p \in Decls :
        LET d == program.decls[p[2]]
        IN d.visited /\ DeclRequiresSuperCall(d.of, d.where, d)}
    \cup
    {p \in Methods :
        /\ DeclRequiresSuperCall(ClassAt(p), "implementation", MethodAt(p))
        /\ ~FoundSuperCall(MethodAt(p).sel, MethodAt(p).body)}

(***************************************************************************)
(* ObjCVerifyProtectedMethod looks at the messages in implementations.     *)
(***************************************************************************)
ProtectedMethod ==
    {p \in Statements :
        LET s == StatementAt(p)
            receiver == IF s.to = "super" THEN Superclass[ClassAt(p)] ELSE s.to
        IN /\ s.k = "message"
           /\ receiver \in Classes
           /\ \E d \in Found(receiver, [sel |-> s.sel, kind |-> s.method]) :
                Enforced(d, "protected method")
           /\ ~IsObjCInterfaceClassOrSubclass(ClassAt(p), receiver)}

(***************************************************************************)
(* ObjCVerifySubclassMustImplement: the marked methods of the parent.      *)
(***************************************************************************)
Implements(i, m) == \E n \in MethodsOf(i) : MethodsAreEqual(MethodAt(n), m)

SubclassMustImplement ==
    {i \in Impls :
        \E d \in Declared(Superclass[ClassAt(i)], "interface") :
            Enforced(d, "abstract method") /\ ~Implements(i, d)}

(***************************************************************************)
(* ObjCVerifyMethodIsUsed: methods that are neither declared anywhere in   *)
(* the hierarchy nor used by another method of the implementation.         *)
(***************************************************************************)
Declares(of, where, m) == \E d \in Declared(of, where) : MethodsAreEqual(d, m)

ProtocolDeclaresMethod(p, m) ==
    LET declares[q \in Protocols] ==
            Declares(q, "protocol", m) \/ \E r \in Adopts[q] : declares[r]
    IN declares[p]

InterfaceHierarchyDeclaresMethod(class, m) ==
    \E c \in Chain[class] :
        \/ Declares(c, "interface", m)
        \/ Declares(c, "category", m)
        \/ \E p \in Conforms[c] : ProtocolDeclaresMethod(p, m)

(* What a statement says about the use of a method; a message whose method *)
(* clang does not know is compared through a null pointer.                 *)
ReceiverSays(receiver, class) ==
    IF receiver \notin Classes THEN {"possibly"}
    ELSE IF class \in Chain[receiver] THEN {"used"} ELSE {"no"}

(* Statements are collected from child to child, and the body of a block   *)
(* literal is no child.                                                    *)
Collected(s) == ~s.inBlock

Says(s, class, m) ==
    IF ~Collected(s) THEN {"no"}
    ELSE
    CASE s.k = "selector" -> IF s.sel = m.sel THEN {"possibly"} ELSE {"no"}
      [] s.k = "property" ->
            IF m.kind # "-" \/ s.sel # m.sel \/ s.to = "super" THEN {"no"}
            ELSE IF s.to = "object" THEN {"used", "possibly", "no", "crash"}
            ELSE ReceiverSays(s.to, class)
      [] s.k = "message" ->
            IF s.to = "super" \/ (m.kind = "-") # s.instance THEN {"no"}
            ELSE IF s.method = "none" THEN {"crash"}
            ELSE IF s.sel # m.sel \/ s.method # m.kind THEN {"no"}
            ELSE ReceiverSays(s.to, class)

(* The statements of the other methods, one after the other, until one is  *)
(* a use; what was possible stays so.                                      *)
VerdictAfter(verdict, said) ==
    IF verdict \in {"used", "crash"} \/ said = "no" THEN verdict ELSE said

OtherStatements(i, m) ==
    FlattenSeq([j \in DOMAIN program.impls[i].methods |->
        LET n == program.impls[i].methods[j]
        IN IF MethodsAreEqual(n, m) THEN <<>> ELSE n.body])

(* Every verdict the rule may come to.                                     *)
VerdictsUpTo(statements, class, m) ==
    LET verdicts[n \in 0..Len(statements)] ==
            IF n = 0 THEN {"no"}
            ELSE {VerdictAfter(v, said) :
                    v \in verdicts[n - 1], said \in Says(statements[n], class, m)}
    IN verdicts

ImplementationCallsMethod(i, m) ==
    LET others == OtherStatements(i, m)
    IN VerdictsUpTo(others, program.impls[i].class, m)[Len(others)]

Verdicts(p) == ImplementationCallsMethod(p[1], MethodAt(p))

Unexported ==
    {p \in Methods : ~InterfaceHierarchyDeclaresMethod(ClassAt(p), MethodAt(p))}

MustBeUnused == {p \in Unexported : Verdicts(p) = {"no"}}
MayBeUnused == {p \in Unexported : "no" \in Verdicts(p)}

-----------------------------------------------------------------------------
(***************************************************************************)
(* Their turns.  What a build does with a property access to an object,    *)
(* whose class receiver is read from the wrong side of a union, is open.   *)
(***************************************************************************)
PlacesOf(rule) ==
    CASE rule = "MustCallSuper" -> {MustCallSuper}
      [] rule = "ProtectedMethod" -> {ProtectedMethod}
      [] rule = "SubclassMustImplement" -> {SubclassMustImplement}
      [] rule = "MethodIsUsed" -> {MustBeUnused \cup s : s \in SUBSET MayBeUnused}

CocoaRuleFlies ==
    /\ Aloft
    /\ Turn \in CocoaRuleNames
    /\ Turn = "MethodIsUsed" => \A p \in Methods : Verdicts(p) # {"crash"}
    /\ \E places \in PlacesOf(Turn) : Report(places)

Crash ==
    /\ Aloft
    /\ Turn = "MethodIsUsed"
    /\ \E p \in Methods : "crash" \in Verdicts(p)
    /\ crashed' = TRUE
    /\ UNCHANGED <<rules, tree, flown, reported>>

(* Any other rule may fly too, and reports what it likes.                  *)
AnotherRuleFlies ==
    /\ Aloft
    /\ Turn \notin CocoaRuleNames
    /\ reported \subseteq reported' /\ \A f \in reported' \ reported : f.rule = Turn
    /\ flown' = flown + 1
    /\ UNCHANGED <<rules, tree, crashed>>

CocoaSpec == Init /\ [][CocoaRuleFlies \/ Crash \/ AnotherRuleFlies \/ Rest]_vars

-----------------------------------------------------------------------------
(***************************************************************************)
(* What Objective-C does: a message runs the method of the nearest class   *)
(* that implements it, and those above that it calls through super.        *)
(***************************************************************************)
Bodies(class, m) == {n \in Methods : ClassAt(n) = class /\ MethodsAreEqual(MethodAt(n), m)}

CallsSuper(n) ==
    \E s \in ToSet(MethodAt(n).body) : s.k = "message" /\ s.to = "super" /\ s.sel = MethodAt(n).sel

Implementers(class, m) == {c \in Chain[class] : Bodies(c, m) # {}}

Starts(class, m) == Lowest(Implementers(class, m))

Ran(class, m) ==
    {c \in Implementers(class, m) :
        \A below \in Implementers(class, m) \ {c} :
            c \in Chain[below] => \E n \in Bodies(below, m) : CallsSuper(n)}

Below(class) == {c \in Classes : class \in Chain[c]}

(* The objects a message may reach.                                        *)
Receivers(s) == IF s.to \in Classes THEN Below(s.to) ELSE IF s.to = "super" THEN {} ELSE Classes

(* Only an expression may stand for an object: a class by name runs class  *)
(* methods.                                                                *)
MayRun(s, p) ==
    /\ s.k = "message"
    /\ s.sel = MethodAt(p).sel
    /\ s.method \in {MethodAt(p).kind, "none"}
    /\ s.instance \/ MethodAt(p).kind = "+"
    /\ \E c \in Receivers(s) : ClassAt(p) \in Starts(c, MethodAt(p))

(* A class between that of the object and the base declares the method     *)
(* again without the mark, where no visitor comes by: below it nothing     *)
(* tells that the base is marked.                                          *)
MarkIsHidden(class, base) ==
    \E d \in ToSet(program.decls) :
        /\ d.where = "interface" /\ MethodsAreEqual(d, base)
        /\ d.of \in Chain[class] \ {class, base.of} /\ base.of \in Chain[d.of]
        /\ ~d.visited /\ ~Enforced(d, "base method")

(* ObjCVerifyMustCallSuperRule: where it reports nothing, a message to any *)
(* object runs the marked method of the base class, however many classes   *)
(* of the unit override it and whatever categories say, unless a header or *)
(* a property hides the mark.  A class of the main file that declares the  *)
(* method again is reported itself, so it hides no mark in silence.        *)
BaseMethodsRun ==
    Have("MustCallSuper") /\ At_("MustCallSuper") = {} =>
        \A d \in ToSet(program.decls) :
            /\ d.where = "interface"
            /\ Enforced(d, "base method")
            /\ Bodies(d.of, d) # {}
            => \A c \in Below(d.of) : d.of \in Ran(c, d) \/ MarkIsHidden(c, d)

(* ObjCVerifyProtectedMethodRule: a message that an implementation of      *)
(* neither the class that declares a protected method nor one below it     *)
(* sends to an object of a known class is reported.                        *)
Protectors(p) ==
    LET s == StatementAt(p)
    IN IF s.k = "message" /\ s.to \in Classes
       THEN {d.of : d \in {e \in Found(s.to, [sel |-> s.sel, kind |-> s.method]) :
                                Enforced(e, "protected method")}}
       ELSE {}

OutsideCallsAreReported ==
    Have("ProtectedMethod") => \A p \in Statements :
        (\E c \in Protectors(p) : ClassAt(p) \notin Below(c)) => p \in At_("ProtectedMethod")

(* ObjCVerifySubclassMustImplementRule: where it reports nothing about a   *)
(* program that implements all its classes, an abstract message to an      *)
(* object of a subclass, however far below, never ends at the abstract     *)
(* class or nowhere.                                                       *)
AbstractMethodsAreImplemented ==
    /\ Have("SubclassMustImplement")
    /\ At_("SubclassMustImplement") = {}
    /\ {ClassAt(i) : i \in Impls} = Classes
    => \A d \in ToSet(program.decls) :
        d.where = "interface" /\ Enforced(d, "abstract method") =>
            \A c \in Below(d.of) \ {d.of} :
                \E e \in Starts(c, d) : e \in Below(d.of) \ {d.of}

(* ObjCVerifyMethodIsUsedRule: "defined but not exported or referenced     *)
(* here".  No message and no selector in another method of the             *)
(* implementation can run a reported method.  Three kinds of message       *)
(* escape the rule: one inside a block literal, a class method that is     *)
(* sent to an expression, [self class], and a method that a class above    *)
(* has too, without any declaration.                                       *)
Escapes(s, p) ==
    \/ s.inBlock
    \/ s.instance /\ MethodAt(p).kind = "+"
    \/ Implementers(ClassAt(p), MethodAt(p)) # {ClassAt(p)}

ReportedMethodsNeverRun ==
    \A p \in At_("MethodIsUsed") : \A q \in Statements :
        LET s == StatementAt(q)
        IN q[1] = p[1] /\ ~MethodsAreEqual(MethodAt(q), MethodAt(p)) =>
            /\ MayRun(s, p) => Escapes(s, p)
            /\ s.k = "selector" /\ s.sel = MethodAt(p).sel => s.inBlock

ReportedMethodsAreNotExported ==
    \A p \in At_("MethodIsUsed") : ~Exported(program.decls, ClassAt(p), MethodAt(p))

(* Silence means that classes keep their contract, and a report that they  *)
(* may not: what is sent in any program runs the methods it should.        *)
ClassReportsHold ==
    /\ BaseMethodsRun /\ OutsideCallsAreReported /\ AbstractMethodsAreImplemented
    /\ ReportedMethodsNeverRun /\ ReportedMethodsAreNotExported
=============================================================================
