------------------------------ MODULE LimitRules -----------------------------
(***************************************************************************)
(* The rules that compare a number with a limit: complexity and length of  *)
(* functions, depth of blocks, size of classes.                            *)
(*                                                                         *)
(* A declaration is a node with more fields: its lines, its parameters,    *)
(* fields and methods, whether it is written inside a record, and the body *)
(* its definition has, which clang also hands out at every redeclaration.  *)
(* The four measures of oclint-metrics are functions of it: what is proved *)
(* here holds whatever they measure.                                       *)
(***************************************************************************)
EXTENDS TreeWalk, MachineIntegers

CONSTANTS
    getCyclomaticComplexity(_),     \* of a declaration
    getNPathComplexity(_),          \* of a block
    getNcssCount(_),                \* of a declaration
    getStmtDepth(_),                \* of a block
    Limits,     \* what the configuration may say
    NoLimit,    \* it says nothing
    Standard    \* Standard[r]: the limit of rule r when the configuration has none

ASSUME LimitsAssumption ==
    /\ Limits \subseteq Ints
    /\ NoLimit \notin Limits
    /\ Standard \in [Rules -> Ints \cap Nat]

Functions == {"function", "method"}
Classes == {"interface", "category", "protocol", "implementation", "record"}

HasBody(n) == n.body # <<>>

(* Whatever is measured is an int; a number of parameters is none below    *)
(* zero.                                                                   *)
ASSUME MeasuresAssumption ==
    \A n \in Nodes :
      /\ n.k \in Functions =>
           /\ {getCyclomaticComplexity(n), getNcssCount(n)} \subseteq Int
           /\ n.params \in Ints \cap Nat
           /\ HasBody(n) => {n.bodyLines[1], n.bodyLines[2]} \subseteq Int
           /\ HasBody(n) /\ n.body[1].k = "compound" => getNPathComplexity(n.body[1]) \in Int
      /\ n.k = "compound" => getStmtDepth(n) \in Int
      /\ n.k \in Classes => {n.lines[1], n.lines[2]} \subseteq Int
      /\ n.k \in {"implementation", "record"} => n.methods \in Int
      /\ n.k \in {"interface", "record"} => n.fields \in Int

VARIABLES
    configured, \* the value under the key of the rule, or NoLimit
    threshold,  \* the member _threshold of the rules that have one
    reported,   \* items reported
    crashed     \* whether the rule looked through a null pointer

vars == <<walk, configured, threshold, reported, crashed>>

(* RuleConfiguration::intForKey.                                           *)
IntForKey == IF configured = NoLimit THEN Standard[rule] ELSE configured

LineCount(lines) == lines[2] - lines[1] + 1

(***************************************************************************)
(* One operator per rule: whether it reports n at the limit.  A rule that  *)
(* measures nothing walks the tree as they do.                             *)
(***************************************************************************)
CyclomaticComplexityRule(n, limit) ==
    n.k \in Functions /\ getCyclomaticComplexity(n) > limit

NPathComplexityRule(n, limit) ==
    n.k \in Functions /\ HasBody(n) /\ n.body[1].k = "compound" /\ getNPathComplexity(n.body[1]) > limit

NcssMethodCountRule(n, limit) ==
    n.k \in Functions /\ getNcssCount(n) > limit

NestedBlockDepthRule(n, limit) == n.k = "compound" /\ getStmtDepth(n) > limit

(* Functions written inside a record are passed over.                      *)
IsLongMethodCandidate(n) == n.k \in Functions /\ HasBody(n) /\ ~n.inRecord

LongMethodRule(n, limit) == IsLongMethodCandidate(n) /\ LineCount(n.bodyLines) > limit

(* It takes the body for a block, which a function-try-block is not.       *)
LooksThroughNull(n) ==
    rule = "LONG_METHOD" /\ IsLongMethodCandidate(n) /\ n.body[1].k # "compound"

(* The limit is kept in an unsigned int.                                   *)
MutTooManyParametersRule(n, limit) ==
    n.k \in Functions /\ HasBody(n) /\ Unsigned(n.params - limit) > 0

TooManyParametersRule(n, limit) ==
    n.k \in Functions /\ HasBody(n) /\ n.params > Unsigned(limit)

LongClassRule(n, limit) == n.k \in Classes /\ LineCount(n.lines) > limit
TooManyMethodsRule(n, limit) == n.k \in {"implementation", "record"} /\ n.methods > limit
TooManyFieldsRule(n, limit) == n.k \in {"interface", "record"} /\ n.fields > limit

(* Those that read the limit in setUp; the others read it at each node.    *)
WithMember == {"LONG_CLASS", "TOO_MANY_METHODS", "TOO_MANY_FIELDS", "TOO_MANY_PARAMETERS"}

Reports(r, n, limit) ==
    CASE r = "CYCLOMATIC_COMPLEXITY" -> CyclomaticComplexityRule(n, limit)
      [] r = "NPATH_COMPLEXITY" -> NPathComplexityRule(n, limit)
      [] r = "NCSS_METHOD" -> NcssMethodCountRule(n, limit)
      [] r = "NESTED_BLOCK_DEPTH" -> NestedBlockDepthRule(n, limit)
      [] r = "LONG_METHOD" -> LongMethodRule(n, limit)
      [] r = "TOO_MANY_PARAMETERS" -> TooManyParametersRule(n, limit)
      [] r = "LONG_CLASS" -> LongClassRule(n, limit)
      [] r = "TOO_MANY_METHODS" -> TooManyMethodsRule(n, limit)
      [] r = "TOO_MANY_FIELDS" -> TooManyFieldsRule(n, limit)
      [] OTHER -> FALSE

Init ==
    /\ WalkInit
    /\ configured \in Limits \cup {NoLimit}
    /\ threshold = 0
    /\ reported = {}
    /\ crashed = FALSE

Begin ==
    /\ SetUp
    /\ threshold' = IF rule \in WithMember THEN IntForKey ELSE threshold
    /\ UNCHANGED <<configured, reported, crashed>>

Visit ==
    /\ VisitNode
    /\ ~LooksThroughNull(Head(todo).node)
    /\ reported' =
        IF Reports(rule, Head(todo).node, IF rule \in WithMember THEN threshold ELSE IntForKey)
        THEN reported \cup {Head(todo)} ELSE reported
    /\ UNCHANGED <<configured, threshold, crashed>>

(* The process ends at the node: nothing but Visit could go on from here.  *)
Crash ==
    /\ ~crashed
    /\ todo # <<>>
    /\ LooksThroughNull(Head(todo).node)
    /\ crashed' = TRUE
    /\ UNCHANGED <<walk, configured, threshold, reported>>

Crashed == crashed /\ UNCHANGED vars

Next ==
    \/ Begin
    \/ Visit
    \/ Crash
    \/ Crashed
    \/ /\ Refuse \/ SkipDecl \/ TraverseDecl \/ TearDown \/ Landed
       /\ UNCHANGED <<configured, threshold, reported, crashed>>

Spec == Init /\ [][Next]_vars

(* One thread that waits for nobody.                                       *)
FairSpec == Spec /\ WF_vars(Next)

(***************************************************************************)
(* Properties.                                                             *)
(***************************************************************************)
(* The parameter rule keeps its limit in an unsigned int, where a limit    *)
(* below zero is a very high one.                                          *)
NeverReports(r, limit) == r = "TOO_MANY_PARAMETERS" /\ limit < 0

ReportsAt(limit) == {i \in AllVisited : Reports(rule, i.node, limit)}

(* Asking for less: a configuration with a lower limit reports no less and *)
(* one with a higher limit no more, whichever rule reads it, in its member *)
(* or at each node, and whatever was analysed before.  The one exception   *)
(* is a limit below zero, which is the lowest of all to eight of the rules *)
(* and silences TooManyParametersRule.                                     *)
LowerLimitReportsMore ==
    AllLanded =>
        /\ NeverReports(rule, IntForKey) => reported = {}
        /\ \A l \in Limits :
             /\ l <= IntForKey /\ ~NeverReports(rule, l) => reported \subseteq ReportsAt(l)
             /\ IntForKey <= l /\ ~NeverReports(rule, IntForKey) => ReportsAt(l) \subseteq reported

(* The loops of apply and of the analyzer end, unless a rule ends them.    *)
Lands == <>(AllLanded \/ crashed)
=============================================================================
