------------------------------- MODULE Flight -------------------------------
(***************************************************************************)
(* A flight: rules look at one syntax tree, one after the other, as        *)
(* RulesetBasedAnalyzer sends them.  How a rule walks the tree is modelled *)
(* in RuleBase; here a rule's turn is one step, and what it reports is a   *)
(* set of places of the tree: a place that a rule reports twice is one, as *)
(* in UniqueResults.                                                       *)
(***************************************************************************)
EXTENDS Integers, Sequences, SequencesExt

CONSTANT Flights    \* [rules, trees]: rules in order, and what they fly over

ASSUME FlightsAssumption ==
    \A flight \in Flights : flight.rules \in Seq(ToSet(flight.rules))

VARIABLES
    rules,
    tree,
    flown,      \* number of rules that have flown
    reported,   \* [rule, at]: which rule reported which place
    crashed     \* whether a rule looked through a null pointer

vars == <<rules, tree, flown, reported, crashed>>

Init ==
    /\ \E flight \in Flights : rules = flight.rules /\ tree \in flight.trees
    /\ flown = 0
    /\ reported = {}
    /\ crashed = FALSE

Aloft == ~crashed /\ flown < Len(rules)
Landed == flown = Len(rules)

(* The rule whose turn it is.                                              *)
Turn == rules[flown + 1]

Report(places) ==
    /\ flown' = flown + 1
    /\ reported' = reported \cup {[rule |-> Turn, at |-> p] : p \in places}
    /\ UNCHANGED <<rules, tree, crashed>>

(* A rule that is not one of these reports what it likes, or crashes.      *)
AnotherFlies(own) ==
    /\ Aloft
    /\ Turn \notin own
    /\ \/ /\ reported \subseteq reported' /\ \A f \in reported' \ reported : f.rule = Turn
          /\ flown' = flown + 1
          /\ crashed' = crashed
       \/ crashed' = TRUE /\ UNCHANGED <<flown, reported>>
    /\ UNCHANGED <<rules, tree>>

Rest == (Landed \/ crashed) /\ UNCHANGED vars

(* What a rule finds at a node: the node itself, or nothing.               *)
Here == {<<>>}
Nowhere == {}
ReportIf(condition) == IF condition THEN Here ELSE Nowhere

(* For properties, which are about flights that have landed.               *)
At_(rule) == {f.at : f \in {g \in reported : g.rule = rule}}
Have(rule) == Landed /\ rule \in ToSet(rules)
=============================================================================
