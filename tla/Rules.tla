-------------------------------- MODULE Rules --------------------------------
(***************************************************************************)
(* The rules about control flow, null checks, conditions, names and        *)
(* Objective-C classes together, on flights over trees made for them.      *)
(***************************************************************************)
EXTENDS FlowRules, NullCheckRules, ConditionRules, CocoaRules, NamingRules

Next ==
    \/ FlowRuleFlies \/ NullCheckRuleFlies \/ ConditionRuleFlies \/ NamingRuleFlies
    \/ CocoaRuleFlies \/ Crash
    \/ Rest

Spec == Init /\ [][Next]_vars
=============================================================================
