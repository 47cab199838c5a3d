---------------------------- MODULE MCAnalytics ----------------------------
(***************************************************************************)
(* Two keys with two values, two rules and up to two units; a C unit of  *)
(* 1989 speaks no language that is counted, an Objective-C unit of today   *)
(* speaks two.                                                             *)
(***************************************************************************)
EXTENDS Analytics

CONSTANT MaxUnits

MCLangOptions ==
    {{}, {"C99"}, {"CPlusPlus"}, {"ObjC1", "ObjC2", "C99"}, {"ObjC1", "CPlusPlus"}}

(* The bounds of the instance: a rule registers once, a run is short.      *)
Bounded ==
    /\ Len(analyzed) <= MaxUnits
    /\ Cardinality(Registered) = Len(rules)
=============================================================================
