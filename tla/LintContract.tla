---------------------------- MODULE LintContract ----------------------------
(***************************************************************************)
(* What one run of oclint promises its caller, whatever the order in which *)
(* it compiles, analyses and releases translation units:                   *)
(*                                                                         *)
(*  - it gathers violation sets one at a time and forgets none;            *)
(*  - it either fails, and then has published nothing, or publishes once,  *)
(*    after the last set, all it gathered;                                 *)
(*  - its exit code is a function of what it published.                    *)
(***************************************************************************)
EXTENDS Violations

CONSTANT NoExit

VARIABLES
    duplicates, \* is every occurrence of a violation wanted
    limits,     \* the allowed number of violations per priority
    gathered,   \* the violation sets so far
    published,  \* the violations of each report: one at most
    exit        \* the exit code, or NoExit

contractVars == <<duplicates, limits, gathered, published, exit>>

Failures == {"RULE_NOT_FOUND", "REPORTER_NOT_FOUND", "ERROR_WHILE_PROCESSING",
             "ERROR_WHILE_REPORTING"}

Running == exit = NoExit /\ published = <<>>

(* Position of the first occurrence of v in vs.                            *)
FirstAt(vs, v) == CHOOSE i \in DOMAIN vs :
                    vs[i] = v /\ \A j \in 1..(i - 1) : vs[j] # v

(***************************************************************************)
(* r lists vs without its duplicates: the same violations, each once, in   *)
(* the order in which they first came up.                                  *)
(***************************************************************************)
ListsOnce(r, vs) ==
    /\ ToSet(r) = ToSet(vs)
    /\ \A i, j \in DOMAIN r : i < j => FirstAt(vs, r[i]) < FirstAt(vs, r[j])

ContractInit ==
    /\ duplicates \in BOOLEAN
    /\ gathered = <<>>
    /\ published = <<>>
    /\ exit = NoExit

Gather ==
    /\ Running
    /\ gathered' # <<>>
    /\ Front(gathered') = gathered
    /\ UNCHANGED <<duplicates, limits, published, exit>>

Fail ==
    /\ Running
    /\ exit' \in Failures
    /\ UNCHANGED <<duplicates, limits, gathered, published>>

Publish ==
    /\ Running
    /\ Len(published') = 1
    /\ IF duplicates
       THEN published'[1] = Concatenated(gathered)
       ELSE ListsOnce(published'[1], Concatenated(gathered))
    /\ UNCHANGED <<duplicates, limits, gathered, exit>>

Judge ==
    /\ exit = NoExit
    /\ published # <<>>
    /\ exit' = IF Exceeds(published[1], limits)
               THEN "VIOLATIONS_EXCEED_THRESHOLD" ELSE "SUCCESS"
    /\ UNCHANGED <<duplicates, limits, gathered, published>>

ContractNext == Gather \/ Fail \/ Publish \/ Judge

ContractSpec == ContractInit /\ [][ContractNext]_contractVars
=============================================================================
