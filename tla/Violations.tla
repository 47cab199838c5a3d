----------------------------- MODULE Violations -----------------------------
(***************************************************************************)
(* The data a lint run produces and the pure functions over it.            *)
(*                                                                         *)
(* Code: oclint-core Violation, RawResults, UniqueResults and              *)
(* AbstractResults.  A violation keeps the three things the rest of the    *)
(* program tells apart: the rule that raised it, the path it is in, and    *)
(* `at', which stands for the four coordinates and the message together.   *)
(***************************************************************************)
EXTENDS Integers, FiniteSets, SequencesExt

CONSTANTS
    Rules,      \* the rule objects the loaded rule libraries registered
    NoRule,     \* nullptr, the rule of a compiler diagnostic
    Priority,   \* Priority[r] is r->priority()
    Paths,      \* the file paths a violation can be in
    NoPath,     \* the empty path
    Places      \* coordinates and message of a violation

ASSUME RulesAssumption ==
    /\ NoRule \notin Rules
    /\ NoPath \notin Paths
    /\ Priority \in [Rules -> Int]

(* The struct.  Two violations are equal iff all fields are: operator==.   *)
Violation == [rule : Rules \cup {NoRule}, path : Paths \cup {NoPath}, at : Places]

(***************************************************************************)
(* RawResults::allViolations: the sets of the collector, one after the     *)
(* other.                                                                  *)
(***************************************************************************)
Concatenated(sets) == FlattenSeq(sets)

(***************************************************************************)
(* removeViolationDuplications: one pass that keeps what the hash set has  *)
(* not seen yet, so the first of equal violations stays, in its place.     *)
(***************************************************************************)
(* The plausible slip of comparing with the previous violation only, as    *)
(* std::unique does on a vector nobody sorted.                             *)
MutKeepIfNotLast(kept, v) ==
    IF kept # <<>> /\ Last(kept) = v THEN kept ELSE Append(kept, v)

KeepIfNew(kept, v) == IF v \in ToSet(kept) THEN kept ELSE Append(kept, v)

(* The vector after each turn of the loop.                                 *)
KeptSoFar(vs) ==
    LET kept[n \in 0..Len(vs)] ==
            IF n = 0 THEN <<>> ELSE KeepIfNew(kept[n - 1], vs[n])
    IN  kept

Unique(vs) == KeptSoFar(vs)[Len(vs)]

(***************************************************************************)
(* AbstractResults::numberOfViolationsWithPriority.                        *)
(***************************************************************************)
NumberWithPriority(vs, p) ==
    Cardinality({i \in DOMAIN vs : Priority[vs[i].rule] = p})

(***************************************************************************)
(* numberOfViolationsExceedThreshold of main.cpp; limits[p] is max<p>.     *)
(***************************************************************************)
Exceeds(vs, limits) == \E p \in 1..3 : NumberWithPriority(vs, p) > limits[p]

(***************************************************************************)
(* AbstractResults::numberOfFilesWithViolations: the map is keyed by the   *)
(* path of the FIRST violation of each set that is not empty.              *)
(***************************************************************************)
NumberOfFilesWithViolations(sets) ==
    Cardinality({sets[i][1].path : i \in {j \in DOMAIN sets : sets[j] # <<>>}})
=============================================================================
