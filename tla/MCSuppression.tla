---------------------------- MODULE MCSuppression ----------------------------
(***************************************************************************)
(* Small instances of Suppression for TLC: two sources and a header.       *)
(*                                                                         *)
(*   a.c  1  void f()  annotated oclint:suppress[long]                     *)
(*        2  { goto }                                                      *)
(*        3  ...       //!OCLINT                                           *)
(*   h.h  1  ...       //!OCLINT, included by a.c                          *)
(*        2  void g()  annotated oclint:suppress, to line 3                *)
(*   b.c  1  ...       //!OCLINT                                           *)
(*        2  property  annotated oclint:suppress[long]                     *)
(*        2  accessor  annotated oclint:suppress[goto], to line 3          *)
(*        3  { goto }                                                      *)
(*        4  void k()  annotated oclint:suppress[goto]                     *)
(***************************************************************************)
EXTENDS Suppression, TLC

CONSTANTS long, wide, goto, a, b, fa, fb, fh,
          rootA, f, inF, g, rootB, prop, acc, inAcc, k

MCRules == {long, wide, goto}
MCLines == 1..4

MCOwnName == (a :> "a.c") @@ (b :> "b.c")
MCFileOf == (a :> fa) @@ (b :> fb)

MCComments ==
    (a :> {[file |-> fa, line |-> 3], [file |-> fh, line |-> 1]}) @@
    (b :> {[file |-> fb, line |-> 1]})

MCNodes == {rootA, f, inF, g, rootB, prop, acc, inAcc, k}
MCStmts == {inF, inAcc}
MCRoot == (a :> rootA) @@ (b :> rootB)
MCNodesOf == (a :> {rootA, f, inF, g}) @@ (b :> {rootB, prop, acc, inAcc, k})

MCParent ==
    [n \in MCNodes |->
        CASE n \in {f, g} -> rootA [] n = inF -> f
          [] n \in {prop, acc, k} -> rootB [] n = inAcc -> acc
          [] OTHER -> NoNode]

MCTopLevel == [n \in MCNodes |-> CASE n = inF -> f [] n = inAcc -> acc [] OTHER -> n]

MCFirst ==
    [n \in MCNodes |->
        CASE n \in {g, inF, prop, acc} -> 2 [] n = inAcc -> 3 [] n = k -> 4 [] OTHER -> 1]
MCLast == [n \in MCNodes |-> IF n \in {f, inF, prop} THEN 2 ELSE IF n = k THEN 4 ELSE 3]

MCMarks ==
    [n \in MCNodes |->
        CASE n \in {f, prop} -> {long} [] n = g -> {Every} [] n \in {acc, k} -> {goto}
          [] OTHER -> {}]

MCNone == [n \in MCNodes |-> {}]
MCProperty == [n \in MCNodes |-> IF n = acc THEN {prop} ELSE {}]

(* One reader: each source is compiled and analysed, and a.c once more.    *)
AloneFlown == <<goto, long>>
AloneInOrder == <<a, b, a>>

(* A reader nobody annotated anything for.                                 *)
PlainFlown == <<goto, wide>>
OneInOrder == <<a>>
=============================================================================
