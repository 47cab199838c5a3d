------------------------------ MODULE MCOCLint ------------------------------
(***************************************************************************)
(* Small instances of OCLint for TLC.                                      *)
(***************************************************************************)
EXTENDS OCLint

CONSTANTS r1, r2, hdr, src1, src2, c1, c2, c3, c4, d0, d1, d2

MCRules == {r1, r2}
MCPriority == [r \in MCRules |-> IF r = r1 THEN 2 ELSE 3]

(* c3 names its directory relative to d0: it cannot be entered from        *)
(* anywhere else.  The driver makes more than one job of c4.               *)
MCChdir ==
    [d \in {d0, d1, d2} |->
        [c \in {c1, c2, c3, c4} |->
            IF c # c3 THEN d1 ELSE IF d = d0 THEN d2 ELSE NoDirectory]]

MCLimits == [p \in 1..3 |-> IF p = 2 THEN 1 ELSE 0]

AnOption(global, checker, dups, sections, rules) ==
    [global |-> global, checker |-> checker, dups |-> dups, output |-> TRUE,
     sections |-> sections, rules |-> rules, limits |-> MCLimits]

MCSources == {src1, src2}
MCPaths == <<src1, src2>>

(***************************************************************************)
(* Wide: both modes, both passes; a source the database knows not at all,  *)
(* once or twice, commands that throw, in the second place or only in the  *)
(* second pass (c3).                                                       *)
(***************************************************************************)
WideOptions ==
    {AnOption(g, c, FALSE, {"violations"}, <<r1>>) : g \in BOOLEAN, c \in BOOLEAN}

WideDatabases ==
    {[s \in MCSources |-> IF s = src1 THEN a ELSE b] :
        a \in {<<>>, <<c1>>, <<c1, c1>>, <<c3>>}, b \in {<<>>, <<c2>>, <<c4>>}}

(***************************************************************************)
(* Views: two commands that see the same header, two rules, every section, *)
(* duplicates wanted and not.                                              *)
(***************************************************************************)
ViewsOptions ==
    {AnOption(g, FALSE, d, s, <<r1, r2>>) :
        g \in BOOLEAN, d \in BOOLEAN, s \in {{"violations"}, Views}}

ViewsDatabases == {[s \in MCSources |-> IF s = src1 THEN <<c1>> ELSE <<c2>>]}
=============================================================================
