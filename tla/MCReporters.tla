---------------------------- MODULE MCReporters ----------------------------
(***************************************************************************)
(* Small instances of Reporters for TLC.                                   *)
(***************************************************************************)
EXTENDS Reporters

MCRules == {"rule1", "rule2"}
MCPriority == [r \in MCRules |-> IF r = "rule1" THEN 1 ELSE 3]
MCCategory == [r \in MCRules |-> "category"]
MCPaths == {"a.c", "b.c"}

Place(line, col, endLine, endCol, message) ==
    [line |-> line, col |-> col, endLine |-> endLine, endCol |-> endCol, message |-> message]
MCPlaces == {Place(1, 2, 3, 4, "plain"), Place(5, 0, 6, 0, "plain"), Place(7, 8, 0, 0, "operator<")}
Texts == MCRules \cup MCPaths \cup {"category", "version", "url", "plain", "operator<", "quoted",
             "error", "warning", "clang static analyzer"}
MCSpecial == [s \in Texts |-> CASE s = "operator<" -> {"angle"} [] OTHER -> {}]

Of(rule, path, at) == [rule |-> rule, path |-> path, at |-> at]
Plain == {v \in MCPlaces : v.message = "plain"}
Angle == Place(7, 8, 0, 0, "operator<")
Some == {Of(r, p, at) : r \in MCRules, p \in MCPaths, at \in Plain}
Few == {v \in Some : v.at.line = 1}

Sets == {<<>>} \cup {<<v>> : v \in Some} \cup {<<v, w>> : v, w \in Few}
Diagnostics(messages) == {<<>>} \cup {<<Of(NoRule, "a.c", at)>> : at \in messages}
Ends(sets, bugs) ==
    [sets : sets, errors : Diagnostics(Plain), warnings : Diagnostics({Place(1, 2, 3, 4, "plain")}),
     bugs : bugs, duplications : BOOLEAN]

Bugs == {<<>>, <<Of(NoRule, "a.c", Place(1, 2, 3, 4, "plain"))>>,
         <<Of(NoRule, "a.c", Place(5, 0, 6, 0, "plain")), Of(NoRule, "b.c", Place(1, 2, 3, 4, "plain"))>>}
Runs == Ends({<<>>} \cup {<<s>> : s \in Sets} \cup {<<s, t>> : s, t \in Sets \ {<<v, w>> : v \in Few, w \in Few}}
             \cup {<<s, <<Of("rule1", "a.c", Place(1, 2, 3, 4, "plain"))>>>> : s \in Sets}, Bugs)

(* A message with "<": of a checker bug, of a rule.                        *)
AngledBugs ==
    Ends({<<>>} \cup {<<s>> : s \in Sets},
         {<<Of(NoRule, "a.c", Angle)>>, <<Of(NoRule, "a.c", Angle), Of(NoRule, "b.c", Angle)>>})
AngledViolations == Ends({<<<<Of("rule1", "a.c", Angle)>>>>}, {<<>>})

MCFormats == {"json", "xml", "pmd", "html", "text", "xcode"}
MCInputs == Runs \cup AngledBugs \cup AngledViolations

(* Every format of plain runs, and PMD of the messages it escapes.         *)
MCInit ==
    /\ \/ results \in Runs /\ format \in Formats
       \/ results \in AngledBugs /\ format = "pmd"
    /\ Init

MCSpec == MCInit /\ [][Next]_vars

(* PMD of the messages it does not.                                        *)
OperatorInit == results \in AngledViolations /\ format = "pmd" /\ Init

OperatorSpec == OperatorInit /\ [][Next]_vars
=============================================================================
