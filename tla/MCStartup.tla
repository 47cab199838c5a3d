------------------------------ MODULE MCStartup ------------------------------
(***************************************************************************)
(* Small instances of Startup for TLC.                                     *)
(***************************************************************************)
EXTENDS Startup

CONSTANTS etc, user, proj, root, pDefault, pMine, pNowhere, pBroken, pReporters, pBuilt,
          libA, libB, libText, libHtml

MCDirectories == {etc, user, proj, root}

MCDefault ==
    [o \in Scalars |->
        CASE o = "output" -> "-"
          [] o = "report-type" -> "text"
          [] o = "max-priority-1" -> 0
          [] o = "max-priority-2" -> 10
          [] o = "max-priority-3" -> 20
          [] OTHER -> FALSE]

MCStrings == {"output", "report-type"}

(* A text or a command line from the few things it says.                   *)
Pair(key, v) == [key |-> <<key>>, value |-> <<v>>]

Text(rs, ds, fields) == [rules |-> rs] @@ ("disable-rules" :> ds) @@ fields

Scalar(given) ==
    [o \in Scalars |-> IF o \in DOMAIN given THEN given[o] ELSE NoValue]

CommandLine(rs, ds, paths, configurationArguments, given) ==
    [executable |-> "oclint", rules |-> rs, disableRules |-> ds, rulePaths |-> paths,
     ruleConfigurations |-> configurationArguments, scalar |-> Scalar(given)]

Blank == <<>>

MCIdentifier == ("a" :> "A") @@ ("b" :> "B")
MCRegisters == (libA :> <<"a">>) @@ (libB :> <<"b">>) @@ (libText :> <<>>) @@ (libHtml :> <<>>)
MCCreates == (libText :> "text") @@ (libHtml :> "html")

(***************************************************************************)
(* Hierarchy: four texts in every place and three command lines.           *)
(***************************************************************************)
Picks == Text({"A"}, {}, ("max-priority-1" :> 1))
Drops == Text({}, {"A"},
    ("rule-configurations" :> <<Pair("LONG", "1"), Pair("LONG", "2")>>) @@
    ("report-type" :> "html"))
Breaks == Text({"A", "B"}, {"B"},
    ("rule-configurations" :> <<Pair("LONG", "3")>>) @@
    ("max-priority-1" :> Malformed) @@ ("max-priority-2" :> 5))

HierarchyTexts == {Blank, Picks, Drops, Breaks}

HierarchyCommandLines ==
    {CommandLine({}, {}, <<>>, <<>>, <<>>),
     CommandLine({"B"}, {"A"}, <<>>, <<<<"LONG", "7">>>>, ("report-type" :> "text")),
     CommandLine({}, {"A"}, <<>>, <<<<"LONG">>, <<"X", "LONG", "8">>>>,
        ("max-priority-1" :> 0) @@ ("report-type" :> "none"))}

(***************************************************************************)
(* Loading: files and command lines that name directories, the same one    *)
(* twice or one that does not exist; a library that is in two directories; *)
(* a file that is no library; a directory of reporters with a file that is *)
(* no library, before or after the wanted one, and another executable's,   *)
(* which has none.                                                         *)
(***************************************************************************)
Adds(paths) == Text({}, {}, ("rule-paths" :> paths))

LoadingTexts == {Blank, Adds(<<pMine>>), Adds(<<pNowhere>>), Adds(<<pBroken>>)}

Built(commandLine) == [commandLine EXCEPT !.executable = "built"]

LoadingCommandLines ==
    LET lines == {CommandLine({}, {}, <<>>, <<>>, <<>>),
                  CommandLine({"A"}, {}, <<pDefault>>, <<>>, ("report-type" :> "html")),
                  CommandLine({"B"}, {}, <<pMine, pMine>>, <<>>, ("report-type" :> "none"))}
    IN lines \cup {Built(c) : c \in lines}

(***************************************************************************)
(* Dangling: short texts, every string of which may be read too late.      *)
(***************************************************************************)
DanglingTexts ==
    {Text({"B"}, {}, <<>>), Text({}, {"A"}, ("report-type" :> "html")),
     Text({"B"}, {}, ("rule-paths" :> <<pMine>>))}

DanglingCommandLines ==
    {CommandLine({"A"}, {}, <<>>, <<>>, ("report-type" :> "text")),
     CommandLine({}, {"A"}, <<pDefault>>, <<>>, <<>>),
     CommandLine({"B"}, {"A"}, <<pDefault>>, <<>>, <<>>)}

-----------------------------------------------------------------------------
MCTexts == HierarchyTexts \cup LoadingTexts \cup DanglingTexts

MCCommandLines == HierarchyCommandLines \cup LoadingCommandLines \cup DanglingCommandLines

MCHolds ==
    (pDefault :> {".", "A.so", "B.so"}) @@ (pMine :> {".", "A.so", "link.so"}) @@
    (pBroken :> {"README", "B.so"}) @@ (pReporters :> {".", "text.so", "html.so", "README"}) @@
    (pBuilt :> {".", "text.so", "html.so"})

MCReporterPathOf == ("oclint" :> pReporters) @@ ("built" :> pBuilt)

MCEntries == {".", "A.so", "B.so", "link.so", "text.so", "html.so", "README"}

MCLibraryOf ==
    ("A.so" :> libA) @@ ("B.so" :> libB) @@ ("text.so" :> libText) @@ ("html.so" :> libHtml) @@
    ("link.so" :> libA) @@ ("." :> NotLibrary) @@ ("README" :> NotLibrary)

(***************************************************************************)
(* The starts that are explored: one family at a time, with and without    *)
(* HOME, in the home directory or not, in a directory whose path is too    *)
(* long for getcwd; files only in the directories where they are looked    *)
(* for.                                                                    *)
(***************************************************************************)
Looked(here, house) ==
    {etc, IF here \in TooLong THEN root ELSE here} \cup ({house} \ {NoHome})

Started(commandLines, texts, starts, homes) ==
    \E c \in commandLines, here \in starts, house \in homes :
      \E files \in [Looked(here, house) -> texts] :
        /\ cmd = c
        /\ start = here
        /\ home = house
        /\ written = [d \in Directories |-> IF d \in DOMAIN files THEN files[d] ELSE Blank]

Explored ==
    \/ Started(HierarchyCommandLines, HierarchyTexts, {proj, user, root}, {NoHome, proj, user})
    \/ Started(LoadingCommandLines, LoadingTexts, {proj}, {NoHome, user})
    \/ Started(DanglingCommandLines, DanglingTexts, {proj}, {NoHome, proj})

MCInit == Explored /\ Init

MCSpec == MCInit /\ [][Next]_vars /\ WF_vars(Next)
=============================================================================
