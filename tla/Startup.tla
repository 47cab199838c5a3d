------------------------------- MODULE Startup -------------------------------
(***************************************************************************)
(* From the arguments to the first source: option::process and prepare.    *)
(*                                                                         *)
(* Code: oclint-driver main (consumeArgRulesPath, prepare),                *)
(* rules_dlfcn_port, reporters_dlfcn_port and RulesetFilter; oclint-core   *)
(* RuleSet.  Rules register themselves when their library is opened.  A    *)
(* directory is read in an order that the file system chooses.             *)
(***************************************************************************)
EXTENDS Configuration

CONSTANTS
    DefaultRulesPath,  \* <prefix>/lib/oclint/rules
    ReporterPathOf,    \* ReporterPathOf[x]: <prefix>/lib/oclint/reporters of the
                       \* executable x that a command line starts
    Entries,           \* names in directories
    Holds,             \* Holds[d]: the entries of the directory d; no others open
    Hidden,            \* entries that start with a dot
    LibraryOf,         \* LibraryOf[e]: the library the entry e is, or NotLibrary
    NotLibrary,        \* something dlopen cannot open
    Registers,         \* Registers[l]: the rules that l registers when opened
    Identifier,        \* Identifier[r]: the identifier of the rule r
    Creates,           \* Creates[l]: the name of the reporter l creates
    NoEntry,           \* what nullptr is among entries
    NoReporter

(* What is left of a directory that is not open.                           *)
Closed == {NoEntry}

(* The entries of a directory the loops look at.                           *)
Visible(d) == IF d \in DOMAIN Holds THEN Holds[d] \ Hidden ELSE {}

(* A library in the reporter directory has a function named create; one    *)
(* without would be called through a null pointer.                         *)
ASSUME StartupAssumption ==
    /\ \A d \in DOMAIN Holds : Holds[d] \subseteq Entries
    /\ Hidden \subseteq Entries
    /\ DOMAIN LibraryOf = Entries
    /\ \A l, m \in DOMAIN Registers :
         \A i \in DOMAIN Registers[l], j \in DOMAIN Registers[m] :
             Registers[l][i] = Registers[m][j] => l = m /\ i = j
    /\ \A l \in DOMAIN Registers : Registers[l] \in Seq(DOMAIN Identifier)
    /\ NotLibrary \notin DOMAIN Registers
    /\ NoEntry \notin Entries
    /\ \A e \in Entries : LibraryOf[e] \in DOMAIN Registers \cup {NotLibrary}
    /\ \A c \in CommandLines : c.executable \in DOMAIN ReporterPathOf
    /\ \A x \in DOMAIN ReporterPathOf :
         \A e \in Visible(ReporterPathOf[x]) : LibraryOf[e] \in DOMAIN Creates \cup {NotLibrary}

VARIABLES
    at,        \* index of the rule path
    entries,   \* what is left of the open directory
    opened,    \* libraries in the process
    rules,     \* the vector of RuleSet
    reporter,  \* selectedReporter
    status     \* what prepare returned

loading == <<at, entries, opened, rules, reporter>>
vars == <<pc, configVars, loading, status>>

-----------------------------------------------------------------------------
(* rulesPath: the default only if neither file nor command line names one. *)
RulesPath == IF Len(rulePaths) > 0 THEN rulePaths ELSE <<DefaultRulesPath>>

(* preserveExecutablePath: found from the executable that was started.     *)
ReporterPath == ReporterPathOf[cmd.executable]

(* A library that is in the process already is not initialised again.      *)
DlOpen(library) ==
    /\ opened' = opened \cup {library}
    /\ rules' = IF library \in opened THEN rules ELSE rules \o Registers[library]

Registered == {rules[i] : i \in DOMAIN rules}

(* filteredRules: the rules that fly, in the order of registration.        *)
MutPasses(r) == filter.enabled = {} \/ Identifier[r] \in filter.enabled

Passes(r) ==
    /\ filter.enabled = {} \/ Identifier[r] \in filter.enabled
    /\ Identifier[r] \notin filter.disabled

Flown == {r \in Registered : Passes(r)}

-----------------------------------------------------------------------------
Init ==
    /\ ConfigInit
    /\ at = 1
    /\ entries = Closed
    /\ opened = {}
    /\ rules = <<>>
    /\ reporter = NoReporter
    /\ status = "SUCCESS"

(* An exception, or prepare itself, gives up: main returns the status.     *)
Fail(code) == status' = code /\ pc' = "exited"

OpenRuleDirectory ==
    /\ pc = "loadRules"
    /\ entries = Closed
    /\ at <= Len(RulesPath)
    /\ RulesPath[at] \in DOMAIN Holds
    /\ entries' = Holds[RulesPath[at]]
    /\ UNCHANGED <<pc, configVars, at, opened, rules, reporter, status>>

(* opendir failed: the directory is passed over without a word.            *)
SkipRuleDirectory ==
    /\ pc = "loadRules"
    /\ entries = Closed
    /\ at <= Len(RulesPath)
    /\ RulesPath[at] \notin DOMAIN Holds
    /\ at' = at + 1
    /\ UNCHANGED <<pc, configVars, entries, opened, rules, reporter, status>>

(* Both readdir loops pass over the entries that start with a dot, and     *)
(* both throw at the first one that dlopen refuses.                        *)
MutSkipHidden(e) ==
    /\ pc \in {"loadRules", "loadReporter"}
    /\ e \in entries \cap Hidden
    /\ entries' = {}
    /\ UNCHANGED <<pc, configVars, at, opened, rules, reporter, status>>

SkipHidden(e) ==
    /\ pc \in {"loadRules", "loadReporter"}
    /\ e \in entries \cap Hidden
    /\ entries' = entries \ {e}
    /\ UNCHANGED <<pc, configVars, at, opened, rules, reporter, status>>

MutCannotOpen(e) ==
    /\ pc \in {"loadRules", "loadReporter"}
    /\ e \in entries \ Hidden
    /\ LibraryOf[e] = NotLibrary
    /\ entries' = entries \ {e}
    /\ UNCHANGED <<pc, configVars, at, opened, rules, reporter, status>>

CannotOpen(e) ==
    /\ pc \in {"loadRules", "loadReporter"}
    /\ e \in entries \ Hidden
    /\ LibraryOf[e] = NotLibrary
    /\ entries' = Closed
    /\ Fail(IF pc = "loadRules" THEN "RULE_NOT_FOUND" ELSE "REPORTER_NOT_FOUND")
    /\ UNCHANGED <<configVars, at, opened, rules, reporter>>

LoadRule(e) ==
    /\ pc = "loadRules"
    /\ e \in entries \ Hidden
    /\ LibraryOf[e] # NotLibrary
    /\ entries' = entries \ {e}
    /\ DlOpen(LibraryOf[e])
    /\ UNCHANGED <<pc, configVars, at, reporter, status>>

(* A slip: the index is not moved on.                                      *)
MutCloseStays ==
    /\ pc = "loadRules"
    /\ entries = {}
    /\ entries' = Closed
    /\ UNCHANGED <<pc, configVars, at, opened, rules, reporter, status>>

CloseRuleDirectory ==
    /\ pc = "loadRules"
    /\ entries = {}
    /\ entries' = Closed
    /\ at' = at + 1
    /\ UNCHANGED <<pc, configVars, opened, rules, reporter, status>>

(* The second part of prepare.                                             *)
NoRuleLoaded ==
    /\ pc = "loadRules"
    /\ entries = Closed
    /\ at > Len(RulesPath)
    /\ Len(rules) <= 0
    /\ Fail("RULE_NOT_FOUND")
    /\ UNCHANGED <<configVars, loading>>

(* loadReporter; a directory that does not open has no reporter either.    *)
OpenReporterDirectory ==
    /\ pc = "loadRules"
    /\ entries = Closed
    /\ at > Len(RulesPath)
    /\ Len(rules) > 0
    /\ pc' = "loadReporter"
    /\ entries' = IF ReporterPath \in DOMAIN Holds THEN Holds[ReporterPath] ELSE {}
    /\ UNCHANGED <<configVars, at, opened, rules, reporter, status>>

(* Every library up to the one that creates the wanted reporter is opened. *)
LoadReporter(e) ==
    /\ pc = "loadReporter"
    /\ e \in entries \ Hidden
    /\ LibraryOf[e] # NotLibrary
    /\ DlOpen(LibraryOf[e])
    /\ IF Creates[LibraryOf[e]] = value["report-type"]
       THEN reporter' = LibraryOf[e] /\ entries' = Closed /\ pc' = "ready"
       ELSE entries' = entries \ {e} /\ UNCHANGED <<pc, reporter>>
    /\ UNCHANGED <<configVars, at, status>>

NoReporterFound ==
    /\ pc = "loadReporter"
    /\ entries = {}
    /\ entries' = Closed
    /\ Fail("REPORTER_NOT_FOUND")
    /\ UNCHANGED <<configVars, at, opened, rules, reporter>>

(* The analysis, or sendAnalyticsAndExit: see OCLint.                      *)
Done == pc \in {"ready", "exited"} /\ UNCHANGED vars

Next ==
    \/ ConfigNext /\ UNCHANGED <<loading, status>>
    \/ OpenRuleDirectory
    \/ SkipRuleDirectory
    \/ entries # Closed
         /\ \E e \in entries : SkipHidden(e) \/ CannotOpen(e) \/ LoadRule(e) \/ LoadReporter(e)
    \/ CloseRuleDirectory
    \/ NoRuleLoaded
    \/ OpenReporterDirectory
    \/ NoReporterFound
    \/ Done

Spec == Init /\ [][Next]_vars

(* One thread that waits for nobody.                                       *)
FairSpec == Spec /\ WF_vars(Next)

-----------------------------------------------------------------------------
TypeOK ==
    /\ pc \in {"files", "loadRules", "loadReporter", "ready", "exited"}
    /\ cmd \in CommandLines
    /\ start \in Directories
    /\ home \in Directories \cup {NoHome}
    /\ written \in [Directories -> Texts]
    /\ next \in 1..(Len(ConfigFilePaths) + 1)
    /\ read \in Seq(Objects) /\ Len(read) = next - 1
    /\ rulePaths \in Seq(RulePaths \cup {Garbage})
    /\ DOMAIN value = Scalars
    /\ at \in 1..(Len(RulesPath) + 1)
    /\ entries = Closed \/ entries \subseteq Entries
    /\ opened \subseteq DOMAIN Registers
    /\ rules \in Seq(DOMAIN Identifier)
    /\ reporter \in DOMAIN Creates \cup {NoReporter}
    /\ status \in {"SUCCESS", "RULE_NOT_FOUND", "REPORTER_NOT_FOUND"}

(* The entries of every rule directory.                                    *)
Listed == UNION {Visible(RulesPath[i]) : i \in DOMAIN RulesPath}

RulesOf(library) == {Registers[library][i] : i \in DOMAIN Registers[library]}

(***************************************************************************)
(* Past prepare every library of every rule directory has registered its   *)
(* rules, once, however often it is listed and in whatever order the       *)
(* directories were read.                                                  *)
(***************************************************************************)
LoadedOnce ==
    pc = "ready" =>
        /\ UNION {RulesOf(LibraryOf[e]) : e \in Listed} \subseteq Registered
        /\ \A i, j \in DOMAIN rules : rules[i] = rules[j] => i = j

(***************************************************************************)
(* Whether the rules load does not depend on the order in which            *)
(* directories are read; a reporter is missing only if no library creates  *)
(* it or one cannot be opened; and the one that is used was asked for.     *)
(***************************************************************************)
NoRuleToLoad ==
    \/ \E e \in Listed : LibraryOf[e] = NotLibrary
    \/ \A e \in Listed : RulesOf(LibraryOf[e]) = {}

StatusIsExplained ==
    /\ pc = "exited" => (status = "RULE_NOT_FOUND" <=> NoRuleToLoad)
    /\ pc \in {"loadReporter", "ready"} => ~NoRuleToLoad
    /\ status = "REPORTER_NOT_FOUND" =>
         \/ \E e \in Visible(ReporterPath) : LibraryOf[e] = NotLibrary
         \/ \A e \in Visible(ReporterPath) : Creates[LibraryOf[e]] # value["report-type"]
    /\ pc = "ready" => status = "SUCCESS" /\ Creates[reporter] = value["report-type"]

(***************************************************************************)
(* The command line has the last word on the run: whatever the files say   *)
(* and whatever became of their strings, a rule it disables does not fly,  *)
(* a loaded rule it picks does, and then no rule that nobody picked; its   *)
(* reporter is the one that is used and the libraries of its directories   *)
(* are loaded.                                                             *)
(***************************************************************************)
CommandLineStands ==
    pc = "ready" =>
        LET picked == cmd.rules \ cmd.disableRules IN
        /\ \A r \in Flown : Identifier[r] \notin cmd.disableRules
        /\ \A r \in Registered : Identifier[r] \in picked => r \in Flown
        /\ picked # {} =>
             \A r \in Flown : \E k \in DOMAIN Speakers : Identifier[r] \in Speakers[k].rules
        /\ cmd.scalar["report-type"] # NoValue => Creates[reporter] = cmd.scalar["report-type"]
        /\ \A i \in DOMAIN cmd.rulePaths :
             \A e \in Visible(cmd.rulePaths[i]) : LibraryOf[e] \in opened

(* Startup ends, with or without a reporter to go on with.                 *)
Settles == <>(pc \in {"ready", "exited"})

-----------------------------------------------------------------------------
(***************************************************************************)
(* The inductive invariant behind these properties.  The entries that were *)
(* read so far are those of the directories before `at', and what is no    *)
(* longer left of the open one.                                            *)
(***************************************************************************)
Seen ==
    (UNION {Visible(RulesPath[i]) : i \in 1..(at - 1)}) \cup
        (IF pc = "loadRules" /\ entries # Closed THEN Visible(RulesPath[at]) \ entries ELSE {})

Progress ==
    /\ pc = "files" => at = 1 /\ entries = Closed /\ opened = {} /\ rules = <<>>
    /\ pc = "loadRules" /\ entries # Closed =>
         /\ at <= Len(RulesPath)
         /\ RulesPath[at] \in DOMAIN Holds
         /\ entries \subseteq Holds[RulesPath[at]]
    /\ pc \in {"loadReporter", "ready"} => at = Len(RulesPath) + 1
    /\ pc = "loadReporter" =>
         entries \subseteq Entries /\ entries \ Hidden \subseteq Visible(ReporterPath)

(* What is loaded is what was seen, and nothing but the rule directories   *)
(* loads a rule before the reporter is looked for.                         *)
Loads ==
    /\ pc \in {"loadRules", "loadReporter", "ready"} =>
         \A e \in Seen : LibraryOf[e] \in opened
    /\ pc = "loadRules" => \A l \in opened : \E e \in Seen : LibraryOf[e] = l
    /\ Registered = UNION {RulesOf(l) : l \in opened}
    /\ \A i, j \in DOMAIN rules : rules[i] = rules[j] => i = j

(* Entries the reporter loop has behind it.                                *)
Tried == Visible(ReporterPath) \ entries

Verdicts ==
    /\ pc \notin {"ready", "exited"} => status = "SUCCESS"
    /\ pc \in {"loadReporter", "ready"} \/ status = "REPORTER_NOT_FOUND" => ~NoRuleToLoad
    /\ status = "RULE_NOT_FOUND" => NoRuleToLoad
    /\ pc = "exited" => status # "SUCCESS"
    /\ pc = "loadReporter" =>
         \A e \in Tried :
            LibraryOf[e] # NotLibrary /\ Creates[LibraryOf[e]] # value["report-type"]
    /\ status = "REPORTER_NOT_FOUND" =>
         \/ \E e \in Visible(ReporterPath) : LibraryOf[e] = NotLibrary
         \/ \A e \in Visible(ReporterPath) : Creates[LibraryOf[e]] # value["report-type"]
    /\ pc = "ready" =>
         status = "SUCCESS" /\ reporter \in DOMAIN Creates
           /\ Creates[reporter] = value["report-type"]

IInv == TypeOK /\ LastWordWins /\ NearestWins /\ Progress /\ Loads /\ Verdicts

-----------------------------------------------------------------------------
(***************************************************************************)
(* -rule is "Explicitly pick rules", and RulesetFilterTest expects no rule *)
(* after one was picked and disabled again: as soon as somebody picks a    *)
(* rule, only rules that somebody picked fly.                              *)
(***************************************************************************)
OnlyPickedRulesFly ==
    pc = "ready" /\ (\E k \in DOMAIN Speakers : Speakers[k].rules # {}) =>
        \A r \in Flown : \E k \in DOMAIN Speakers : Identifier[r] \in Speakers[k].rules
=============================================================================
