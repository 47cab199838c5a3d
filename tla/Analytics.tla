------------------------------ MODULE Analytics ------------------------------
(***************************************************************************)
(* What a run tells about itself, and how main ends it.                    *)
(*                                                                         *)
(* Code: oclint-driver Analytics, consumeRuleConfiguration of Options, and *)
(* main with listRules and sendAnalyticsAndExit.  While the program runs,  *)
(* Analytics collects rule configurations and languages in two maps that   *)
(* do not exist before they are first needed; send records events from     *)
(* them and from the options.  A build without countly does none of this.  *)
(***************************************************************************)
EXTENDS Integers, Sequences, FiniteSets

CONSTANTS
    Countly,      \* whether COUNTLY_ANALYTICS is defined
    Keys,         \* keys of rule configurations
    Values,       \* their values
    Identifiers,  \* identifiers of rules
    LangOptions,  \* what clang can say of a unit: sets of its language flags
    Directories,  \* what workingPath can be
    NoPath,       \* the empty path
    Unknown,      \* "unknown-project-id"
    NoMap,        \* a null pointer to a map
    NoExit        \* main has not returned

ASSUME AnalyticsAssumption ==
    /\ Countly \in BOOLEAN
    /\ NoPath \in Directories
    /\ Unknown \notin Directories
    /\ NoMap \notin UNION {[K -> Values] : K \in SUBSET Keys}

Languages == {"c", "cpp", "objc"}
Counters == [Languages -> Nat]

ASSUME NoCounterAssumption == NoMap \notin Counters

ExitCodes == {"SUCCESS", "RULE_NOT_FOUND", "REPORTER_NOT_FOUND",
              "ERROR_WHILE_PROCESSING", "ERROR_WHILE_REPORTING",
              "VIOLATIONS_EXCEED_THRESHOLD"}

ASSUME NoExitAssumption == NoExit \notin ExitCodes

VARIABLES
    pc,                  \* where main is
    options,             \* disableAnalytics and showEnabledRules
    workingPath,         \* what preserveWorkingPath kept
    rules,               \* identifiers in the vector of RuleSet
    filtered,            \* identifiers that the filter lets fly
    configurations,      \* the map of RuleConfiguration, which rules read
    ruleConfigurations,  \* the map of Analytics
    languageCounter,
    listed,              \* what listRules printed
    analyzed,            \* language flags of the contexts analysed so far
    recorded,            \* events given to countly
    exit                 \* what main returned

given == <<options, workingPath>>
loaded == <<rules, filtered>>
kept == <<configurations, ruleConfigurations>>
told == <<recorded, exit>>
vars == <<pc, given, loaded, kept, languageCounter, listed, analyzed, told>>

-----------------------------------------------------------------------------
(* The entry of a std::map, written through operator[].                    *)
Put(map, key, value) == [k \in DOMAIN map \cup {key} |-> IF k = key THEN value ELSE map[k]]

Map(pointer) == IF pointer = NoMap THEN <<>> ELSE pointer

(* Analytics::ruleConfiguration                                            *)
RuleConfiguration(key, value) ==
    IF Countly
    THEN ruleConfigurations' = Put(Map(ruleConfigurations), key, value)
    ELSE UNCHANGED ruleConfigurations

(* The languages a unit counts for: none, one or several.                  *)
Spoken(flags) ==
    {l \in Languages :
        \/ l = "objc" /\ flags \cap {"ObjC1", "ObjC2"} # {}
        \/ l = "cpp" /\ "CPlusPlus" \in flags
        \/ l = "c" /\ "C99" \in flags}

NoUnits == [l \in Languages |-> 0]

Counted(counter, flags) ==
    [l \in Languages |-> counter[l] + (IF l \in Spoken(flags) THEN 1 ELSE 0)]

(* Analytics::languageOption; a slip makes the map anew for each unit.     *)
MutLanguageOption(flags) ==
    IF Countly
    THEN languageCounter' = Counted(NoUnits, flags)
    ELSE UNCHANGED languageCounter

LanguageOption(flags) ==
    IF Countly
    THEN languageCounter' =
           Counted(IF languageCounter = NoMap THEN NoUnits ELSE languageCounter, flags)
    ELSE UNCHANGED languageCounter

-----------------------------------------------------------------------------
(* recordEvent                                                             *)
Event(name, segments) == <<[event |-> name, segments |-> segments]>>
NoEvent == <<>>

LanguageCount ==
    LET spoken == {l \in Languages : languageCounter # NoMap /\ languageCounter[l] > 0}
    IN IF spoken = {} THEN NoEvent
       ELSE Event("LanguageCount", [l \in spoken |-> languageCounter[l]])

Registered == {rules[i] : i \in DOMAIN rules}

LoadedRules == Event("LoadedRules", [r \in Registered |-> r \in filtered])

RuleConfigurations ==
    IF ruleConfigurations = NoMap \/ DOMAIN Map(ruleConfigurations) = {} THEN NoEvent
    ELSE Event("RuleConfigurations", ruleConfigurations)

(* The identifier of a project is the hash of its directory.               *)
HashedWorkingPath == IF workingPath = NoPath THEN Unknown ELSE workingPath

Environment == Event("Environment", [project_id |-> HashedWorkingPath])
Configuration == Event("Configuration", <<>>)
ExitStatus(code) == Event("ExitStatus", [exit_code |-> code])

(* Which cases of the switch a code falls through.                         *)
ReachesLanguages(code) == code \in {"SUCCESS", "ERROR_WHILE_REPORTING"}

MutReachesRules(code) == code # "VIOLATIONS_EXCEED_THRESHOLD"
ReachesRules(code) ==
    ReachesLanguages(code) \/ code \in {"ERROR_WHILE_PROCESSING", "REPORTER_NOT_FOUND"}

Events(code) ==
    (IF ReachesLanguages(code) THEN LanguageCount ELSE NoEvent)
      \o (IF ReachesRules(code) THEN LoadedRules ELSE NoEvent)
      \o RuleConfigurations \o Environment \o Configuration \o ExitStatus(code)

Send(code) == recorded' = IF Countly THEN recorded \o Events(code) ELSE recorded

(* Two ways to leave main; a slip asks nobody.                             *)
MutSendAnalyticsAndExit(code) ==
    /\ Send(code)
    /\ exit' = code
    /\ pc' = "exited"

SendAnalyticsAndExit(code) ==
    /\ IF options.disableAnalytics THEN UNCHANGED recorded ELSE Send(code)
    /\ exit' = code
    /\ pc' = "exited"

-----------------------------------------------------------------------------
Init ==
    /\ pc = "options"
    /\ options \in [disableAnalytics : BOOLEAN, showEnabledRules : BOOLEAN]
    /\ workingPath \in Directories
    /\ rules = <<>>
    /\ filtered = {}
    /\ configurations = <<>>
    /\ ruleConfigurations = NoMap
    /\ languageCounter = NoMap
    /\ listed = {}
    /\ analyzed = <<>>
    /\ recorded = <<>>
    /\ exit = NoExit

(* One line of a configuration file or one -rc of the command line.        *)
ConsumeRuleConfiguration(key, value) ==
    /\ pc = "options"
    /\ configurations' = Put(configurations, key, value)
    /\ RuleConfiguration(key, value)
    /\ UNCHANGED <<pc, given, loaded, languageCounter, listed, analyzed, told>>

(* A library registers its rule, and perhaps the filter lets it fly.       *)
LoadRule(identifier) ==
    /\ pc = "options"
    /\ rules' = Append(rules, identifier)
    /\ filtered' \in {filtered, filtered \cup {identifier}}
    /\ UNCHANGED <<pc, given, kept, languageCounter, listed, analyzed, told>>

(* prepare gives up while it loads rules, or finds no rule or no reporter. *)
PrepareFails ==
    /\ pc = "options"
    /\ \/ SendAnalyticsAndExit("RULE_NOT_FOUND")
       \/ Len(rules) > 0 /\ SendAnalyticsAndExit("REPORTER_NOT_FOUND")
    /\ UNCHANGED <<given, loaded, kept, languageCounter, listed, analyzed>>

Prepare ==
    /\ pc = "options"
    /\ Len(rules) > 0
    /\ pc' = "driver"
    /\ listed' = IF options.showEnabledRules THEN filtered ELSE {}
    /\ UNCHANGED <<given, loaded, kept, languageCounter, analyzed, told>>

(* RulesetBasedAnalyzer::analyze reaches one more context.                 *)
Analyze(flags) ==
    /\ pc = "driver"
    /\ analyzed' = Append(analyzed, flags)
    /\ LanguageOption(flags)
    /\ UNCHANGED <<pc, given, loaded, kept, listed, told>>

(* Driver::run throws, before or after it analysed something.              *)
DriverThrows ==
    /\ pc = "driver"
    /\ SendAnalyticsAndExit("ERROR_WHILE_PROCESSING")
    /\ UNCHANGED <<given, loaded, kept, languageCounter, listed, analyzed>>

DriverReturns ==
    /\ pc = "driver"
    /\ pc' = "report"
    /\ UNCHANGED <<given, loaded, kept, languageCounter, listed, analyzed, told>>

(* The report, its failure and the threshold: see OCLint.                  *)
Finish ==
    /\ pc = "report"
    /\ \E code \in {"ERROR_WHILE_REPORTING", "VIOLATIONS_EXCEED_THRESHOLD", "SUCCESS"} :
         SendAnalyticsAndExit(code)
    /\ UNCHANGED <<given, loaded, kept, languageCounter, listed, analyzed>>

Exited == pc = "exited" /\ UNCHANGED vars

Next ==
    \/ \E key \in Keys, value \in Values : ConsumeRuleConfiguration(key, value)
    \/ \E identifier \in Identifiers : LoadRule(identifier)
    \/ PrepareFails
    \/ Prepare
    \/ \E flags \in LangOptions : Analyze(flags)
    \/ DriverThrows
    \/ DriverReturns
    \/ Finish
    \/ Exited

Spec == Init /\ [][Next]_vars

-----------------------------------------------------------------------------
TypeOK ==
    /\ pc \in {"options", "driver", "report", "exited"}
    /\ options \in [disableAnalytics : BOOLEAN, showEnabledRules : BOOLEAN]
    /\ workingPath \in Directories
    /\ rules \in Seq(Identifiers)
    /\ filtered \subseteq Registered
    /\ \E K \in SUBSET Keys : configurations \in [K -> Values]
    /\ languageCounter \in Counters \cup {NoMap}
    /\ listed \subseteq Registered
    /\ analyzed \in Seq(LangOptions)
    /\ exit \in ExitCodes \cup {NoExit}

(* How many of the analysed units speak a language.                        *)
Units(language) == Cardinality({i \in DOMAIN analyzed : language \in Spoken(analyzed[i])})

Told(name, segments) ==
    \A i \in DOMAIN recorded : recorded[i].event = name => recorded[i].segments = segments

Tells(name) == \E i \in DOMAIN recorded : recorded[i].event = name

(***************************************************************************)
(* What is told is what happened: the languages are those of all units     *)
(* that were analysed, each with their number; a rule is told as enabled   *)
(* if and only if it was let fly; and the rule configurations are the      *)
(* values that the rules of this run could read.                           *)
(***************************************************************************)
ToldIsWhatHappened ==
    /\ Told("LanguageCount",
            [l \in {m \in Languages : Units(m) > 0} |-> Units(l)])
    /\ Told("LoadedRules", [r \in Registered |-> r \in filtered])
    /\ Told("RuleConfigurations", configurations)

(***************************************************************************)
(* Only what is complete is told.  The languages are told only by a run    *)
(* whose analysis ended, and the loaded rules only if all were loaded.     *)
(***************************************************************************)
OnlyCompleteGroups ==
    /\ Tells("LanguageCount") =>
         exit \notin {"RULE_NOT_FOUND", "REPORTER_NOT_FOUND", "ERROR_WHILE_PROCESSING"}
    /\ Tells("LoadedRules") => exit # "RULE_NOT_FOUND"

(***************************************************************************)
(* Analytics can be switched off, by the build and by the user: such a run *)
(* tells nothing, however it ends.  Every other one ends with exactly one  *)
(* exit status, which is the code that main returns, and tells nothing     *)
(* before that.                                                            *)
(***************************************************************************)
TellsOnceUnlessDisabled ==
    IF exit = NoExit \/ options.disableAnalytics \/ ~Countly
    THEN recorded = <<>>
    ELSE /\ recorded[Len(recorded)] = [event |-> "ExitStatus", segments |-> [exit_code |-> exit]]
         /\ \A i, j \in DOMAIN recorded : recorded[i].event = recorded[j].event => i = j
=============================================================================
