---------------------------- MODULE Configuration ----------------------------
(***************************************************************************)
(* Where the options of a run come from.                                   *)
(*                                                                         *)
(* Code: oclint-driver Options (option::process), ConfigFile and           *)
(* RulesetFilter; oclint-core RuleConfiguration.  Up to three              *)
(* configuration files are read, the nearest one last, and then what the   *)
(* command line says about rules.  Scalar options were parsed from the     *)
(* command line before, and a file changes only those it left alone.       *)
(***************************************************************************)
EXTENDS Integers, FiniteSets, SequencesExt

CONSTANTS
    Directories,   \* directories that may hold a configuration file
    Etc,           \* <prefix>/etc
    Root,          \* what an empty path and a slash lead to
    NoHome,        \* HOME is not set, or empty
    TooLong,       \* directories whose path getcwd cannot put into 300 bytes
    CommandLines,  \* the command lines a run may be started with
    Texts,         \* the texts of configuration files
    RulePaths,     \* directories of rule libraries that are named somewhere
    Strings,       \* scalar options that are strings
    NoValue,       \* an option nobody gave; also the empty string and INT_MIN
    Malformed,     \* a value that is not of the kind its field wants
    Default,       \* Default[o]: the value in cl::init
    Overwritten,   \* the texts whose memory may be written between its release
                   \* and the last read
    Garbage        \* a string whose memory was written by somebody else

(* ConfigFile::mapping: the fields, in the order they are looked for.      *)
FieldOrder ==
    <<"rules", "disable-rules", "rule-paths", "rule-configurations",
      "output", "report-type", "max-priority-1", "max-priority-2",
      "max-priority-3", "enable-clang-static-analyzer",
      "allow-duplicated-violations">>

Scalars == {FieldOrder[i] : i \in 5..Len(FieldOrder)}

(* A sequence, of whatever.                                                *)
IsList(s) == Len(s) \in Nat /\ DOMAIN s = 1..Len(s)

ASSUME ConfigurationAssumption ==
    /\ {Etc, Root} \subseteq Directories
    /\ NoHome \notin Directories
    /\ Strings \subseteq Scalars
    /\ Overwritten \subseteq Texts
    /\ \A c \in CommandLines :
         /\ DOMAIN c.scalar = Scalars
         /\ c.rulePaths \in Seq(RulePaths)
         /\ IsList(c.ruleConfigurations)

VARIABLES
    pc,              \* how far the program is
    cmd,             \* the command line
    start,           \* the directory the program was started in
    home,            \* the environment variable HOME
    written,         \* written[d]: the text of the configuration file in d
    next,            \* index of the next configuration file
    read,            \* history: the ConfigFile objects that were processed
    rulePaths,       \* argRulesPath
    configurations,  \* _configurations of RuleConfiguration
    filter,          \* the RulesetFilter
    value            \* the scalar options

inputs == <<cmd, start, home, written>>
settings == <<rulePaths, configurations, filter, value>>
configVars == <<inputs, next, read, settings>>

-----------------------------------------------------------------------------
(***************************************************************************)
(* yaml::Input stops at the first field it cannot take and reports nothing *)
(* to its caller: the fields before it stay, those after it are not set.   *)
(***************************************************************************)
Mapped(text, field) ==
    /\ field \in DOMAIN text
    /\ \A i \in DOMAIN FieldOrder :
         /\ FieldOrder[i] \in DOMAIN text
         /\ text[FieldOrder[i]] = Malformed
         => \E j \in 1..(i - 1) : FieldOrder[j] = field

Field(text, field, unset) == IF Mapped(text, field) THEN text[field] ELSE unset

(* The strings of a file, by the field they are in.                        *)
StringRefs(text) ==
    LET pairs == Field(text, "rule-configurations", <<>>)
        paths == Field(text, "rule-paths", <<>>)
    IN (UNION {{<<f, s>> : s \in Field(text, f, {})} : f \in {"rules", "disable-rules"}})
       \cup {<<"rule-paths", paths[i]>> : i \in DOMAIN paths}
       \cup {<<"key", pairs[i].key>> : i \in DOMAIN pairs}
       \cup {<<"value", pairs[i].value>> : i \in DOMAIN pairs}
       \cup {<<f, text[f]>> : f \in {s \in Strings : Field(text, s, NoValue) # NoValue}}

(***************************************************************************)
(* The ConfigFile made from a text, as processConfigFile reads it.  Its    *)
(* strings are StringRefs into a buffer that died with the constructor:    *)
(* those in `lost' are read after somebody else wrote there.               *)
(***************************************************************************)
ConfigFile(text, lost) ==
    LET Seen(field, s) == IF <<field, s>> \in lost THEN Garbage ELSE s
        paths == Field(text, "rule-paths", <<>>)
        pairs == Field(text, "rule-configurations", <<>>)
    IN [rules |-> {Seen("rules", s) : s \in Field(text, "rules", {})},
        disableRules |->
            {Seen("disable-rules", s) : s \in Field(text, "disable-rules", {})},
        rulePaths |-> [i \in DOMAIN paths |-> Seen("rule-paths", paths[i])],
        ruleConfigurations |->
            [i \in DOMAIN pairs |-> [key |-> Seen("key", pairs[i].key),
                                     value |-> Seen("value", pairs[i].value)]],
        scalar |-> [o \in Scalars |-> Seen(o, Field(text, o, NoValue))]]

ConfigFiles(text) ==
    {ConfigFile(text, lost) :
        lost \in IF text \in Overwritten THEN SUBSET StringRefs(text) ELSE {{}}}

Objects == UNION {ConfigFiles(text) : text \in Texts}

ASSUME TextsAssumption ==
    \A text \in Texts :
      /\ Field(text, "rule-paths", <<>>) \in Seq(RulePaths)
      /\ IsList(Field(text, "rule-configurations", <<>>))

-----------------------------------------------------------------------------
(* RulesetFilter::enableRules and disableRules: a rule is in one set only. *)
MutEnableRules(f, names) == [f EXCEPT !.enabled = @ \cup names]

EnableRules(f, names) ==
    [enabled |-> f.enabled \cup names, disabled |-> f.disabled \ names]

DisableRules(f, names) ==
    [enabled |-> f.enabled \ names, disabled |-> f.disabled \cup names]

(* RuleConfiguration::addConfiguration.                                    *)
MutAddConfiguration(map, pair) ==
    IF pair.key \in DOMAIN map THEN map
    ELSE [key \in DOMAIN map \cup {pair.key} |->
             IF key = pair.key THEN pair.value ELSE map[key]]

AddConfiguration(map, pair) ==
    [key \in DOMAIN map \cup {pair.key} |->
        IF key = pair.key THEN pair.value ELSE map[key]]

(* The map after each turn of a loop over pairs.                           *)
MapsAfter(map, pairs) ==
    LET maps[n \in 0..Len(pairs)] ==
            IF n = 0 THEN map ELSE AddConfiguration(maps[n - 1], pairs[n])
    IN  maps

AddConfigurations(map, pairs) == MapsAfter(map, pairs)[Len(pairs)]

(* updateArgIfSet, and the slip of asking for the value instead of the     *)
(* number of occurrences.                                                  *)
MutUpdateArgIfSet(option, config) ==
    IF config.scalar[option] # NoValue /\ value[option] = Default[option]
    THEN config.scalar[option] ELSE value[option]

UpdateArgIfSet(option, config) ==
    IF config.scalar[option] # NoValue /\ cmd.scalar[option] = NoValue
    THEN config.scalar[option] ELSE value[option]

(* An argument of -rc, cut at its equals signs: key and value are what is  *)
(* before and after the last one.  Without one find_last_of answers npos,  *)
(* and both are the whole argument.                                        *)
Separated(argument) ==
    IF Len(argument) = 1 THEN [key |-> argument, value |-> argument]
    ELSE [key |-> Front(argument), value |-> <<Last(argument)>>]

-----------------------------------------------------------------------------
(* preserveWorkingPath, and the directories of configFilePaths.            *)
WorkingPath == IF start \in TooLong THEN Root ELSE start

ConfigFilePaths ==
    <<Etc>> \o (IF home = NoHome THEN <<>> ELSE <<home>>) \o <<WorkingPath>>

(* What the static options hold when main calls process.                   *)
ConfigInit ==
    /\ pc = "files"
    /\ cmd \in CommandLines
    /\ start \in Directories
    /\ home \in Directories \cup {NoHome}
    /\ written \in [Directories -> Texts]
    /\ next = 1
    /\ read = <<>>
    /\ rulePaths = cmd.rulePaths
    /\ configurations = <<>>
    /\ filter = [enabled |-> {}, disabled |-> {}]
    /\ value = [o \in Scalars |->
                   IF cmd.scalar[o] = NoValue THEN Default[o] ELSE cmd.scalar[o]]

(* processConfigFile: within one file a rule that is both picked and       *)
(* disabled is disabled.                                                   *)
ProcessConfigFile ==
    /\ pc = "files"
    /\ next <= Len(ConfigFilePaths)
    /\ \E config \in ConfigFiles(written[ConfigFilePaths[next]]) :
         /\ read' = Append(read, config)
         /\ configurations' = AddConfigurations(configurations, config.ruleConfigurations)
         /\ rulePaths' = rulePaths \o config.rulePaths
         /\ filter' = DisableRules(EnableRules(filter, config.rules), config.disableRules)
         /\ value' = [o \in Scalars |-> UpdateArgIfSet(o, config)]
    /\ next' = next + 1
    /\ UNCHANGED <<pc, inputs>>

(* The pairs of the command line, in the order written.                    *)
Arguments ==
    [i \in DOMAIN cmd.ruleConfigurations |-> Separated(cmd.ruleConfigurations[i])]

(* The rest of process: -rc, -rule, -disable-rule.                         *)
ProcessArguments ==
    /\ pc = "files"
    /\ next > Len(ConfigFilePaths)
    /\ configurations' = AddConfigurations(configurations, Arguments)
    /\ filter' = DisableRules(EnableRules(filter, cmd.rules), cmd.disableRules)
    /\ pc' = "loadRules"
    /\ UNCHANGED <<inputs, next, read, rulePaths, value>>

ConfigNext == ProcessConfigFile \/ ProcessArguments

-----------------------------------------------------------------------------
(* Everybody who has named a rule so far, the last one last.               *)
Speakers == read \o (IF pc = "files" THEN <<>> ELSE <<cmd>>)

Named(speaker) == speaker.rules \cup speaker.disableRules

(***************************************************************************)
(* For each rule the last file or command line that names it decides, and  *)
(* a rule it both picks and disables is disabled; nobody else's names are  *)
(* in the filter: RulesetFilter is a configuration hierarchy.              *)
(***************************************************************************)
LastWordWins ==
    /\ \A k \in DOMAIN Speakers :
         \A name \in Named(Speakers[k]) :
           (\A l \in DOMAIN Speakers : l > k => name \notin Named(Speakers[l])) =>
               IF name \in Speakers[k].disableRules
               THEN name \in filter.disabled \ filter.enabled
               ELSE name \in filter.enabled \ filter.disabled
    /\ \A name \in filter.enabled \cup filter.disabled :
         \E k \in DOMAIN Speakers : name \in Named(Speakers[k])

(* The files that gave an option.                                          *)
Givers(o) == {k \in DOMAIN read : read[k].scalar[o] # NoValue}

(***************************************************************************)
(* A scalar option has the value of the command line, or else that of the  *)
(* nearest file that gives one, or else its default: updateArgIfSet, file  *)
(* by file.                                                                *)
(***************************************************************************)
NearestWins ==
    \A o \in Scalars :
        \/ cmd.scalar[o] # NoValue /\ value[o] = cmd.scalar[o]
        \/ /\ cmd.scalar[o] = NoValue
           /\ \/ \E k \in Givers(o) :
                   (\A l \in Givers(o) : l <= k) /\ value[o] = read[k].scalar[o]
              \/ Givers(o) = {} /\ value[o] = Default[o]

(* The rule configurations given so far, one list for each who gave some.  *)
Given ==
    [k \in DOMAIN read |-> read[k].ruleConfigurations] \o
    (IF pc = "files" THEN <<>> ELSE <<Arguments>>)

(* The value of each key is the one given last, list after list and within *)
(* each in its order; a key nobody gave is not there.                      *)
LastWins(lists, map) ==
    /\ DOMAIN map = UNION {{lists[k][i].key : i \in DOMAIN lists[k]} : k \in DOMAIN lists}
    /\ \A k \in DOMAIN lists : \A i \in DOMAIN lists[k] :
         (\A l \in DOMAIN lists : \A j \in DOMAIN lists[l] :
            l > k \/ (l = k /\ j > i) => lists[l][j].key # lists[k][i].key)
         => map[lists[k][i].key] = lists[k][i].value

(***************************************************************************)
(* A rule reads, for each key, the value given last, command line after    *)
(* files and within each in the order written; and no key nobody gave.     *)
(***************************************************************************)
LastConfigurationWins == LastWins(Given, configurations)
=============================================================================
