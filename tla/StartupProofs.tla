---------------------------- MODULE StartupProofs ----------------------------
(***************************************************************************)
(* Proofs about Startup, for every set of directories, texts, command      *)
(* lines and libraries, with or without reused memory.                     *)
(***************************************************************************)
EXTENDS Startup, TLAPS, SequenceTheorems, Induction

(***************************************************************************)
(* LastWordWins, of a sequence of speakers and the filter they made.       *)
(***************************************************************************)
Decided(speakers, f) ==
    \A k \in DOMAIN speakers :
      \A name \in Named(speakers[k]) :
        (\A l \in DOMAIN speakers : l > k => name \notin Named(speakers[l])) =>
            IF name \in speakers[k].disableRules
            THEN name \in f.disabled \ f.enabled
            ELSE name \in f.enabled \ f.disabled

Accounted(speakers, f) ==
    \A name \in f.enabled \cup f.disabled :
      \E k \in DOMAIN speakers : name \in Named(speakers[k])

(* The filter after a speaker: processConfigFile or the end of process.    *)
After(f, speaker) == DisableRules(EnableRules(f, speaker.rules), speaker.disableRules)

LEMMA OneMoreSpeaker ==
    ASSUME NEW S, NEW speakers \in Seq(S), NEW c \in S, NEW f,
           Decided(speakers, f), Accounted(speakers, f)
    PROVE  /\ Decided(Append(speakers, c), After(f, c))
           /\ Accounted(Append(speakers, c), After(f, c))
<1> DEFINE more == Append(speakers, c)
           g == After(f, c)
           n == Len(speakers) + 1
<1>1. /\ g.enabled = (f.enabled \cup c.rules) \ c.disableRules
      /\ g.disabled = (f.disabled \ c.rules) \cup c.disableRules
  BY DEF After, DisableRules, EnableRules
<1>2. /\ DOMAIN more = 1..n /\ more[n] = c /\ n \in Nat \ {0}
      /\ DOMAIN speakers = 1..(n - 1)
      /\ \A k \in 1..(n - 1) : more[k] = speakers[k]
  BY AppendProperties, LenProperties
<1> HIDE DEF more, g, n
<1>3. ASSUME NEW k \in DOMAIN more, NEW name \in Named(more[k]),
             \A l \in DOMAIN more : l > k => name \notin Named(more[l])
      PROVE  IF name \in more[k].disableRules
             THEN name \in g.disabled \ g.enabled
             ELSE name \in g.enabled \ g.disabled
  <2>1. CASE k = n
    BY <1>1, <1>2, <1>3, <2>1 DEF Named
  <2>2. CASE k # n
    <3>1. k \in 1..(n - 1) /\ n > k
      BY <1>2, <2>2
    <3>2. name \notin Named(c)
      BY <3>1, <1>2, <1>3
    <3>3. \A l \in DOMAIN speakers : l > k => name \notin Named(speakers[l])
      BY <1>2, <1>3
    <3>4. IF name \in speakers[k].disableRules
          THEN name \in f.disabled \ f.enabled
          ELSE name \in f.enabled \ f.disabled
      BY <1>2, <1>3, <3>1, <3>3 DEF Decided
    <3> QED
      BY <1>1, <1>2, <3>1, <3>2, <3>4 DEF Named
  <2> QED
    BY <2>1, <2>2
<1>4. ASSUME NEW name \in g.enabled \cup g.disabled
      PROVE  \E k \in DOMAIN more : name \in Named(more[k])
  <2>1. CASE name \in Named(c)
    BY <2>1, <1>2
  <2>2. CASE name \notin Named(c)
    <3>1. name \in f.enabled \cup f.disabled
      BY <2>2, <1>1, <1>4 DEF Named
    <3>2. PICK k \in DOMAIN speakers : name \in Named(speakers[k])
      BY <3>1 DEF Accounted
    <3> QED
      BY <3>2, <1>2
  <2> QED
    BY <2>1, <2>2
<1>5. Decided(more, g)
  BY <1>3 DEF Decided
<1>6. Accounted(more, g)
  BY <1>4 DEF Accounted
<1> QED
  BY <1>5, <1>6 DEF more, g

-----------------------------------------------------------------------------
(* Every path a file is read from is a directory.                          *)
LEMMA PathsAreDirectories ==
    ASSUME home \in Directories \cup {NoHome}, start \in Directories
    PROVE  /\ ConfigFilePaths \in Seq(Directories)
           /\ Len(ConfigFilePaths) \in Nat
<1>1. WorkingPath \in Directories /\ Etc \in Directories
  BY ConfigurationAssumption DEF WorkingPath
<1>2. CASE home = NoHome
  <2>1. ConfigFilePaths = (<<Etc>> \o <<>>) \o <<WorkingPath>>
    BY <1>2 DEF ConfigFilePaths
  <2> QED
    BY <1>1, <2>1
<1>3. CASE home # NoHome
  <2>1. ConfigFilePaths = (<<Etc>> \o <<home>>) \o <<WorkingPath>>
    BY <1>3 DEF ConfigFilePaths
  <2>2. home \in Directories
    BY <1>3
  <2> QED
    BY <1>1, <2>1, <2>2
<1> QED
  BY <1>2, <1>3

(* What processConfigFile makes of any text.                               *)
LEMMA ObjectsAreTyped ==
    ASSUME NEW text \in Texts, NEW config \in ConfigFiles(text)
    PROVE  /\ config \in Objects
           /\ config.rulePaths \in Seq(RulePaths \cup {Garbage})
<1>1. config \in Objects
  BY DEF Objects
<1>2. PICK lost : config = ConfigFile(text, lost)
  BY DEF ConfigFiles
<1> DEFINE paths == Field(text, "rule-paths", <<>>)
<1>3. paths \in Seq(RulePaths)
  BY TextsAssumption
<1>4. config.rulePaths =
        [i \in DOMAIN paths |-> IF <<"rule-paths", paths[i]>> \in lost THEN Garbage ELSE paths[i]]
  BY <1>2 DEF ConfigFile
<1> HIDE DEF paths
<1>5. config.rulePaths \in Seq(RulePaths \cup {Garbage})
  <2>1. DOMAIN paths = 1..Len(paths) /\ Len(paths) \in Nat
    BY <1>3
  <2>2. \A i \in 1..Len(paths) : paths[i] \in RulePaths
    BY <1>3
  <2> QED
    BY <1>4, <2>1, <2>2, IsASeq
<1> QED
  BY <1>1, <1>5

(* Only option::process changes the settings.                              *)
LEMMA ConfigSteps ==
    ASSUME [Next]_vars
    PROVE  \/ ProcessConfigFile /\ UNCHANGED <<loading, status>>
           \/ ProcessArguments /\ UNCHANGED <<loading, status>>
           \/ UNCHANGED configVars /\ (pc = "files" <=> pc' = "files")
<1>1. CASE ConfigNext /\ UNCHANGED <<loading, status>>
  BY <1>1 DEF ConfigNext
<1>2. CASE OpenRuleDirectory
  BY <1>2 DEF OpenRuleDirectory
<1>3. CASE SkipRuleDirectory
  BY <1>3 DEF SkipRuleDirectory
<1>4. ASSUME NEW e \in entries,
             SkipHidden(e) \/ CannotOpen(e) \/ LoadRule(e) \/ LoadReporter(e)
      PROVE  UNCHANGED configVars /\ (pc = "files" <=> pc' = "files")
  BY <1>4 DEF SkipHidden, CannotOpen, LoadRule, LoadReporter, Fail
<1>5. CASE CloseRuleDirectory \/ NoRuleLoaded
  BY <1>5 DEF CloseRuleDirectory, NoRuleLoaded, Fail
<1>6. CASE OpenReporterDirectory \/ NoReporterFound
  BY <1>6 DEF OpenReporterDirectory, NoReporterFound, Fail
<1>7. CASE Done \/ UNCHANGED vars
  BY <1>7 DEF Done, vars
<1> QED
  BY <1>1, <1>2, <1>3, <1>4, <1>5, <1>6, <1>7 DEF Next

(* dlopen, on the vector of rules.                                         *)
LEMMA DlOpenIsTyped ==
    ASSUME TypeOK, NEW l \in DOMAIN Registers, DlOpen(l)
    PROVE  /\ rules' \in Seq(DOMAIN Identifier)
           /\ opened' \subseteq DOMAIN Registers
<1>1. rules \in Seq(DOMAIN Identifier) /\ Registers[l] \in Seq(DOMAIN Identifier)
  BY StartupAssumption DEF TypeOK
<1>2. rules \o Registers[l] \in Seq(DOMAIN Identifier)
  BY <1>1, ConcatProperties
<1> QED
  BY <1>1, <1>2 DEF DlOpen, TypeOK

-----------------------------------------------------------------------------
(* What StartupAssumption says of the reporters of this executable.        *)
LEMMA ReporterPathIsKnown ==
    ASSUME TypeOK
    PROVE  \A e \in Visible(ReporterPath) : LibraryOf[e] \in DOMAIN Creates \cup {NotLibrary}
<1>1. cmd.executable \in DOMAIN ReporterPathOf
  BY StartupAssumption DEF TypeOK
<1> QED
  BY <1>1, StartupAssumption DEF ReporterPath

(* The inductive part that needs nothing else.                             *)
Typed == TypeOK /\ Progress

LEMMA TypedInitially == Init => Typed
<1> SUFFICES ASSUME Init PROVE Typed
  OBVIOUS
<1>1. Len(ConfigFilePaths) \in Nat
  BY PathsAreDirectories DEF Init, ConfigInit
<1>2. rulePaths \in Seq(RulePaths \cup {Garbage})
  <2>1. rulePaths \in Seq(RulePaths)
    BY ConfigurationAssumption DEF Init, ConfigInit
  <2> QED
    BY <2>1, SeqMonotonic
<1>3. 1 \in 1..(Len(RulesPath) + 1)
  BY <1>2 DEF RulesPath
<1> QED
  BY <1>1, <1>2, <1>3 DEF Typed, Init, ConfigInit, TypeOK, Progress

LEMMA TypedStep == Typed /\ [Next]_vars => Typed'
<1> SUFFICES ASSUME Typed, [Next]_vars PROVE Typed'
  OBVIOUS
<1> USE DEF Typed
<1>1. CASE ProcessConfigFile /\ UNCHANGED <<loading, status>>
  <2>1. /\ ConfigFilePaths \in Seq(Directories)
        /\ Len(ConfigFilePaths) \in Nat
        /\ ConfigFilePaths' = ConfigFilePaths
    BY <1>1, PathsAreDirectories
       DEF TypeOK, ProcessConfigFile, inputs, ConfigFilePaths, WorkingPath
  <2>2. next \in 1..Len(ConfigFilePaths) /\ next' = next + 1
    BY <1>1, <2>1 DEF TypeOK, ProcessConfigFile
  <2>3. written[ConfigFilePaths[next]] \in Texts
    BY <2>1, <2>2 DEF TypeOK
  <2>4. PICK config \in ConfigFiles(written[ConfigFilePaths[next]]) :
          /\ read' = Append(read, config)
          /\ rulePaths' = rulePaths \o config.rulePaths
          /\ value' = [o \in Scalars |-> UpdateArgIfSet(o, config)]
    BY <1>1 DEF ProcessConfigFile
  <2>5. config \in Objects /\ config.rulePaths \in Seq(RulePaths \cup {Garbage})
    BY <2>3, ObjectsAreTyped
  <2>6. read' \in Seq(Objects) /\ Len(read') = next' - 1
    BY <2>2, <2>4, <2>5 DEF TypeOK
  <2>7. rulePaths' \in Seq(RulePaths \cup {Garbage})
    BY <2>4, <2>5 DEF TypeOK
  <2>8. 1 \in 1..(Len(RulesPath') + 1)
    BY <2>7 DEF RulesPath
  <2>9. at = 1 /\ entries = Closed /\ pc = "files" /\ pc' = "files"
    BY <1>1 DEF ProcessConfigFile, Progress
  <2>10. TypeOK'
    BY <1>1, <2>1, <2>2, <2>4, <2>6, <2>7, <2>8, <2>9
       DEF TypeOK, ProcessConfigFile, inputs, loading
  <2>11. Progress'
    BY <1>1, <2>9 DEF Progress, loading, Closed
  <2> QED
    BY <2>10, <2>11
<1>2. CASE ProcessArguments /\ UNCHANGED <<loading, status>>
  <2>1. ConfigFilePaths' = ConfigFilePaths /\ RulesPath' = RulesPath
    BY <1>2 DEF ProcessArguments, inputs, ConfigFilePaths, WorkingPath, RulesPath
  <2>2. TypeOK'
    BY <1>2, <2>1 DEF TypeOK, ProcessArguments, inputs, loading
  <2>3. Progress'
    BY <1>2 DEF Progress, ProcessArguments, loading, Closed
  <2> QED
    BY <2>2, <2>3
<1>3. CASE UNCHANGED configVars /\ (pc = "files" <=> pc' = "files")
  <2>1. /\ ConfigFilePaths' = ConfigFilePaths /\ RulesPath' = RulesPath
        /\ Len(RulesPath) \in Nat /\ Visible(ReporterPath)' = Visible(ReporterPath)
    BY <1>3 DEF configVars, inputs, settings, ConfigFilePaths, WorkingPath, RulesPath, TypeOK,
                ReporterPath, Visible
  <2>2. ASSUME /\ pc' \in {"loadRules", "loadReporter", "ready", "exited"}
               /\ at' \in 1..(Len(RulesPath) + 1)
               /\ entries' = Closed \/ entries' \subseteq Entries
               /\ opened' \subseteq DOMAIN Registers
               /\ rules' \in Seq(DOMAIN Identifier)
               /\ reporter' \in DOMAIN Creates \cup {NoReporter}
               /\ status' \in {"SUCCESS", "RULE_NOT_FOUND", "REPORTER_NOT_FOUND"}
        PROVE  TypeOK'
    BY <1>3, <2>1, <2>2 DEF TypeOK, configVars, inputs, settings
  <2>3. CASE OpenRuleDirectory
    <3>1. entries' \subseteq Entries
      BY <2>3, StartupAssumption DEF OpenRuleDirectory
    <3>2. TypeOK'
      BY <2>2, <2>3, <3>1 DEF OpenRuleDirectory, TypeOK
    <3>3. Progress'
      BY <2>1, <2>3 DEF OpenRuleDirectory, Progress
    <3> QED
      BY <3>2, <3>3
  <2>4. CASE SkipRuleDirectory
    <3>1. TypeOK'
      BY <2>1, <2>2, <2>4 DEF SkipRuleDirectory, TypeOK
    <3>2. Progress'
      BY <2>1, <2>4 DEF SkipRuleDirectory, Progress
    <3> QED
      BY <3>1, <3>2
  <2>5. CASE CloseRuleDirectory
    <3>1. entries # Closed
      BY <2>5 DEF CloseRuleDirectory, Closed
    <3>2. TypeOK'
      BY <2>1, <2>2, <2>5, <3>1 DEF CloseRuleDirectory, TypeOK, Progress
    <3>3. Progress'
      BY <2>1, <2>5 DEF CloseRuleDirectory, Progress
    <3> QED
      BY <3>2, <3>3
  <2>6. CASE NoRuleLoaded \/ NoReporterFound \/ \E e \in entries : CannotOpen(e)
    <3>1. /\ pc' = "exited" /\ status' \in {"RULE_NOT_FOUND", "REPORTER_NOT_FOUND"}
          /\ entries' \in {entries, Closed}
          /\ UNCHANGED <<at, opened, rules, reporter>>
      BY <2>6 DEF NoRuleLoaded, NoReporterFound, CannotOpen, Fail, loading
    <3>2. TypeOK'
      BY <2>2, <3>1, <2>1 DEF TypeOK
    <3>3. Progress'
      BY <3>1 DEF Progress
    <3> QED
      BY <3>2, <3>3
  <2>7. CASE OpenReporterDirectory
    <3>1. at' = Len(RulesPath) + 1 /\ at' = at
      BY <2>1, <2>7 DEF OpenReporterDirectory, TypeOK
    <3>2. entries' \subseteq Entries /\ entries' \ Hidden \subseteq Visible(ReporterPath)
      BY <2>7, StartupAssumption, ReporterPathIsKnown DEF OpenReporterDirectory, Visible, TypeOK
    <3>3. TypeOK'
      BY <2>1, <2>2, <2>7, <3>1, <3>2 DEF OpenReporterDirectory, TypeOK
    <3>4. Progress'
      BY <2>1, <2>7, <3>1, <3>2 DEF OpenReporterDirectory, Progress
    <3> QED
      BY <3>3, <3>4
  <2>8. ASSUME NEW e \in entries, entries # Closed, SkipHidden(e)
        PROVE  Typed'
    <3>1. TypeOK'
      BY <2>1, <2>2, <2>8 DEF SkipHidden, TypeOK
    <3>2. Progress'
      BY <2>1, <2>8 DEF SkipHidden, Progress
    <3> QED
      BY <3>1, <3>2
  <2>9. ASSUME NEW e \in entries, entries # Closed, LoadRule(e)
        PROVE  Typed'
    <3>1. LibraryOf[e] \in DOMAIN Registers
      BY <2>9, StartupAssumption DEF LoadRule, TypeOK
    <3>2. rules' \in Seq(DOMAIN Identifier) /\ opened' \subseteq DOMAIN Registers
      BY <2>9, <3>1, DlOpenIsTyped DEF LoadRule
    <3>3. TypeOK'
      BY <2>1, <2>2, <2>9, <3>2 DEF LoadRule, TypeOK
    <3>4. Progress'
      BY <2>1, <2>9 DEF LoadRule, Progress
    <3> QED
      BY <3>3, <3>4
  <2>10. ASSUME NEW e \in entries, entries # Closed, LoadReporter(e)
        PROVE  Typed'
    <3>1. LibraryOf[e] \in DOMAIN Registers
      BY <2>10, StartupAssumption DEF LoadReporter, TypeOK
    <3>2. rules' \in Seq(DOMAIN Identifier) /\ opened' \subseteq DOMAIN Registers
      BY <2>10, <3>1, DlOpenIsTyped DEF LoadReporter
    <3>3. LibraryOf[e] \in DOMAIN Creates
      BY <2>10, ReporterPathIsKnown DEF LoadReporter, Progress
    <3>4. TypeOK'
      BY <2>1, <2>2, <2>10, <3>2, <3>3 DEF LoadReporter, TypeOK
    <3>5. Progress'
      BY <2>1, <2>10 DEF LoadReporter, Progress
    <3> QED
      BY <3>4, <3>5
  <2>11. CASE Done \/ UNCHANGED vars
    <3>1. UNCHANGED vars
      BY <2>11 DEF Done
    <3>2. TypeOK'
      BY <3>1, <2>1 DEF vars, configVars, inputs, settings, loading, TypeOK
    <3>3. Progress'
      BY <3>1, <2>1 DEF vars, configVars, inputs, settings, loading, Progress
    <3> QED
      BY <3>2, <3>3
  <2>12. CASE ConfigNext /\ UNCHANGED <<loading, status>>
    BY <1>1, <1>2, <2>12 DEF ConfigNext
  <2> QED
    BY <2>3, <2>4, <2>5, <2>6, <2>7, <2>8, <2>9, <2>10, <2>11, <2>12 DEF Next
<1> QED
  BY <1>1, <1>2, <1>3, ConfigSteps

(***************************************************************************)
(* The types of a startup, whatever files and directories it finds.        *)
(***************************************************************************)
THEOREM StartupTypes == Spec => []TypeOK
<1>1. Typed => TypeOK
  BY DEF Typed
<1> QED
  BY <1>1, TypedInitially, TypedStep, PTL DEF Spec

-----------------------------------------------------------------------------
LEMMA SpeakersAre ==
    ASSUME TypeOK
    PROVE  /\ read \in Seq(Objects \cup CommandLines)
           /\ pc = "files" => Speakers = read
           /\ pc # "files" => Speakers = Append(read, cmd)
<1>1. read \in Seq(Objects \cup CommandLines) /\ cmd \in Objects \cup CommandLines
  BY SeqMonotonic DEF TypeOK
<1>2. read \o <<>> = read
  BY <1>1, ConcatEmptySeq
<1>3. read \o <<cmd>> = Append(read, cmd)
  BY <1>1, AppendIsConcat
<1> QED
  BY <1>1, <1>2, <1>3 DEF Speakers

LEMMA LastWordIs ==
    LastWordWins <=> Decided(Speakers, filter) /\ Accounted(Speakers, filter)
BY DEF LastWordWins, Decided, Accounted

LEMMA LastWordInitially == Init => LastWordWins
<1> SUFFICES ASSUME Init PROVE LastWordWins
  OBVIOUS
<1>1. Speakers = <<>> /\ DOMAIN Speakers = {}
  <2>1. read = <<>> /\ pc = "files"
    BY DEF Init, ConfigInit
  <2> QED
    BY <2>1 DEF Speakers
<1>2. filter.enabled = {} /\ filter.disabled = {}
  BY DEF Init, ConfigInit
<1> QED
  BY <1>1, <1>2 DEF LastWordWins

LEMMA LastWordStep == Typed /\ LastWordWins /\ [Next]_vars => LastWordWins'
<1> SUFFICES ASSUME Typed, LastWordWins, [Next]_vars PROVE LastWordWins'
  OBVIOUS
<1> DEFINE Heard == Objects \cup CommandLines
<1>1. /\ read \in Seq(Heard) /\ read' \in Seq(Heard)
      /\ pc = "files" => Speakers = read
      /\ pc # "files" => Speakers = Append(read, cmd)
      /\ pc' = "files" => Speakers' = read'
      /\ pc' # "files" => Speakers' = Append(read', cmd')
  <2>1. TypeOK /\ TypeOK'
    BY TypedStep DEF Typed
  <2>2. /\ read \in Seq(Heard)
        /\ pc = "files" => Speakers = read
        /\ pc # "files" => Speakers = Append(read, cmd)
    BY <2>1, SpeakersAre
  <2>3. read' \in Seq(Heard) /\ cmd' \in Heard
    BY <2>1, SeqMonotonic DEF TypeOK
  <2>4. read' \o <<>> = read' /\ read' \o <<cmd'>> = Append(read', cmd')
    BY <2>3, ConcatEmptySeq, AppendIsConcat
  <2> QED
    BY <2>2, <2>3, <2>4 DEF Speakers
<1>2. Decided(Speakers, filter) /\ Accounted(Speakers, filter)
  BY LastWordIs
<1>3. SUFFICES Decided(Speakers', filter') /\ Accounted(Speakers', filter')
  BY DEF LastWordWins, Decided, Accounted
<1>4. CASE ProcessConfigFile /\ UNCHANGED <<loading, status>>
  <2>1. PICK config \in ConfigFiles(written[ConfigFilePaths[next]]) :
          /\ read' = Append(read, config)
          /\ filter' = After(filter, config)
    BY <1>4 DEF ProcessConfigFile, After
  <2>2. read'[Len(read')] = config /\ Len(read') \in DOMAIN read'
    BY <1>1, <2>1, AppendProperties
  <2>3. config \in Heard
    BY <1>1, <2>2
  <2>4. Speakers = read /\ Speakers' = Append(read, config)
    BY <1>1, <1>4, <2>1 DEF ProcessConfigFile
  <2> QED
    BY <1>1, <1>2, <2>1, <2>3, <2>4, OneMoreSpeaker
<1>5. CASE ProcessArguments /\ UNCHANGED <<loading, status>>
  <2>1. Speakers = read /\ Speakers' = Append(read, cmd) /\ filter' = After(filter, cmd)
    BY <1>1, <1>5 DEF ProcessArguments, inputs, After
  <2>2. cmd \in Heard
    BY DEF Typed, TypeOK
  <2> QED
    BY <1>1, <1>2, <2>1, <2>2, OneMoreSpeaker
<1>6. CASE UNCHANGED configVars /\ (pc = "files" <=> pc' = "files")
  <2>1. Speakers' = Speakers /\ filter' = filter
    BY <1>6 DEF configVars, inputs, settings, Speakers
  <2> QED
    BY <2>1, <1>2
<1> QED
  BY <1>4, <1>5, <1>6, ConfigSteps

(***************************************************************************)
(* enableRules and disableRules, called by file after file and at last for *)
(* the command line, leave every rule as the last of them to name it says, *)
(* whatever the texts are and whatever became of their strings.            *)
(***************************************************************************)
THEOREM FilterIsAHierarchy == Spec => []LastWordWins
BY TypedInitially, TypedStep, LastWordInitially, LastWordStep, PTL DEF Spec

-----------------------------------------------------------------------------
LEMMA NearestInitially == Init => NearestWins
BY DEF Init, ConfigInit, NearestWins, Givers

LEMMA NearestStep == Typed /\ NearestWins /\ [Next]_vars => NearestWins'
<1> SUFFICES ASSUME Typed, NearestWins, [Next]_vars PROVE NearestWins'
  OBVIOUS
<1>1. CASE ProcessConfigFile /\ UNCHANGED <<loading, status>>
  <2>1. PICK config \in ConfigFiles(written[ConfigFilePaths[next]]) :
          /\ read' = Append(read, config)
          /\ value' = [o \in Scalars |-> UpdateArgIfSet(o, config)]
    BY <1>1 DEF ProcessConfigFile
  <2>2. cmd' = cmd
    BY <1>1 DEF ProcessConfigFile, inputs
  <2> DEFINE n == Len(read) + 1
  <2>3. /\ n \in Nat \ {0} /\ DOMAIN read = 1..(n - 1) /\ DOMAIN read' = 1..n
        /\ read'[n] = config
        /\ \A k \in 1..(n - 1) : read'[k] = read[k]
    BY <2>1 DEF Typed, TypeOK
  <2> HIDE DEF n
  <2> SUFFICES ASSUME NEW o \in Scalars
               PROVE  \/ cmd.scalar[o] # NoValue /\ value'[o] = cmd.scalar[o]
                      \/ /\ cmd.scalar[o] = NoValue
                         /\ \/ \E k \in Givers(o)' :
                                 /\ \A l \in Givers(o)' : l <= k
                                 /\ value'[o] = read'[k].scalar[o]
                            \/ Givers(o)' = {} /\ value'[o] = Default[o]
    BY <2>2 DEF NearestWins
  <2>4. value'[o] = UpdateArgIfSet(o, config)
    BY <2>1
  <2>5. Givers(o)' = Givers(o) \cup {k \in {n} : config.scalar[o] # NoValue}
    BY <2>3 DEF Givers
  <2>6. Givers(o) \subseteq 1..(n - 1)
    BY <2>3 DEF Givers
  <2>7. CASE cmd.scalar[o] # NoValue
    BY <2>4, <2>7 DEF UpdateArgIfSet, NearestWins
  <2>8. CASE cmd.scalar[o] = NoValue /\ config.scalar[o] # NoValue
    <3>1. value'[o] = read'[n].scalar[o]
      BY <2>3, <2>4, <2>8 DEF UpdateArgIfSet
    <3>2. n \in Givers(o)' /\ \A l \in Givers(o)' : l <= n
      BY <2>3, <2>5, <2>6, <2>8
    <3> QED
      BY <2>8, <3>1, <3>2
  <2>9. CASE cmd.scalar[o] = NoValue /\ config.scalar[o] = NoValue
    <3>1. value'[o] = value[o] /\ Givers(o)' = Givers(o)
      BY <2>4, <2>5, <2>9 DEF UpdateArgIfSet
    <3>2. CASE Givers(o) = {}
      BY <2>9, <3>1, <3>2 DEF NearestWins
    <3>3. CASE Givers(o) # {}
      <4>1. PICK k \in Givers(o) :
              (\A l \in Givers(o) : l <= k) /\ value[o] = read[k].scalar[o]
        BY <2>9, <3>3 DEF NearestWins
      <4>2. read'[k] = read[k]
        BY <2>3, <2>6
      <4> QED
        BY <2>9, <3>1, <4>1, <4>2
    <3> QED
      BY <3>2, <3>3
  <2> QED
    BY <2>7, <2>8, <2>9
<1>2. CASE ProcessArguments /\ UNCHANGED <<loading, status>>
  BY <1>2 DEF ProcessArguments, inputs, NearestWins, Givers
<1>3. CASE UNCHANGED configVars /\ (pc = "files" <=> pc' = "files")
  BY <1>3 DEF configVars, inputs, settings, NearestWins, Givers
<1> QED
  BY <1>1, <1>2, <1>3, ConfigSteps

(***************************************************************************)
(* updateArgIfSet keeps the order command line, nearest file, farther      *)
(* file, default, for every option and every set of texts.                 *)
(***************************************************************************)
THEOREM ScalarsAreAHierarchy == Spec => []NearestWins
BY TypedInitially, TypedStep, NearestInitially, NearestStep, PTL DEF Spec

-----------------------------------------------------------------------------
(* The entries of the rule paths before n.                                 *)
Before(n) == UNION {Visible(RulesPath[i]) : i \in 1..(n - 1)}

LEMMA BeforeGrows ==
    ASSUME NEW n \in Nat \ {0}
    PROVE  Before(n + 1) = Before(n) \cup Visible(RulesPath[n])
<1>1. 1..((n + 1) - 1) = (1..(n - 1)) \cup {n}
  OBVIOUS
<1> QED
  BY <1>1 DEF Before

LEMMA RulesPathIsASequence ==
    ASSUME TypeOK
    PROVE  RulesPath \in Seq(RulePaths \cup {Garbage, DefaultRulesPath})
<1>1. rulePaths \in Seq(RulePaths \cup {Garbage, DefaultRulesPath})
  BY SeqMonotonic, RulePaths \cup {Garbage} \subseteq RulePaths \cup {Garbage, DefaultRulesPath}
     DEF TypeOK
<1>2. <<DefaultRulesPath>> \in Seq(RulePaths \cup {Garbage, DefaultRulesPath})
  OBVIOUS
<1> QED
  BY <1>1, <1>2, Zenon DEF RulesPath

LEMMA ListedIsBefore ==
    ASSUME TypeOK
    PROVE  /\ Len(RulesPath) \in Nat
           /\ Listed = Before(Len(RulesPath) + 1)
           /\ \A n \in 1..(Len(RulesPath) + 1) : Before(n) \subseteq Listed
<1>1. DOMAIN RulesPath = 1..Len(RulesPath) /\ Len(RulesPath) \in Nat
  <2>1. RulesPath \in Seq(RulePaths \cup {Garbage, DefaultRulesPath})
    BY RulesPathIsASequence
  <2> QED
    BY <2>1
<1> QED
  BY <1>1 DEF Listed, Before

(* dlopen keeps what Loads says of the vector of rules.                    *)
Vector ==
    /\ Registered = UNION {RulesOf(l) : l \in opened}
    /\ \A i, j \in DOMAIN rules : rules[i] = rules[j] => i = j

LEMMA DlOpenRegistersOnce ==
    ASSUME TypeOK, Vector, NEW l \in DOMAIN Registers, DlOpen(l)
    PROVE  Vector'
<1>1. CASE l \in opened
  BY <1>1 DEF DlOpen, Vector, Registered
<1>2. CASE l \notin opened
  <2> DEFINE m == Len(rules)
             k == Len(Registers[l])
             both == rules \o Registers[l]
  <2>1. /\ rules \in Seq(DOMAIN Identifier) /\ DOMAIN rules = 1..m /\ m \in Nat
        /\ Registers[l] \in Seq(DOMAIN Identifier)
        /\ DOMAIN Registers[l] = 1..k /\ k \in Nat
    BY StartupAssumption DEF TypeOK
  <2>2. /\ DOMAIN both = 1..(m + k)
        /\ \A i \in 1..m : both[i] = rules[i]
        /\ \A i \in (m + 1)..(m + k) : both[i] = Registers[l][i - m]
    BY <2>1
  <2>3. rules' = both /\ opened' = opened \cup {l}
    BY <1>2 DEF DlOpen
  <2> HIDE DEF m, k, both
  <2>4. \A i \in DOMAIN rules : \E o \in opened : rules[i] \in RulesOf(o)
    BY DEF Vector, Registered
  <2>5. \A i \in 1..k : \A r \in 1..m : Registers[l][i] # rules[r]
    <3>1. SUFFICES ASSUME NEW i \in 1..k, NEW r \in 1..m, Registers[l][i] = rules[r]
                   PROVE  FALSE
      OBVIOUS
    <3>2. PICK o \in opened : rules[r] \in RulesOf(o)
      BY <2>1, <2>4
    <3>3. PICK j \in DOMAIN Registers[o] : Registers[o][j] = rules[r]
      BY <3>2 DEF RulesOf
    <3>4. o \in DOMAIN Registers /\ o # l
      BY <1>2 DEF TypeOK
    <3> QED
      BY <2>1, <3>1, <3>3, <3>4, StartupAssumption
  <2>6. {both[i] : i \in DOMAIN both} = Registered \cup RulesOf(l)
    <3>1. ASSUME NEW i \in 1..k
          PROVE  \E j \in DOMAIN both : both[j] = Registers[l][i]
      <4>1. m + i \in (m + 1)..(m + k) /\ (m + i) - m = i /\ m + i \in 1..(m + k)
        BY <2>1
      <4> QED
        BY <2>1, <2>2, <4>1
    <3>2. ASSUME NEW i \in 1..m
          PROVE  \E j \in DOMAIN both : both[j] = rules[i]
      BY <2>1, <2>2
    <3>3. ASSUME NEW i \in DOMAIN both
          PROVE  both[i] \in Registered \cup RulesOf(l)
      <4>1. CASE i \in 1..m
        BY <2>1, <2>2, <4>1 DEF Registered
      <4>2. CASE i \notin 1..m
        <5>1. i \in (m + 1)..(m + k) /\ i - m \in 1..k
          BY <2>1, <2>2, <4>2
        <5> QED
          BY <2>1, <2>2, <5>1 DEF RulesOf
      <4> QED
        BY <4>1, <4>2
    <3> QED
      BY <2>1, <3>1, <3>2, <3>3 DEF Registered, RulesOf
  <2>7. \A i, j \in DOMAIN both : both[i] = both[j] => i = j
    <3>1. SUFFICES ASSUME NEW i \in DOMAIN both, NEW j \in DOMAIN both, both[i] = both[j]
                   PROVE  i = j
      OBVIOUS
    <3>2. CASE i \in 1..m /\ j \in 1..m
      BY <2>1, <2>2, <3>1, <3>2 DEF Vector
    <3>3. CASE i \notin 1..m /\ j \notin 1..m
      <4>1. /\ i \in (m + 1)..(m + k) /\ i - m \in 1..k
            /\ j \in (m + 1)..(m + k) /\ j - m \in 1..k
        BY <2>1, <2>2, <3>3
      <4>2. Registers[l][i - m] = Registers[l][j - m]
        BY <2>2, <3>1, <4>1
      <4>3. i - m = j - m
        BY <2>1, <4>1, <4>2, StartupAssumption
      <4> QED
        BY <2>1, <4>1, <4>3
    <3>4. CASE i \in 1..m /\ j \notin 1..m
      <4>1. j \in (m + 1)..(m + k) /\ j - m \in 1..k
        BY <2>1, <2>2, <3>4
      <4> QED
        BY <2>2, <2>5, <3>1, <3>4, <4>1
    <3>5. CASE i \notin 1..m /\ j \in 1..m
      <4>1. i \in (m + 1)..(m + k) /\ i - m \in 1..k
        BY <2>1, <2>2, <3>5
      <4> QED
        BY <2>2, <2>5, <3>1, <3>5, <4>1
    <3> QED
      BY <3>2, <3>3, <3>4, <3>5
  <2>8. Registered' = Registered \cup RulesOf(l)
    BY <2>3, <2>6 DEF Registered
  <2> QED
    BY <2>3, <2>7, <2>8 DEF Vector
<1> QED
  BY <1>1, <1>2

-----------------------------------------------------------------------------
LEMMA LoadsInitially == Init => Loads
<1> SUFFICES ASSUME Init PROVE Loads
  OBVIOUS
<1>1. pc = "files" /\ opened = {} /\ rules = <<>> /\ DOMAIN rules = {}
  BY DEF Init, ConfigInit
<1>2. Registered = {}
  BY <1>1 DEF Registered
<1> QED
  BY <1>1, <1>2 DEF Loads

LEMMA LoadsStep == Typed /\ Loads /\ [Next]_vars => Loads'
<1> SUFFICES ASSUME Typed, Loads, [Next]_vars PROVE Loads'
  OBVIOUS
<1>1. TypeOK /\ Progress /\ Vector /\ TypeOK' /\ Progress'
  BY TypedStep DEF Typed, Loads, Vector
<1>2. /\ at \in 1..(Len(RulesPath) + 1) /\ Len(RulesPath) \in Nat
      /\ at \in Nat \ {0}
      /\ pc = "loadRules" /\ entries # Closed =>
           Seen = Before(at) \cup (Visible(RulesPath[at]) \ entries)
      /\ pc # "loadRules" \/ entries = Closed => Seen = Before(at)
  <2>1. at \in 1..(Len(RulesPath) + 1) /\ Len(RulesPath) \in Nat
    BY <1>1, ListedIsBefore DEF TypeOK
  <2>2. at \in Nat \ {0}
    BY <2>1
  <2> QED
    BY <2>1, <2>2 DEF Seen, Before
<1>3. Before(at + 1) = Before(at) \cup Visible(RulesPath[at])
  BY <1>2, BeforeGrows
<1>4. ASSUME UNCHANGED <<rules, opened>>, pc' # "exited" => pc # "files" /\ pc # "exited",
             pc' # "exited" => Seen' = Seen, pc' = "loadRules" => pc = "loadRules"
      PROVE  Loads'
  <2>1. Registered' = Registered
    BY <1>4 DEF Registered
  <2> QED
    BY <1>1, <1>4, <2>1 DEF Loads, TypeOK
<1>5. CASE ConfigNext /\ UNCHANGED <<loading, status>>
  <2>1. /\ at = 1 /\ entries = Closed /\ opened = {} /\ rules = <<>>
        /\ UNCHANGED <<at, entries, opened, rules>>
    BY <1>1, <1>5 DEF ConfigNext, ProcessConfigFile, ProcessArguments, Progress, loading
  <2>2. Seen' = {} /\ Registered' = {} /\ DOMAIN rules' = {}
    BY <2>1 DEF Seen, Registered
  <2> QED
    BY <2>1, <2>2 DEF Loads
<1>6. CASE OpenRuleDirectory
  <2>1. /\ pc = "loadRules" /\ pc' = "loadRules" /\ RulesPath' = RulesPath /\ at' = at
        /\ entries = Closed /\ entries' = Holds[RulesPath[at]]
        /\ RulesPath[at] \in DOMAIN Holds /\ UNCHANGED <<rules, opened>>
    BY <1>6 DEF OpenRuleDirectory, configVars, settings, RulesPath
  <2>2. entries' # Closed
    BY <2>1, StartupAssumption DEF Closed
  <2>4. Seen' = Before(at) \cup (Visible(RulesPath[at]) \ entries')
    BY <2>1, <2>2 DEF Seen, Before
  <2>3. Seen' = Seen
    BY <1>2, <2>1, <2>4 DEF Visible
  <2> QED
    BY <1>4, <2>1, <2>3
<1>7. CASE SkipRuleDirectory
  <2>1. /\ pc = "loadRules" /\ pc' = "loadRules" /\ RulesPath' = RulesPath /\ at' = at + 1
        /\ entries = Closed /\ entries' = entries
        /\ RulesPath[at] \notin DOMAIN Holds /\ UNCHANGED <<rules, opened>>
    BY <1>7 DEF SkipRuleDirectory, configVars, settings, RulesPath
  <2>2. Seen' = Before(at + 1)
    BY <2>1 DEF Seen, Before
  <2>3. Seen' = Seen
    BY <1>2, <1>3, <2>1, <2>2 DEF Visible
  <2> QED
    BY <1>4, <2>1, <2>3
<1>8. CASE CloseRuleDirectory
  <2>1. /\ pc = "loadRules" /\ pc' = "loadRules" /\ RulesPath' = RulesPath /\ at' = at + 1
        /\ entries = {} /\ entries' = Closed /\ UNCHANGED <<rules, opened>>
    BY <1>8 DEF CloseRuleDirectory, configVars, settings, RulesPath
  <2>2. Seen' = Before(at + 1)
    BY <2>1 DEF Seen, Before
  <2>3. Seen' = Seen
    BY <1>2, <1>3, <2>1, <2>2 DEF Closed
  <2> QED
    BY <1>4, <2>1, <2>3
<1>9. CASE NoRuleLoaded \/ NoReporterFound \/ \E e \in entries : CannotOpen(e)
  <2>1. pc' = "exited" /\ UNCHANGED <<opened, rules>>
    BY <1>9 DEF NoRuleLoaded, NoReporterFound, CannotOpen, Fail, loading
  <2> QED
    BY <1>4, <2>1
<1>10. CASE OpenReporterDirectory
  <2>1. /\ pc = "loadRules" /\ pc' = "loadReporter" /\ RulesPath' = RulesPath /\ at' = at
        /\ entries = Closed /\ UNCHANGED <<rules, opened>>
    BY <1>10 DEF OpenReporterDirectory, configVars, settings, RulesPath
  <2>2. Seen' = Seen
    BY <2>1 DEF Seen
  <2> QED
    BY <1>4, <2>1, <2>2
<1>11. ASSUME NEW e \in entries, entries # Closed, SkipHidden(e)
       PROVE  Loads'
  <2>1. /\ pc' = pc /\ RulesPath' = RulesPath /\ at' = at /\ pc \in {"loadRules", "loadReporter"}
        /\ entries' = entries \ {e} /\ e \in Hidden /\ UNCHANGED <<rules, opened>>
    BY <1>11 DEF SkipHidden, configVars, settings, RulesPath
  <2>2. entries' # Closed
    BY <1>1, <1>11, <2>1, StartupAssumption DEF TypeOK, Closed
  <2>3. CASE pc = "loadRules"
    <3>1. Seen' = Before(at) \cup (Visible(RulesPath[at]) \ entries')
      BY <2>1, <2>2, <2>3 DEF Seen, Before
    <3>2. Seen' = Seen
      BY <1>2, <1>11, <2>1, <2>3, <3>1 DEF Visible
    <3> QED
      BY <1>4, <2>1, <3>2
  <2>4. CASE pc # "loadRules"
    <3>1. Seen' = Seen
      BY <2>1, <2>4 DEF Seen
    <3> QED
      BY <1>4, <2>1, <3>1
  <2> QED
    BY <2>3, <2>4
<1>12. ASSUME NEW e \in entries, entries # Closed, LoadRule(e)
       PROVE  Loads'
  <2>1. /\ pc = "loadRules" /\ pc' = pc /\ RulesPath' = RulesPath /\ at' = at
        /\ entries' = entries \ {e} /\ e \notin Hidden /\ LibraryOf[e] # NotLibrary
        /\ DlOpen(LibraryOf[e])
    BY <1>12 DEF LoadRule, configVars, settings, RulesPath
  <2>2. /\ entries' # Closed /\ LibraryOf[e] \in DOMAIN Registers
        /\ e \in Visible(RulesPath[at])
    BY <1>1, <1>12, <2>1, StartupAssumption DEF TypeOK, Progress, Closed, Visible
  <2>3. Seen' = Before(at) \cup (Visible(RulesPath[at]) \ entries')
    BY <2>1, <2>2 DEF Seen, Before
  <2>4. Seen' = Seen \cup {e}
    BY <1>2, <1>12, <2>1, <2>2, <2>3
  <2>5. opened' = opened \cup {LibraryOf[e]}
    BY <2>1 DEF DlOpen
  <2>6. Vector'
    BY <1>1, <2>1, <2>2, DlOpenRegistersOnce
  <2> QED
    BY <2>1, <2>4, <2>5, <2>6 DEF Loads, Vector
<1>13. ASSUME NEW e \in entries, entries # Closed, LoadReporter(e)
       PROVE  Loads'
  <2>1. /\ pc = "loadReporter" /\ pc' \in {"loadReporter", "ready"}
        /\ RulesPath' = RulesPath /\ at' = at
        /\ LibraryOf[e] # NotLibrary /\ DlOpen(LibraryOf[e])
    BY <1>13 DEF LoadReporter, configVars, settings, RulesPath
  <2>2. LibraryOf[e] \in DOMAIN Registers
    BY <1>1, <1>13, <2>1, StartupAssumption DEF TypeOK
  <2>3. Seen' = Seen
    BY <2>1 DEF Seen
  <2>4. opened \subseteq opened'
    BY <2>1 DEF DlOpen
  <2>5. Vector'
    BY <1>1, <2>1, <2>2, DlOpenRegistersOnce
  <2> QED
    BY <2>1, <2>3, <2>4, <2>5 DEF Loads, Vector
<1>14. CASE Done \/ UNCHANGED vars
  <2>1. UNCHANGED vars
    BY <1>14 DEF Done
  <2>2. Seen' = Seen /\ Registered' = Registered
    BY <2>1 DEF vars, loading, configVars, settings, Seen, RulesPath, Registered
  <2> QED
    BY <2>1, <2>2 DEF vars, loading, Loads
<1> QED
  BY <1>5, <1>6, <1>7, <1>8, <1>9, <1>10, <1>11, <1>12, <1>13, <1>14 DEF Next

(* All rule directories are behind the loop when it ends.                  *)
LEMMA AllSeen ==
    ASSUME Typed, entries = Closed \/ pc # "loadRules", at > Len(RulesPath)
    PROVE  Seen = Listed
<1>1. at = Len(RulesPath) + 1
  BY ListedIsBefore DEF Typed, TypeOK
<1> QED
  BY <1>1, ListedIsBefore DEF Typed, Seen, Before

LEMMA LoadedOnceFollows == Typed /\ Loads => LoadedOnce
<1> SUFFICES ASSUME Typed, Loads, pc = "ready" PROVE
        /\ UNION {RulesOf(LibraryOf[e]) : e \in Listed} \subseteq Registered
        /\ \A i, j \in DOMAIN rules : rules[i] = rules[j] => i = j
  BY DEF LoadedOnce
<1>1. Seen = Listed
  BY AllSeen, ListedIsBefore DEF Typed, Progress
<1> QED
  BY <1>1 DEF Loads

(***************************************************************************)
(* Whatever the rule directories hold, in whatever order readdir answers,  *)
(* and however often a library is listed: past prepare all of their rules  *)
(* are registered, each once.                                              *)
(***************************************************************************)
THEOREM RulesAreLoadedOnce == Spec => []LoadedOnce
BY TypedInitially, TypedStep, LoadsInitially, LoadsStep, LoadedOnceFollows, PTL DEF Spec

-----------------------------------------------------------------------------
LEMMA VerdictsInitially == Init => Verdicts
BY DEF Init, ConfigInit, Verdicts

LEMMA VerdictsStep == Typed /\ Loads /\ Verdicts /\ [Next]_vars => Verdicts'
<1> SUFFICES ASSUME Typed, Loads, Verdicts, [Next]_vars PROVE Verdicts'
  OBVIOUS
<1>1. TypeOK /\ Progress
  BY DEF Typed
<1>2. /\ at \in 1..(Len(RulesPath) + 1) /\ Len(RulesPath) \in Nat
      /\ DOMAIN RulesPath = 1..Len(RulesPath)
  <2>1. RulesPath \in Seq(RulePaths \cup {Garbage, DefaultRulesPath})
    BY <1>1, RulesPathIsASequence
  <2> QED
    BY <1>1, <2>1 DEF TypeOK
<1>3. CASE ConfigNext /\ UNCHANGED <<loading, status>>
  BY <1>3 DEF ConfigNext, ProcessConfigFile, ProcessArguments, Verdicts
<1>4. ASSUME UNCHANGED configVars
      PROVE  /\ NoRuleToLoad' = NoRuleToLoad /\ value' = value
             /\ Visible(ReporterPath)' = Visible(ReporterPath)
  BY <1>4 DEF configVars, inputs, settings, NoRuleToLoad, Listed, RulesPath, ReporterPath, Visible
<1>5. CASE OpenRuleDirectory \/ SkipRuleDirectory \/ CloseRuleDirectory
  <2>1. pc' = "loadRules" /\ pc = "loadRules" /\ status' = status
    BY <1>5 DEF OpenRuleDirectory, SkipRuleDirectory, CloseRuleDirectory
  <2> QED
    BY <2>1 DEF Verdicts
<1>6. CASE NoRuleLoaded
  <2>1. /\ pc = "loadRules" /\ entries = Closed /\ at > Len(RulesPath) /\ Len(rules) <= 0
        /\ pc' = "exited" /\ status' = "RULE_NOT_FOUND" /\ UNCHANGED configVars
    BY <1>6 DEF NoRuleLoaded, Fail
  <2>2. Registered = {}
    <3>1. DOMAIN rules = {}
      BY <1>1, <2>1 DEF TypeOK
    <3> QED
      BY <3>1 DEF Registered
  <2>3. Seen = Listed
    BY <2>1, AllSeen
  <2>4. \A e \in Listed : RulesOf(LibraryOf[e]) = {}
    BY <2>1, <2>2, <2>3 DEF Loads
  <2> QED
    BY <1>4, <2>1, <2>4 DEF Verdicts, NoRuleToLoad
<1>7. CASE OpenReporterDirectory
  <2>1. /\ pc = "loadRules" /\ entries = Closed /\ at > Len(RulesPath) /\ Len(rules) > 0
        /\ entries' = IF ReporterPath \in DOMAIN Holds THEN Holds[ReporterPath] ELSE {}
        /\ pc' = "loadReporter" /\ UNCHANGED <<status, configVars>>
    BY <1>7 DEF OpenReporterDirectory
  <2>2. Seen = Listed
    BY <2>1, AllSeen
  <2>3. \A e \in Listed : LibraryOf[e] # NotLibrary
    BY <1>1, <2>1, <2>2, StartupAssumption DEF Loads, TypeOK
  <2>4. rules[1] \in Registered
    BY <1>1, <2>1 DEF Registered, TypeOK
  <2>5. PICK l \in opened : rules[1] \in RulesOf(l)
    BY <2>4 DEF Loads
  <2>6. PICK e \in Listed : LibraryOf[e] = l
    BY <2>1, <2>2 DEF Loads
  <2>7. ~NoRuleToLoad
    BY <2>3, <2>5, <2>6 DEF NoRuleToLoad
  <2>8. Tried' = {}
    BY <1>4, <2>1 DEF Tried, Visible
  <2> QED
    BY <1>4, <2>1, <2>7, <2>8 DEF Verdicts
<1>8. ASSUME NEW e \in entries, entries # Closed, SkipHidden(e)
      PROVE  Verdicts'
  <2>1. /\ pc' = pc /\ pc \in {"loadRules", "loadReporter"} /\ e \in Hidden
        /\ entries' = entries \ {e} /\ UNCHANGED <<configVars, status>>
    BY <1>8 DEF SkipHidden
  <2>2. Tried' = Tried
    BY <1>4, <2>1 DEF Tried, Visible
  <2> QED
    BY <1>4, <2>1, <2>2 DEF Verdicts
<1>9. ASSUME NEW e \in entries, entries # Closed, CannotOpen(e)
      PROVE  Verdicts'
  <2>1. /\ pc' = "exited" /\ LibraryOf[e] = NotLibrary /\ e \notin Hidden
        /\ UNCHANGED configVars /\ pc \in {"loadRules", "loadReporter"}
        /\ pc = "loadRules" => status' = "RULE_NOT_FOUND"
        /\ pc = "loadReporter" => status' = "REPORTER_NOT_FOUND"
    BY <1>9 DEF CannotOpen, Fail
  <2>2. CASE pc = "loadRules"
    <3>1. e \in Visible(RulesPath[at]) /\ at \in DOMAIN RulesPath
      BY <1>1, <1>2, <1>9, <2>1, <2>2 DEF Progress, Visible
    <3>2. NoRuleToLoad
      BY <2>1, <3>1 DEF NoRuleToLoad, Listed
    <3> QED
      BY <1>4, <2>1, <2>2, <3>2 DEF Verdicts
  <2>3. CASE pc = "loadReporter"
    <3>1. e \in Visible(ReporterPath)
      BY <1>1, <1>9, <2>1, <2>3 DEF Progress
    <3>2. ~NoRuleToLoad
      BY <2>3 DEF Verdicts
    <3> QED
      BY <1>4, <2>1, <2>3, <3>1, <3>2 DEF Verdicts
  <2> QED
    BY <2>1, <2>2, <2>3
<1>10. ASSUME NEW e \in entries, entries # Closed, LoadRule(e)
       PROVE  Verdicts'
  BY <1>10 DEF LoadRule, Verdicts
<1>11. ASSUME NEW e \in entries, entries # Closed, LoadReporter(e)
       PROVE  Verdicts'
  <2>1. /\ pc = "loadReporter" /\ UNCHANGED <<configVars, status>>
        /\ LibraryOf[e] # NotLibrary /\ e \in Visible(ReporterPath)
    BY <1>1, <1>11 DEF LoadReporter, Progress
  <2>2. ~NoRuleToLoad /\ status = "SUCCESS"
    BY <2>1 DEF Verdicts
  <2>3. CASE Creates[LibraryOf[e]] = value["report-type"]
    <3>1. LibraryOf[e] \in DOMAIN Creates
      BY <1>1, <2>1, ReporterPathIsKnown
    <3>2. pc' = "ready" /\ reporter' = LibraryOf[e]
      BY <1>11, <2>3 DEF LoadReporter
    <3> QED
      BY <1>4, <2>1, <2>2, <2>3, <3>1, <3>2 DEF Verdicts
  <2>4. CASE Creates[LibraryOf[e]] # value["report-type"]
    <3>1. pc' = pc /\ entries' = entries \ {e}
      BY <1>11, <2>4 DEF LoadReporter
    <3>2. Tried' \subseteq Tried \cup {e}
      BY <1>4, <2>1, <3>1 DEF Tried
    <3> QED
      BY <1>4, <2>1, <2>2, <2>4, <3>1, <3>2 DEF Verdicts
  <2> QED
    BY <2>3, <2>4
<1>12. CASE NoReporterFound
  <2>1. /\ pc = "loadReporter" /\ entries = {} /\ UNCHANGED configVars
        /\ pc' = "exited" /\ status' = "REPORTER_NOT_FOUND"
    BY <1>12 DEF NoReporterFound, Fail
  <2>2. Tried = Visible(ReporterPath)
    BY <2>1 DEF Tried
  <2> QED
    BY <1>4, <2>1, <2>2 DEF Verdicts
<1>13. CASE Done \/ UNCHANGED vars
  <2>1. UNCHANGED vars
    BY <1>13 DEF Done
  <2>2. /\ UNCHANGED <<pc, status, reporter, value>> /\ NoRuleToLoad' = NoRuleToLoad
        /\ Visible(ReporterPath)' = Visible(ReporterPath) /\ Tried' = Tried
    BY <1>4, <2>1 DEF vars, loading, configVars, settings, Tried
  <2> QED
    BY <2>2 DEF Verdicts
<1> QED
  BY <1>3, <1>5, <1>6, <1>7, <1>8, <1>9, <1>10, <1>11, <1>12, <1>13 DEF Next

LEMMA StatusFollows == TypeOK /\ Verdicts => StatusIsExplained
BY DEF TypeOK, Verdicts, StatusIsExplained

(***************************************************************************)
(* What prepare returns does not depend on the order of directory entries: *)
(* RULE_NOT_FOUND exactly when some listed entry is no library or none has *)
(* a rule, and the reporter in use is the one that was asked for.          *)
(***************************************************************************)
THEOREM StatusIsDetermined == Spec => []StatusIsExplained
BY TypedInitially, TypedStep, LoadsInitially, LoadsStep, VerdictsInitially, VerdictsStep,
   StatusFollows, PTL DEF Spec, Typed

-----------------------------------------------------------------------------
(***************************************************************************)
(* What the command line needs besides: an enabled rule was picked by      *)
(* somebody, and the directories of the command line come first.           *)
(***************************************************************************)
Picked ==
    /\ \A name \in filter.enabled : \E k \in DOMAIN Speakers : name \in Speakers[k].rules
    /\ \A i \in DOMAIN cmd.rulePaths :
         i \in DOMAIN rulePaths /\ rulePaths[i] = cmd.rulePaths[i]

LEMMA PickedInitially == Init => Picked
BY DEF Init, ConfigInit, Picked

LEMMA PickedStep == Typed /\ Picked /\ [Next]_vars => Picked'
<1> SUFFICES ASSUME Typed, Picked, [Next]_vars PROVE Picked'
  OBVIOUS
<1> DEFINE Heard == Objects \cup CommandLines
<1>1. TypeOK /\ TypeOK' /\ read \in Seq(Heard) /\ (pc = "files" => Speakers = read)
  BY TypedStep, SpeakersAre DEF Typed
<1>2. CASE ProcessConfigFile /\ UNCHANGED <<loading, status>>
  <2>1. PICK config \in ConfigFiles(written[ConfigFilePaths[next]]) :
          /\ read' = Append(read, config)
          /\ filter' = After(filter, config)
          /\ rulePaths' = rulePaths \o config.rulePaths
    BY <1>2 DEF ProcessConfigFile, After
  <2>2. cmd' = cmd /\ pc = "files" /\ pc' = "files"
    BY <1>2 DEF ProcessConfigFile, inputs
  <2>3. read' \o <<>> = read'
    BY <1>1, ConcatEmptySeq DEF TypeOK
  <2>4. Speakers = read /\ Speakers' = Append(read, config)
    BY <1>1, <2>1, <2>2, <2>3 DEF Speakers
  <2>5. ASSUME NEW name \in filter'.enabled
        PROVE  \E k \in DOMAIN Speakers' : name \in Speakers'[k].rules
    <3>1. name \in filter.enabled \/ name \in config.rules
      BY <2>1, <2>5 DEF After, EnableRules, DisableRules
    <3>2. CASE name \in filter.enabled
      <4>1. PICK k \in DOMAIN read : name \in read[k].rules
        BY <2>4, <3>2 DEF Picked
      <4> QED
        BY <1>1, <2>4, <4>1
    <3>3. CASE name \in config.rules
      <4>1. Len(read) + 1 \in DOMAIN Speakers' /\ Speakers'[Len(read) + 1] = config
        BY <1>1, <2>4
      <4> QED
        BY <3>3, <4>1
    <3> QED
      BY <3>1, <3>2, <3>3
  <2>6. \A i \in DOMAIN rulePaths : i \in DOMAIN rulePaths' /\ rulePaths'[i] = rulePaths[i]
    <3>1. written[ConfigFilePaths[next]] \in Texts
      <4>1. ConfigFilePaths \in Seq(Directories) /\ Len(ConfigFilePaths) \in Nat
        BY <1>1, PathsAreDirectories DEF TypeOK
      <4> QED
        BY <1>1, <1>2, <4>1 DEF TypeOK, ProcessConfigFile
    <3>2. config.rulePaths \in Seq(RulePaths \cup {Garbage})
      BY <3>1, ObjectsAreTyped
    <3> QED
      BY <1>1, <2>1, <3>2 DEF TypeOK
  <2> QED
    BY <2>2, <2>5, <2>6 DEF Picked
<1>3. CASE ProcessArguments /\ UNCHANGED <<loading, status>>
  <2>1. /\ cmd' = cmd /\ rulePaths' = rulePaths /\ pc = "files" /\ pc' # "files"
        /\ read' = read /\ filter' = After(filter, cmd)
    BY <1>3 DEF ProcessArguments, inputs, After
  <2>2. cmd \in Heard
    BY <1>1 DEF TypeOK
  <2>3. read \o <<cmd>> = Append(read, cmd)
    BY <1>1, <2>2, AppendIsConcat
  <2>4. Speakers = read /\ Speakers' = Append(read, cmd)
    BY <1>1, <2>1, <2>3 DEF Speakers
  <2>5. ASSUME NEW name \in filter'.enabled
        PROVE  \E k \in DOMAIN Speakers' : name \in Speakers'[k].rules
    <3>1. name \in filter.enabled \/ name \in cmd.rules
      BY <2>1, <2>5 DEF After, EnableRules, DisableRules
    <3>2. CASE name \in filter.enabled
      <4>1. PICK k \in DOMAIN read : name \in read[k].rules
        BY <2>4, <3>2 DEF Picked
      <4> QED
        BY <1>1, <2>4, <4>1
    <3>3. CASE name \in cmd.rules
      <4>1. Len(read) + 1 \in DOMAIN Speakers' /\ Speakers'[Len(read) + 1] = cmd
        BY <1>1, <2>4
      <4> QED
        BY <3>3, <4>1
    <3> QED
      BY <3>1, <3>2, <3>3
  <2> QED
    BY <2>1, <2>5 DEF Picked
<1>4. CASE UNCHANGED configVars /\ (pc = "files" <=> pc' = "files")
  <2>1. Speakers' = Speakers /\ filter' = filter /\ cmd' = cmd /\ rulePaths' = rulePaths
    BY <1>4 DEF configVars, inputs, settings, Speakers
  <2> QED
    BY <2>1 DEF Picked
<1> QED
  BY <1>2, <1>3, <1>4, ConfigSteps

LEMMA CommandLineFollows == IInv /\ Picked => CommandLineStands
<1> SUFFICES ASSUME IInv, Picked, pc = "ready" PROVE CommandLineStands
  BY DEF CommandLineStands
<1> DEFINE picked == cmd.rules \ cmd.disableRules
           n == Len(Speakers)
<1>1. Typed /\ TypeOK /\ Progress
  BY DEF IInv, Typed
<1>2. /\ n \in DOMAIN Speakers /\ Speakers[n] = cmd
      /\ \A l \in DOMAIN Speakers : ~(l > n)
  BY <1>1, SpeakersAre DEF TypeOK
<1>3. \A name \in Named(cmd) :
        IF name \in cmd.disableRules THEN name \in filter.disabled \ filter.enabled
        ELSE name \in filter.enabled \ filter.disabled
  BY <1>2 DEF IInv, LastWordWins
<1>4. \A r \in Flown : Identifier[r] \notin cmd.disableRules
  BY <1>3 DEF Flown, Passes, Named
<1>5. \A r \in Registered : Identifier[r] \in picked => r \in Flown
  BY <1>3 DEF Flown, Passes, Named
<1>6. picked # {} =>
        \A r \in Flown : \E k \in DOMAIN Speakers : Identifier[r] \in Speakers[k].rules
  <2>1. picked # {} => filter.enabled # {}
    BY <1>3 DEF Named
  <2> QED
    BY <2>1 DEF Flown, Passes, Picked
<1>7. cmd.scalar["report-type"] # NoValue => Creates[reporter] = cmd.scalar["report-type"]
  <2>1. "report-type" \in Scalars
    <3>1. 6 \in 5..Len(FieldOrder) /\ FieldOrder[6] = "report-type"
      BY DEF FieldOrder
    <3> QED
      BY <3>1 DEF Scalars
  <2>2. Creates[reporter] = value["report-type"]
    BY DEF IInv, Verdicts
  <2> QED
    BY <2>1, <2>2 DEF IInv, NearestWins
<1>8. ASSUME NEW i \in DOMAIN cmd.rulePaths, NEW e \in Visible(cmd.rulePaths[i])
      PROVE  LibraryOf[e] \in opened
  <2>1. i \in DOMAIN rulePaths /\ rulePaths[i] = cmd.rulePaths[i]
    BY DEF Picked
  <2>2. RulesPath = rulePaths
    BY <1>1, <2>1 DEF RulesPath, TypeOK
  <2>3. e \in Listed
    BY <1>8, <2>1, <2>2 DEF Listed
  <2>4. Seen = Listed
    BY <1>1, AllSeen, ListedIsBefore DEF Progress
  <2> QED
    BY <2>3, <2>4 DEF IInv, Loads
<1> QED
  BY <1>4, <1>5, <1>6, <1>7, <1>8 DEF CommandLineStands

(***************************************************************************)
(* The command line has the last word on what runs and on how it is        *)
(* reported, even if every string of every configuration file is read      *)
(* from memory that somebody else has written.                             *)
(***************************************************************************)
THEOREM CommandLineAlwaysStands == Spec => []CommandLineStands
<1>1. Init => IInv /\ Picked
  BY TypedInitially, LastWordInitially, NearestInitially, LoadsInitially,
     VerdictsInitially, PickedInitially DEF IInv, Typed
<1>2. IInv /\ Picked /\ [Next]_vars => (IInv /\ Picked)'
  BY TypedStep, LastWordStep, NearestStep, LoadsStep, VerdictsStep, PickedStep DEF IInv, Typed
<1> QED
  BY <1>1, <1>2, CommandLineFollows, PTL DEF Spec

-----------------------------------------------------------------------------
(***************************************************************************)
(* addConfiguration over a list of pairs, by induction over its length.    *)
(***************************************************************************)
LEMMA MapsTurns ==
    ASSUME NEW map, NEW pairs, IsList(pairs)
    PROVE  /\ MapsAfter(map, pairs)[0] = map
           /\ \A n \in 1..Len(pairs) :
                MapsAfter(map, pairs)[n] =
                  AddConfiguration(MapsAfter(map, pairs)[n - 1], pairs[n])
<1> DEFINE N == Len(pairs)
           K == DOMAIN map \cup {pairs[i].key : i \in 1..N}
           V == {map[k] : k \in DOMAIN map} \cup {pairs[i].value : i \in 1..N}
           S == {map} \cup UNION {[D -> V] : D \in SUBSET K}
           G == [n \in 1..N |-> [m \in S |-> AddConfiguration(m, pairs[n])]]
           Body(maps) == [n \in 0..N |->
                            IF n = 0 THEN map ELSE AddConfiguration(maps[n - 1], pairs[n])]
<1>1. N \in Nat
  BY DEF IsList
<1>2. \A n \in 1..N, m \in S : AddConfiguration(m, pairs[n]) \in S
  <2>1. ASSUME NEW n \in 1..N, NEW m \in S
        PROVE  AddConfiguration(m, pairs[n]) \in S
    <3>1. pairs[n].key \in K /\ pairs[n].value \in V
      OBVIOUS
    <3>2. DOMAIN m \subseteq K /\ \A k \in DOMAIN m : m[k] \in V
      OBVIOUS
    <3> HIDE DEF K, V
    <3> DEFINE D == DOMAIN m \cup {pairs[n].key}
    <3>3. AddConfiguration(m, pairs[n]) \in [D -> V]
      BY <3>1, <3>2 DEF AddConfiguration
    <3>4. D \in SUBSET K
      BY <3>1, <3>2
    <3> HIDE DEF D
    <3> QED
      BY <3>3, <3>4
  <2> QED
    BY <2>1
<1>3. map \in S
  OBVIOUS
<1> HIDE DEF S, N
<1>4. G \in [1..N -> [S -> S]]
  BY <1>2
<1>5. PICK f : IsRecursion(f, S, map, N, G)
  <2> HIDE DEF G
  <2> QED
    BY <1>1, <1>3, <1>4, RecursionExists
<1>6. \A n \in 1..N : f[n] = AddConfiguration(f[n - 1], pairs[n])
  <2>1. ASSUME NEW n \in 1..N PROVE f[n] = AddConfiguration(f[n - 1], pairs[n])
    <3>1. n - 1 \in 0..N
      BY <1>1
    <3>2. f[n - 1] \in S /\ f[n] = G[n][f[n - 1]]
      BY <3>1, <1>5 DEF IsRecursion
    <3> QED
      BY <3>2
  <2> QED
    BY <2>1
<1>7. f = Body(f)
  <2>1. \A n \in 0..N : f[n] = IF n = 0 THEN map ELSE AddConfiguration(f[n - 1], pairs[n])
    BY <1>1, <1>5, <1>6 DEF IsRecursion
  <2>2. f = [n \in 0..N |-> f[n]]
    BY <1>5 DEF IsRecursion
  <2> QED
    BY <2>1, <2>2
<1>8. MapsAfter(map, pairs) = CHOOSE maps : maps = Body(maps)
  BY DEF MapsAfter, N
<1> HIDE DEF Body
<1>9. MapsAfter(map, pairs) = Body(MapsAfter(map, pairs))
  BY <1>7, <1>8
<1> QED
  BY <1>1, <1>9 DEF Body, N

(* What a list of pairs does to the map: its keys are added, the last pair *)
(* with a key decides, and keys it does not have keep their value.         *)
LEMMA ListApplied ==
    ASSUME NEW map, NEW pairs, IsList(pairs)
    PROVE  LET after == AddConfigurations(map, pairs)
           IN  /\ DOMAIN after = DOMAIN map \cup {pairs[i].key : i \in DOMAIN pairs}
               /\ \A i \in DOMAIN pairs :
                    (\A j \in DOMAIN pairs : j > i => pairs[j].key # pairs[i].key)
                    => after[pairs[i].key] = pairs[i].value
               /\ \A key \in DOMAIN map :
                    (\A i \in DOMAIN pairs : pairs[i].key # key) => after[key] = map[key]
<1> DEFINE N == Len(pairs)
           M == MapsAfter(map, pairs)
           Keys(n) == {pairs[i].key : i \in 1..n}
           Last1(n, m) == \A i \in 1..n :
                            (\A j \in 1..n : j > i => pairs[j].key # pairs[i].key)
                            => m[pairs[i].key] = pairs[i].value
           Old(n, m) == \A key \in DOMAIN map : key \notin Keys(n) => m[key] = map[key]
           Good(n, m) == DOMAIN m = DOMAIN map \cup Keys(n) /\ Last1(n, m) /\ Old(n, m)
           T == {n \in 0..N : Good(n, M[n])}
<1>1. N \in Nat /\ DOMAIN pairs = 1..N
  BY DEF IsList
<1>2. M[0] = map /\ \A n \in 1..N : M[n] = AddConfiguration(M[n - 1], pairs[n])
  BY MapsTurns
<1> HIDE DEF M, N
<1>3. 0 \in T
  <2>1. Good(0, map)
    OBVIOUS
  <2> HIDE DEF Good
  <2> QED
    BY <1>1, <1>2, <2>1
<1>4. ASSUME NEW n \in T, n < N PROVE n + 1 \in T
  <2> DEFINE m == M[n]
             p == pairs[n + 1]
  <2>1. /\ n \in Nat /\ n + 1 \in 1..N /\ (n + 1) - 1 = n /\ n + 1 \in 0..N
        /\ 1..(n + 1) = 1..n \cup {n + 1}
    BY <1>1, <1>4
  <2>2. M[n + 1] = AddConfiguration(m, p)
    BY <1>2, <2>1
  <2>3. Good(n, m)
    OBVIOUS
  <2> HIDE DEF T, m, p
  <2>4. Keys(n + 1) = Keys(n) \cup {p.key}
    BY <2>1 DEF p
  <2> DEFINE a == AddConfiguration(m, p)
  <2>5. /\ DOMAIN a = DOMAIN m \cup {p.key}
        /\ a[p.key] = p.value
        /\ \A key \in DOMAIN m : key # p.key => a[key] = m[key]
    BY DEF AddConfiguration
  <2> HIDE DEF a
  <2>6. DOMAIN a = DOMAIN map \cup Keys(n + 1)
    BY <2>3, <2>4, <2>5
  <2>7. Last1(n + 1, a)
    <3>1. ASSUME NEW i \in 1..(n + 1),
                 \A j \in 1..(n + 1) : j > i => pairs[j].key # pairs[i].key
          PROVE  a[pairs[i].key] = pairs[i].value
      <4>1. CASE i = n + 1
        BY <4>1, <2>5 DEF p
      <4>2. CASE i \in 1..n
        <5>1. pairs[i].key # p.key
          BY <4>2, <3>1, <2>1 DEF p
        <5>2. pairs[i].key \in DOMAIN m
          BY <4>2, <2>3
        <5>3. m[pairs[i].key] = pairs[i].value
          BY <4>2, <3>1, <2>1, <2>3
        <5> QED
          BY <5>1, <5>2, <5>3, <2>5
      <4> QED
        BY <4>1, <4>2, <2>1
    <3> QED
      BY <3>1
  <2>8. Old(n + 1, a)
    <3>1. ASSUME NEW key \in DOMAIN map, key \notin Keys(n + 1)
          PROVE  a[key] = map[key]
      <4>1. key # p.key /\ key \notin Keys(n)
        BY <3>1, <2>4
      <4>2. m[key] = map[key] /\ key \in DOMAIN m
        BY <4>1, <2>3
      <4> QED
        BY <4>1, <4>2, <2>5
    <3> QED
      BY <3>1
  <2>9. Good(n + 1, M[n + 1])
    BY <2>2, <2>6, <2>7, <2>8 DEF a
  <2> HIDE DEF Good
  <2> QED
    BY <2>1, <2>9 DEF T
<1>5. N \in T
  <2>1. T \in SUBSET (0..N)
    OBVIOUS
  <2> HIDE DEF T
  <2>2. T = 0..N
    BY <1>1, <1>3, <1>4, <2>1, BoundedInduction
  <2> QED
    BY <1>1, <2>2
<1>6. AddConfigurations(map, pairs) = M[N]
  BY DEF AddConfigurations, M, N
<1>7. Good(N, M[N])
  BY <1>5
<1> QED
  BY <1>1, <1>6, <1>7

(* Everything said so far, and one more list.                              *)
LEMMA OneMoreList ==
    ASSUME NEW S, NEW lists \in Seq(S), NEW pairs \in S, IsList(pairs), NEW map,
           LastWins(lists, map)
    PROVE  LastWins(Append(lists, pairs), AddConfigurations(map, pairs))
<1> DEFINE more == Append(lists, pairs)
           n == Len(lists) + 1
           after == AddConfigurations(map, pairs)
           KeysOf(s) == {s[i].key : i \in DOMAIN s}
<1>1. /\ DOMAIN more = 1..n /\ more[n] = pairs /\ n \in Nat \ {0}
      /\ DOMAIN lists = 1..(n - 1)
      /\ \A k \in 1..(n - 1) : more[k] = lists[k]
  BY AppendProperties, LenProperties
<1>2. /\ DOMAIN after = DOMAIN map \cup KeysOf(pairs)
      /\ \A i \in DOMAIN pairs :
           (\A j \in DOMAIN pairs : j > i => pairs[j].key # pairs[i].key)
           => after[pairs[i].key] = pairs[i].value
      /\ \A key \in DOMAIN map :
           (\A i \in DOMAIN pairs : pairs[i].key # key) => after[key] = map[key]
  BY ListApplied
<1> HIDE DEF more, n, after
<1>3. DOMAIN after = UNION {KeysOf(more[k]) : k \in DOMAIN more}
  <2>1. DOMAIN map = UNION {KeysOf(lists[k]) : k \in DOMAIN lists}
    BY DEF LastWins
  <2> HIDE DEF KeysOf
  <2>2. UNION {KeysOf(more[k]) : k \in 1..n} =
          (UNION {KeysOf(lists[k]) : k \in 1..(n - 1)}) \cup KeysOf(pairs)
    <3>1. 1..n = 1..(n - 1) \cup {n}
      BY <1>1
    <3> QED
      BY <1>1, <3>1
  <2> QED
    BY <1>1, <1>2, <2>1, <2>2
<1>4. ASSUME NEW k \in DOMAIN more, NEW i \in DOMAIN more[k],
             \A l \in DOMAIN more : \A j \in DOMAIN more[l] :
               l > k \/ (l = k /\ j > i) => more[l][j].key # more[k][i].key
      PROVE  after[more[k][i].key] = more[k][i].value
  <2>1. CASE k = n
    BY <1>1, <1>2, <1>4, <2>1
  <2>2. CASE k # n
    <3>1. k \in 1..(n - 1) /\ n > k /\ n \in DOMAIN more
      BY <1>1, <2>2
    <3>2. more[k] = lists[k] /\ i \in DOMAIN lists[k] /\ k \in DOMAIN lists
      BY <1>1, <1>4, <3>1
    <3>3. \A j \in DOMAIN pairs : pairs[j].key # lists[k][i].key
      BY <1>1, <1>4, <3>1, <3>2
    <3>4. map[lists[k][i].key] = lists[k][i].value
      <4>1. \A l \in DOMAIN lists : \A j \in DOMAIN lists[l] :
              l > k \/ (l = k /\ j > i) => lists[l][j].key # lists[k][i].key
        <5>1. \A l \in DOMAIN lists : l \in DOMAIN more /\ more[l] = lists[l]
          BY <1>1
        <5> QED
          BY <5>1, <1>4, <3>2
      <4> QED
        BY <3>2, <4>1 DEF LastWins
    <3>5. lists[k][i].key \in DOMAIN map
      BY <3>2 DEF LastWins
    <3> QED
      BY <1>2, <3>2, <3>3, <3>4, <3>5
  <2> QED
    BY <2>1, <2>2
<1> QED
  BY <1>3, <1>4 DEF LastWins, more, after

-----------------------------------------------------------------------------
(* What has the indices of a list is one.                                  *)
LEMMA ListsByDomain ==
    ASSUME NEW n \in Nat, NEW s, s = [i \in 1..n |-> s[i]]
    PROVE  IsList(s) /\ Len(s) = n
<1> DEFINE S == {s[i] : i \in 1..n}
<1>1. s \in [1..n -> S]
  OBVIOUS
<1> HIDE DEF S
<1>2. s \in Seq(S)
  BY <1>1, SeqDef
<1>3. Len(s) \in Nat /\ DOMAIN s = 1..Len(s) /\ DOMAIN s = 1..n
  BY <1>1, <1>2, LenProperties
<1>4. Len(s) = n
  BY <1>1, <1>2, <1>3
<1> QED
  BY <1>3, <1>4 DEF IsList

(* The pairs of a file, and those of the command line, are lists.          *)
LEMMA PairsAreLists ==
    /\ \A text \in Texts : \A config \in ConfigFiles(text) : IsList(config.ruleConfigurations)
    /\ cmd \in CommandLines => IsList(Arguments)
<1>1. ASSUME NEW text \in Texts, NEW config \in ConfigFiles(text)
      PROVE  IsList(config.ruleConfigurations)
  <2> DEFINE pairs == Field(text, "rule-configurations", <<>>)
             s == config.ruleConfigurations
  <2>1. Len(pairs) \in Nat /\ DOMAIN pairs = 1..Len(pairs)
    BY TextsAssumption DEF IsList
  <2>2. PICK lost : config = ConfigFile(text, lost)
    BY DEF ConfigFiles
  <2>3. s = [i \in DOMAIN pairs |->
               [key |-> IF <<"key", pairs[i].key>> \in lost THEN Garbage ELSE pairs[i].key,
                value |-> IF <<"value", pairs[i].value>> \in lost THEN Garbage
                          ELSE pairs[i].value]]
    BY <2>2 DEF ConfigFile
  <2> HIDE DEF pairs, s
  <2>4. s = [i \in 1..Len(pairs) |-> s[i]]
    BY <2>1, <2>3
  <2>5. IsList(s)
    BY <2>1, <2>4, ListsByDomain
  <2> QED
    BY <2>5 DEF s
<1>2. ASSUME cmd \in CommandLines PROVE IsList(Arguments)
  <2> DEFINE n == Len(cmd.ruleConfigurations)
  <2>1. n \in Nat /\ DOMAIN cmd.ruleConfigurations = 1..n
    BY <1>2, ConfigurationAssumption DEF IsList
  <2>2. Arguments = [i \in 1..n |-> Arguments[i]]
    BY <2>1 DEF Arguments
  <2> QED
    BY <2>1, <2>2, ListsByDomain
<1> QED
  BY <1>1, <1>2

(* The lists given so far, file by file and then the command line.         *)
Lists == {config.ruleConfigurations : config \in Objects} \cup {Arguments}

FileLists == [k \in DOMAIN read |-> read[k].ruleConfigurations]

LEMMA GivenIs ==
    ASSUME TypeOK
    PROVE  /\ FileLists \in Seq(Lists)
           /\ pc = "files" => Given = FileLists
           /\ pc # "files" => Given = Append(FileLists, Arguments)
<1>1. read \in Seq(Objects)
  BY DEF TypeOK
<1>2. Len(read) \in Nat /\ DOMAIN read = 1..Len(read) /\ \A k \in 1..Len(read) : read[k] \in Objects
  BY <1>1, LenProperties, ElementOfSeq
<1>3. FileLists \in [1..Len(read) -> Lists]
  BY <1>2 DEF FileLists, Lists
<1>4. FileLists \in Seq(Lists)
  BY <1>2, <1>3, SeqDef
<1>5. Arguments \in Lists
  BY DEF Lists
<1>6. FileLists \o <<>> = FileLists /\ FileLists \o <<Arguments>> = Append(FileLists, Arguments)
  BY <1>4, <1>5, ConcatEmptySeq, AppendIsConcat
<1> QED
  BY <1>4, <1>6 DEF Given, FileLists

LEMMA LastConfigurationInitially == Init => LastConfigurationWins
<1> SUFFICES ASSUME Init PROVE LastConfigurationWins
  OBVIOUS
<1>1. read = <<>> /\ pc = "files" /\ configurations = <<>>
  BY DEF Init, ConfigInit
<1>2. [k \in DOMAIN read |-> read[k].ruleConfigurations] = <<>>
  BY <1>1
<1>3. Given = <<>>
  BY <1>1, <1>2 DEF Given
<1>4. DOMAIN Given = {} /\ DOMAIN configurations = {}
  BY <1>1, <1>3
<1> QED
  BY <1>4 DEF LastConfigurationWins, LastWins

LEMMA LastConfigurationStep ==
    Typed /\ LastConfigurationWins /\ [Next]_vars => LastConfigurationWins'
<1> SUFFICES ASSUME Typed, LastConfigurationWins, [Next]_vars PROVE LastConfigurationWins'
  OBVIOUS
<1>1. TypeOK /\ TypeOK'
  BY TypedStep DEF Typed
<1>2. /\ FileLists \in Seq(Lists)
      /\ pc = "files" => Given = FileLists
      /\ pc # "files" => Given = Append(FileLists, Arguments)
  BY <1>1, GivenIs
<1>3. LastWins(Given, configurations)
  BY DEF LastConfigurationWins
<1>4. CASE ProcessConfigFile /\ UNCHANGED <<loading, status>>
  <2>1. PICK config \in ConfigFiles(written[ConfigFilePaths[next]]) :
          /\ read' = Append(read, config)
          /\ configurations' = AddConfigurations(configurations, config.ruleConfigurations)
    BY <1>4 DEF ProcessConfigFile
  <2>2. pc = "files" /\ pc' = "files" /\ next \in 1..Len(ConfigFilePaths)
    BY <1>1, <1>4 DEF ProcessConfigFile, TypeOK
  <2> DEFINE pairs == config.ruleConfigurations
  <2>3. written[ConfigFilePaths[next]] \in Texts
    <3>1. ConfigFilePaths \in Seq(Directories)
      BY <1>1, PathsAreDirectories DEF TypeOK
    <3> QED
      BY <1>1, <2>2, <3>1 DEF TypeOK
  <2>4. IsList(pairs) /\ config \in Objects
    BY <2>3, PairsAreLists DEF Objects
  <2>5. pairs \in Lists
    BY <2>4 DEF Lists
  <2>6. FileLists' = Append(FileLists, pairs)
    <3> DEFINE n == Len(read)
    <3>1. n \in Nat /\ DOMAIN read = 1..n /\ read \in Seq(Objects)
      BY <1>1, LenProperties DEF TypeOK
    <3>2. /\ DOMAIN read' = 1..(n + 1)
          /\ \A k \in 1..n : read'[k] = read[k]
          /\ read'[n + 1] = config
      <4>1. read' \in Seq(Objects) /\ Len(read') = n + 1
        BY <2>1, <2>4, <3>1, AppendProperties
      <4> QED
        BY <2>1, <2>4, <3>1, <4>1, AppendProperties, LenProperties
    <3>3. DOMAIN FileLists = 1..n /\ Len(FileLists) = n
      BY <1>2, <3>1, LenProperties DEF FileLists
    <3>4. /\ Append(FileLists, pairs) = [k \in 1..(n + 1) |-> Append(FileLists, pairs)[k]]
          /\ \A k \in 1..n : Append(FileLists, pairs)[k] = FileLists[k]
          /\ Append(FileLists, pairs)[n + 1] = pairs
      <4>1. Append(FileLists, pairs) \in Seq(Lists) /\ Len(Append(FileLists, pairs)) = n + 1
        BY <1>2, <2>5, <3>3, AppendProperties
      <4>2. Append(FileLists, pairs) \in [1..(n + 1) -> Lists]
        BY <4>1, LenProperties
      <4> QED
        BY <1>2, <2>5, <3>3, <4>2, AppendProperties
    <3>5. \A k \in 1..n : FileLists[k] = read[k].ruleConfigurations
      BY <3>1 DEF FileLists
    <3>6. FileLists' = [k \in 1..(n + 1) |-> read'[k].ruleConfigurations]
      BY <3>2 DEF FileLists
    <3>7. \A k \in 1..(n + 1) : read'[k].ruleConfigurations = Append(FileLists, pairs)[k]
      BY <3>1, <3>2, <3>4, <3>5
    <3> HIDE DEF n, pairs
    <3> QED
      BY <3>4, <3>6, <3>7
  <2>7. Given' = FileLists'
    <3>1. FileLists' \in Seq(Lists)
      BY <1>2, <2>5, <2>6, AppendProperties
    <3>2. FileLists' \o <<>> = FileLists'
      BY <3>1, ConcatEmptySeq
    <3> QED
      BY <2>2, <3>2 DEF Given, FileLists
  <2> QED
    BY <1>2, <1>3, <2>1, <2>2, <2>4, <2>5, <2>6, <2>7, OneMoreList DEF LastConfigurationWins
<1>5. CASE ProcessArguments /\ UNCHANGED <<loading, status>>
  <2>1. /\ pc = "files" /\ pc' # "files" /\ read' = read /\ cmd' = cmd
        /\ configurations' = AddConfigurations(configurations, Arguments)
    BY <1>5 DEF ProcessArguments, inputs
  <2>2. IsList(Arguments) /\ Arguments \in Lists
    BY <1>1, PairsAreLists DEF TypeOK, Lists
  <2>3. Given' = Append(FileLists, Arguments)
    <3>1. Arguments' = Arguments
      BY <2>1 DEF Arguments
    <3>2. FileLists \o <<Arguments>> = Append(FileLists, Arguments)
      BY <1>2, <2>2, AppendIsConcat
    <3> QED
      BY <2>1, <3>1, <3>2 DEF Given, FileLists
  <2> QED
    BY <1>2, <1>3, <2>1, <2>2, <2>3, OneMoreList DEF LastConfigurationWins
<1>6. CASE UNCHANGED configVars /\ (pc = "files" <=> pc' = "files")
  <2>1. Given' = Given /\ configurations' = configurations
    BY <1>6 DEF configVars, inputs, settings, Given, Arguments
  <2> QED
    BY <2>1, <1>3 DEF LastConfigurationWins
<1> QED
  BY <1>4, <1>5, <1>6, ConfigSteps

(***************************************************************************)
(* Whatever the configuration files say and whatever became of their       *)
(* strings, a rule that asks RuleConfiguration for a key reads what was    *)
(* given last for it: the command line before the nearest file, and in one *)
(* list the later pair.                                                    *)
(***************************************************************************)
THEOREM LastConfigurationIsRead == Spec => []LastConfigurationWins
BY TypedInitially, TypedStep, LastConfigurationInitially, LastConfigurationStep, PTL DEF Spec
=============================================================================
