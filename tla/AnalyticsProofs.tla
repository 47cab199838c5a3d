-------------------------- MODULE AnalyticsProofs ---------------------------
(***************************************************************************)
(* What a run tells about itself is true, for every set of keys, rules and *)
(* languages and however many units are analysed.                          *)
(***************************************************************************)
EXTENDS Analytics, SequenceTheorems, FiniteSetTheorems, TLAPS

(* How many members of a sequence of language flags speak a language.      *)
Speakers(s, l) == {i \in DOMAIN s : l \in Spoken(s[i])}

LEMMA SpeakersAreFinite ==
    ASSUME NEW s \in Seq(LangOptions), NEW l \in Languages
    PROVE  IsFiniteSet(Speakers(s, l)) /\ Cardinality(Speakers(s, l)) \in Nat
<1>1. Len(s) \in Nat /\ DOMAIN s = 1..Len(s)
  BY LenProperties
<1>2. IsFiniteSet(1..Len(s))
  BY <1>1, FS_Interval
<1>3. Speakers(s, l) \subseteq 1..Len(s)
  BY <1>1 DEF Speakers
<1>4. IsFiniteSet(Speakers(s, l))
  BY <1>2, <1>3, FS_Subset
<1>5. QED
  BY <1>4, FS_CardinalityType

(* One more unit counts once, and only for the languages it speaks.        *)
LEMMA OneMoreUnit ==
    ASSUME NEW s \in Seq(LangOptions), NEW l \in Languages, NEW flags \in LangOptions
    PROVE  Cardinality(Speakers(Append(s, flags), l)) =
               Cardinality(Speakers(s, l)) + (IF l \in Spoken(flags) THEN 1 ELSE 0)
<1> DEFINE a == Append(s, flags)
           n == Len(s)
<1>1. n \in Nat /\ DOMAIN s = 1..n
  BY LenProperties
<1>2. /\ DOMAIN a = 1..n + 1
      /\ \A i \in 1..n : a[i] = s[i]
      /\ a[n + 1] = flags
  <2>1. a \in Seq(LangOptions) /\ Len(a) = n + 1
        /\ (\A i \in 1..n : a[i] = s[i]) /\ a[n + 1] = flags
    BY AppendProperties
  <2>2. QED
    BY <2>1, LenProperties
<1> HIDE DEF a
<1>3. CASE l \in Spoken(flags)
  <2>1. Speakers(a, l) = Speakers(s, l) \cup {n + 1} /\ n + 1 \notin Speakers(s, l)
    BY <1>1, <1>2, <1>3 DEF Speakers
  <2>2. Cardinality(Speakers(a, l)) = Cardinality(Speakers(s, l)) + 1
    BY <2>1, SpeakersAreFinite, FS_AddElement
  <2>3. QED
    BY <1>3, <2>2 DEF a
<1>4. CASE l \notin Spoken(flags)
  <2>1. Speakers(a, l) = Speakers(s, l)
    BY <1>1, <1>2, <1>4 DEF Speakers
  <2>2. QED
    BY <1>4, <2>1, SpeakersAreFinite DEF a
<1>5. QED
  BY <1>3, <1>4

(* The maps of Analytics and of RuleConfiguration are maps.                *)
LEMMA MapTypes ==
    ASSUME NEW K \in SUBSET Keys, NEW map \in [K -> Values],
           NEW key \in Keys, NEW value \in Values
    PROVE  /\ Put(map, key, value) \in [K \cup {key} -> Values]
           /\ Put(map, key, value) # NoMap
<1>1. Put(map, key, value) \in [K \cup {key} -> Values]
  BY DEF Put
<1>2. [K \cup {key} -> Values] \subseteq UNION {[L -> Values] : L \in SUBSET Keys}
  OBVIOUS
<1>3. QED
  BY <1>1, <1>2, AnalyticsAssumption

LEMMA CountedTypes ==
    ASSUME NEW counter \in Counters, NEW flags
    PROVE  Counted(counter, flags) \in Counters /\ Counted(counter, flags) # NoMap
<1>1. Counted(counter, flags) \in Counters
  BY DEF Counted, Counters
<1>2. QED
  BY <1>1, NoCounterAssumption

-----------------------------------------------------------------------------
(* What the maps keep true while the program runs.                         *)
SameConfigurations == Countly => Map(ruleConfigurations) = configurations

CountsUnits ==
    Countly =>
        IF languageCounter = NoMap THEN analyzed = <<>>
        ELSE \A l \in Languages : languageCounter[l] = Units(l)

(* Nothing is told before the exit, and all of it there.                   *)
ToldAtExit ==
    /\ pc = "exited" <=> exit # NoExit
    /\ recorded = IF exit = NoExit \/ options.disableAnalytics \/ ~Countly
                  THEN <<>> ELSE Events(exit)

IInv ==
    /\ TypeOK
    /\ SameConfigurations
    /\ CountsUnits
    /\ ToldAtExit

LEMMA InitInv == Init => IInv
<1> SUFFICES ASSUME Init PROVE IInv
  OBVIOUS
<1>1. configurations \in [{} -> Values] /\ {} \in SUBSET Keys
  BY DEF Init
<1>2. rules \in Seq(Identifiers) /\ analyzed \in Seq(LangOptions)
  BY EmptySeq DEF Init
<1>3. TypeOK
  BY <1>1, <1>2 DEF Init, TypeOK
<1>4. SameConfigurations /\ CountsUnits
  BY DEF Init, SameConfigurations, CountsUnits, Map
<1>5. ToldAtExit
  BY DEF Init, ToldAtExit
<1>6. QED
  BY <1>3, <1>4, <1>5 DEF IInv

(* The steps of the program that end nothing and tell nothing.             *)
LEMMA ConsumeStep ==
    ASSUME IInv, NEW key \in Keys, NEW value \in Values,
           ConsumeRuleConfiguration(key, value)
    PROVE  IInv'
<1>1. PICK K \in SUBSET Keys : configurations \in [K -> Values]
  BY DEF IInv, TypeOK
<1>2. /\ configurations' = Put(configurations, key, value)
      /\ configurations' \in [K \cup {key} -> Values]
      /\ configurations' # NoMap
  BY <1>1, MapTypes DEF ConsumeRuleConfiguration
<1>3. TypeOK'
  <2>1. K \cup {key} \in SUBSET Keys
    OBVIOUS
  <2>2. \E L \in SUBSET Keys : configurations' \in [L -> Values]
    BY <1>2, <2>1
  <2>3. QED
    BY <2>2 DEF IInv, TypeOK, Registered, ConsumeRuleConfiguration, given, loaded, told
<1>4. SameConfigurations'
  <2>1. CASE Countly
    <3>1. Map(ruleConfigurations) = configurations
      BY <2>1 DEF IInv, SameConfigurations
    <3>2. ruleConfigurations' = Put(Map(ruleConfigurations), key, value)
      BY <2>1 DEF ConsumeRuleConfiguration, RuleConfiguration
    <3>3. ruleConfigurations' = configurations'
      BY <1>2, <3>1, <3>2
    <3>4. QED
      BY <1>2, <3>3 DEF SameConfigurations, Map
  <2>2. QED
    BY <2>1 DEF SameConfigurations
<1>5. CountsUnits' /\ ToldAtExit'
  <2>1. pc = "options" /\ exit = NoExit /\ recorded = <<>>
    BY DEF IInv, ToldAtExit, ConsumeRuleConfiguration
  <2>2. QED
    BY <2>1 DEF IInv, CountsUnits, Units, ToldAtExit, ConsumeRuleConfiguration, given, loaded, told
<1>6. QED
  BY <1>3, <1>4, <1>5 DEF IInv

LEMMA LoadRuleStep ==
    ASSUME IInv, NEW identifier \in Identifiers, LoadRule(identifier)
    PROVE  IInv'
<1>1. rules \in Seq(Identifiers) /\ rules' = Append(rules, identifier)
  BY DEF IInv, TypeOK, LoadRule
<1>2. rules' \in Seq(Identifiers) /\ Registered' = Registered \cup {identifier}
  <2>1. /\ rules' \in Seq(Identifiers)
        /\ Len(rules') = Len(rules) + 1
        /\ \A i \in 1..Len(rules) : rules'[i] = rules[i]
        /\ rules'[Len(rules) + 1] = identifier
    BY <1>1, AppendProperties
  <2>2. Len(rules) \in Nat /\ DOMAIN rules = 1..Len(rules) /\ DOMAIN rules' = 1..Len(rules')
    BY <1>1, <2>1, LenProperties
  <2>3. QED
    BY <2>1, <2>2 DEF Registered
<1>3. TypeOK'
  BY <1>2 DEF IInv, TypeOK, LoadRule, given, kept, told
<1>4. pc = "options" /\ exit = NoExit /\ recorded = <<>>
  BY DEF IInv, ToldAtExit, LoadRule
<1>5. SameConfigurations' /\ CountsUnits' /\ ToldAtExit'
  BY <1>4 DEF IInv, SameConfigurations, Map, CountsUnits, Units, ToldAtExit, LoadRule, given, kept, told
<1>6. QED
  BY <1>3, <1>5 DEF IInv

LEMMA AnalyzeStep ==
    ASSUME IInv, NEW flags \in LangOptions, Analyze(flags)
    PROVE  IInv'
<1> DEFINE counter == IF languageCounter = NoMap THEN NoUnits ELSE languageCounter
<1>1. /\ analyzed \in Seq(LangOptions)
      /\ analyzed' = Append(analyzed, flags)
      /\ languageCounter \in Counters \cup {NoMap}
      /\ analyzed' \in Seq(LangOptions)
  BY DEF IInv, TypeOK, Analyze
<1>2. counter \in Counters
  BY <1>1 DEF NoUnits, Counters
<1>3. Countly => languageCounter' = Counted(counter, flags)
  BY DEF Analyze, LanguageOption
<1>4. ~Countly => languageCounter' = languageCounter
  BY DEF Analyze, LanguageOption
<1> HIDE DEF counter
<1>5. TypeOK'
  <2>1. languageCounter' \in Counters \cup {NoMap}
    BY <1>1, <1>2, <1>3, <1>4, CountedTypes
  <2>2. QED
    BY <1>1, <2>1 DEF IInv, TypeOK, Registered, Analyze, given, loaded, kept, told
<1>6. SameConfigurations' /\ ToldAtExit'
  <2>1. pc = "driver" /\ exit = NoExit /\ recorded = <<>>
    BY DEF IInv, ToldAtExit, Analyze
  <2>2. QED
    BY <2>1 DEF IInv, SameConfigurations, Map, ToldAtExit, Analyze, given, kept, told
<1>7. CountsUnits'
  <2>1. SUFFICES ASSUME Countly PROVE CountsUnits'
    BY DEF CountsUnits
  <2>2. languageCounter' = Counted(counter, flags) /\ languageCounter' # NoMap
    BY <1>2, <1>3, <2>1, CountedTypes
  <2>3. \A l \in Languages : counter[l] = Units(l)
    <3>1. CASE languageCounter = NoMap
      <4>1. analyzed = <<>>
        BY <2>1, <3>1 DEF IInv, CountsUnits
      <4>2. \A l \in Languages : Units(l) = 0
        BY <4>1, FS_EmptySet DEF Units
      <4>3. QED
        BY <3>1, <4>2 DEF counter, NoUnits
    <3>2. CASE languageCounter # NoMap
      BY <2>1, <3>2 DEF IInv, CountsUnits, counter
    <3>3. QED
      BY <3>1, <3>2
  <2>4. ASSUME NEW l \in Languages
        PROVE  languageCounter'[l] = Units(l)'
    <3>1. Units(l) = Cardinality(Speakers(analyzed, l))
      BY DEF Units, Speakers
    <3>2. Units(l)' = Cardinality(Speakers(analyzed', l))
      BY DEF Units, Speakers
    <3>3. Units(l)' = Units(l) + (IF l \in Spoken(flags) THEN 1 ELSE 0)
      BY <1>1, <3>1, <3>2, OneMoreUnit
    <3>4. languageCounter'[l] = counter[l] + (IF l \in Spoken(flags) THEN 1 ELSE 0)
      BY <2>2 DEF Counted
    <3>5. QED
      BY <2>3, <3>3, <3>4
  <2>5. QED
    BY <2>2, <2>4 DEF CountsUnits
<1>8. QED
  BY <1>5, <1>6, <1>7 DEF IInv

LEMMA PlainStep == IInv /\ (Prepare \/ DriverReturns \/ UNCHANGED vars) => IInv'
<1> SUFFICES ASSUME IInv, Prepare \/ DriverReturns \/ UNCHANGED vars PROVE IInv'
  OBVIOUS
<1>1. UNCHANGED <<rules, filtered, options, workingPath, configurations,
                  ruleConfigurations, languageCounter, analyzed, recorded, exit>>
  BY DEF Prepare, DriverReturns, vars, given, loaded, kept, told
<1>2. TypeOK'
  BY <1>1 DEF IInv, TypeOK, Registered, Prepare, DriverReturns, vars, given, loaded, kept, told
<1>3. SameConfigurations' /\ CountsUnits'
  BY <1>1 DEF IInv, SameConfigurations, Map, CountsUnits, Units
<1>4. Events(exit)' = Events(exit)
  BY <1>1 DEF Events, LanguageCount, LoadedRules, Registered, RuleConfigurations, Map,
     Environment, HashedWorkingPath, Configuration, ExitStatus, Event, NoEvent
<1>5. pc' = "exited" <=> pc = "exited"
  BY DEF Prepare, DriverReturns, vars
<1>6. ToldAtExit'
  BY <1>1, <1>4, <1>5 DEF IInv, ToldAtExit
<1>7. QED
  BY <1>2, <1>3, <1>6 DEF IInv

(* Wherever main leaves through sendAnalyticsAndExit.                      *)
LEMMA ExitStep ==
    ASSUME IInv, NEW code \in ExitCodes, SendAnalyticsAndExit(code), pc # "exited",
           UNCHANGED <<given, loaded, kept, languageCounter, listed, analyzed>>
    PROVE  IInv'
<1>1. exit = NoExit /\ recorded = <<>> /\ exit' = code /\ code # NoExit /\ pc' = "exited"
  BY NoExitAssumption DEF IInv, ToldAtExit, SendAnalyticsAndExit
<1>2. UNCHANGED <<rules, filtered, options, workingPath, configurations,
                  ruleConfigurations, languageCounter, listed, analyzed>>
  BY DEF given, loaded, kept
<1>3. TypeOK'
  BY <1>1, <1>2 DEF IInv, TypeOK, Registered
<1>4. SameConfigurations' /\ CountsUnits'
  BY <1>2 DEF IInv, SameConfigurations, Map, CountsUnits, Units
<1>5. ToldAtExit'
  <2>1. Events(exit)' = Events(code)
    BY <1>1, <1>2 DEF Events, LanguageCount, LoadedRules, Registered, RuleConfigurations, Map,
       Environment, HashedWorkingPath, Configuration, ExitStatus, Event, NoEvent,
       ReachesLanguages, ReachesRules
  <2>2. recorded' = IF options.disableAnalytics \/ ~Countly THEN <<>> ELSE <<>> \o Events(code)
    BY <1>1 DEF SendAnalyticsAndExit, Send
  <2>3. QED
    BY <1>1, <1>2, <2>1, <2>2 DEF ToldAtExit
<1>6. QED
  BY <1>3, <1>4, <1>5 DEF IInv

LEMMA NextInv == IInv /\ [Next]_vars => IInv'
<1> SUFFICES ASSUME IInv, [Next]_vars PROVE IInv'
  OBVIOUS
<1>1. ASSUME NEW key \in Keys, NEW value \in Values, ConsumeRuleConfiguration(key, value)
      PROVE  IInv'
  BY <1>1, ConsumeStep
<1>2. ASSUME NEW identifier \in Identifiers, LoadRule(identifier)
      PROVE  IInv'
  BY <1>2, LoadRuleStep
<1>3. CASE PrepareFails
  BY <1>3, ExitStep DEF PrepareFails, ExitCodes
<1>4. CASE Prepare \/ DriverReturns \/ Exited \/ UNCHANGED vars
  BY <1>4, PlainStep DEF Exited
<1>5. ASSUME NEW flags \in LangOptions, Analyze(flags)
      PROVE  IInv'
  BY <1>5, AnalyzeStep
<1>6. CASE DriverThrows
  BY <1>6, ExitStep DEF DriverThrows, ExitCodes
<1>7. CASE Finish
  BY <1>7, ExitStep DEF Finish, ExitCodes
<1>8. QED
  BY <1>1, <1>2, <1>3, <1>4, <1>5, <1>6, <1>7 DEF Next

-----------------------------------------------------------------------------
(* Sequences of events, by their elements and their names.                 *)
Elements(s) == {s[i] : i \in DOMAIN s}
Distinct(s) == \A i, j \in DOMAIN s : s[i].event = s[j].event => i = j
Apart(s, t) == \A d \in Elements(s), e \in Elements(t) : d.event # e.event

LEMMA ConcatEvents ==
    ASSUME NEW E, NEW s \in Seq(E), NEW t \in Seq(E)
    PROVE  /\ s \o t \in Seq(E)
           /\ Elements(s \o t) = Elements(s) \cup Elements(t)
           /\ Distinct(s) /\ Distinct(t) /\ Apart(s, t) => Distinct(s \o t)
<1> DEFINE m == Len(s)
           n == Len(t)
           c == s \o t
<1>1. m \in Nat /\ n \in Nat /\ DOMAIN s = 1..m /\ DOMAIN t = 1..n
  BY LenProperties
<1>2. /\ c \in Seq(E)
      /\ DOMAIN c = 1..m + n
      /\ \A i \in 1..m + n : c[i] = IF i <= m THEN s[i] ELSE t[i - m]
  <2>1. c \in Seq(E) /\ Len(c) = m + n
        /\ \A i \in 1..m + n : c[i] = IF i <= m THEN s[i] ELSE t[i - m]
    BY ConcatProperties
  <2>2. QED
    BY <2>1, LenProperties
<1> HIDE DEF c, m, n
<1>3. Elements(c) \subseteq Elements(s) \cup Elements(t)
  <2>1. ASSUME NEW i \in 1..m + n PROVE c[i] \in Elements(s) \cup Elements(t)
    <3>1. CASE i <= m
      <4>1. c[i] = s[i] /\ i \in DOMAIN s
        BY <1>1, <1>2, <3>1
      <4>2. QED
        BY <4>1 DEF Elements
    <3>2. CASE i > m
      <4>1. c[i] = t[i - m] /\ i - m \in DOMAIN t
        BY <1>1, <1>2, <3>2
      <4>2. QED
        BY <4>1 DEF Elements
    <3>3. QED
      BY <1>1, <3>1, <3>2
  <2>2. QED
    BY <1>2, <2>1 DEF Elements
<1>4. Elements(s) \subseteq Elements(c)
  <2>1. \A i \in DOMAIN s : i \in DOMAIN c /\ s[i] = c[i]
    BY <1>1, <1>2
  <2>2. QED
    BY <2>1 DEF Elements
<1>5. Elements(t) \subseteq Elements(c)
  <2>1. \A i \in DOMAIN t : i + m \in DOMAIN c /\ t[i] = c[i + m]
    BY <1>1, <1>2
  <2>2. QED
    BY <2>1 DEF Elements
<1>6. ASSUME Distinct(s), Distinct(t), Apart(s, t)
      PROVE  Distinct(c)
  <2>1. ASSUME NEW i \in DOMAIN c, NEW j \in DOMAIN c, c[i].event = c[j].event
        PROVE  i = j
    <3>1. CASE i <= m /\ j <= m
      <4>1. i \in DOMAIN s /\ j \in DOMAIN s /\ c[i] = s[i] /\ c[j] = s[j]
        BY <1>1, <1>2, <3>1
      <4>2. QED
        BY <1>6, <2>1, <4>1 DEF Distinct
    <3>2. CASE i > m /\ j > m
      <4>1. i - m \in DOMAIN t /\ j - m \in DOMAIN t /\ c[i] = t[i - m] /\ c[j] = t[j - m]
        BY <1>1, <1>2, <3>2
      <4>2. i - m = j - m
        BY <1>6, <2>1, <4>1 DEF Distinct
      <4>3. QED
        BY <1>1, <1>2, <4>2
    <3>3. CASE i <= m /\ j > m
      <4>1. i \in DOMAIN s /\ j - m \in DOMAIN t /\ c[i] = s[i] /\ c[j] = t[j - m]
        BY <1>1, <1>2, <3>3
      <4>2. QED
        BY <1>6, <2>1, <4>1 DEF Apart, Elements
    <3>4. CASE i > m /\ j <= m
      <4>1. j \in DOMAIN s /\ i - m \in DOMAIN t /\ c[j] = s[j] /\ c[i] = t[i - m]
        BY <1>1, <1>2, <3>4
      <4>2. QED
        BY <1>6, <2>1, <4>1 DEF Apart, Elements
    <3>5. QED
      BY <1>1, <1>2, <3>1, <3>2, <3>3, <3>4
  <2>2. QED
    BY <2>1 DEF Distinct
<1>7. QED
  BY <1>2, <1>3, <1>4, <1>5, <1>6 DEF c

(* A group of facts is told by one event or by none.                       *)
LEMMA GroupOf ==
    ASSUME NEW E, NEW e \in E
    PROVE  /\ <<e>> \in Seq(E) /\ Elements(<<e>>) = {e} /\ Distinct(<<e>>)
           /\ <<>> \in Seq(E) /\ Elements(<<>>) = {} /\ Distinct(<<>>)
<1>1. DOMAIN <<e>> = {1} /\ <<e>>[1] = e
  OBVIOUS
<1>2. QED
  BY <1>1, EmptySeq DEF Elements, Distinct

(* The groups that send records with an exit code.                         *)
LanguageGroup(code) == IF ReachesLanguages(code) THEN LanguageCount ELSE NoEvent
RuleGroup(code) == IF ReachesRules(code) THEN LoadedRules ELSE NoEvent

SpokenLanguages == {l \in Languages : languageCounter # NoMap /\ languageCounter[l] > 0}
TheLanguages == [event |-> "LanguageCount", segments |-> [l \in SpokenLanguages |-> languageCounter[l]]]
TheRules == [event |-> "LoadedRules", segments |-> [r \in Registered |-> r \in filtered]]
TheConfigurations == [event |-> "RuleConfigurations", segments |-> ruleConfigurations]
TheEnvironment == [event |-> "Environment", segments |-> [project_id |-> HashedWorkingPath]]
TheConfiguration == [event |-> "Configuration", segments |-> <<>>]
TheStatus(code) == [event |-> "ExitStatus", segments |-> [exit_code |-> code]]

LEMMA EventsAre ==
    ASSUME NEW code
    PROVE  /\ Distinct(Events(code))
           /\ \A e \in Elements(Events(code)) :
                \/ e = TheLanguages /\ ReachesLanguages(code) /\ SpokenLanguages # {}
                \/ e = TheRules /\ ReachesRules(code)
                \/ e = TheConfigurations /\ ruleConfigurations # NoMap
                \/ e = TheEnvironment
                \/ e = TheConfiguration
                \/ e = TheStatus(code)
           /\ Events(code)[Len(Events(code))] = TheStatus(code)
<1> DEFINE E == {TheLanguages, TheRules, TheConfigurations, TheEnvironment, TheConfiguration, TheStatus(code)}
           g1 == LanguageGroup(code)
           g2 == RuleGroup(code)
           g3 == RuleConfigurations
           s2 == g1 \o g2
           s3 == s2 \o g3
           s4 == s3 \o Environment
           s5 == s4 \o Configuration
<1>1. Events(code) = s5 \o ExitStatus(code)
  BY DEF Events, LanguageGroup, RuleGroup
<1>2. /\ g1 \in Seq(E) /\ Distinct(g1)
      /\ \A e \in Elements(g1) : e = TheLanguages /\ ReachesLanguages(code) /\ SpokenLanguages # {}
  <2>1. g1 = <<>> \/ (g1 = <<TheLanguages>> /\ ReachesLanguages(code) /\ SpokenLanguages # {})
    BY DEF LanguageGroup, LanguageCount, NoEvent, Event, TheLanguages, SpokenLanguages
  <2>2. TheLanguages \in E
    OBVIOUS
  <2>3. QED
    BY <2>1, <2>2, GroupOf
<1>3. /\ g2 \in Seq(E) /\ Distinct(g2)
      /\ \A e \in Elements(g2) : e = TheRules /\ ReachesRules(code)
  <2>1. g2 = <<>> \/ (g2 = <<TheRules>> /\ ReachesRules(code))
    BY DEF RuleGroup, LoadedRules, NoEvent, Event, TheRules
  <2>2. TheRules \in E
    OBVIOUS
  <2>3. QED
    BY <2>1, <2>2, GroupOf
<1>4. /\ g3 \in Seq(E) /\ Distinct(g3)
      /\ \A e \in Elements(g3) : e = TheConfigurations /\ ruleConfigurations # NoMap
  <2>1. g3 = <<>> \/ (g3 = <<TheConfigurations>> /\ ruleConfigurations # NoMap)
    BY DEF RuleConfigurations, NoEvent, Event, TheConfigurations
  <2>2. TheConfigurations \in E
    OBVIOUS
  <2>3. QED
    BY <2>1, <2>2, GroupOf
<1>5. /\ Environment \in Seq(E) /\ Distinct(Environment) /\ Elements(Environment) = {TheEnvironment}
      /\ Configuration \in Seq(E) /\ Distinct(Configuration) /\ Elements(Configuration) = {TheConfiguration}
      /\ ExitStatus(code) \in Seq(E) /\ Distinct(ExitStatus(code)) /\ Elements(ExitStatus(code)) = {TheStatus(code)}
  <2>1. /\ Environment = <<TheEnvironment>>
        /\ Configuration = <<TheConfiguration>>
        /\ ExitStatus(code) = <<TheStatus(code)>>
    BY DEF Environment, Configuration, ExitStatus, Event, TheEnvironment, TheConfiguration, TheStatus
  <2>2. TheEnvironment \in E /\ TheConfiguration \in E /\ TheStatus(code) \in E
    OBVIOUS
  <2>3. QED
    BY <2>1, <2>2, GroupOf
<1>6. /\ TheLanguages.event = "LanguageCount" /\ TheRules.event = "LoadedRules"
      /\ TheConfigurations.event = "RuleConfigurations" /\ TheEnvironment.event = "Environment"
      /\ TheConfiguration.event = "Configuration" /\ TheStatus(code).event = "ExitStatus"
  BY DEF TheLanguages, TheRules, TheConfigurations, TheEnvironment, TheConfiguration, TheStatus
<1> HIDE DEF E, g1, g2, g3
<1>7. s2 \in Seq(E) /\ Elements(s2) = Elements(g1) \cup Elements(g2) /\ Distinct(s2)
  <2>1. Apart(g1, g2)
    BY <1>2, <1>3, <1>6 DEF Apart
  <2>2. QED
    BY <1>2, <1>3, <2>1, ConcatEvents
<1> HIDE DEF s2
<1>8. s3 \in Seq(E) /\ Elements(s3) = Elements(s2) \cup Elements(g3) /\ Distinct(s3)
  <2>1. Apart(s2, g3)
    BY <1>2, <1>3, <1>4, <1>6, <1>7 DEF Apart
  <2>2. QED
    BY <1>4, <1>7, <2>1, ConcatEvents
<1> HIDE DEF s3
<1>9. s4 \in Seq(E) /\ Elements(s4) = Elements(s3) \cup {TheEnvironment} /\ Distinct(s4)
  <2>1. Apart(s3, Environment)
    BY <1>2, <1>3, <1>4, <1>5, <1>6, <1>7, <1>8 DEF Apart
  <2>2. QED
    BY <1>5, <1>8, <2>1, ConcatEvents
<1> HIDE DEF s4
<1>10. s5 \in Seq(E) /\ Elements(s5) = Elements(s4) \cup {TheConfiguration} /\ Distinct(s5)
  <2>1. Apart(s4, Configuration)
    BY <1>2, <1>3, <1>4, <1>5, <1>6, <1>7, <1>8, <1>9 DEF Apart
  <2>2. QED
    BY <1>5, <1>9, <2>1, ConcatEvents
<1> HIDE DEF s5
<1>11. Elements(Events(code)) = Elements(s5) \cup {TheStatus(code)} /\ Distinct(Events(code))
  <2>1. Apart(s5, ExitStatus(code))
    BY <1>2, <1>3, <1>4, <1>5, <1>6, <1>7, <1>8, <1>9, <1>10 DEF Apart
  <2>2. QED
    BY <1>1, <1>5, <1>10, <2>1, ConcatEvents
<1>12. Events(code)[Len(Events(code))] = TheStatus(code)
  <2>1. ExitStatus(code) = <<TheStatus(code)>>
    BY DEF ExitStatus, Event, TheStatus
  <2>2. Len(s5) \in Nat /\ Len(ExitStatus(code)) = 1 /\ ExitStatus(code)[1] = TheStatus(code)
    BY <1>10, <2>1, LenProperties
  <2>3. /\ Len(s5 \o ExitStatus(code)) = Len(s5) + 1
        /\ (s5 \o ExitStatus(code))[Len(s5) + 1] = ExitStatus(code)[1]
    <3>1. /\ Len(s5 \o ExitStatus(code)) = Len(s5) + Len(ExitStatus(code))
          /\ \A i \in 1..Len(s5) + Len(ExitStatus(code)) :
               (s5 \o ExitStatus(code))[i] =
                   IF i <= Len(s5) THEN s5[i] ELSE ExitStatus(code)[i - Len(s5)]
      BY <1>5, <1>10, ConcatProperties
    <3>2. Len(s5) + 1 \in 1..Len(s5) + Len(ExitStatus(code)) /\ (Len(s5) + 1) - Len(s5) = 1
          /\ ~(Len(s5) + 1 <= Len(s5))
      BY <2>2
    <3>3. QED
      BY <2>2, <3>1, <3>2
  <2>4. QED
    BY <1>1, <2>2, <2>3
<1>13. QED
  BY <1>2, <1>3, <1>4, <1>7, <1>8, <1>9, <1>10, <1>11, <1>12

(* What was told, element by element.                                      *)
LEMMA RecordedAre ==
    ASSUME IInv
    PROVE  /\ recorded = <<>> \/ (recorded = Events(exit) /\ Countly /\ exit # NoExit)
           /\ \A i \in DOMAIN recorded : recorded[i] \in Elements(Events(exit)) /\ Countly
<1>1. recorded = <<>> \/ (recorded = Events(exit) /\ Countly /\ exit # NoExit)
  BY AnalyticsAssumption DEF IInv, ToldAtExit
<1>2. QED
  BY <1>1 DEF Elements

LEMMA EventNames ==
    /\ TheLanguages.event = "LanguageCount" /\ TheRules.event = "LoadedRules"
    /\ TheConfigurations.event = "RuleConfigurations" /\ TheEnvironment.event = "Environment"
    /\ TheConfiguration.event = "Configuration"
    /\ \A code : TheStatus(code).event = "ExitStatus"
  BY DEF TheLanguages, TheRules, TheConfigurations, TheEnvironment, TheConfiguration, TheStatus

LEMMA HappenedFollows == IInv => ToldIsWhatHappened
<1> SUFFICES ASSUME IInv PROVE ToldIsWhatHappened
  OBVIOUS
<1>1. \A i \in DOMAIN recorded :
        /\ Countly
        /\ recorded[i].event = "LanguageCount" => recorded[i] = TheLanguages /\ SpokenLanguages # {}
        /\ recorded[i].event = "LoadedRules" => recorded[i] = TheRules
        /\ recorded[i].event = "RuleConfigurations" =>
             recorded[i] = TheConfigurations /\ ruleConfigurations # NoMap
  BY RecordedAre, EventsAre, EventNames
<1>2. Told("LoadedRules", [r \in Registered |-> r \in filtered])
  BY <1>1 DEF Told, TheRules
<1>3. Told("RuleConfigurations", configurations)
  BY <1>1 DEF Told, TheConfigurations, IInv, SameConfigurations, Map
<1>4. ASSUME NEW i \in DOMAIN recorded, recorded[i].event = "LanguageCount"
      PROVE  recorded[i].segments = [l \in {m \in Languages : Units(m) > 0} |-> Units(l)]
  <2>1. recorded[i] = TheLanguages /\ languageCounter # NoMap
    BY <1>1, <1>4 DEF SpokenLanguages
  <2>2. \A l \in Languages : languageCounter[l] = Units(l)
    BY <1>1, <1>4, <2>1 DEF IInv, CountsUnits
  <2>3. SpokenLanguages = {m \in Languages : Units(m) > 0}
    BY <2>1, <2>2 DEF SpokenLanguages
  <2>4. \A l \in SpokenLanguages : languageCounter[l] = Units(l)
    BY <2>2 DEF SpokenLanguages
  <2>5. QED
    BY <2>1, <2>3, <2>4 DEF TheLanguages
<1>5. QED
  BY <1>2, <1>3, <1>4 DEF ToldIsWhatHappened, Told

LEMMA CompleteFollows == IInv => OnlyCompleteGroups
<1> SUFFICES ASSUME IInv PROVE OnlyCompleteGroups
  OBVIOUS
<1>1. \A i \in DOMAIN recorded :
        /\ recorded[i].event = "LanguageCount" => ReachesLanguages(exit)
        /\ recorded[i].event = "LoadedRules" => ReachesRules(exit)
  BY RecordedAre, EventsAre, EventNames
<1>2. QED
  BY <1>1 DEF OnlyCompleteGroups, Tells, ReachesLanguages, ReachesRules

LEMMA TellsOnceFollows == IInv => TellsOnceUnlessDisabled
<1> SUFFICES ASSUME IInv PROVE TellsOnceUnlessDisabled
  OBVIOUS
<1>1. CASE exit = NoExit \/ options.disableAnalytics \/ ~Countly
  BY <1>1 DEF IInv, ToldAtExit, TellsOnceUnlessDisabled
<1>2. CASE ~(exit = NoExit \/ options.disableAnalytics \/ ~Countly)
  <2>1. recorded = Events(exit)
    BY <1>2 DEF IInv, ToldAtExit
  <2>2. QED
    BY <1>2, <2>1, EventsAre DEF TellsOnceUnlessDisabled, Distinct, TheStatus
<1>3. QED
  BY <1>1, <1>2

(***************************************************************************)
(* The theorems of the run's events.                                       *)
(***************************************************************************)
LEMMA Invariant == Spec => []IInv
  BY InitInv, NextInv, PTL DEF Spec

(* main, Options and Analytics keep the types of their state.              *)
THEOREM AnalyticsTypes == Spec => []TypeOK
<1>1. IInv => TypeOK
  BY DEF IInv
<1>2. QED
  BY <1>1, Invariant, PTL

(* What send records of languages, rules and configurations is what the    *)
(* run did, although it keeps maps of its own.                             *)
THEOREM ToldTruthfully == Spec => []ToldIsWhatHappened
  BY HappenedFollows, Invariant, PTL

(* The fall-through of send tells a group only when it is complete.        *)
THEOREM ToldCompletely == Spec => []OnlyCompleteGroups
  BY CompleteFollows, Invariant, PTL

(* A run that may tell, tells once; one that may not, nothing.             *)
THEOREM ToldOnce == Spec => []TellsOnceUnlessDisabled
  BY TellsOnceFollows, Invariant, PTL
=============================================================================
