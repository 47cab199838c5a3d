---------------------------- MODULE OCLintProofs ----------------------------
(***************************************************************************)
(* The safety properties of OCLint hold for every value of the constants.  *)
(***************************************************************************)
EXTENDS OCLint, TLAPS, SequenceTheorems, FiniteSetTheorems, Induction

(* The state variables that only driver actions, or only main, change.     *)
LEMMA OptionTypes ==
    ASSUME TypeOK
    PROVE  /\ opts.global \in BOOLEAN
           /\ opts.checker \in BOOLEAN
           /\ opts.rules \in Seq(Rules)
           /\ opts.dups \in BOOLEAN
           /\ opts.sections \subseteq Views
           /\ "violations" \in opts.sections
  BY DriverAssumption, OptionsAssumption DEF TypeOK

(***************************************************************************)
(* A source path adds commands at the end: what is typed by the number of  *)
(* commands is empty then.                                                 *)
(***************************************************************************)
LEMMA ConstructTypes ==
    ASSUME TypeOK, Positions, ConstructCompileCommands, UNCHANGED mainVars
    PROVE  TypeOK'
<1>1. CASE src <= Len(SourcePaths)
  <2>1. db[SourcePaths[src]] \in Seq(Commands)
    BY <1>1, DriverAssumption DEF TypeOK
  <2>2. cmds' = cmds \o db[SourcePaths[src]] /\ src' = src + 1 /\ pc' = pc
    BY <1>1 DEF ConstructCompileCommands
  <2>3. cmds' \in Seq(Commands)
    BY <2>1, <2>2, ConcatProperties DEF TypeOK
  <2>4. src' \in 1..(Len(SourcePaths) + 1)
    BY <1>1, <2>2, LenProperties, DriverAssumption DEF TypeOK
  <2>5. /\ at' = 1 /\ unit' = 1 /\ upto' = 0
        /\ compilers' = <<>> /\ origin' = <<>>
        /\ alive' = {} /\ failed' = {}
    BY DEF ConstructCompileCommands, Positions, progress, contexts, collected
  <2>6. Len(cmds') \in Nat
    BY <2>3, LenProperties
  <2>7. /\ upto' \in 0..Len(cmds')
        /\ at' \in 1..(Len(cmds') + 1)
        /\ compilers' \in Seq(Commands1')
        /\ unit' \in 1..(Len(compilers') + 1)
        /\ alive' \subseteq Commands1'
        /\ failed' \subseteq Commands1'
        /\ origin' \in Seq(Commands1')
    BY <2>5, <2>6
  <2>8. QED
    BY <2>2, <2>3, <2>4, <2>7
    DEF TypeOK, ConstructCompileCommands, inputs, progress, frontend, ruleset,
        collected, diagnosed, mainVars
<1>2. CASE ~(src <= Len(SourcePaths))
  BY <1>2 DEF TypeOK, ConstructCompileCommands, Commands1, inputs, progress, frontend, contexts,
        ruleset, collected, diagnosed, mainVars
<1>3. QED
  BY <1>1, <1>2

(* Every initial state is well typed.                                      *)
LEMMA TypeInit == Init => TypeOK
<1> SUFFICES ASSUME Init PROVE TypeOK
  OBVIOUS
<1>1. Len(SourcePaths) \in Nat
  BY DriverAssumption, LenProperties
<1>2. /\ src \in 1..(Len(SourcePaths) + 1)
      /\ cmds = <<>> /\ Len(cmds) = 0
      /\ diags \in 0..MaxDiagnostics
      /\ calls \in 0..MaxFound
      /\ unit = 1 /\ Len(compilers) = 0
      /\ cwd \in Directories
  BY <1>1, DriverAssumption DEF Init, DriverInit
<1>3. /\ found = <<>> /\ compilers = <<>> /\ collection = <<>> /\ origin = <<>>
      /\ errors = <<>> /\ warnings = <<>> /\ bugs = <<>>
      /\ alive = {} /\ failed = {} /\ upto = 0 /\ at = 1 /\ rule = 1
      /\ opts \in Options /\ db \in Databases
      /\ pc = "prepare" /\ exit = NoExit
  BY DEF Init, DriverInit
<1>4. erred \in BOOLEAN
  BY DEF Init, DriverInit
<1>5. QED
  BY <1>2, <1>3, <1>4 DEF TypeOK, Commands1

(* Every step of Driver::run keeps the types of what it changes.           *)
LEMMA DriverTypes ==
    ASSUME TypeOK, Positions, DriverNext, UNCHANGED mainVars
    PROVE  TypeOK'
<1> USE DEF inputs, progress, frontend, contexts, ruleset, collected, diagnosed, mainVars, Commands1
<1>1. CASE ConstructCompileCommands
  BY <1>1, ConstructTypes
<1>2. CASE BeginInvoke
  BY <1>2 DEF TypeOK, BeginInvoke, LastOfInvoke
<1>3. CASE EndFirstPass
  BY <1>3 DEF TypeOK, EndFirstPass
<1>4. CASE Compile
  <2>1. cwd' \in Directories
    BY <1>4, DriverAssumption DEF TypeOK, Compile, Invocation, Entered
  <2>2. pc' \in {"start", "threw"} /\ diags' = 0 /\ erred' = FALSE
    BY <1>4 DEF Compile, Invocation
  <2>3. diags' \in 0..MaxDiagnostics
    BY <2>2, DriverAssumption
  <2>4. erred' \in BOOLEAN
    BY <2>2
  <2>5. pc' \in {"start", "threw"}
    BY <2>2
  <2>6. QED
    BY <1>4, <2>1, <2>3, <2>4, <2>5 DEF TypeOK, Compile
<1>5. CASE \E level \in Levels, v \in Diagnosed : HandleDiagnostic(level, v)
  <2>1. PICK level \in Levels, v \in Diagnosed : HandleDiagnostic(level, v)
    BY <1>5
  <2>2. errors' \in Seq(Diagnosed) /\ warnings' \in Seq(Diagnosed) /\ bugs' \in Seq(Diagnosed)
    BY <2>1 DEF TypeOK, HandleDiagnostic
  <2>3. diags' \in 0..MaxDiagnostics
    BY <2>1, DriverAssumption DEF TypeOK, HandleDiagnostic
  <2>4. QED
    BY <2>1, <2>2, <2>3 DEF TypeOK, HandleDiagnostic
<1>6. CASE StartReturns
  <2>1. at \in 1..Len(cmds) /\ at' = at + 1 /\ unit = 1
    BY <1>6 DEF TypeOK, StartReturns, Positions
  <2>2. compilers' \in Seq(1..Len(cmds)) /\ Len(compilers') \in Nat
    <3>1. compilers' = compilers \/ compilers' = Append(compilers, at)
      BY <1>6 DEF StartReturns
    <3>2. compilers \in Seq(1..Len(cmds))
      BY DEF TypeOK
    <3>3. Append(compilers, at) \in Seq(1..Len(cmds))
      BY <2>1, <3>2, AppendProperties
    <3>4. QED
      BY <3>1, <3>2, <3>3, LenProperties
  <2>3. failed' \subseteq 1..Len(cmds) /\ alive' \subseteq 1..Len(cmds)
    BY <1>6, <2>1 DEF TypeOK, StartReturns
  <2>4. QED
    BY <1>6, <2>1, <2>2, <2>3 DEF TypeOK, StartReturns
<1>7. CASE BeginAnalyze
  BY <1>7 DEF TypeOK, BeginAnalyze
<1>8. CASE BeginUnit
  BY <1>8, DriverAssumption DEF TypeOK, BeginUnit
<1>9. CASE \E path \in Paths \cup {NoPath}, place \in Places : AddViolation(path, place)
  <2>1. PICK path \in Paths \cup {NoPath}, place \in Places : AddViolation(path, place)
    BY <1>9
  <2> DEFINE v == [rule |-> opts.rules[rule], path |-> path, at |-> place]
  <2>2. v \in Violation
    <3>1. rule \in 1..Len(opts.rules)
      BY <2>1, OptionTypes, LenProperties DEF TypeOK, AddViolation
    <3>2. opts.rules[rule] \in Rules
      BY <3>1, OptionTypes, ElementOfSeq
    <3>3. QED
      BY <3>2 DEF Violation
  <2>3. found' \in Seq(Violation)
    BY <2>1, <2>2 DEF TypeOK, AddViolation, Carried
  <2>4. calls' \in 0..MaxFound
    BY <2>1, DriverAssumption DEF TypeOK, AddViolation
  <2>5. QED
    BY <2>1, <2>3, <2>4 DEF TypeOK, AddViolation
<1>10. CASE RuleReturns
  BY <1>10 DEF TypeOK, RuleReturns
<1>11. CASE AddSet
  <2>1. unit \in 1..Len(compilers)
    BY <1>11, LenProperties DEF TypeOK, Positions, AddSet
  <2>2. compilers[unit] \in 1..Len(cmds)
    BY <2>1, ElementOfSeq DEF TypeOK
  <2>3. collection' \in Seq(Seq(Violation)) /\ origin' \in Seq(1..Len(cmds))
    BY <1>11, <2>2 DEF TypeOK, AddSet
  <2>4. unit' \in 1..(Len(compilers) + 1)
    BY <1>11, <2>1 DEF TypeOK, AddSet
  <2>5. QED
    BY <1>11, <2>3, <2>4 DEF TypeOK, AddSet
<1>12. CASE BeginRelease
  BY <1>12, LenProperties DEF TypeOK, BeginRelease
<1>13. CASE Release
  <2>1. unit' \in 1..(Len(compilers) + 1)
    <3>1. Len(compilers) \in Nat
      BY LenProperties DEF TypeOK
    <3>2. QED
      BY <1>13, <3>1 DEF TypeOK, Release
  <2>0. alive' \subseteq 1..Len(cmds)
    BY <1>13 DEF TypeOK, Release
  <2>2. pc' \in {"release", "invoke"}
    BY <1>13 DEF Release
  <2>3. QED
    BY <1>13, <2>0, <2>1, <2>2 DEF TypeOK, Release
<1>14. CASE Check
  <2>1. cwd' \in Directories
    BY <1>14, DriverAssumption DEF TypeOK, Check, Invocation, Entered
  <2>2. /\ pc' \in {"checking", "threw", "returned"}
        /\ diags' \in {0, diags}
        /\ erred' \in {FALSE, erred}
    BY <1>14 DEF Check, Invocation
  <2>3. diags' \in 0..MaxDiagnostics
    BY <2>2, DriverAssumption DEF TypeOK
  <2>4. erred' \in BOOLEAN
    BY <2>2 DEF TypeOK
  <2>5. QED
    BY <1>14, <2>1, <2>2, <2>3, <2>4 DEF TypeOK, Check
<1>15. CASE CheckReturns
  BY <1>15, LenProperties DEF TypeOK, Positions, CheckReturns
<1>16. QED
  BY <1>1, <1>2, <1>3, <1>4, <1>5, <1>6, <1>7, <1>8, <1>9, <1>10, <1>11, <1>12,
     <1>13, <1>14, <1>15 DEF DriverNext

(* Every step of the program preserves the type invariant.                 *)
LEMMA TypeStep ==
    ASSUME TypeOK, Positions, [Next]_vars
    PROVE  TypeOK'
<1> USE DEF inputs, progress, frontend, contexts, ruleset, collected, diagnosed, Commands1
<1>1. CASE Prepare
  BY <1>1 DEF TypeOK, Prepare, Exit, ExitCodes
<1>2. CASE DriverNext /\ UNCHANGED mainVars
  BY <1>2, DriverTypes
<1>3. CASE CatchProcessing
  BY <1>3 DEF TypeOK, CatchProcessing, Exit, ExitCodes
<1>4. CASE GetResults
  BY <1>4 DEF TypeOK, GetResults
<1>5. CASE Report
  BY <1>5 DEF TypeOK, Report
<1>6. CASE CatchReporting
  BY <1>6 DEF TypeOK, CatchReporting, Exit, ExitCodes
<1>7. CASE Threshold
  BY <1>7 DEF TypeOK, Threshold, Exit, ExitCodes
<1>8. CASE UNCHANGED vars
  BY <1>8 DEF TypeOK, vars, driverVars, mainVars
<1>9. QED
  BY <1>1, <1>2, <1>3, <1>4, <1>5, <1>6, <1>7, <1>8 DEF Next, Exited

-----------------------------------------------------------------------------
(***************************************************************************)
(* The vocabulary of the invariant: the set of a sequence, the rest of it  *)
(* from an index on, and increasing sequences.                             *)
(***************************************************************************)
LEMMA RestFull == ASSUME NEW S, NEW s \in Seq(S) PROVE Rest(s, 1) = ToSet(s)
  BY LenProperties DEF Rest, ToSet

(* Past its last index it has none.                                        *)
LEMMA RestEmpty == ASSUME NEW S, NEW s \in Seq(S) PROVE Rest(s, Len(s) + 1) = {}
  BY LenProperties DEF Rest

(* Moving on by one index leaves one element behind.                       *)
LEMMA RestNext ==
    ASSUME NEW S, NEW s \in Seq(S), NEW n \in 1..Len(s)
    PROVE  Rest(s, n) = {s[n]} \cup Rest(s, n + 1)
<1>1. Len(s) \in Nat
  BY LenProperties
<1>2. n..Len(s) = {n} \cup (n + 1)..Len(s)
  BY <1>1
<1>3. QED
  BY <1>2 DEF Rest

(* What is left of a sequence is among its elements.                       *)
LEMMA RestInSet ==
    ASSUME NEW S, NEW s \in Seq(S), NEW n \in 1..(Len(s) + 1)
    PROVE  Rest(s, n) \subseteq ToSet(s)
  BY LenProperties DEF Rest, ToSet

(* The empty sequence has no element.                                      *)
LEMMA ToSetEmpty == ToSet(<<>>) = {}
  BY DEF ToSet

(* The elements of a sequence over S are in S.                             *)
LEMMA ToSetType ==
    ASSUME NEW S, NEW s \in Seq(S)
    PROVE  ToSet(s) \subseteq S
  BY LenProperties, ElementOfSeq DEF ToSet

(* Appending adds one element.                                             *)
LEMMA ToSetAppend ==
    ASSUME NEW S, NEW s \in Seq(S), NEW e \in S
    PROVE  ToSet(Append(s, e)) = ToSet(s) \cup {e}
<1> DEFINE t == Append(s, e)
<1>1. t \in Seq(S) /\ Len(t) = Len(s) + 1 /\ Len(s) \in Nat
  BY AppendProperties, LenProperties
<1>2. DOMAIN s = 1..Len(s) /\ DOMAIN t = 1..(Len(s) + 1)
  BY <1>1, LenProperties
<1>3. \A i \in 1..Len(s) : t[i] = s[i]
  BY AppendProperties
<1>4. t[Len(s) + 1] = e
  BY AppendProperties
<1>5. ToSet(t) \subseteq ToSet(s) \cup {e}
  BY <1>1, <1>2, <1>3, <1>4 DEF ToSet
<1>6. ToSet(s) \subseteq ToSet(t)
  BY <1>1, <1>2, <1>3 DEF ToSet
<1>7. e \in ToSet(t)
  BY <1>1, <1>2, <1>4 DEF ToSet
<1>8. QED
  BY <1>5, <1>6, <1>7

(* An increasing sequence may grow by a larger number.                     *)
LEMMA IncreasingAppend ==
    ASSUME NEW s \in Seq(Int), NEW e \in Int, Increasing(s),
           \A k \in ToSet(s) : k < e
    PROVE  Increasing(Append(s, e))
<1> DEFINE t == Append(s, e)
<1>1. t \in Seq(Int) /\ Len(t) = Len(s) + 1 /\ Len(s) \in Nat
  BY AppendProperties, LenProperties
<1>2. DOMAIN s = 1..Len(s) /\ DOMAIN t = 1..(Len(s) + 1)
  BY <1>1, LenProperties
<1>3. \A i \in 1..Len(s) : t[i] = s[i] /\ s[i] \in ToSet(s)
  BY <1>2, AppendProperties DEF ToSet
<1>4. t[Len(s) + 1] = e
  BY AppendProperties
<1>5. SUFFICES ASSUME NEW i \in DOMAIN t, NEW j \in DOMAIN t, i < j
               PROVE  t[i] < t[j]
  BY DEF Increasing
<1>6. i \in 1..Len(s)
  BY <1>1, <1>2, <1>5
<1>7. CASE j \in 1..Len(s)
  BY <1>2, <1>3, <1>5, <1>6, <1>7 DEF Increasing
<1>8. CASE j = Len(s) + 1
  BY <1>3, <1>4, <1>6, <1>8
<1>9. QED
  BY <1>1, <1>2, <1>7, <1>8

(* In an increasing sequence the rest is above what was passed.            *)
LEMMA IncreasingRest ==
    ASSUME NEW s \in Seq(Int), Increasing(s), NEW n \in 1..Len(s)
    PROVE  \A k \in Rest(s, n + 1) : s[n] < k
  BY LenProperties DEF Increasing, Rest

(* There is nothing to distinguish in a sequence of one element.           *)
LEMMA ShortSequence ==
    ASSUME NEW S, NEW s \in Seq(S), Len(s) <= 1
    PROVE  \A k, l \in ToSet(s) : k = l
  BY LenProperties DEF ToSet
-----------------------------------------------------------------------------
(***************************************************************************)
(* Every conjunct of the invariant is preserved by every step.             *)
(***************************************************************************)
LEMMA PositionsStep ==
    ASSUME TypeOK, Positions, [Next]_vars
    PROVE  Positions'
<1> USE DEF inputs, progress, frontend, contexts, ruleset, collected, diagnosed
<1>1. CASE ConstructCompileCommands
  BY <1>1 DEF TypeOK, Positions, ConstructCompileCommands
<1>2. CASE BeginInvoke
  BY <1>2 DEF TypeOK, Positions, BeginInvoke, LastOfInvoke
<1>3. CASE EndFirstPass
  BY <1>3 DEF TypeOK, Positions, EndFirstPass
<1>4. CASE Compile
  BY <1>4 DEF TypeOK, Positions, Compile, Invocation
<1>5. CASE \E level \in Levels, v \in Diagnosed : HandleDiagnostic(level, v)
  BY <1>5 DEF TypeOK, Positions, HandleDiagnostic
<1>6. CASE StartReturns
  BY <1>6 DEF TypeOK, Positions, StartReturns
<1>7. CASE BeginAnalyze
  BY <1>7 DEF TypeOK, Positions, BeginAnalyze
<1>8. CASE BeginUnit
  BY <1>8 DEF TypeOK, Positions, BeginUnit
<1>9. CASE \E path \in Paths \cup {NoPath}, place \in Places : AddViolation(path, place)
  BY <1>9 DEF TypeOK, Positions, AddViolation
<1>10. CASE RuleReturns
  BY <1>10 DEF TypeOK, Positions, RuleReturns
<1>11. CASE AddSet
  BY <1>11 DEF TypeOK, Positions, AddSet
<1>12. CASE BeginRelease
  BY <1>12 DEF TypeOK, Positions, BeginRelease
<1>13. CASE Release
  BY <1>13 DEF TypeOK, Positions, Release
<1>14. CASE Check
  BY <1>14 DEF TypeOK, Positions, Check, Invocation
<1>15. CASE CheckReturns
  BY <1>15 DEF TypeOK, Positions, CheckReturns
<1>16. CASE Prepare
  BY <1>16 DEF TypeOK, Positions, Prepare, Exit
<1>17. CASE CatchProcessing
  BY <1>17 DEF TypeOK, Positions, CatchProcessing, Exit
<1>18. CASE GetResults
  BY <1>18 DEF TypeOK, Positions, GetResults
<1>19. CASE Report
  BY <1>19 DEF TypeOK, Positions, Report
<1>20. CASE CatchReporting
  BY <1>20 DEF TypeOK, Positions, CatchReporting, Exit
<1>21. CASE Threshold
  BY <1>21 DEF TypeOK, Positions, Threshold, Exit
<1>22. CASE UNCHANGED vars
  BY <1>22 DEF TypeOK, Positions, vars, driverVars, mainVars
<1>23. QED
  BY <1>1, <1>2, <1>3, <1>4, <1>5, <1>6, <1>7, <1>8, <1>9, <1>10, <1>11,
     <1>12, <1>13, <1>14, <1>15, <1>16, <1>17, <1>18, <1>19, <1>20, <1>21,
     <1>22
  DEF Next, DriverNext, Exited

(* A compilation is kept exactly when it did not report an error.          *)
LEMMA StartOutcome ==
    ASSUME TypeOK, StartReturns
    PROVE  \/ ~erred /\ compilers' = Append(compilers, at) /\ failed' = failed
           \/ erred /\ compilers' = compilers /\ failed' = failed \cup {at}
<1>1. CASE erred
  BY <1>1 DEF StartReturns, Kept
<1>2. CASE ~erred
  BY <1>2 DEF StartReturns, Kept
<1>3. QED
  BY <1>1, <1>2

(* The commands of `compilers' are commands, and come before `at'.         *)
LEMMA InvokeTypes ==
    ASSUME TypeOK
    PROVE  /\ compilers \in Seq(Int) /\ origin \in Seq(Int)
           /\ Analysed \subseteq 1..Len(cmds)
           /\ ToSet(compilers) \subseteq 1..Len(cmds)
           /\ Pending \subseteq ToSet(compilers)
           /\ Len(cmds) \in Nat /\ Len(compilers) \in Nat
<1>1. compilers \in Seq(1..Len(cmds)) /\ origin \in Seq(1..Len(cmds)) /\ cmds \in Seq(Commands)
  BY DEF TypeOK, Commands1
<1>2. ToSet(compilers) \subseteq 1..Len(cmds) /\ Analysed \subseteq 1..Len(cmds)
  BY <1>1, ToSetType DEF Analysed
<1>3. unit \in 1..(Len(compilers) + 1)
  BY DEF TypeOK
<1>4. Pending \subseteq ToSet(compilers)
  BY <1>1, <1>3, RestInSet DEF Pending
<1>5. compilers \in Seq(Int) /\ origin \in Seq(Int)
  BY <1>1, SeqMonotonic
<1>6. QED
  BY <1>1, <1>2, <1>4, <1>5, LenProperties

(* What the end of a compilation does to the sets of commands.             *)
LEMMA StartSets ==
    ASSUME TypeOK, Positions, Accounts, StartReturns
    PROVE  /\ unit = 1 /\ unit' = 1 /\ at' = at + 1 /\ at \in 1..Len(cmds)
           /\ Pending = ToSet(compilers)
           /\ Pending' = ToSet(compilers')
           /\ \A k \in ToSet(compilers) \cup Analysed \cup failed : k < at
           /\ \/ /\ compilers' = Append(compilers, at) /\ failed' = failed
                 /\ ToSet(compilers') = ToSet(compilers) \cup {at}
              \/ compilers' = compilers /\ failed' = failed \cup {at}
<1>1. unit = 1 /\ unit' = 1 /\ at' = at + 1 /\ at \in 1..Len(cmds)
  BY InvokeTypes DEF TypeOK, Positions, StartReturns
<1>2. compilers \in Seq(1..Len(cmds))
  BY DEF TypeOK, Commands1
<1>3. Append(compilers, at) \in Seq(1..Len(cmds)) /\ ToSet(Append(compilers, at)) = ToSet(compilers) \cup {at}
  BY <1>1, <1>2, AppendProperties, ToSetAppend
<1>4. compilers' = compilers \/ compilers' = Append(compilers, at)
  BY StartOutcome
<1>5. compilers' \in Seq(1..Len(cmds))
  BY <1>2, <1>3, <1>4
<1>6. Pending = ToSet(compilers) /\ Pending' = ToSet(compilers')
  BY <1>1, <1>2, <1>5, RestFull DEF Pending
<1>7. Analysed \cup ToSet(compilers) \cup failed = 1..(at - 1)
  BY <1>6 DEF Accounts, StartReturns
<1>8. \A k \in ToSet(compilers) \cup Analysed \cup failed : k < at
  BY <1>1, <1>7
<1>9. QED
  BY <1>1, <1>3, <1>6, <1>8, StartOutcome

(* What filing a violation set does to the sets of commands.               *)
LEMMA AddSetSets ==
    ASSUME TypeOK, Positions, Order, AddSet
    PROVE  /\ unit \in 1..Len(compilers)
           /\ compilers[unit] \in 1..Len(cmds)
           /\ compilers[unit] \in ToSet(compilers)
           /\ Pending = {compilers[unit]} \cup Pending'
           /\ \A k \in Pending' : compilers[unit] < k
           /\ Analysed' = Analysed \cup {compilers[unit]}
           /\ Len(origin') = Len(origin) + 1
           /\ Len(collection') = Len(collection) + 1
<1>1. unit \in 1..Len(compilers)
  BY InvokeTypes DEF TypeOK, Positions, AddSet
<1>2. compilers \in Seq(1..Len(cmds)) /\ origin \in Seq(1..Len(cmds)) /\ collection \in Seq(Seq(Violation)) /\ found \in Seq(Violation)
  BY DEF TypeOK, Commands1
<1>3. compilers[unit] \in 1..Len(cmds)
  BY <1>1, <1>2, ElementOfSeq
<1>4. compilers' = compilers /\ unit' = unit + 1 /\ origin' = Append(origin, compilers[unit]) /\ collection' = Append(collection, found)
  BY DEF AddSet
<1>5. Pending = {compilers[unit]} \cup Pending'
  BY <1>1, <1>2, <1>4, RestNext DEF Pending
<1>6. \A k \in Pending' : compilers[unit] < k
  BY <1>1, <1>4, InvokeTypes, IncreasingRest DEF Order, Pending
<1>7. Analysed' = Analysed \cup {compilers[unit]}
  BY <1>2, <1>3, <1>4, ToSetAppend DEF Analysed
<1>8. compilers[unit] \in ToSet(compilers)
  BY <1>5, InvokeTypes
<1>9. QED
  BY <1>1, <1>2, <1>3, <1>4, <1>5, <1>6, <1>7, <1>8, AppendProperties

(* Every step keeps compiled and analysed units in command order.          *)
LEMMA OrderStep ==
    ASSUME TypeOK, Positions, Order, Accounts, [Next]_vars
    PROVE  Order'
<1> USE DEF inputs, progress, frontend, contexts, ruleset, collected, diagnosed
<1>1. CASE ConstructCompileCommands
  BY <1>1 DEF Order, Pending, Analysed, ConstructCompileCommands
<1>2. CASE BeginInvoke
  <2>1. origin' = origin /\ compilers' = <<>> /\ unit' = 1
    BY <1>2 DEF BeginInvoke
  <2>2. Increasing(compilers') /\ Pending' = {}
    BY <2>1, InvokeTypes DEF Increasing, Pending, Rest
  <2>3. QED
    BY <2>1, <2>2 DEF Order
<1>3. CASE EndFirstPass
  BY <1>3 DEF Order, Pending, Analysed, EndFirstPass
<1>4. CASE Compile
  BY <1>4 DEF Order, Pending, Analysed, Compile, Invocation
<1>5. CASE \E level \in Levels, v \in Diagnosed : HandleDiagnostic(level, v)
  BY <1>5 DEF Order, Pending, Analysed, HandleDiagnostic
<1>6. CASE StartReturns
  <2>1. origin' = origin /\ Analysed' = Analysed /\ pc = "start"
    BY <1>6 DEF StartReturns, Analysed
  <2>2. Increasing(compilers')
    <3>1. Increasing(compilers) /\ compilers \in Seq(Int)
      BY InvokeTypes DEF Order
    <3>2. at \in Int /\ \A k \in ToSet(compilers) : k < at
      BY <1>6, StartSets
    <3>3. Increasing(Append(compilers, at))
      BY <3>1, <3>2, IncreasingAppend
    <3>4. QED
      BY <1>6, <3>1, <3>3, StartOutcome
  <2>3. \A k \in Analysed, l \in Pending' : k < l
    BY <1>6, <2>1, StartSets DEF Order
  <2>4. QED
    BY <2>1, <2>2, <2>3 DEF Order
<1>7. CASE BeginAnalyze
  BY <1>7 DEF Order, Pending, Analysed, BeginAnalyze
<1>8. CASE BeginUnit
  BY <1>8 DEF Order, Pending, Analysed, BeginUnit
<1>9. CASE \E path \in Paths \cup {NoPath}, place \in Places : AddViolation(path, place)
  BY <1>9 DEF Order, Pending, Analysed, AddViolation
<1>10. CASE RuleReturns
  BY <1>10 DEF Order, Pending, Analysed, RuleReturns
<1>11. CASE AddSet
  <2>1. compilers' = compilers /\ origin' = Append(origin, compilers[unit])
    BY <1>11 DEF AddSet
  <2>2. \A k \in Analysed, l \in Pending : k < l
    BY <1>11 DEF Order, AddSet
  <2>3. compilers[unit] \in Int /\ \A k \in Analysed : k < compilers[unit]
    BY <1>11, <2>2, AddSetSets
  <2>4. Increasing(origin')
    BY <2>1, <2>3, InvokeTypes, IncreasingAppend DEF Order, Analysed
  <2>5. \A k \in Analysed', l \in Pending' : k < l
    BY <1>11, <2>2, AddSetSets
  <2>6. QED
    BY <2>1, <2>4, <2>5 DEF Order
<1>12. CASE BeginRelease
  BY <1>12 DEF Order, Pending, Analysed, BeginRelease
<1>13. CASE Release
  BY <1>13 DEF Order, Pending, Analysed, Release
<1>14. CASE Check
  BY <1>14 DEF Order, Pending, Analysed, Check, Invocation
<1>15. CASE CheckReturns
  BY <1>15 DEF Order, Pending, Analysed, CheckReturns
<1>16. CASE Prepare
  BY <1>16 DEF Order, Pending, Analysed, Prepare, Exit
<1>17. CASE CatchProcessing
  BY <1>17 DEF Order, Pending, Analysed, CatchProcessing, Exit
<1>18. CASE GetResults
  BY <1>18 DEF Order, Pending, Analysed, GetResults
<1>19. CASE Report
  BY <1>19 DEF Order, Pending, Analysed, Report
<1>20. CASE CatchReporting
  BY <1>20 DEF Order, Pending, Analysed, CatchReporting, Exit
<1>21. CASE Threshold
  BY <1>21 DEF Order, Pending, Analysed, Threshold, Exit
<1>22. CASE UNCHANGED vars
  BY <1>22 DEF Order, Pending, Analysed, vars, driverVars, mainVars
<1>23. QED
  BY <1>1, <1>2, <1>3, <1>4, <1>5, <1>6, <1>7, <1>8, <1>9, <1>10, <1>11,
     <1>12, <1>13, <1>14, <1>15, <1>16, <1>17, <1>18, <1>19, <1>20, <1>21,
     <1>22
  DEF Next, DriverNext, Exited

(* The release loop starts with every context of this invoke.              *)
LEMMA WholeInvoke ==
    ASSUME TypeOK
    PROVE  /\ unit = 1 => Pending = ToSet(compilers)
           /\ unit' = 1 /\ compilers' = compilers => Pending' = ToSet(compilers)
           /\ unit > Len(compilers) => Pending = {}
<1>1. compilers \in Seq(1..Len(cmds)) /\ unit \in 1..(Len(compilers) + 1)
  BY DEF TypeOK, Commands1
<1>2. Rest(compilers, 1) = ToSet(compilers)
  BY <1>1, RestFull
<1>3. Rest(compilers, Len(compilers) + 1) = {}
  BY <1>1, RestEmpty
<1>4. unit > Len(compilers) => unit = Len(compilers) + 1
  BY <1>1, InvokeTypes
<1>5. QED
  BY <1>2, <1>3, <1>4 DEF Pending

(* What one turn of the release loop does to the sets of commands.         *)
LEMMA ReleaseSets ==
    ASSUME TypeOK, Order, Release, unit <= Len(compilers)
    PROVE  /\ compilers[unit] \notin Pending'
           /\ Pending = {compilers[unit]} \cup Pending'
           /\ compilers[unit] \in ToSet(compilers)
           /\ Pending' \subseteq ToSet(compilers)
<1>1. unit \in 1..Len(compilers) /\ compilers \in Seq(1..Len(cmds))
  BY InvokeTypes DEF TypeOK, Commands1
<1>2. compilers' = compilers /\ unit' = unit + 1
  BY DEF Release
<1>3. Pending = {compilers[unit]} \cup Pending'
  BY <1>1, <1>2, RestNext DEF Pending
<1>4. compilers[unit] \in Int /\ Pending' \subseteq Int
  BY <1>3, InvokeTypes
<1>5. \A k \in Pending' : compilers[unit] < k
  BY <1>1, <1>2, InvokeTypes, IncreasingRest DEF Order, Pending
<1>6. QED
  BY <1>3, <1>4, <1>5, InvokeTypes

(* Every step keeps the account of the commands.                           *)
LEMMA AccountsStep ==
    ASSUME TypeOK, Positions, Order, Accounts,
           report # <<>> => pc \in {"threshold", "exited"}, [Next]_vars
    PROVE  Accounts'
<1> USE DEF inputs, progress, frontend, contexts, ruleset, collected, diagnosed, mainVars, Commands1
<1>1. CASE ConstructCompileCommands /\ UNCHANGED mainVars
  <2>1. origin = <<>> /\ compilers = <<>> /\ failed = {} /\ alive = {} /\ at = 1
    BY <1>1 DEF Positions, ConstructCompileCommands
  <2>2. Analysed = {} /\ ToSet(compilers) = {}
    BY <2>1, ToSetEmpty DEF Analysed
  <2>3. pc' \in {"commands", "invoke"} /\ report = <<>> /\ report' = report
    BY <1>1 DEF ConstructCompileCommands
  <2>4. UNCHANGED <<origin, compilers, failed, alive, at, collection>> /\ Analysed' = Analysed
    BY <1>1 DEF ConstructCompileCommands, Analysed
  <2>5. QED
    BY <2>1, <2>2, <2>3, <2>4 DEF Accounts, FirstPassDone
<1>2. CASE BeginInvoke /\ UNCHANGED mainVars
  <2>1. compilers' = <<>> /\ unit' = 1 /\ pc = "invoke" /\ pc' = "compile"
    BY <1>2 DEF BeginInvoke
  <2>2. ToSet(compilers') = {} /\ Pending' = {}
    BY <2>1, ToSetEmpty DEF Pending, Rest
  <2>3. UNCHANGED <<origin, failed, alive, at, collection, report>> /\ Analysed' = Analysed
    BY <1>2 DEF BeginInvoke, Analysed
  <2>4. QED
    BY <2>1, <2>2, <2>3 DEF Accounts, FirstPassDone
<1>3. CASE EndFirstPass /\ UNCHANGED mainVars
  <2>1. at = Len(cmds) + 1 /\ pc = "invoke"
    BY <1>3, InvokeTypes DEF TypeOK, EndFirstPass
  <2>2. Analysed \cup failed = 1..Len(cmds) /\ alive = failed
    BY <2>1, InvokeTypes DEF Accounts
  <2>3. pc' \in {"check", "returned"}
    BY <1>3 DEF EndFirstPass
  <2>4. QED
    BY <1>3, <2>2, <2>3 DEF Accounts, Analysed, FirstPassDone, EndFirstPass
<1>4. CASE Compile /\ UNCHANGED mainVars
  BY <1>4 DEF Accounts, Pending, Analysed, FirstPassDone, Compile, Invocation
<1>5. CASE (\E level \in Levels, v \in Diagnosed : HandleDiagnostic(level, v)) /\ UNCHANGED mainVars
  BY <1>5 DEF Accounts, Pending, Analysed, FirstPassDone, HandleDiagnostic
<1>6. CASE StartReturns /\ UNCHANGED mainVars
  <2>1. UNCHANGED <<origin, collection, report>> /\ Analysed' = Analysed
    BY <1>6 DEF StartReturns, Analysed
  <2>2. pc = "start" /\ pc' = "compile" /\ alive' = alive \cup {at} /\ report = <<>>
    BY <1>6 DEF StartReturns
  <2>3. /\ Analysed \cup ToSet(compilers) \cup failed = 1..(at - 1)
        /\ alive = failed \cup ToSet(compilers)
    BY <1>6, <2>2, StartSets DEF Accounts
  <2>4. ToSet(compilers') \cap failed' = {} /\ Analysed \cap failed' = {}
    BY <1>6, <2>3, StartSets DEF Accounts
  <2>5. alive' = failed' \cup ToSet(compilers')
    BY <1>6, <2>2, <2>3, StartSets
  <2>6. Analysed \cup ToSet(compilers') \cup failed' = 1..at
    <3>1. 1..at = 1..(at - 1) \cup {at}
      BY <1>6, StartSets
    <3>2. QED
      BY <1>6, <2>3, <3>1, StartSets
  <2>7. at' - 1 = at
    BY <1>6, StartSets
  <2>8. QED
    BY <1>6, <2>1, <2>2, <2>4, <2>5, <2>6, <2>7, StartSets DEF Accounts, FirstPassDone
<1>7. CASE BeginAnalyze /\ UNCHANGED mainVars
  <2>1. pc = "compile" /\ pc' = "analyze" /\ UNCHANGED <<contexts, collected, at, report>> /\ report = <<>>
    BY <1>7 DEF BeginAnalyze
  <2>2. Pending = ToSet(compilers)
    BY <2>1, WholeInvoke DEF Positions
  <2>3. QED
    BY <2>1, <2>2 DEF Accounts, Pending, Analysed, FirstPassDone
<1>8. CASE BeginUnit /\ UNCHANGED mainVars
  BY <1>8 DEF Accounts, Pending, Analysed, FirstPassDone, BeginUnit
<1>9. CASE (\E path \in Paths \cup {NoPath}, place \in Places : AddViolation(path, place)) /\ UNCHANGED mainVars
  BY <1>9 DEF Accounts, Pending, Analysed, FirstPassDone, AddViolation
<1>10. CASE RuleReturns /\ UNCHANGED mainVars
  BY <1>10 DEF Accounts, Pending, Analysed, FirstPassDone, RuleReturns
<1>11. CASE AddSet /\ UNCHANGED mainVars
  <2>1. pc = "takeoff" /\ pc' = "analyze" /\ UNCHANGED <<compilers, alive, failed, at, report>> /\ report = <<>>
    BY <1>11 DEF AddSet
  <2>2. Analysed' \cap failed' = {}
    BY <1>11, <2>1, AddSetSets DEF Accounts
  <2>3. Analysed' \cup Pending' \cup failed' = 1..(at' - 1)
    BY <1>11, <2>1, AddSetSets DEF Accounts
  <2>4. Len(collection') = Len(origin')
    BY <1>11, AddSetSets DEF Accounts
  <2>5. QED
    BY <2>1, <2>2, <2>3, <2>4 DEF Accounts, FirstPassDone
<1>12. CASE BeginRelease /\ UNCHANGED mainVars
  <2>1. /\ pc = "analyze" /\ pc' = "release" /\ unit > Len(compilers) /\ unit' = 1
        /\ UNCHANGED <<compilers, alive, failed, at, collection, origin, report>>
        /\ report = <<>>
    BY <1>12 DEF BeginRelease
  <2>2. Pending = {} /\ Pending' = ToSet(compilers)
    BY <2>1, WholeInvoke
  <2>3. QED
    BY <2>1, <2>2 DEF Accounts, Analysed, FirstPassDone
<1>13. CASE Release /\ UNCHANGED mainVars
  <2>1. pc = "release" /\ UNCHANGED <<compilers, failed, at, collection, origin, report>> /\ report = <<>>
    BY <1>13 DEF Release
  <2>2. CASE unit <= Len(compilers)
    <3>1. pc' = "release" /\ alive' = alive \ {compilers[unit]}
      BY <1>13, <2>1, <2>2 DEF Release
    <3>2. alive' = failed \cup Pending'
      BY <1>13, <2>1, <2>2, <3>1, ReleaseSets DEF Accounts
    <3>3. QED
      BY <1>13, <2>1, <2>2, <3>1, <3>2, ReleaseSets DEF Accounts, Analysed, FirstPassDone
  <2>3. CASE ~(unit <= Len(compilers))
    <3>1. pc' = "invoke" /\ alive' = alive
      BY <1>13, <2>3 DEF Release
    <3>2. Pending = {}
      BY <2>3, WholeInvoke, InvokeTypes DEF TypeOK
    <3>3. QED
      BY <2>1, <3>1, <3>2 DEF Accounts, Analysed, FirstPassDone
  <2>4. QED
    BY <2>2, <2>3
<1>14. CASE Check /\ UNCHANGED mainVars
  BY <1>14 DEF Accounts, Pending, Analysed, FirstPassDone, Check, Invocation
<1>15. CASE CheckReturns /\ UNCHANGED mainVars
  BY <1>15 DEF Accounts, Pending, Analysed, FirstPassDone, CheckReturns
<1>16. CASE Prepare
  BY <1>16 DEF Accounts, Pending, Analysed, FirstPassDone, Prepare, Exit
<1>17. CASE CatchProcessing
  BY <1>17 DEF Accounts, Pending, Analysed, FirstPassDone, CatchProcessing, Exit
<1>18. CASE GetResults
  BY <1>18 DEF Accounts, Pending, Analysed, FirstPassDone, GetResults
<1>19. CASE Report
  BY <1>19 DEF Accounts, Pending, Analysed, FirstPassDone, Report
<1>20. CASE CatchReporting
  BY <1>20 DEF Accounts, Pending, Analysed, FirstPassDone, CatchReporting, Exit
<1>21. CASE Threshold
  BY <1>21 DEF Accounts, Pending, Analysed, FirstPassDone, Threshold, Exit
<1>22. CASE UNCHANGED vars
  BY <1>22 DEF Accounts, Pending, Analysed, FirstPassDone, vars, driverVars, mainVars
<1>23. QED
  BY <1>1, <1>2, <1>3, <1>4, <1>5, <1>6, <1>7, <1>8, <1>9, <1>10, <1>11,
     <1>12, <1>13, <1>14, <1>15, <1>16, <1>17, <1>18, <1>19, <1>20, <1>21,
     <1>22
  DEF Next, DriverNext, Exited

(* A collector without sets has analysed no command.                       *)
LEMMA EmptyOrigin ==
    ASSUME TypeOK
    PROVE  origin = <<>> <=> Analysed = {}
<1>1. origin \in Seq(1..Len(cmds)) /\ DOMAIN origin = 1..Len(origin) /\ Len(origin) \in Nat
  BY LenProperties DEF TypeOK, Commands1
<1>2. CASE origin = <<>>
  BY <1>2, ToSetEmpty DEF Analysed
<1>3. CASE origin # <<>>
  <2>1. 1 \in 1..Len(origin)
    BY <1>1, <1>3, EmptySeq
  <2>2. QED
    BY <1>1, <1>3, <2>1 DEF Analysed, ToSet
<1>4. QED
  BY <1>2, <1>3

(* Every step keeps what the two analysis modes promise.                   *)
LEMMA ModesStep ==
    ASSUME TypeOK, Positions, Accounts, Modes, [Next]_vars
    PROVE  Modes'
<1> USE DEF inputs, progress, frontend, contexts, ruleset, collected, diagnosed, mainVars, Commands1
<1>1. CASE ConstructCompileCommands
  BY <1>1 DEF Positions, Modes, InInvoke, ConstructCompileCommands
<1>2. CASE BeginInvoke
  <2>1. pc = "invoke" /\ pc' = "compile" /\ compilers' = <<>> /\ UNCHANGED <<opts, cmds, at, origin, failed>>
    BY <1>2 DEF BeginInvoke
  <2>2. CASE opts.global
    <3>1. at = 1 /\ upto' = Len(cmds)
      BY <1>2, <2>2, InvokeTypes DEF Modes, BeginInvoke, LastOfInvoke, TypeOK
    <3>2. Analysed = {}
      BY <2>1, <3>1 DEF Accounts
    <3>3. QED
      BY <2>1, <2>2, <3>1, <3>2, EmptyOrigin DEF Modes, InInvoke
  <2>3. CASE ~opts.global
    <3>1. upto' = at
      BY <1>2, <2>3 DEF BeginInvoke, LastOfInvoke
    <3>2. QED
      BY <2>1, <2>3, <3>1 DEF Modes, InInvoke
  <2>4. QED
    BY <2>2, <2>3
<1>3. CASE EndFirstPass
  <2>1. pc' \in {"check", "returned"} /\ UNCHANGED <<opts, cmds, compilers, failed, origin>>
    BY <1>3 DEF EndFirstPass
  <2>2. QED
    BY <2>1 DEF Modes, InInvoke
<1>4. CASE Compile
  BY <1>4 DEF TypeOK, Modes, InInvoke, Compile, Invocation
<1>5. CASE \E level \in Levels, v \in Diagnosed : HandleDiagnostic(level, v)
  BY <1>5 DEF TypeOK, Modes, InInvoke, HandleDiagnostic
<1>6. CASE StartReturns
  <2>1. pc = "start" /\ pc' = "compile" /\ UNCHANGED <<opts, cmds, upto, origin>> /\ at' = at + 1
    BY <1>6 DEF StartReturns
  <2>2. at <= upto /\ at \in Nat /\ upto \in Nat
    BY <2>1 DEF Positions, TypeOK
  <2>3. CASE opts.global
    BY <2>1, <2>3 DEF Modes, InInvoke
  <2>4. CASE ~opts.global
    <3>1. at = upto /\ compilers = <<>>
      BY <2>1, <2>2, <2>4 DEF Modes, InInvoke
    <3>2. Len(compilers') <= 1
      <4>1. compilers \in Seq(1..Len(cmds)) /\ at \in 1..Len(cmds)
        BY <1>6, StartSets DEF TypeOK, Commands1
      <4>2. Len(compilers) = 0
        BY <3>1
      <4>3. Len(Append(compilers, at)) = 1
        BY <4>1, <4>2, AppendProperties
      <4>4. CASE compilers' = compilers
        BY <4>2, <4>4
      <4>5. CASE compilers' = Append(compilers, at)
        BY <4>3, <4>5
      <4>6. QED
        BY <1>6, <4>4, <4>5, StartOutcome
    <3>3. QED
      BY <2>1, <2>2, <2>4, <3>1, <3>2 DEF Modes
  <2>5. QED
    BY <2>3, <2>4
<1>7. CASE BeginAnalyze
  <2>1. pc = "compile" /\ pc' = "analyze" /\ UNCHANGED <<opts, cmds, compilers, failed, origin, upto, at>> /\ at > upto
    BY <1>7 DEF BeginAnalyze
  <2>2. at = upto + 1 /\ unit = 1 /\ at \in Nat /\ upto \in Nat
    BY <2>1 DEF Positions, TypeOK
  <2>3. CASE opts.global
    <3>1. upto = Len(cmds) /\ origin = <<>>
      BY <2>1, <2>3 DEF Modes, InInvoke
    <3>2. Analysed = {} /\ Pending = ToSet(compilers)
      BY <2>2, <3>1, EmptyOrigin, WholeInvoke
    <3>3. Analysed \cup Pending \cup failed = 1..(at - 1) /\ at - 1 = Len(cmds)
      BY <2>1, <2>2, <3>1, InvokeTypes DEF Accounts
    <3>4. ToSet(compilers) \cup failed = 1..Len(cmds)
      BY <3>2, <3>3
    <3>5. QED
      BY <2>1, <2>3, <3>1, <3>4 DEF Modes, InInvoke
  <2>4. CASE ~opts.global
    BY <2>1, <2>4 DEF Modes, InInvoke
  <2>5. QED
    BY <2>3, <2>4
<1>8. CASE BeginUnit
  BY <1>8 DEF TypeOK, Modes, InInvoke, BeginUnit
<1>9. CASE \E path \in Paths \cup {NoPath}, place \in Places : AddViolation(path, place)
  BY <1>9 DEF TypeOK, Modes, InInvoke, AddViolation
<1>10. CASE RuleReturns
  BY <1>10 DEF TypeOK, Modes, InInvoke, RuleReturns
<1>11. CASE AddSet
  <2>1. pc = "takeoff" /\ pc' = "analyze" /\ UNCHANGED <<opts, cmds, compilers, failed, upto, at>>
    BY <1>11 DEF AddSet
  <2>2. QED
    BY <2>1 DEF Modes, InInvoke
<1>12. CASE BeginRelease
  BY <1>12 DEF TypeOK, Modes, InInvoke, BeginRelease
<1>13. CASE Release
  <2>1. pc = "release" /\ pc' \in {"release", "invoke"} /\ UNCHANGED <<opts, cmds, compilers, failed, origin, upto, at>>
    BY <1>13 DEF Release
  <2>2. at = upto + 1
    BY <2>1 DEF Positions
  <2>3. QED
    BY <2>1, <2>2 DEF Modes, InInvoke
<1>14. CASE Check
  BY <1>14 DEF TypeOK, Modes, InInvoke, Check, Invocation
<1>15. CASE CheckReturns
  BY <1>15 DEF TypeOK, Modes, InInvoke, CheckReturns
<1>16. CASE Prepare
  BY <1>16 DEF TypeOK, Modes, InInvoke, Prepare, Exit
<1>17. CASE CatchProcessing
  BY <1>17 DEF TypeOK, Modes, InInvoke, CatchProcessing, Exit
<1>18. CASE GetResults
  BY <1>18 DEF TypeOK, Modes, InInvoke, GetResults
<1>19. CASE Report
  BY <1>19 DEF TypeOK, Modes, InInvoke, Report
<1>20. CASE CatchReporting
  BY <1>20 DEF TypeOK, Modes, InInvoke, CatchReporting, Exit
<1>21. CASE Threshold
  BY <1>21 DEF TypeOK, Modes, InInvoke, Threshold, Exit
<1>22. CASE UNCHANGED vars
  BY <1>22 DEF TypeOK, Modes, InInvoke, vars, driverVars, mainVars
<1>23. QED
  BY <1>1, <1>2, <1>3, <1>4, <1>5, <1>6, <1>7, <1>8, <1>9, <1>10, <1>11,
     <1>12, <1>13, <1>14, <1>15, <1>16, <1>17, <1>18, <1>19, <1>20, <1>21,
     <1>22
  DEF Next, DriverNext, Exited

(* Every step keeps the filed diagnostics in agreement.                    *)
LEMMA DiagnosesStep ==
    ASSUME TypeOK, Positions, Accounts, Diagnoses, [Next]_vars
    PROVE  Diagnoses'
<1> USE DEF inputs, progress, frontend, contexts, ruleset, collected, diagnosed, mainVars, Commands1
<1>1. CASE ConstructCompileCommands /\ UNCHANGED mainVars
  BY <1>1 DEF Diagnoses, ErrorsExplainMissing, Analysed, ConstructCompileCommands
<1>2. CASE BeginInvoke /\ UNCHANGED mainVars
  BY <1>2 DEF Diagnoses, ErrorsExplainMissing, Analysed, BeginInvoke, LastOfInvoke
<1>3. CASE EndFirstPass /\ UNCHANGED mainVars
  BY <1>3 DEF Diagnoses, ErrorsExplainMissing, Analysed, EndFirstPass
<1>4. CASE Compile /\ UNCHANGED mainVars
  BY <1>4 DEF Diagnoses, ErrorsExplainMissing, Analysed, Compile, Invocation
<1>5. CASE (\E level \in Levels, v \in Diagnosed : HandleDiagnostic(level, v)) /\ UNCHANGED mainVars
  <2>1. PICK level \in Levels, v \in Diagnosed : HandleDiagnostic(level, v)
    BY <1>5
  <2>2. CASE pc = "checking"
    <3>1. errors' = errors /\ bugs' = Append(bugs, v)
      BY <2>1, <2>2 DEF HandleDiagnostic, FiledUnder
    <3>2. Analysed \cup failed = Commands1
      BY <2>2 DEF Accounts, FirstPassDone
    <3>3. QED
      BY <2>1, <2>2, <3>1, <3>2 DEF HandleDiagnostic, Diagnoses, ErrorsExplainMissing, Analysed
  <2>3. CASE pc = "start"
    <3>1. bugs' = bugs /\ errors' = IF level = "error" THEN Append(errors, v) ELSE errors
      BY <2>1, <2>3 DEF HandleDiagnostic, FiledUnder, Levels
    <3>2. level = "error" => errors' # <<>> /\ erred'
      <4>1. Append(errors, v) # <<>>
        <5>1. errors \in Seq(Diagnosed)
          BY DEF TypeOK
        <5>2. QED
          BY <5>1, AppendProperties
      <4>2. erred' = (erred \/ level = "error")
        BY <2>1 DEF HandleDiagnostic
      <4>3. QED
        BY <3>1, <4>1, <4>2
    <3>3. level # "error" => errors' = errors /\ (erred' <=> erred)
      BY <2>1, <3>1 DEF HandleDiagnostic
    <3>4. UNCHANGED <<pc, failed, opts, cmds, origin>>
      BY <2>1 DEF HandleDiagnostic
    <3>5. ErrorsExplainMissing'
      BY <2>3, <3>2, <3>3, <3>4 DEF Diagnoses, ErrorsExplainMissing
    <3>6. QED
      BY <2>3, <3>1, <3>4, <3>5 DEF Diagnoses, Analysed
  <2>4. QED
    BY <2>1, <2>2, <2>3 DEF HandleDiagnostic
<1>6. CASE StartReturns /\ UNCHANGED mainVars
  <2>1. pc = "start" /\ pc' = "compile" /\ UNCHANGED <<errors, bugs, opts>>
    BY <1>6 DEF StartReturns
  <2>2. errors # <<>> <=> failed # {} \/ erred
    BY <2>1 DEF Diagnoses, ErrorsExplainMissing
  <2>3. failed' # {} <=> failed # {} \/ erred
    BY <1>6, StartOutcome
  <2>4. bugs = <<>>
    BY <2>1 DEF Diagnoses
  <2>5. QED
    BY <2>1, <2>2, <2>3, <2>4 DEF Diagnoses, ErrorsExplainMissing
<1>7. CASE BeginAnalyze /\ UNCHANGED mainVars
  BY <1>7 DEF Diagnoses, ErrorsExplainMissing, Analysed, BeginAnalyze
<1>8. CASE BeginUnit /\ UNCHANGED mainVars
  BY <1>8 DEF Diagnoses, ErrorsExplainMissing, Analysed, BeginUnit
<1>9. CASE (\E path \in Paths \cup {NoPath}, place \in Places : AddViolation(path, place)) /\ UNCHANGED mainVars
  BY <1>9 DEF Diagnoses, ErrorsExplainMissing, Analysed, AddViolation
<1>10. CASE RuleReturns /\ UNCHANGED mainVars
  BY <1>10 DEF Diagnoses, ErrorsExplainMissing, Analysed, RuleReturns
<1>11. CASE AddSet /\ UNCHANGED mainVars
  BY <1>11 DEF Diagnoses, ErrorsExplainMissing, Analysed, AddSet
<1>12. CASE BeginRelease /\ UNCHANGED mainVars
  BY <1>12 DEF Diagnoses, ErrorsExplainMissing, Analysed, BeginRelease
<1>13. CASE Release /\ UNCHANGED mainVars
  BY <1>13 DEF Diagnoses, ErrorsExplainMissing, Analysed, Release
<1>14. CASE Check /\ UNCHANGED mainVars
  BY <1>14 DEF Diagnoses, ErrorsExplainMissing, Analysed, Check, Invocation
<1>15. CASE CheckReturns /\ UNCHANGED mainVars
  BY <1>15 DEF Diagnoses, ErrorsExplainMissing, Analysed, CheckReturns
<1>16. CASE Prepare
  BY <1>16 DEF Diagnoses, ErrorsExplainMissing, Analysed, Prepare, Exit
<1>17. CASE CatchProcessing
  BY <1>17 DEF Diagnoses, ErrorsExplainMissing, Analysed, CatchProcessing, Exit
<1>18. CASE GetResults
  BY <1>18 DEF Diagnoses, ErrorsExplainMissing, Analysed, GetResults
<1>19. CASE Report
  BY <1>19 DEF Diagnoses, ErrorsExplainMissing, Analysed, Report
<1>20. CASE CatchReporting
  BY <1>20 DEF Diagnoses, ErrorsExplainMissing, Analysed, CatchReporting, Exit
<1>21. CASE Threshold
  BY <1>21 DEF Diagnoses, ErrorsExplainMissing, Analysed, Threshold, Exit
<1>22. CASE UNCHANGED vars
  BY <1>22 DEF Diagnoses, ErrorsExplainMissing, Analysed, vars, driverVars, mainVars
<1>23. QED
  BY <1>1, <1>2, <1>3, <1>4, <1>5, <1>6, <1>7, <1>8, <1>9, <1>10, <1>11,
     <1>12, <1>13, <1>14, <1>15, <1>16, <1>17, <1>18, <1>19, <1>20, <1>21,
     <1>22
  DEF Next, DriverNext, Exited

(* An increasing sequence has as many elements as it is long.              *)
LEMMA IncreasingCardinality ==
    ASSUME NEW s \in Seq(Int), Increasing(s)
    PROVE  IsFiniteSet(ToSet(s)) /\ Cardinality(ToSet(s)) = Len(s)
<1>1. Len(s) \in Nat /\ DOMAIN s = 1..Len(s) /\ s \in [1..Len(s) -> Int]
  BY LenProperties
<1>2. IsFiniteSet(1..Len(s)) /\ Cardinality(1..Len(s)) = Len(s)
  BY <1>1, FS_Interval
<1>3. s \in [1..Len(s) -> ToSet(s)]
  BY <1>1 DEF ToSet
<1>4. \A i, j \in 1..Len(s) : s[i] = s[j] => i = j
  <2>1. SUFFICES ASSUME NEW i \in 1..Len(s), NEW j \in 1..Len(s), s[i] = s[j], i # j
                 PROVE  FALSE
    OBVIOUS
  <2>2. s[i] \in Int /\ s[j] \in Int /\ i \in Int /\ j \in Int
    BY <1>1
  <2>3. CASE i < j
    BY <1>1, <2>1, <2>2, <2>3 DEF Increasing
  <2>4. CASE j < i
    BY <1>1, <2>1, <2>2, <2>4 DEF Increasing
  <2>5. QED
    BY <2>1, <2>2, <2>3, <2>4
<1>5. \A e \in ToSet(s) : \E i \in 1..Len(s) : s[i] = e
  BY <1>1 DEF ToSet
<1>6. s \in Bijection(1..Len(s), ToSet(s))
  BY <1>1, <1>3, <1>4, <1>5 DEF Bijection, Injection, Surjection, IsInjective
<1>7. ExistsBijection(1..Len(s), ToSet(s))
  BY <1>6 DEF ExistsBijection
<1>8. QED
  BY <1>2, <1>7, FS_Bijection

(* The number of files of a report: the commands that compiled.            *)
LEMMA NumberOfFiles ==
    ASSUME TypeOK, Order, Accounts, FirstPassDone
    PROVE  Len(collection) = Len(cmds) - Cardinality(failed)
<1>1. Analysed \cup failed = 1..Len(cmds) /\ Analysed \cap failed = {} /\ Len(collection) = Len(origin)
  BY DEF Accounts, Commands1
<1>2. IsFiniteSet(1..Len(cmds)) /\ Cardinality(1..Len(cmds)) = Len(cmds)
  <2>1. Len(cmds) \in Nat
    BY InvokeTypes
  <2>2. QED
    BY <2>1, FS_Interval
<1>3. IsFiniteSet(Analysed) /\ Cardinality(Analysed) = Len(origin)
  BY InvokeTypes, IncreasingCardinality DEF Order, Analysed
<1>4. failed \in SUBSET (1..Len(cmds))
  BY DEF TypeOK, Commands1
<1>5. IsFiniteSet(failed) /\ Cardinality(failed) \in Nat
  BY <1>2, <1>4, FS_Subset, FS_CardinalityType
<1>6. Cardinality(Analysed \cup failed) = Cardinality(Analysed) + Cardinality(failed) - Cardinality({})
  BY <1>1, <1>3, <1>5, FS_Union
<1>7. Cardinality({}) = 0
  BY FS_EmptySet
<1>8. Len(origin) \in Nat
  <2>1. origin \in Seq(Int)
    BY InvokeTypes
  <2>2. QED
    BY <2>1, LenProperties
<1>9. Len(cmds) = Len(origin) + Cardinality(failed) - 0
  BY <1>1, <1>2, <1>3, <1>6, <1>7
<1>10. QED
  BY <1>1, <1>5, <1>8, <1>9

(* Read through its caches or not, a view shows the collector.             *)
LEMMA ViewIsFinal ==
    ASSUME NEW view \in Views, Fresh(view)
    PROVE  View(view) = Final(view)
  BY DEF View, Final, Fresh

(* Reading views fills the caches with what they would compute.            *)
LEMMA MemoStaysFresh ==
    ASSUME NEW read, memo' = MemoAfter(read), \A view \in Views : Fresh(view),
           UNCHANGED <<opts, collection, errors, warnings, bugs>>
    PROVE  /\ \A view \in Views : Fresh(view)'
           /\ memo' = [view \in Views |-> memo'[view]]
<1>1. ASSUME NEW view \in Views PROVE Fresh(view)'
  <2>1. RawView(view)' = RawView(view)
    BY DEF RawView
  <2>2. memo'[view] = IF view \in read /\ ~opts.dups THEN View(view) ELSE memo[view]
    BY DEF MemoAfter
  <2>3. Fresh(view) /\ View(view) = Final(view)
    BY ViewIsFinal
  <2>4. QED
    BY <2>1, <2>2, <2>3 DEF Fresh, Final
<1>2. memo' = [view \in Views |-> memo'[view]]
  BY DEF MemoAfter
<1>3. QED
  BY <1>1, <1>2

(* Before the report there is nothing to be stale.                         *)
LEMMA EarlyPublished ==
    ASSUME Published, UNCHANGED mainVars,
           pc \notin {"report", "threshold", "exited"},
           pc' \notin {"threshold", "exited"}
    PROVE  Published'
<1>1. memo = [view \in Views |-> <<>>] /\ report = <<>> /\ exit = NoExit
  BY DEF Published, ExitMatchesReport
<1>2. memo' = memo /\ report' = report /\ exit' = exit
  BY DEF mainVars
<1>3. (\A view \in Views : Fresh(view))'
  BY <1>1, <1>2 DEF Fresh
<1>4. ReportIsFinal' /\ ExitMatchesReport'
  BY <1>1, <1>2, NoExitAssumption DEF ReportIsFinal, ExitMatchesReport, ExitCodes
<1>5. QED
  BY <1>1, <1>2, <1>3, <1>4 DEF Published

(* An exit code that promises no report, when there is none.               *)
LEMMA FailurePublished ==
    ASSUME Published, NEW code \in ExitCodes \ {"SUCCESS", "VIOLATIONS_EXCEED_THRESHOLD"},
           Exit(code), UNCHANGED <<memo, report>>, report = <<>>,
           memo = [view \in Views |-> <<>>]
    PROVE  Published'
<1>1. pc' = "exited" /\ exit' = code /\ exit' # NoExit
  BY NoExitAssumption DEF Exit
<1>2. (\A view \in Views : Fresh(view))'
  BY DEF Fresh
<1>3. ReportIsFinal' /\ ExitMatchesReport'
  BY <1>1 DEF ReportIsFinal, ExitMatchesReport
<1>4. QED
  BY <1>1, <1>2, <1>3 DEF Published

(* Every step keeps report, caches and exit code in agreement.             *)
LEMMA PublishedStep ==
    ASSUME TypeOK, Order, Accounts, Published, [Next]_vars
    PROVE  Published'
<1> USE DEF inputs, progress, frontend, contexts, ruleset, collected, diagnosed
<1>1. CASE ConstructCompileCommands /\ UNCHANGED mainVars
  <2>1. UNCHANGED mainVars /\ opts' = opts /\ pc \notin {"report", "threshold", "exited"}
        /\ pc' \notin {"report", "threshold", "exited"}
    BY <1>1 DEF ConstructCompileCommands
  <2>2. QED
    BY <2>1, EarlyPublished
<1>2. CASE BeginInvoke /\ UNCHANGED mainVars
  <2>1. UNCHANGED mainVars /\ opts' = opts /\ pc \notin {"report", "threshold", "exited"}
        /\ pc' \notin {"report", "threshold", "exited"}
    BY <1>2 DEF BeginInvoke
  <2>2. QED
    BY <2>1, EarlyPublished
<1>3. CASE EndFirstPass /\ UNCHANGED mainVars
  <2>1. UNCHANGED mainVars /\ opts' = opts /\ pc \notin {"report", "threshold", "exited"}
        /\ pc' \notin {"report", "threshold", "exited"}
    BY <1>3 DEF EndFirstPass
  <2>2. QED
    BY <2>1, EarlyPublished
<1>4. CASE Compile /\ UNCHANGED mainVars
  <2>1. UNCHANGED mainVars /\ opts' = opts /\ pc \notin {"report", "threshold", "exited"}
        /\ pc' \notin {"report", "threshold", "exited"}
    BY <1>4 DEF Compile, Invocation
  <2>2. QED
    BY <2>1, EarlyPublished
<1>5. CASE (\E level \in Levels, v \in Diagnosed : HandleDiagnostic(level, v)) /\ UNCHANGED mainVars
  <2>1. UNCHANGED mainVars /\ opts' = opts /\ pc \notin {"report", "threshold", "exited"}
        /\ pc' \notin {"report", "threshold", "exited"}
    BY <1>5 DEF HandleDiagnostic
  <2>2. QED
    BY <2>1, EarlyPublished
<1>6. CASE StartReturns /\ UNCHANGED mainVars
  <2>1. UNCHANGED mainVars /\ opts' = opts /\ pc \notin {"report", "threshold", "exited"}
        /\ pc' \notin {"report", "threshold", "exited"}
    BY <1>6 DEF StartReturns
  <2>2. QED
    BY <2>1, EarlyPublished
<1>7. CASE BeginAnalyze /\ UNCHANGED mainVars
  <2>1. UNCHANGED mainVars /\ opts' = opts /\ pc \notin {"report", "threshold", "exited"}
        /\ pc' \notin {"report", "threshold", "exited"}
    BY <1>7 DEF BeginAnalyze
  <2>2. QED
    BY <2>1, EarlyPublished
<1>8. CASE BeginUnit /\ UNCHANGED mainVars
  <2>1. UNCHANGED mainVars /\ opts' = opts /\ pc \notin {"report", "threshold", "exited"}
        /\ pc' \notin {"report", "threshold", "exited"}
    BY <1>8 DEF BeginUnit
  <2>2. QED
    BY <2>1, EarlyPublished
<1>9. CASE (\E path \in Paths \cup {NoPath}, place \in Places : AddViolation(path, place)) /\ UNCHANGED mainVars
  <2>1. UNCHANGED mainVars /\ opts' = opts /\ pc \notin {"report", "threshold", "exited"}
        /\ pc' \notin {"report", "threshold", "exited"}
    BY <1>9 DEF AddViolation
  <2>2. QED
    BY <2>1, EarlyPublished
<1>10. CASE RuleReturns /\ UNCHANGED mainVars
  <2>1. UNCHANGED mainVars /\ opts' = opts /\ pc \notin {"report", "threshold", "exited"}
        /\ pc' \notin {"report", "threshold", "exited"}
    BY <1>10 DEF RuleReturns
  <2>2. QED
    BY <2>1, EarlyPublished
<1>11. CASE AddSet /\ UNCHANGED mainVars
  <2>1. UNCHANGED mainVars /\ opts' = opts /\ pc \notin {"report", "threshold", "exited"}
        /\ pc' \notin {"report", "threshold", "exited"}
    BY <1>11 DEF AddSet
  <2>2. QED
    BY <2>1, EarlyPublished
<1>12. CASE BeginRelease /\ UNCHANGED mainVars
  <2>1. UNCHANGED mainVars /\ opts' = opts /\ pc \notin {"report", "threshold", "exited"}
        /\ pc' \notin {"report", "threshold", "exited"}
    BY <1>12 DEF BeginRelease
  <2>2. QED
    BY <2>1, EarlyPublished
<1>13. CASE Release /\ UNCHANGED mainVars
  <2>1. UNCHANGED mainVars /\ opts' = opts /\ pc \notin {"report", "threshold", "exited"}
        /\ pc' \notin {"report", "threshold", "exited"}
    BY <1>13 DEF Release
  <2>2. QED
    BY <2>1, EarlyPublished
<1>14. CASE Check /\ UNCHANGED mainVars
  <2>1. UNCHANGED mainVars /\ opts' = opts /\ pc \notin {"report", "threshold", "exited"}
        /\ pc' \notin {"report", "threshold", "exited"}
    BY <1>14 DEF Check, Invocation
  <2>2. QED
    BY <2>1, EarlyPublished
<1>15. CASE CheckReturns /\ UNCHANGED mainVars
  <2>1. UNCHANGED mainVars /\ opts' = opts /\ pc \notin {"report", "threshold", "exited"}
        /\ pc' \notin {"report", "threshold", "exited"}
    BY <1>15 DEF CheckReturns
  <2>2. QED
    BY <2>1, EarlyPublished
<1>16. CASE Prepare
  <2>1. pc = "prepare" /\ UNCHANGED <<memo, report>>
    BY <1>16 DEF Prepare
  <2>2. CASE pc' = "commands" /\ UNCHANGED exit
    BY <2>1, <2>2, EarlyPublished DEF mainVars
  <2>3. CASE \E status \in {"RULE_NOT_FOUND", "REPORTER_NOT_FOUND"} : Exit(status)
    <3>1. PICK status \in {"RULE_NOT_FOUND", "REPORTER_NOT_FOUND"} : Exit(status)
      BY <2>3
    <3>2. status \in ExitCodes \ {"SUCCESS", "VIOLATIONS_EXCEED_THRESHOLD"}
      BY DEF ExitCodes
    <3>3. report = <<>> /\ memo = [view \in Views |-> <<>>]
      BY <2>1 DEF Published
    <3>4. QED
      BY <2>1, <3>1, <3>2, <3>3, FailurePublished
  <2>4. QED
    BY <1>16, <2>2, <2>3 DEF Prepare
<1>17. CASE CatchProcessing
  <2>1. UNCHANGED <<memo, report>> /\ Exit("ERROR_WHILE_PROCESSING")
    BY <1>17 DEF CatchProcessing
  <2>2. report = <<>> /\ memo = [view \in Views |-> <<>>]
    BY <1>17 DEF CatchProcessing, Published
  <2>3. "ERROR_WHILE_PROCESSING" \in ExitCodes \ {"SUCCESS", "VIOLATIONS_EXCEED_THRESHOLD"}
    BY DEF ExitCodes
  <2>4. QED
    BY <2>1, <2>2, <2>3, FailurePublished
<1>18. CASE GetResults
  <2>1. pc = "returned" /\ pc' = "report" /\ memo' = [view \in Views |-> <<>>] /\ UNCHANGED <<report, exit>>
    BY <1>18 DEF GetResults
  <2>2. memo = [view \in Views |-> <<>>]
    BY <2>1 DEF Published
  <2>3. QED
    BY <2>1, <2>2, EarlyPublished DEF mainVars
<1>19. CASE Report
  <2>1. /\ pc = "report" /\ pc' = "threshold" /\ exit' = exit
        /\ UNCHANGED <<opts, collection, errors, warnings, bugs, cmds, failed>>
        /\ memo' = MemoAfter(opts.sections)
    BY <1>19 DEF Report
  <2>2. report = <<>> /\ exit = NoExit /\ \A view \in Views : Fresh(view)
    BY <2>1 DEF Published, ExitMatchesReport
  <2> DEFINE r == [shown |-> [view \in opts.sections |-> View(view)],
                   files |-> Len(collection),
                   filesWithViolations |-> NumberOfFilesWithViolations(collection)]
  <2>3. report' = <<r>>
    <3>1. report' = Append(report, r)
      BY <1>19 DEF Report
    <3>2. QED
      BY <2>2, <3>1
  <2>4. report' # <<>> /\ report'[1] = r
    BY <2>3
  <2>5. ASSUME NEW view \in opts.sections PROVE r.shown[view] = Final(view)'
    <3>1. view \in Views
      BY OptionTypes
    <3>2. View(view) = Final(view)
      BY <2>2, <3>1, ViewIsFinal
    <3>3. Final(view)' = Final(view)
      BY <2>1 DEF Final, RawView
    <3>4. QED
      BY <3>2, <3>3
  <2>6. r.files = Len(cmds) - Cardinality(failed)
    BY <2>1, NumberOfFiles DEF FirstPassDone
  <2>7. ReportIsFinal'
    BY <2>1, <2>4, <2>5, <2>6 DEF ReportIsFinal
  <2>8. ExitMatchesReport'
    BY <2>1, <2>2, <2>4 DEF ExitMatchesReport
  <2>9. DOMAIN report' = {1}
    BY <2>3
  <2>10. QED
    BY <2>1, <2>2, <2>4, <2>7, <2>8, <2>9, MemoStaysFresh DEF Published
<1>20. CASE CatchReporting
  <2>1. UNCHANGED <<memo, report>> /\ Exit("ERROR_WHILE_REPORTING")
    BY <1>20 DEF CatchReporting
  <2>2. report = <<>> /\ memo = [view \in Views |-> <<>>]
    BY <1>20 DEF CatchReporting, Published
  <2>3. "ERROR_WHILE_REPORTING" \in ExitCodes \ {"SUCCESS", "VIOLATIONS_EXCEED_THRESHOLD"}
    BY DEF ExitCodes
  <2>4. QED
    BY <2>1, <2>2, <2>3, FailurePublished
<1>21. CASE Threshold
  <2>1. /\ pc = "threshold" /\ pc' = "exited" /\ report' = report
        /\ UNCHANGED <<opts, collection, errors, warnings, bugs, cmds, failed>>
        /\ memo' = MemoAfter({"violations"})
        /\ exit' = IF Exceeds(View("violations"), opts.limits)
                   THEN "VIOLATIONS_EXCEED_THRESHOLD" ELSE "SUCCESS"
    BY <1>21 DEF Threshold, Exit, Judged
  <2>2. report # <<>> /\ \A view \in Views : Fresh(view)
    BY <2>1 DEF Published
  <2>3. \A view \in Views : Final(view)' = Final(view)
    BY <2>1 DEF Final, RawView
  <2>4. opts.sections \subseteq Views /\ "violations" \in opts.sections
    BY OptionTypes
  <2>5. ReportIsFinal'
    BY <2>1, <2>2, <2>3, <2>4 DEF ReportIsFinal, Published
  <2>6. report[1].shown["violations"] = View("violations")
    BY <2>2, <2>4, ViewIsFinal DEF Published, ReportIsFinal
  <2>7. exit' \in ExitCodes /\ exit' # NoExit
    BY <2>1, NoExitAssumption DEF ExitCodes
  <2>8. ExitMatchesReport'
    BY <2>1, <2>2, <2>6, <2>7 DEF ExitMatchesReport
  <2>9. QED
    BY <2>1, <2>2, <2>5, <2>8, MemoStaysFresh DEF Published
<1>22. CASE UNCHANGED vars
  BY <1>22 DEF Published, Fresh, Final, RawView, ReportIsFinal, ExitMatchesReport, vars, driverVars, mainVars
<1>23. QED
  BY <1>1, <1>2, <1>3, <1>4, <1>5, <1>6, <1>7, <1>8, <1>9, <1>10, <1>11,
     <1>12, <1>13, <1>14, <1>15, <1>16, <1>17, <1>18, <1>19, <1>20, <1>21,
     <1>22
  DEF Next, DriverNext, Exited

-----------------------------------------------------------------------------
(* Every initial state satisfies the inductive invariant.                  *)
LEMMA InitInvariant == Init => IInv
<1> SUFFICES ASSUME Init PROVE IInv
  OBVIOUS
<1>1. TypeOK
  BY TypeInit
<1>2. /\ pc = "prepare" /\ at = 1 /\ unit = 1 /\ upto = 0
      /\ compilers = <<>> /\ origin = <<>> /\ collection = <<>>
      /\ alive = {} /\ failed = {} /\ errors = <<>> /\ bugs = <<>>
      /\ memo = [view \in Views |-> <<>>] /\ report = <<>> /\ exit = NoExit
  BY DEF Init, DriverInit
<1>3. Analysed = {} /\ ToSet(compilers) = {}
  BY <1>2, ToSetEmpty DEF Analysed
<1>4. Positions
  BY <1>2 DEF Positions
<1>5. Order
  BY <1>2 DEF Order, Increasing
<1>6. Accounts
  BY <1>2, <1>3 DEF Accounts, FirstPassDone
<1>7. Modes
  BY <1>2 DEF Modes, InInvoke
<1>8. Diagnoses
  BY <1>2 DEF Diagnoses, ErrorsExplainMissing
<1>9. Published
  BY <1>2, NoExitAssumption DEF Published, Fresh, ReportIsFinal, ExitMatchesReport, ExitCodes
<1>10. QED
  BY <1>1, <1>4, <1>5, <1>6, <1>7, <1>8, <1>9 DEF IInv

(* The invariant is inductive.                                             *)
LEMMA InvariantStep == IInv /\ [Next]_vars => IInv'
<1> SUFFICES ASSUME IInv, [Next]_vars PROVE IInv'
  OBVIOUS
<1>1. TypeOK /\ Positions /\ Order /\ Accounts /\ Modes /\ Diagnoses /\ Published
  BY DEF IInv
<1>2. report # <<>> => pc \in {"threshold", "exited"}
  BY <1>1 DEF Published
<1>3. TypeOK' /\ Positions'
  BY <1>1, TypeStep, PositionsStep
<1>4. Order' /\ Accounts'
  BY <1>1, <1>2, OrderStep, AccountsStep
<1>5. Modes' /\ Diagnoses'
  BY <1>1, ModesStep, DiagnosesStep
<1>6. Published'
  BY <1>1, PublishedStep
<1>7. QED
  BY <1>3, <1>4, <1>5, <1>6 DEF IInv

(* The inductive invariant holds in every reachable state.                 *)
THEOREM Invariance == Spec => []IInv
  BY InitInvariant, InvariantStep, PTL DEF Spec

(* Every variable keeps its type.                                          *)
THEOREM TypeCorrect == Spec => []TypeOK
<1>1. IInv => TypeOK
  BY DEF IInv
<1>2. QED
  BY <1>1, Invariance, PTL

(***************************************************************************)
(* invoke uses a context only between the compilation that made it, which  *)
(* reported no error, and its release: whatever the number of commands,    *)
(* the mode, and the outcome of each compilation.                          *)
(***************************************************************************)
THEOREM ContextsAreAlive == Spec => []ContextsAlive
<1>1. ASSUME IInv PROVE ContextsAlive
  <2>1. SUFFICES ASSUME pc \in {"analyze", "takeoff", "release"},
                        NEW i \in unit..Len(compilers)
                 PROVE  compilers[i] \in alive \ failed
    BY DEF ContextsAlive
  <2>2. compilers[i] \in Pending
    BY <2>1 DEF Pending, Rest
  <2>3. Pending \subseteq ToSet(compilers) /\ ToSet(compilers) \cap failed = {}
    BY <1>1, InvokeTypes DEF IInv, Accounts
  <2>4. Pending \subseteq alive
    BY <1>1, <2>1, <2>3 DEF IInv, Accounts
  <2>5. QED
    BY <2>2, <2>3, <2>4
<1>2. QED
  BY <1>1, Invariance, PTL

(* Per file, one compiled translation unit at a time is in memory.         *)
THEOREM OneContext == Spec => []OneContextAtATime
<1>1. ASSUME IInv PROVE OneContextAtATime
  <2>1. SUFFICES ASSUME ~opts.global, NEW k \in alive \ failed, NEW l \in alive \ failed
                 PROVE  k = l
    BY DEF OneContextAtATime
  <2>2. k \in ToSet(compilers) /\ l \in ToSet(compilers)
    BY <1>1 DEF IInv, Accounts
  <2>3. compilers \in Seq(Commands1) /\ Len(compilers) <= 1
    BY <1>1, <2>1 DEF IInv, TypeOK, Modes
  <2>4. QED
    BY <2>2, <2>3, ShortSequence
<1>2. QED
  BY <1>1, Invariance, PTL

(* In global mode no rule flies before every command was compiled.         *)
THEOREM WholeProgramIsFirst == Spec => []WholeProgramFirst
<1>1. ASSUME IInv PROVE WholeProgramFirst
  <2>1. SUFFICES ASSUME opts.global, pc = "takeoff" \/ collection # <<>>
                 PROVE  ToSet(compilers) \cup failed = Commands1
    BY DEF WholeProgramFirst
  <2>2. collection # <<>> => origin # <<>>
    <3>1. collection \in Seq(Seq(Violation)) /\ Len(collection) = Len(origin)
      BY <1>1 DEF IInv, TypeOK, Accounts
    <3>2. collection # <<>> => Len(collection) # 0
      BY <3>1, EmptySeq
    <3>3. Len(<<>>) = 0
      OBVIOUS
    <3>4. QED
      BY <3>1, <3>2, <3>3
  <2>3. QED
    BY <1>1, <2>1, <2>2 DEF IInv, Modes
<1>2. QED
  BY <1>1, Invariance, PTL

(***************************************************************************)
(* No command is forgotten, analysed twice, analysed out of order, or      *)
(* analysed although it did not compile; after the first pass nothing of a *)
(* command that compiled is left allocated.                                *)
(***************************************************************************)
THEOREM AccountedFor == Spec => []EveryCommandAccountedFor
<1>1. IInv => EveryCommandAccountedFor
  BY DEF IInv, Order, Accounts, Increasing, EveryCommandAccountedFor, Analysed
<1>2. QED
  BY <1>1, Invariance, PTL

(* A unit is missing exactly when a compiler error is on record.           *)
THEOREM MissingIsExplained == Spec => []ErrorsExplainMissing
<1>1. IInv => ErrorsExplainMissing
  BY DEF IInv, Diagnoses
<1>2. QED
  BY <1>1, Invariance, PTL

(* The checker pass speaks last, and only when asked.                      *)
THEOREM BugsAreLast == Spec => []BugsComeLast
<1>1. IInv => BugsComeLast
  BY DEF IInv, Diagnoses, BugsComeLast, Analysed
<1>2. QED
  BY <1>1, Invariance, PTL

(* What was printed is what the collector holds when the program exits.    *)
THEOREM ReportStaysTrue == Spec => []ReportIsFinal
<1>1. IInv => ReportIsFinal
  BY DEF IInv, Published
<1>2. QED
  BY <1>1, Invariance, PTL

(***************************************************************************)
(* The exit code tells whether there is a report, and whether the report   *)
(* is within the thresholds.                                               *)
(***************************************************************************)
THEOREM ExitCodeIsHonest == Spec => []ExitMatchesReport
<1>1. IInv => ExitMatchesReport
  BY DEF IInv, Published
<1>2. QED
  BY <1>1, Invariance, PTL

-----------------------------------------------------------------------------
(***************************************************************************)
(* The passes over the vectors of violations, by induction over their      *)
(* length.                                                                 *)
(***************************************************************************)
(* One turn of the loop of removeViolationDuplications.                    *)
LEMMA KeepIfNewType ==
    ASSUME NEW S, NEW kept \in Seq(S), NEW v \in S
    PROVE  KeepIfNew(kept, v) \in Seq(S)
  BY AppendProperties DEF KeepIfNew

(* The vector after each turn is well defined.                             *)
LEMMA KeptTurns ==
    ASSUME NEW S, NEW vs \in Seq(S)
    PROVE  /\ KeptSoFar(vs) \in [0..Len(vs) -> Seq(S)]
           /\ KeptSoFar(vs)[0] = <<>>
           /\ \A n \in 1..Len(vs) : KeptSoFar(vs)[n] = KeepIfNew(KeptSoFar(vs)[n - 1], vs[n])
<1> DEFINE N == Len(vs)
           G == [n \in 1..N |-> [kept \in Seq(S) |-> KeepIfNew(kept, vs[n])]]
           Body(kept) == [n \in 0..N |->
                            IF n = 0 THEN <<>> ELSE KeepIfNew(kept[n - 1], vs[n])]
<1>1. N \in Nat /\ \A n \in 1..N : vs[n] \in S
  BY LenProperties, ElementOfSeq
<1>2. G \in [1..N -> [Seq(S) -> Seq(S)]]
  <2>1. \A n \in 1..N, kept \in Seq(S) : KeepIfNew(kept, vs[n]) \in Seq(S)
    BY <1>1, KeepIfNewType
  <2> QED
    BY <2>1
<1>3. PICK f : IsRecursion(f, Seq(S), <<>>, N, G)
  <2>1. <<>> \in Seq(S)
    BY EmptySeq
  <2> HIDE DEF G, N
  <2> QED
    BY <1>1, <1>2, <2>1, RecursionExists
<1>4. \A n \in 1..N : f[n] = KeepIfNew(f[n - 1], vs[n])
  <2>1. ASSUME NEW n \in 1..N PROVE f[n] = KeepIfNew(f[n - 1], vs[n])
    <3>1. n - 1 \in 0..N
      BY <1>1
    <3>2. f[n - 1] \in Seq(S) /\ f[n] = G[n][f[n - 1]]
      BY <3>1, <1>3 DEF IsRecursion
    <3> QED
      BY <3>2
  <2> QED
    BY <2>1
<1>5. f = Body(f)
  <2>1. \A n \in 0..N : f[n] = IF n = 0 THEN <<>> ELSE KeepIfNew(f[n - 1], vs[n])
    BY <1>1, <1>3, <1>4 DEF IsRecursion
  <2>2. f = [n \in 0..N |-> f[n]]
    BY <1>3 DEF IsRecursion
  <2> HIDE DEF N
  <2> QED
    BY <2>1, <2>2
<1>6. KeptSoFar(vs) = CHOOSE kept : kept = Body(kept)
  BY DEF KeptSoFar
<1> HIDE DEF Body
<1>7. KeptSoFar(vs) = Body(KeptSoFar(vs))
  BY <1>5, <1>6
<1> DEFINE k == KeptSoFar(vs)
<1>8. k = [n \in 0..N |-> IF n = 0 THEN <<>> ELSE KeepIfNew(k[n - 1], vs[n])]
  BY <1>7 DEF Body
<1> HIDE DEF k
<1>9. k[0] = <<>> /\ \A n \in 1..N : k[n] = KeepIfNew(k[n - 1], vs[n])
  BY <1>1, <1>8
<1>10. \A n \in 0..N : k[n] \in Seq(S)
  <2> DEFINE T == {n \in 0..N : k[n] \in Seq(S)}
  <2>1. 0 \in T
    <3>1. k[0] \in Seq(S)
      BY <1>9, EmptySeq
    <3> QED
      BY <3>1, <1>1
  <2>2. ASSUME NEW n \in T, n < N PROVE n + 1 \in T
    <3>1. n + 1 \in 1..N /\ (n + 1) - 1 = n
      BY <2>2, <1>1
    <3>2. k[n + 1] = KeepIfNew(k[n], vs[n + 1])
      BY <3>1, <1>9
    <3>3. k[n] \in Seq(S) /\ vs[n + 1] \in S
      BY <3>1, <1>1
    <3>4. k[n + 1] \in Seq(S)
      BY <3>2, <3>3, KeepIfNewType
    <3> QED
      BY <3>1, <3>4
  <2>3. T = 0..N
    <3>1. T \in SUBSET (0..N)
      OBVIOUS
    <3> HIDE DEF T
    <3> QED
      BY <1>1, <2>1, <2>2, <3>1, BoundedInduction
  <2> QED
    BY <2>3
<1>11. k \in [0..N -> Seq(S)]
  <2>1. k = [n \in 0..N |-> k[n]]
    BY <1>8
  <2> QED
    BY <2>1, <1>10
<1> QED
  BY <1>9, <1>11 DEF k

(* What occurs in a sequence has a first occurrence.                       *)
LEMMA FirstOccurrence ==
    ASSUME NEW S, NEW vs \in Seq(S), NEW i \in DOMAIN vs
    PROVE  LET at1 == Contract!FirstAt(vs, vs[i])
           IN  /\ at1 \in 1..i
               /\ vs[at1] = vs[i]
               /\ \A j \in 1..(at1 - 1) : vs[j] # vs[i]
<1> DEFINE T == {j \in 1..Len(vs) : vs[j] = vs[i]}
<1>1. Len(vs) \in Nat /\ DOMAIN vs = 1..Len(vs)
  BY LenProperties
<1>2. T \in SUBSET Nat /\ i \in T
  BY <1>1
<1>3. PICK m \in T : \A j \in T : m <= j
  <2> HIDE DEF T
  <2> QED
    BY <1>2, LeastElement
<1>4. m \in DOMAIN vs /\ vs[m] = vs[i] /\ m \in 1..i
  BY <1>1, <1>2, <1>3
<1>5. \A j \in 1..(m - 1) : vs[j] # vs[i]
  BY <1>1, <1>3
<1> DEFINE Is(p) == p \in DOMAIN vs /\ vs[p] = vs[i] /\ \A j \in 1..(p - 1) : vs[j] # vs[i]
           at1 == Contract!FirstAt(vs, vs[i])
<1>6. at1 = CHOOSE p \in DOMAIN vs : vs[p] = vs[i] /\ \A j \in 1..(p - 1) : vs[j] # vs[i]
  BY DEF Contract!FirstAt
<1> HIDE DEF at1
<1>7. Is(at1)
  BY <1>4, <1>5, <1>6
<1>8. at1 \in 1..i
  BY <1>1, <1>2, <1>7
<1> QED
  BY <1>7, <1>8 DEF at1

(* removeViolationDuplications lists what it is given once, in the order   *)
(* in which it first came up: the second paragraph of a report's contract. *)
LEMMA UniqueListsOnce ==
    ASSUME NEW S, NEW vs \in Seq(S)
    PROVE  Contract!ListsOnce(Unique(vs), vs)
<1> DEFINE N == Len(vs)
           First(v) == Contract!FirstAt(vs, v)
           k == KeptSoFar(vs)
           Upto(n) == {vs[i] : i \in 1..n}
           InOrder(r) == \A i, j \in DOMAIN r : i < j => First(r[i]) < First(r[j])
           T == {n \in 0..N : ToSet(k[n]) = Upto(n) /\ InOrder(k[n])}
<1>1. N \in Nat /\ DOMAIN vs = 1..N /\ \A i \in 1..N : vs[i] \in S
  BY LenProperties, ElementOfSeq
<1>2. /\ \A n \in 0..N : k[n] \in Seq(S)
      /\ k[0] = <<>>
      /\ \A n \in 1..N : k[n] = KeepIfNew(k[n - 1], vs[n])
  BY KeptTurns
<1>3. \A i \in 1..N : First(vs[i]) \in 1..i /\ vs[First(vs[i])] = vs[i]
  BY <1>1, FirstOccurrence
<1> HIDE DEF First, k, N
<1>4. 0 \in T
  <2>1. ToSet(<<>>) = {} /\ Upto(0) = {} /\ DOMAIN <<>> = {}
    BY DEF ToSet
  <2>2. InOrder(<<>>)
    BY <2>1
  <2> QED
    BY <1>1, <1>2, <2>1, <2>2
<1>5. ASSUME NEW n \in T, n < N PROVE n + 1 \in T
  <2> DEFINE v == vs[n + 1]
             s == k[n]
             t == k[n + 1]
  <2>1. n \in Nat /\ n + 1 \in 1..N /\ (n + 1) - 1 = n /\ n \in 0..N
    BY <1>1, <1>5
  <2>2. s \in Seq(S) /\ v \in S /\ t = KeepIfNew(s, v)
    BY <1>1, <1>2, <2>1
  <2>3. ToSet(s) = Upto(n) /\ InOrder(s)
    OBVIOUS
  <2>4. Upto(n + 1) = Upto(n) \cup {v}
    <3>1. 1..(n + 1) = 1..n \cup {n + 1}
      BY <2>1
    <3> QED
      BY <3>1
  <2> HIDE DEF s, t, Upto, InOrder, v, T
  <2>5. CASE v \in ToSet(s)
    <3>1. t = s /\ Upto(n + 1) = Upto(n)
      BY <2>2, <2>3, <2>4, <2>5 DEF KeepIfNew
    <3> QED
      BY <3>1, <2>1, <2>3 DEF s, t, T
  <2>6. CASE v \notin ToSet(s)
    <3>1. t = Append(s, v)
      BY <2>2, <2>6 DEF KeepIfNew
    <3>0. s \in Seq(S) /\ v \in S
      BY <2>2
    <3>2. ToSet(t) = Upto(n + 1)
      <4>1. ToSet(Append(s, v)) = ToSet(s) \cup {v}
        BY <3>0, ToSetAppend
      <4> QED
        BY <4>1, <3>1, <2>3, <2>4
    <3>3. /\ t \in Seq(S) /\ Len(s) \in Nat /\ Len(t) = Len(s) + 1
          /\ DOMAIN s = 1..Len(s) /\ DOMAIN t = 1..(Len(s) + 1)
          /\ \A i \in 1..Len(s) : t[i] = s[i]
          /\ t[Len(s) + 1] = v
      <4>1. t \in Seq(S) /\ Len(t) = Len(s) + 1
        BY <3>0, <3>1, AppendProperties
      <4>2. Len(s) \in Nat /\ DOMAIN s = 1..Len(s)
        BY <3>0, LenProperties
      <4>3. DOMAIN t = 1..(Len(s) + 1)
        BY <4>1, LenProperties
      <4>4. (\A i \in 1..Len(s) : t[i] = s[i]) /\ t[Len(s) + 1] = v
        BY <3>0, <3>1, AppendProperties
      <4> QED
        BY <4>1, <4>2, <4>3, <4>4
    <3>4. First(v) = n + 1
      <4>1. First(v) \in 1..(n + 1) /\ vs[First(v)] = v
        BY <1>3, <2>1 DEF v
      <4>2. First(v) \notin 1..n
        BY <4>1, <2>3, <2>6 DEF Upto
      <4> QED
        BY <4>1, <4>2, <2>1
    <3>5. \A i \in DOMAIN s : First(s[i]) \in 1..n
      <4>1. ASSUME NEW i \in DOMAIN s PROVE First(s[i]) \in 1..n
        <5>1. s[i] \in Upto(n)
          BY <2>3 DEF ToSet
        <5>2. PICK m \in 1..n : s[i] = vs[m]
          BY <5>1 DEF Upto
        <5>3. m \in 1..N
          BY <1>1, <2>1
        <5>4. First(vs[m]) \in 1..m
          BY <1>3, <5>3
        <5> QED
          BY <5>2, <5>4, <2>1
      <4> QED
        BY <4>1
    <3>6. InOrder(t)
      <4>1. ASSUME NEW i \in DOMAIN t, NEW j \in DOMAIN t, i < j
            PROVE  First(t[i]) < First(t[j])
        <5>1. i \in DOMAIN s /\ t[i] = s[i]
          BY <3>3, <4>1
        <5>2. CASE j \in DOMAIN s
          BY <5>1, <5>2, <3>3, <4>1, <2>3 DEF InOrder
        <5>3. CASE j = Len(s) + 1
          <6>1. First(t[j]) = n + 1
            BY <5>3, <3>3, <3>4
          <6>2. First(t[i]) \in 1..n
            BY <5>1, <3>5
          <6> QED
            BY <6>1, <6>2, <2>1
        <5> QED
          BY <5>2, <5>3, <3>3
      <4> QED
        BY <4>1 DEF InOrder
    <3> QED
      BY <2>1, <3>2, <3>6 DEF t, T
  <2> QED
    BY <2>5, <2>6
<1>6. T = 0..N
  <2>1. T \in SUBSET (0..N)
    OBVIOUS
  <2> HIDE DEF T
  <2> QED
    BY <1>1, <1>4, <1>5, <2>1, BoundedInduction
<1>7. ToSet(k[N]) = Upto(N) /\ InOrder(k[N])
  <2>1. N \in 0..N
    BY <1>1
  <2>2. N \in T
    BY <2>1, <1>6
  <2> QED
    BY <2>2
<1>8. Unique(vs) = k[N]
  BY DEF Unique, k, N
<1>9. Upto(N) = ToSet(vs)
  BY <1>1 DEF ToSet
<1>10. Contract!ToSet(Unique(vs)) = Contract!ToSet(vs)
  BY <1>7, <1>8, <1>9 DEF ToSet, Contract!ToSet
<1> QED
  BY <1>7, <1>8, <1>10 DEF Contract!ListsOnce, First

(* The sets of the collector hold violations, and so does what RawResults  *)
(* makes of them.                                                          *)
LEMMA ConcatenatedType ==
    ASSUME NEW S, NEW sets \in Seq(Seq(S))
    PROVE  Concatenated(sets) \in Seq(S)
BY FlattenType DEF Concatenated

-----------------------------------------------------------------------------
(***************************************************************************)
(* A run of oclint implements the contract of a lint run, step by step.    *)
(***************************************************************************)
(* A step that leaves options, collection, report and exit code alone is   *)
(* none of the caller's business.                                          *)
LEMMA ContractStutters ==
    ASSUME UNCHANGED <<opts, collection, report, exit>>
    PROVE  UNCHANGED Contract!contractVars
  BY DEF Contract!contractVars

(* As long as there is no report and no exit code, the lint run goes on.   *)
LEMMA ContractRuns ==
    ASSUME Published, pc \notin {"threshold", "exited"}
    PROVE  Contract!Running
<1>1. report = <<>> /\ exit = NoExit
  BY DEF Published, ExitMatchesReport
<1>2. [i \in DOMAIN report |-> report[i].shown["violations"]] = <<>>
  BY <1>1
<1> QED
  BY <1>1, <1>2 DEF Contract!Running

(* AddSet gathers one more set.                                            *)
LEMMA AddSetGathers ==
    ASSUME IInv, AddSet, UNCHANGED mainVars
    PROVE  Contract!Gather
<1>1. /\ pc = "takeoff" /\ collection' = Append(collection, found)
      /\ UNCHANGED <<opts, report, exit>>
  BY DEF AddSet, inputs, mainVars
<1>2. Contract!Running
  BY <1>1, ContractRuns DEF IInv
<1>3. collection \in Seq(Seq(Violation)) /\ found \in Seq(Violation)
  BY DEF IInv, TypeOK
<1>4. /\ collection' \in Seq(Seq(Violation)) /\ Len(collection) \in Nat
      /\ Len(collection') = Len(collection) + 1
  BY <1>1, <1>3, AppendProperties, LenProperties
<1>5. collection' # <<>>
  BY <1>4, EmptySeq
<1>6. Contract!Front(collection') = collection
  <2>1. Contract!Front(collection') = SubSeq(collection', 1, Len(collection))
    BY <1>4 DEF Contract!Front
  <2>2. SubSeq(Append(collection, found), 1, Len(collection)) = collection
    BY <1>3, <1>4, AppendProperties, LenProperties
  <2> QED
    BY <2>1, <2>2, <1>1
<1> QED
  BY <1>1, <1>2, <1>5, <1>6 DEF Contract!Gather

(* What the report shows is what a caller may expect of the sets.          *)
LEMMA ShownIsPromised ==
    ASSUME IInv
    PROVE  IF opts.dups
           THEN Final("violations") = Contract!Concatenated(collection)
           ELSE Contract!ListsOnce(Final("violations"), Contract!Concatenated(collection))
<1>1. Concatenated(collection) \in Seq(Violation)
  BY ConcatenatedType DEF IInv, TypeOK
<1>2. Contract!Concatenated(collection) = Concatenated(collection)
  BY DEF Concatenated, FlattenSeq, Contract!Concatenated, Contract!FlattenSeq
<1>3. RawView("violations") = Concatenated(collection)
  BY DEF RawView
<1> QED
  BY <1>1, <1>2, <1>3, UniqueListsOnce DEF Final

(* Report publishes.                                                       *)
LEMMA ReportPublishes ==
    ASSUME IInv, Report
    PROVE  Contract!Publish
<1> DEFINE r == [shown |-> [view \in opts.sections |-> View(view)],
                 files |-> Len(collection),
                 filesWithViolations |-> NumberOfFilesWithViolations(collection)]
           shown == View("violations")
<1>1. /\ pc = "report" /\ report' = Append(report, r)
      /\ UNCHANGED <<opts, collection, exit>>
  BY DEF Report, inputs, collected
<1>2. Contract!Running
  BY <1>1, ContractRuns DEF IInv
<1>3. report = <<>>
  BY <1>1 DEF IInv, Published
<1>4. report' = <<r>>
  BY <1>1, <1>3
<1>5. "violations" \in opts.sections /\ Fresh("violations")
  BY OptionTypes DEF IInv, TypeOK, Published, Views
<1>6. shown = Final("violations")
  BY <1>5, ViewIsFinal DEF Views
<1>7. [i \in DOMAIN report' |-> report'[i].shown["violations"]] = <<shown>>
  <2>1. r.shown["violations"] = shown
    BY <1>5
  <2> HIDE DEF r, shown
  <2>2. DOMAIN <<r>> = {1} /\ <<r>>[1] = r
    OBVIOUS
  <2>3. [i \in DOMAIN report' |-> report'[i].shown["violations"]] = [i \in {1} |-> shown]
    BY <1>4, <2>1, <2>2
  <2>4. [i \in {1} |-> shown] = <<shown>>
    OBVIOUS
  <2> QED
    BY <2>3, <2>4
<1> HIDE DEF r, shown
<1>8. Len(<<shown>>) = 1 /\ <<shown>>[1] = shown
  OBVIOUS
<1>9. /\ (opts.dups => shown = Contract!Concatenated(collection))
      /\ (~opts.dups => Contract!ListsOnce(shown, Contract!Concatenated(collection)))
  BY <1>6, ShownIsPromised
<1> QED
  BY <1>1, <1>2, <1>7, <1>8, <1>9 DEF Contract!Publish

(* The contract counts violations as main.cpp does.                        *)
LEMMA SameThreshold ==
    ASSUME NEW vs, NEW max
    PROVE  Contract!Exceeds(vs, max) <=> Exceeds(vs, max)
<1>1. \A S : Contract!Cardinality(S) = Cardinality(S)
  BY DEF Cardinality, Contract!Cardinality, IsFiniteSet, Contract!IsFiniteSet
<1>2. \A p : Contract!NumberWithPriority(vs, p) = NumberWithPriority(vs, p)
  BY <1>1 DEF NumberWithPriority, Contract!NumberWithPriority
<1> QED
  BY <1>2 DEF Exceeds, Contract!Exceeds

(* Threshold judges what was published.                                    *)
LEMMA ThresholdJudges ==
    ASSUME IInv, Threshold
    PROVE  Contract!Judge
<1> DEFINE published == [i \in DOMAIN report |-> report[i].shown["violations"]]
<1>1. /\ pc = "threshold" /\ UNCHANGED <<opts, collection, report>>
      /\ exit' = IF Exceeds(View("violations"), opts.limits)
                 THEN "VIOLATIONS_EXCEED_THRESHOLD" ELSE "SUCCESS"
  BY DEF Threshold, Exit, Judged, inputs, collected
<1>2. /\ report # <<>> /\ DOMAIN report = {1} /\ exit = NoExit
      /\ Fresh("violations") /\ ReportIsFinal
  BY <1>1 DEF IInv, Published, ExitMatchesReport, Views
<1>3. "violations" \in opts.sections
  BY OptionTypes DEF IInv, TypeOK
<1>4. report[1].shown["violations"] = View("violations")
  BY <1>2, <1>3, ViewIsFinal DEF ReportIsFinal, Views
<1>5. published[1] = View("violations") /\ DOMAIN published = {1}
  BY <1>2, <1>4
<1>6. published # <<>>
  <2> HIDE DEF published
  <2>1. DOMAIN <<>> = {}
    OBVIOUS
  <2> QED
    BY <1>5, <2>1
<1>7. Contract!Exceeds(View("violations"), opts.limits) <=> Exceeds(View("violations"), opts.limits)
  BY SameThreshold
<1>8. published' = published
  BY <1>1
<1> QED
  BY <1>1, <1>2, <1>5, <1>6, <1>7 DEF Contract!Judge

(* Each step of the program is a step of the contract, or the caller does  *)
(* not see it.                                                             *)
LEMMA ContractStep ==
    ASSUME IInv, [Next]_vars
    PROVE  [Contract!ContractNext]_(Contract!contractVars)
<1> DEFINE Silent == UNCHANGED <<opts, collection, report, exit>>
<1>0. ASSUME Silent PROVE UNCHANGED Contract!contractVars
  BY <1>0, ContractStutters
<1> USE DEF inputs, collected, mainVars
<1>1. CASE ConstructCompileCommands /\ UNCHANGED mainVars
  BY <1>1, <1>0 DEF ConstructCompileCommands
<1>2. CASE BeginInvoke /\ UNCHANGED mainVars
  BY <1>2, <1>0 DEF BeginInvoke
<1>3. CASE EndFirstPass /\ UNCHANGED mainVars
  BY <1>3, <1>0 DEF EndFirstPass
<1>4. CASE Compile /\ UNCHANGED mainVars
  BY <1>4, <1>0 DEF Compile, Invocation
<1>5. CASE (\E level \in Levels, v \in Diagnosed : HandleDiagnostic(level, v)) /\ UNCHANGED mainVars
  BY <1>5, <1>0 DEF HandleDiagnostic
<1>6. CASE StartReturns /\ UNCHANGED mainVars
  BY <1>6, <1>0 DEF StartReturns
<1>7. CASE BeginAnalyze /\ UNCHANGED mainVars
  BY <1>7, <1>0 DEF BeginAnalyze
<1>8. CASE BeginUnit /\ UNCHANGED mainVars
  BY <1>8, <1>0 DEF BeginUnit
<1>9. CASE (\E path \in Paths \cup {NoPath}, place \in Places : AddViolation(path, place)) /\ UNCHANGED mainVars
  BY <1>9, <1>0 DEF AddViolation
<1>10. CASE RuleReturns /\ UNCHANGED mainVars
  BY <1>10, <1>0 DEF RuleReturns
<1>11. CASE AddSet /\ UNCHANGED mainVars
  BY <1>11, AddSetGathers DEF Contract!ContractNext
<1>12. CASE BeginRelease /\ UNCHANGED mainVars
  BY <1>12, <1>0 DEF BeginRelease
<1>13. CASE Release /\ UNCHANGED mainVars
  BY <1>13, <1>0 DEF Release
<1>14. CASE Check /\ UNCHANGED mainVars
  BY <1>14, <1>0 DEF Check, Invocation
<1>15. CASE CheckReturns /\ UNCHANGED mainVars
  BY <1>15, <1>0 DEF CheckReturns
<1>16. CASE Prepare
  <2>1. /\ UNCHANGED <<opts, collection, report>>
        /\ pc \notin {"threshold", "exited"}
        /\ exit' = exit \/ exit' \in {"RULE_NOT_FOUND", "REPORTER_NOT_FOUND"}
    BY <1>16 DEF Prepare, Exit
  <2>2. Contract!Running
    BY <2>1, ContractRuns DEF IInv
  <2>3. CASE exit' = exit
    BY <2>1, <2>3, <1>0
  <2>4. CASE exit' \in {"RULE_NOT_FOUND", "REPORTER_NOT_FOUND"}
    <3>1. Contract!Fail
      BY <2>1, <2>2, <2>4 DEF Contract!Fail, Contract!Failures
    <3> QED
      BY <3>1 DEF Contract!ContractNext
  <2> QED
    BY <2>1, <2>3, <2>4
<1>17. CASE CatchProcessing
  <2>1. /\ UNCHANGED <<opts, collection, report>> /\ exit' = "ERROR_WHILE_PROCESSING"
        /\ pc \notin {"threshold", "exited"}
    BY <1>17 DEF CatchProcessing, Exit
  <2>2. Contract!Running
    BY <2>1, ContractRuns DEF IInv
  <2>3. Contract!Fail
    BY <2>1, <2>2 DEF Contract!Fail, Contract!Failures
  <2> QED
    BY <2>3 DEF Contract!ContractNext
<1>18. CASE GetResults
  BY <1>18, <1>0 DEF GetResults
<1>19. CASE Report
  BY <1>19, ReportPublishes DEF Contract!ContractNext
<1>20. CASE CatchReporting
  <2>1. /\ UNCHANGED <<opts, collection, report>> /\ exit' = "ERROR_WHILE_REPORTING"
        /\ pc \notin {"threshold", "exited"}
    BY <1>20 DEF CatchReporting, Exit
  <2>2. Contract!Running
    BY <2>1, ContractRuns DEF IInv
  <2>3. Contract!Fail
    BY <2>1, <2>2 DEF Contract!Fail, Contract!Failures
  <2> QED
    BY <2>3 DEF Contract!ContractNext
<1>21. CASE Threshold
  BY <1>21, ThresholdJudges DEF Contract!ContractNext
<1>22. CASE UNCHANGED vars
  BY <1>22, <1>0 DEF vars, driverVars
<1> QED
  BY <1>1, <1>2, <1>3, <1>4, <1>5, <1>6, <1>7, <1>8, <1>9, <1>10,
     <1>11, <1>12, <1>13, <1>14, <1>15, <1>16, <1>17, <1>18, <1>19,
     <1>20, <1>21, <1>22
  DEF Next, DriverNext, Exited

(* The program starts with nothing gathered and nothing published.         *)
LEMMA ContractStart == Init => Contract!ContractInit
<1> SUFFICES ASSUME Init PROVE Contract!ContractInit
  OBVIOUS
<1>1. collection = <<>> /\ report = <<>> /\ exit = NoExit /\ TypeOK
  BY TypeInit DEF Init, DriverInit
<1>2. opts.dups \in BOOLEAN
  BY <1>1, OptionTypes
<1>3. [i \in DOMAIN report |-> report[i].shown["violations"]] = <<>>
  BY <1>1
<1> QED
  BY <1>1, <1>2, <1>3 DEF Contract!ContractInit

(***************************************************************************)
(* A run of oclint, with its driver, its two passes and its caches, is to  *)
(* its caller a run of LintContract: it forgets no violation set, fails    *)
(* without publishing or publishes once, after the last set, all it        *)
(* gathered, every violation once and in order unless duplicates are       *)
(* wanted, and its exit code is a function of what it published.           *)
(***************************************************************************)
THEOREM ContractImplemented == Spec => ImplementsContract
<1>1. Init => Contract!ContractInit
  BY ContractStart
<1>2. IInv /\ [Next]_vars => [Contract!ContractNext]_(Contract!contractVars)
  BY ContractStep
<1> QED
  BY <1>1, <1>2, Invariance, PTL DEF Spec, ImplementsContract, Contract!ContractSpec
=============================================================================
