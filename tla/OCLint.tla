------------------------------- MODULE OCLint -------------------------------
(***************************************************************************)
(* One run of the oclint program: main.cpp around Driver::run.             *)
(*                                                                         *)
(* prepare loads rules and reporter; Driver::run fills the collector; the  *)
(* results view is created over it, the reporter writes it, the threshold  *)
(* is applied to it; every path ends in sendAnalyticsAndExit with a code.  *)
(***************************************************************************)
EXTENDS Driver

CONSTANT NoExit  \* the program has not exited

(* The four things a reporter can ask the results for.                     *)
Views == {"violations", "errors", "warnings", "bugs"}

ASSUME OptionsAssumption ==
    \A o \in Options :
      /\ o.dups \in BOOLEAN
      /\ o.limits \in [1..3 -> Int]
      /\ o.output \in BOOLEAN
      /\ o.sections \subseteq Views
      /\ "violations" \in o.sections

VARIABLES
    memo,    \* the four mutable vectors of UniqueResults
    report,  \* what was written: a sequence of at most one report
    exit     \* the exit code of the process

mainVars == <<memo, report, exit>>
vars == <<driverVars, mainVars>>

ExitCodes == {"SUCCESS", "RULE_NOT_FOUND", "REPORTER_NOT_FOUND",
              "ERROR_WHILE_PROCESSING", "ERROR_WHILE_REPORTING",
              "VIOLATIONS_EXCEED_THRESHOLD"}

ASSUME NoExitAssumption == NoExit \notin ExitCodes

-----------------------------------------------------------------------------
Init ==
    /\ DriverInit
    /\ pc = "prepare"
    /\ memo = [view \in Views |-> <<>>]
    /\ report = <<>>
    /\ exit = NoExit

Exit(code) == exit' = code /\ pc' = "exited"

(***************************************************************************)
(* prepare: a rule library that cannot be opened, no rule at all, and a    *)
(* reporter that cannot be found end the program before it read a source.  *)
(***************************************************************************)
Prepare ==
    /\ pc = "prepare"
    /\ \/ pc' = "commands" /\ UNCHANGED exit
       \/ \E status \in {"RULE_NOT_FOUND", "REPORTER_NOT_FOUND"} : Exit(status)
    /\ UNCHANGED <<inputs, progress, frontend, contexts, ruleset, collected,
                   diagnosed, memo, report>>

(* The catch clause around Driver::run: what was collected is not shown.   *)
CatchProcessing ==
    /\ pc = "threw"
    /\ Exit("ERROR_WHILE_PROCESSING")
    /\ UNCHANGED <<inputs, progress, frontend, contexts, ruleset, collected,
                   diagnosed, memo, report>>

(* getResults: the view is created after the collector stopped growing.    *)
GetResults ==
    /\ pc = "returned"
    /\ memo' = [view \in Views |-> <<>>]
    /\ pc' = "report"
    /\ UNCHANGED <<inputs, progress, frontend, contexts, ruleset, collected,
                   diagnosed, report, exit>>

(***************************************************************************)
(* RawResults and UniqueResults: what a view of the collector shows.       *)
(* UniqueResults remembers a view that is not empty and computes an empty  *)
(* one again each time.                                                    *)
(***************************************************************************)
RawView(view) ==
    CASE view = "violations" -> Concatenated(collection)
      [] view = "errors" -> errors
      [] view = "warnings" -> warnings
      [] view = "bugs" -> bugs

View(view) ==
    IF opts.dups THEN RawView(view)
    ELSE IF memo[view] # <<>> THEN memo[view]
    ELSE Unique(RawView(view))

MemoAfter(read) ==
    [view \in Views |->
        IF view \in read /\ ~opts.dups THEN View(view) ELSE memo[view]]

(***************************************************************************)
(* outStream, Reporter::report, disposeOutStream.  Only a report file can  *)
(* fail to open; a reporter reads the sections it prints, and the numbers  *)
(* of its summary.                                                         *)
(***************************************************************************)
Report ==
    /\ pc = "report"
    /\ report' = Append(report,
         [shown |-> [view \in opts.sections |-> View(view)],
          files |-> Len(collection),
          filesWithViolations |-> NumberOfFilesWithViolations(collection)])
    /\ memo' = MemoAfter(opts.sections)
    /\ pc' = "threshold"
    /\ UNCHANGED <<inputs, progress, frontend, contexts, ruleset, collected,
                   diagnosed, exit>>

CatchReporting ==
    /\ pc = "report"
    /\ opts.output
    /\ Exit("ERROR_WHILE_REPORTING")
    /\ UNCHANGED <<inputs, progress, frontend, contexts, ruleset, collected,
                   diagnosed, memo, report>>

(* What the threshold counts.                                              *)
MutJudged == RawView("violations")

Judged == View("violations")

Threshold ==
    /\ pc = "threshold"
    /\ memo' = MemoAfter({"violations"})
    /\ Exit(IF Exceeds(Judged, opts.limits)
            THEN "VIOLATIONS_EXCEED_THRESHOLD" ELSE "SUCCESS")
    /\ UNCHANGED <<inputs, progress, frontend, contexts, ruleset, collected,
                   diagnosed, report>>

Exited ==
    /\ pc = "exited"
    /\ UNCHANGED vars

Next ==
    \/ Prepare
    \/ DriverNext /\ UNCHANGED mainVars
    \/ CatchProcessing
    \/ GetResults
    \/ Report
    \/ CatchReporting
    \/ Threshold
    \/ Exited

Spec == Init /\ [][Next]_vars

(* The process runs until it exits: there is always a next step and nobody *)
(* to wait for.                                                            *)
FairSpec == Spec /\ WF_vars(Next)

-----------------------------------------------------------------------------
Commands1 == 1..Len(cmds)

FirstPassDone ==
    pc \in {"check", "checking", "returned", "report", "threshold"} \/ report # <<>>

TypeOK ==
    /\ pc \in {"prepare", "commands", "invoke", "compile", "start", "analyze",
               "takeoff", "release", "check", "checking", "returned", "threw",
               "report", "threshold", "exited"}
    /\ opts \in Options
    /\ db \in Databases
    /\ cmds \in Seq(Commands)
    /\ src \in 1..(Len(SourcePaths) + 1)
    /\ upto \in 0..Len(cmds)
    /\ at \in 1..(Len(cmds) + 1)
    /\ cwd \in Directories
    /\ diags \in 0..MaxDiagnostics
    /\ erred \in BOOLEAN
    /\ compilers \in Seq(Commands1)
    /\ unit \in 1..(Len(compilers) + 1)
    /\ rule \in Nat \ {0}
    /\ calls \in 0..MaxFound
    /\ found \in Seq(Violation)
    /\ alive \subseteq Commands1
    /\ failed \subseteq Commands1
    /\ collection \in Seq(Seq(Violation))
    /\ origin \in Seq(Commands1)
    /\ errors \in Seq(Diagnosed)
    /\ warnings \in Seq(Diagnosed)
    /\ bugs \in Seq(Diagnosed)
    /\ exit \in ExitCodes \cup {NoExit}

(***************************************************************************)
(* A rule never sees, and the release loop never deletes, a context that   *)
(* was released before or whose compilation failed.  invoke: raw pointers  *)
(* into two vectors that only the loops keep in step.                      *)
(***************************************************************************)
ContextsAlive ==
    pc \in {"analyze", "takeoff", "release"} =>
        \A i \in unit..Len(compilers) : compilers[i] \in alive \ failed

(***************************************************************************)
(* Without -enable-global-analysis at most one translation unit that       *)
(* compiled is in memory: Driver::run wraps each command in an invoke of   *)
(* its own.                                                                *)
(***************************************************************************)
OneContextAtATime ==
    ~opts.global => \A k, l \in alive \ failed : k = l

(***************************************************************************)
(* With -enable-global-analysis a rule flies only when every command has   *)
(* been compiled, so that it can see the whole program.                    *)
(***************************************************************************)
WholeProgramFirst ==
    opts.global /\ (pc = "takeoff" \/ collection # <<>>) =>
        ToSet(compilers) \cup failed = Commands1

(***************************************************************************)
(* Each command gives one violation set, in command order, or failed to    *)
(* compile and gives none; nothing of a command that compiled is still     *)
(* allocated.                                                              *)
(***************************************************************************)
EveryCommandAccountedFor ==
    /\ \A i, j \in DOMAIN origin : i < j => origin[i] < origin[j]
    /\ Len(collection) = Len(origin)
    /\ ToSet(origin) \cap failed = {}
    /\ FirstPassDone =>
         /\ ToSet(origin) \cup failed = Commands1
         /\ alive = failed

(***************************************************************************)
(* A translation unit is missing from the analysis only if a compiler      *)
(* error is on record, and a recorded error means one is missing: what     *)
(* TextReporter tells its reader about errors.                             *)
(***************************************************************************)
ErrorsExplainMissing ==
    errors # <<>> <=> failed # {} \/ (pc = "start" /\ erred)

(***************************************************************************)
(* The checker says something only when asked to, and only after every     *)
(* unit was analysed.                                                      *)
(***************************************************************************)
BugsComeLast ==
    bugs # <<>> => opts.checker /\ ToSet(origin) \cup failed = Commands1

(***************************************************************************)
(* What was printed agrees with the collector, then and ever after: the    *)
(* cached views of UniqueResults are never stale and the summary counts    *)
(* the commands that compiled.                                             *)
(***************************************************************************)
Final(view) == IF opts.dups THEN RawView(view) ELSE Unique(RawView(view))

ReportIsFinal ==
    report # <<>> =>
        /\ \A view \in opts.sections : report[1].shown[view] = Final(view)
        /\ report[1].files = Len(cmds) - Cardinality(failed)

(***************************************************************************)
(* The exit code says whether there is a report, and the report justifies  *)
(* the exit code.                                                          *)
(***************************************************************************)
ExitMatchesReport ==
    /\ exit = NoExit <=> pc # "exited"
    /\ report = <<>> =>
         exit \notin {"SUCCESS", "VIOLATIONS_EXCEED_THRESHOLD"}
    /\ report # <<>> /\ exit # NoExit =>
         exit = IF Exceeds(report[1].shown["violations"], opts.limits)
                THEN "VIOLATIONS_EXCEED_THRESHOLD" ELSE "SUCCESS"

-----------------------------------------------------------------------------
(***************************************************************************)
(* The inductive invariant behind the safety properties above.             *)
(***************************************************************************)
Analysed == ToSet(origin)

(* The contexts of this invoke still to be analysed, or to be released.    *)
Rest(s, n) == {s[i] : i \in n..Len(s)}

Pending == Rest(compilers, unit)

Increasing(s) == \A i, j \in DOMAIN s : i < j => s[i] < s[j]

InInvoke == pc \in {"compile", "start", "analyze", "takeoff", "release"}

Positions ==
    /\ pc \in {"prepare", "commands"} =>
         /\ at = 1 /\ unit = 1 /\ upto = 0
         /\ compilers = <<>> /\ origin = <<>>
         /\ alive = {} /\ failed = {}
    /\ pc \in {"compile", "start"} => unit = 1
    /\ pc = "compile" => at <= upto + 1
    /\ pc = "start" => at <= upto
    /\ pc \in {"analyze", "takeoff", "release"} => at = upto + 1
    /\ pc = "takeoff" => unit <= Len(compilers)
    /\ pc = "checking" => at <= Len(cmds)

Order ==
    /\ Increasing(origin)
    /\ Increasing(compilers)
    /\ pc \in {"compile", "start", "analyze", "takeoff"} =>
         \A k \in Analysed, l \in Pending : k < l

(* Which commands are where, phase by phase.                               *)
Accounts ==
    /\ Len(collection) = Len(origin)
    /\ Analysed \cap failed = {}
    /\ ToSet(compilers) \cap failed = {}
    /\ alive \ failed \subseteq ToSet(compilers)
    /\ pc \in {"invoke", "release"} => Analysed \cup failed = 1..(at - 1)
    /\ pc \in {"compile", "start", "analyze", "takeoff"} =>
         Analysed \cup Pending \cup failed = 1..(at - 1)
    /\ pc = "invoke" => alive = failed
    /\ pc \in {"compile", "start", "release"} => alive = failed \cup Pending
    /\ pc \in {"analyze", "takeoff"} => alive = failed \cup ToSet(compilers)
    /\ FirstPassDone => Analysed \cup failed = Commands1 /\ alive = failed

(* What the two modes of Driver::run add.                                  *)
Modes ==
    /\ opts.global =>
         /\ pc = "invoke" => at = 1 \/ at = Len(cmds) + 1
         /\ InInvoke => upto = Len(cmds)
         /\ pc \in {"compile", "start"} => origin = <<>>
         /\ pc \in {"analyze", "takeoff", "release"} \/ origin # <<>> =>
              ToSet(compilers) \cup failed = Commands1
    /\ ~opts.global =>
         /\ Len(compilers) <= 1
         /\ InInvoke /\ at <= upto => at = upto /\ compilers = <<>>

Diagnoses ==
    /\ ErrorsExplainMissing
    /\ pc \in {"check", "checking"} => opts.checker
    /\ bugs # <<>> =>
         /\ opts.checker
         /\ Analysed \cup failed = Commands1
         /\ pc \in {"check", "checking", "returned", "report", "threshold", "threw", "exited"}

(* The caches of UniqueResults hold nothing or what they would compute.    *)
Fresh(view) == memo[view] = <<>> \/ memo[view] = Unique(RawView(view))

Published ==
    /\ memo = [view \in Views |-> memo[view]]
    /\ \A view \in Views : Fresh(view)
    /\ report = <<>> \/ DOMAIN report = {1}
    /\ report # <<>> => pc \in {"threshold", "exited"}
    /\ pc = "threshold" => report # <<>>
    /\ pc \notin {"threshold", "exited"} => memo = [view \in Views |-> <<>>]
    /\ ReportIsFinal
    /\ ExitMatchesReport

IInv == TypeOK /\ Positions /\ Order /\ Accounts /\ Modes /\ Diagnoses /\ Published

-----------------------------------------------------------------------------
(***************************************************************************)
(* A finished run implements the contract of a lint run.                   *)
(***************************************************************************)
Contract == INSTANCE LintContract WITH
    duplicates <- opts.dups,
    limits <- opts.limits,
    gathered <- collection,
    published <- [i \in DOMAIN report |-> report[i].shown["violations"]]

ImplementsContract == Contract!ContractSpec

(* Every run ends in an exit code.                                         *)
Terminates == <>(exit # NoExit)
=============================================================================
