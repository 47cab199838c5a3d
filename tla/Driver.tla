------------------------------- MODULE Driver -------------------------------
(***************************************************************************)
(* Driver::run: from the source paths of the command line to a filled      *)
(* ResultCollector.                                                        *)
(*                                                                         *)
(* Code: oclint-driver Driver.cpp, CompilerInstance.cpp,                   *)
(* DiagnosticDispatcher.cpp, RulesetBasedAnalyzer.cpp; oclint-core         *)
(* ResultCollector, ViolationSet and RuleCarrier.                          *)
(*                                                                         *)
(* Clang, the compilation database and the file system are outside: what   *)
(* they answer is a choice, or a constant where the answer cannot change   *)
(* during a run.  A compile command is known by its index in `cmds'.       *)
(***************************************************************************)
EXTENDS Violations

CONSTANTS
    Options,       \* the option values a run may be started with
    SourceFiles,   \* source files somebody may name
    SourcePaths,   \* the positional arguments, a sequence of them
    Commands,      \* compile commands of the compilation databases
    Databases,     \* what CompilationDatabase::getCompileCommands may answer
    Directories,   \* directories the process can be in
    NoDirectory,   \* what chdir answers when it fails
    Launch,        \* the directory oclint was started in
    Chdir,         \* Chdir[d][c]: where chdir to the directory of c leads from d
    OneClangJob,   \* commands for which clang's driver makes one cc1 job
    MaxDiagnostics,\* bound: diagnostics of one compilation
    MaxFound       \* bound: addViolation calls on one translation unit

ASSUME DriverAssumption ==
    /\ \A o \in Options :
         /\ o.global \in BOOLEAN
         /\ o.checker \in BOOLEAN
         /\ o.rules \in Seq(Rules)
    /\ SourcePaths \in Seq(SourceFiles)
    /\ Databases \subseteq [SourceFiles -> Seq(Commands)]
    /\ NoDirectory \notin Directories
    /\ Launch \in Directories
    /\ Chdir \in [Directories -> [Commands -> Directories \cup {NoDirectory}]]
    /\ OneClangJob \subseteq Commands
    /\ MaxDiagnostics \in Nat
    /\ MaxFound \in Nat

VARIABLES
    pc,          \* where Driver::run, or main around it, is
    opts,        \* the options; they never change once processed
    db,          \* the compilation database
    cmds,        \* CompileCommandPairs of Driver::run
    src,         \* index of the source path whose commands are looked up
    upto,        \* last command of the invoke in progress
    at,          \* command being compiled, or checked
    cwd,         \* the working directory of the process
    diags,       \* diagnostics of the compilation in progress
    erred,       \* DiagnosticsEngine::hasErrorOccurred of that compilation
    compilers,   \* the vector `compilers' of the invoke in progress
    unit,        \* index in `compilers' of the context in use
    rule,        \* index of the rule that is flying
    calls,       \* addViolation calls on this unit so far
    found,       \* the ViolationSet being filled
    alive,       \* first-pass CompilerInstances allocated and not deleted
    failed,      \* history: commands that did not compile in the first pass
    collection,  \* ResultCollector: one violation set per analysed unit
    origin,      \* history: the command each of them came from
    errors,      \* ResultCollector: compiler errors
    warnings,    \* ResultCollector: compiler warnings
    bugs         \* ResultCollector: what the checker pass said

inputs     == <<opts, db>>
progress   == <<cmds, src, upto, at, cwd>>
frontend   == <<diags, erred>>
contexts   == <<compilers, unit, alive, failed>>
ruleset    == <<rule, calls, found>>
collected  == <<collection, origin>>
diagnosed  == <<errors, warnings, bugs>>
driverVars == <<pc, inputs, progress, frontend, contexts, ruleset, collected,
                diagnosed>>

-----------------------------------------------------------------------------
DriverInit ==
    /\ opts \in Options
    /\ db \in Databases
    /\ cmds = <<>>
    /\ src = 1
    /\ upto = 0
    /\ at = 1
    /\ cwd = Launch
    /\ diags = 0
    /\ erred = FALSE
    /\ compilers = <<>>
    /\ unit = 1
    /\ rule = 1
    /\ calls = 0
    /\ found = <<>>
    /\ alive = {}
    /\ failed = {}
    /\ collection = <<>>
    /\ origin = <<>>
    /\ errors = <<>>
    /\ warnings = <<>>
    /\ bugs = <<>>

(* constructCompileCommands, one source path: a path the database does not *)
(* know adds nothing, a path it knows twice is compiled twice.             *)
ConstructCompileCommands ==
    /\ pc = "commands"
    /\ IF src <= Len(SourcePaths)
       THEN /\ cmds' = cmds \o db[SourcePaths[src]]
            /\ src' = src + 1
            /\ UNCHANGED pc
       ELSE /\ pc' = "invoke"
            /\ UNCHANGED <<cmds, src>>
    /\ UNCHANGED <<inputs, upto, at, cwd, frontend, contexts, ruleset,
                   collected, diagnosed>>

(***************************************************************************)
(* The head of Driver::run's choice: one invoke for all commands, or one   *)
(* for each; `compilers' is a local of invoke.  An invoke of no command     *)
(* does nothing and is left out.                                           *)
(***************************************************************************)
MutAllInOneInvoke == Len(cmds)

MutOneInvokeEach == at

MutLastOfInvoke == IF opts.global THEN Len(cmds) + 1 ELSE at

LastOfInvoke == IF opts.global THEN Len(cmds) ELSE at

(* `compilers' made a member, and never cleared.                           *)
MutBeginInvoke ==
    /\ pc = "invoke"
    /\ at <= Len(cmds)
    /\ upto' = LastOfInvoke
    /\ unit' = 1
    /\ pc' = "compile"
    /\ UNCHANGED <<inputs, cmds, src, at, cwd, frontend, compilers, alive,
                   failed, ruleset, collected, diagnosed>>

BeginInvoke ==
    /\ pc = "invoke"
    /\ at <= Len(cmds)
    /\ upto' = LastOfInvoke
    /\ compilers' = <<>>
    /\ unit' = 1
    /\ pc' = "compile"
    /\ UNCHANGED <<inputs, cmds, src, at, cwd, frontend, alive, failed,
                   ruleset, collected, diagnosed>>

(* After the last invoke, the static analyzer starts over with the first   *)
(* command when it is enabled.                                             *)
EndFirstPass ==
    /\ pc = "invoke"
    /\ at > Len(cmds)
    /\ at' = 1
    /\ pc' = IF opts.checker THEN "check" ELSE "returned"
    /\ UNCHANGED <<inputs, cmds, src, upto, cwd, frontend, contexts, ruleset,
                   collected, diagnosed>>

(***************************************************************************)
(* What both passes do before CompilerInstance::start: chdir, then the cc1 *)
(* arguments.  Either may throw, and the second does so in the directory   *)
(* the first entered.                                                      *)
(***************************************************************************)
Entered == Chdir[cwd][cmds[at]]

Invocation(onSuccess) ==
    /\ cwd' = IF Entered = NoDirectory THEN cwd ELSE Entered
    /\ pc' = IF Entered # NoDirectory /\ cmds[at] \in OneClangJob
             THEN onSuccess
             ELSE "threw"
    /\ diags' = 0
    /\ erred' = FALSE

Compile ==
    /\ pc = "compile"
    /\ at <= upto
    /\ Invocation("start")
    /\ UNCHANGED <<inputs, cmds, src, upto, at, contexts, ruleset, collected,
                   diagnosed>>

(***************************************************************************)
(* DiagnosticDispatcher::HandleDiagnostic.  The dispatcher of the checker  *)
(* pass files every diagnostic as a bug, whatever its level; the other one *)
(* files warnings and errors and drops notes.  The violation has no rule,  *)
(* and no path when the diagnostic has no source manager.                  *)
(***************************************************************************)
Levels == {"note", "warning", "error"}

Diagnosed == [rule : {NoRule}, path : Paths \cup {NoPath}, at : Places]

(* A dispatcher built with the option instead of its own argument.         *)
MutFiledUnder(level) == IF opts.checker THEN "bug" ELSE level

FiledUnder(level) == IF pc = "checking" THEN "bug" ELSE level

HandleDiagnostic(level, v) ==
    /\ pc \in {"start", "checking"}
    /\ diags < MaxDiagnostics
    /\ diags' = diags + 1
    /\ erred' = (erred \/ level = "error")
    /\ bugs' = IF FiledUnder(level) = "bug" THEN Append(bugs, v) ELSE bugs
    /\ warnings' = IF FiledUnder(level) = "warning" THEN Append(warnings, v) ELSE warnings
    /\ errors' = IF FiledUnder(level) = "error" THEN Append(errors, v) ELSE errors
    /\ UNCHANGED <<pc, inputs, progress, contexts, ruleset, collected>>

(***************************************************************************)
(* CompilerInstance::start returns.  Clang leaves no AST context behind    *)
(* only after it reported an error.  An instance that is not kept stays    *)
(* allocated and out of `compilers': nobody ends it.                       *)
(***************************************************************************)
MutKept(hasASTContext) == hasASTContext

Kept(hasASTContext) == ~erred /\ hasASTContext

StartReturns ==
    /\ pc = "start"
    /\ \E hasASTContext \in BOOLEAN :
         /\ erred \/ hasASTContext
         /\ compilers' = IF Kept(hasASTContext) THEN Append(compilers, at) ELSE compilers
         /\ failed' = IF erred \/ ~hasASTContext THEN failed \cup {at} ELSE failed
    /\ alive' = alive \cup {at}
    /\ at' = at + 1
    /\ pc' = "compile"
    /\ UNCHANGED <<inputs, cmds, src, upto, cwd, frontend, unit, ruleset,
                   collected, diagnosed>>

(* All commands of this invoke are compiled: the analyzer takes over.      *)
BeginAnalyze ==
    /\ pc = "compile"
    /\ at > upto
    /\ pc' = "analyze"
    /\ UNCHANGED <<inputs, progress, frontend, contexts, ruleset, collected,
                   diagnosed>>

(***************************************************************************)
(* RulesetBasedAnalyzer::analyze: per context a new ViolationSet, every    *)
(* filtered rule in turn, and only then the set goes to the collector,     *)
(* empty or not.                                                           *)
(***************************************************************************)
BeginUnit ==
    /\ pc = "analyze"
    /\ unit <= Len(compilers)
    /\ found' = <<>>
    /\ rule' = 1
    /\ calls' = 0
    /\ pc' = "takeoff"
    /\ UNCHANGED <<inputs, progress, frontend, contexts, collected, diagnosed>>

(* RuleCarrier::addViolation: a violation without a path is dropped.       *)
Carried(vs, v) == IF v.path = NoPath THEN vs ELSE Append(vs, v)

AddViolation(path, place) ==
    /\ pc = "takeoff"
    /\ rule <= Len(opts.rules)
    /\ calls < MaxFound
    /\ calls' = calls + 1
    /\ found' = Carried(found, [rule |-> opts.rules[rule], path |-> path, at |-> place])
    /\ UNCHANGED <<pc, inputs, progress, frontend, contexts, rule, collected,
                   diagnosed>>

RuleReturns ==
    /\ pc = "takeoff"
    /\ rule <= Len(opts.rules)
    /\ rule' = rule + 1
    /\ UNCHANGED <<pc, inputs, progress, frontend, contexts, calls, found,
                   collected, diagnosed>>

(* A set without violations not worth adding.                              *)
MutAddSet ==
    /\ pc = "takeoff"
    /\ rule > Len(opts.rules)
    /\ IF found = <<>>
       THEN UNCHANGED collected
       ELSE /\ collection' = Append(collection, found)
            /\ origin' = Append(origin, compilers[unit])
    /\ unit' = unit + 1
    /\ pc' = "analyze"
    /\ UNCHANGED <<inputs, progress, frontend, compilers, alive, failed,
                   ruleset, diagnosed>>

AddSet ==
    /\ pc = "takeoff"
    /\ rule > Len(opts.rules)
    /\ collection' = Append(collection, found)
    /\ origin' = Append(origin, compilers[unit])
    /\ unit' = unit + 1
    /\ pc' = "analyze"
    /\ UNCHANGED <<inputs, progress, frontend, compilers, alive, failed,
                   ruleset, diagnosed>>

BeginRelease ==
    /\ pc = "analyze"
    /\ unit > Len(compilers)
    /\ unit' = 1
    /\ pc' = "release"
    /\ UNCHANGED <<inputs, progress, frontend, compilers, alive, failed,
                   ruleset, collected, diagnosed>>

(* The index of the release loop never moved.                              *)
MutRelease ==
    /\ pc = "release"
    /\ IF unit <= Len(compilers)
       THEN /\ alive' = alive \ {compilers[unit]}
            /\ UNCHANGED <<pc, unit>>
       ELSE /\ pc' = "invoke"
            /\ UNCHANGED <<alive, unit>>
    /\ UNCHANGED <<inputs, progress, frontend, compilers, failed, ruleset,
                   collected, diagnosed>>

(* The release loop of invoke: end, leak the file manager, delete.         *)
Release ==
    /\ pc = "release"
    /\ IF unit <= Len(compilers)
       THEN /\ alive' = alive \ {compilers[unit]}
            /\ unit' = unit + 1
            /\ UNCHANGED pc
       ELSE /\ pc' = "invoke"
            /\ UNCHANGED <<alive, unit>>
    /\ UNCHANGED <<inputs, progress, frontend, compilers, failed, ruleset,
                   collected, diagnosed>>

(***************************************************************************)
(* invokeClangStaticAnalyzer: every command again, the ones that failed    *)
(* to compile included.  The outcome of start changes nothing here.        *)
(***************************************************************************)
Check ==
    /\ pc = "check"
    /\ IF at <= Len(cmds)
       THEN Invocation("checking")
       ELSE /\ pc' = "returned"
            /\ UNCHANGED <<cwd, frontend>>
    /\ UNCHANGED <<inputs, cmds, src, upto, at, contexts, ruleset, collected,
                   diagnosed>>

CheckReturns ==
    /\ pc = "checking"
    /\ at' = at + 1
    /\ pc' = "check"
    /\ UNCHANGED <<inputs, cmds, src, upto, cwd, frontend, contexts, ruleset,
                   collected, diagnosed>>

DriverNext ==
    \/ ConstructCompileCommands
    \/ BeginInvoke
    \/ EndFirstPass
    \/ Compile
    \/ \E level \in Levels, v \in Diagnosed : HandleDiagnostic(level, v)
    \/ StartReturns
    \/ BeginAnalyze
    \/ BeginUnit
    \/ \E path \in Paths \cup {NoPath}, place \in Places : AddViolation(path, place)
    \/ RuleReturns
    \/ AddSet
    \/ BeginRelease
    \/ Release
    \/ Check
    \/ CheckReturns
=============================================================================
