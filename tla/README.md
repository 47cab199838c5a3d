# OCLint in TLA+

OCLint is a static analyser for C, C++ and Objective-C. The program reads its
options, loads rule libraries and one reporter, compiles every source with
clang, flies every rule over every syntax tree, collects violations, writes a
report and answers with an exit code. This project models that program: TLA+
modules that follow the source, TLC runs on small instances, and proofs about
the modules for every instance.

## Inventory

| component | state it keeps | operations | talks to |
|---|---|---|---|
| main program (`oclint-driver/main.cpp`) | none of its own but the results view | `prepare`, `getResults`, `outStream`, the threshold, the exit code | everything below, by calls |
| options and configuration (`Options`, `ConfigFile`, `RulesetFilter`, `RuleConfiguration`) | `cl::opt` values, the filter's two sets, the configuration map | `process`, `processConfigFile`, `enableRule`, `disableRule`, `filteredRules`, `addConfiguration` | rules read the configuration map while they fly |
| loading (`rules_dlfcn_port`, `reporters_dlfcn_port`, `RuleSet`) | the rule vector, the reporter | `dynamicLoadRules`, `loadReporter` | rule libraries register themselves when opened |
| driver (`Driver`, `CompilerInstance`, `DiagnosticDispatcher`, `RulesetBasedAnalyzer`) | the commands, the vectors of compilers and file managers, the working directory | `run`, `invoke`, `HandleDiagnostic`, `analyze` | clang calls back with diagnostics; rules call back with violations |
| results (`Violation`, `ViolationSet`, `ResultCollector`, `RuleCarrier`, `RawResults`, `UniqueResults`, `AbstractResults`) | one violation set per analysed unit, three sets of compiler diagnostics, four cached views | `add`, `addError`, `addWarning`, `addCheckerBug`, the views and their counts | a process-wide singleton |
| suppression (`SuppressHelper`, `AttributeHelper`, the two rule base classes) | two process-wide caches keyed by a file name | `shouldSuppress`, `addViolation` | between a rule and the carrier |
| rules (ten categories, `oclint-rules/rules`) | some keep members between callbacks | `apply` | metrics, configuration, suppression |
| rule base classes (`AbstractASTVisitorRule`, `AbstractASTRuleBase`, `abstract/`) | the carrier and the AST context of the unit in the air | `takeoff`, `apply`, `traverse…` and `visit…` callbacks | a subclass per rule; suppression; the carrier |
| metrics (`oclint-metrics`) | none | cyclomatic complexity, NPath, NCSS, depth | rules |
| reporters (`oclint-reporters`) | none | `report` | the results view |
| analytics (`Analytics`) | language counter, rule configuration | `send` | main program, driver |
| documentation generator, Windows ports, scripts, templates, tests | none of it runs in an analysis | | |

There is one thread. What makes the program hard is the order of its phases
and the state that outlives them: contexts held by raw pointers across three
loops, a working directory that every command changes, singletons filled from
callbacks, caches that are never invalidated, rule objects that fly over unit
after unit with their members, exceptions that leave a loop half way, and
compilations that fail one by one. The rules and metrics are hard in another
way: each decides from the shape of a tree what the code means, and its tests
have a handful of shapes. `PROJECT.json` lists these hazards
at their lines, with the property that would catch each.

What makes each component correct:

- driver: every command is analysed once or is known to have failed; no rule
  sees a context that is not alive; per-file mode holds one context at a time,
  global mode holds all of them before the first rule; the two passes do not
  mix their diagnostics.
- results and main program: the report shows what was collected, once per
  violation unless duplicates were asked for; the exit code agrees with the
  report.
- suppression: a violation is dropped exactly when its line or a declaration
  around it says so, for this rule and this file.
- configuration: the command line wins over the nearest file, which wins over
  the farther ones; the rules that fly are those the user asked for.
- rule base classes: each declaration of the main file is walked once, in
  source order, by the rules that support its language, and nothing else is.
- rules: a report can be relied on. What is called dead never runs, what is
  called redundant can be taken away, what is advised does the same; and where
  a rule says that it looks for all of a kind, nothing of the kind is missed.
- metrics: the numbers are those of the definitions the rules quote.
- reporters: every violation is in the report, once, in the section of its
  kind, in a document a reader of the notation can read, and the numbers above
  the list are those of the list.
- analytics: what is told happened, and is told once, to nobody if switched off.

## Modules

| module | what it is |
|---|---|
| `Violations` | the violation record and the pure functions over violation sets: concatenation, removal of duplicates, counts, thresholds |
| `Driver` | `Driver::run` as a state machine, one action per step of its loops and per callback |
| `OCLint` | `main` around the driver: loading, the catch clauses, the views, the report, the exit code; their properties and inductive invariant |
| `LintContract` | the abstract promise of a run: violations are gathered, then published once or not at all, then judged |
| `Configuration` | `option::process`: configuration files, command line, rule filter, rule configuration |
| `Startup` | extends `Configuration` with `prepare`: the loops over rule and reporter directories |
| `Suppression` | the two ways a rule adds a violation, and the two process-wide maps between them and the report |
| `RuleBase`, `TreeWalk` | one rule object over one unit after another: takeoff, the language check, the loop over top-level declarations, the traversal of each; `TreeWalk` says what units and trees are |
| `SyntaxTree` | trees of statements and expressions: kinds, children, positions, and functions that are computed from the leaves up (`FromBelow`) |
| `ControlFlow` | external: what C, C++ and Objective-C say a statement does. The properties compare metrics and rules with it |
| `LimitRules` | extends the walk: the nine rules that compare a number with a limit, whatever the number measures |
| `Metrics` | the four recursions of `oclint-metrics` |
| `SizeRules` | extends `Metrics`, `ControlFlow` and `LimitRules`: what the numbers mean |
| `MachineIntegers` | an int of `IntBits` bits that wraps, and the unsigned int it is stored in |
| `Flight` | rules that fly over one tree, one after the other, a step each |
| `FlowRules` | 22 rules about how control leaves statements: dead code, else and if, last branches, `@finally`, switches, empty blocks |
| `NullCheckRules` | broken, misplaced, redundant and unnecessary checks for null and nil |
| `ConditionRules` | redundant ifs and conditionals, inverted logic, double negatives, unary operators, oddness, bitwise operators in conditions |
| `NamingRules` | short and long names, with the stack that exempts the heads of loops |
| `CocoaRules` | base methods that call super, protected and abstract methods, methods that are never used |
| `Rules` | the five families as one flight |
| `Reporters` | what the six reporters write, as tokens, and a reader for each notation |
| `Analytics` | what a run collects and tells about itself, along every way through `main` |
| `OCLintProofs`, `StartupProofs`, `SuppressionProofs`, `RuleBaseProofs`, `CocoaProofs`, `ExpressionProofs`, `AnalyticsProofs` | the theorems |
| `Induction` | induction over the natural numbers and recursive functions, in a form the provers can use |
| `MCOCLint`, `MCStartup`, `MCSuppression`, `MCSizeRules`, `MCRules`, `MCReporters`, `MCAnalytics` | instances for TLC |

`OCLint` leaves two things open that the other modules settle. Its `Prepare`
may load any sequence of rules or fail: `Startup` says when it does which. Its
`AddViolation` takes any violation of a unit: `Suppression` says which of those
a rule raises get that far; `RuleBase`, `LimitRules` and `Rules` say which it
raises. Its `Report` publishes a sequence of violations; `Reporters`, which
extends the same `Violations`, says what is printed of it.

### How `Driver` and `OCLint` follow the code

`pc` names the place in `main` or `Driver::run`. The loops of
`constructCompileCommands`, `run`, `constructCompilersAndFileManagers`,
`analyze` and `invoke` are walked by the indices `src`, `at`, `unit` and `rule`.

| action | code |
|---|---|
| `Prepare` | `prepare()`: success, no rule, no reporter |
| `ConstructCompileCommands` | one source path: its commands are appended |
| `BeginInvoke`, `EndFirstPass` | the choice and the loop of `Driver::run` |
| `Compile` | `chdir` and the cc1 arguments of one command; either may throw |
| `HandleDiagnostic` | clang calls the diagnostic consumer |
| `StartReturns` | `CompilerInstance::start` came back: the instance is kept or leaked |
| `BeginAnalyze`, `BeginUnit`, `AddViolation`, `RuleReturns`, `AddSet` | `RulesetBasedAnalyzer::analyze`: a new set per context, every rule, then the set is added |
| `BeginRelease`, `Release` | the loop that ends and deletes contexts |
| `Check`, `CheckReturns` | the static analyzer pass |
| `CatchProcessing`, `GetResults`, `Report`, `CatchReporting`, `Threshold`, `Exited` | `main` after the driver |

Outside, and so a choice or a constant: what the compilation database answers,
where `chdir` leads, which diagnostics clang reports and whether it leaves a
context, which violations a rule raises, whether the report file opens. With the
checker on, both passes run clang's `AnalysisAction`; what differs is who
listens, and that is in the model. Clang leaves no context behind only after an
error was reported; that is the one assumption made about its answers, and
`ErrorsExplainMissing` depends on it.

`failed` and `origin` are history variables: no action reads them. Everything
else is a variable, a local or a member of the source.

### How `Configuration` and `Startup` follow the code

| definition | code |
|---|---|
| `ConfigFilePaths`, `WorkingPath` | `configFilePaths`, `preserveWorkingPath`: `getcwd` into 300 bytes may fail, and then the third file is looked for in the root directory |
| `Mapped` | `yaml::Input` stops at the first field it cannot take: what came before stays, what comes after is not set, nobody is told |
| `ConfigFile(text, lost)` | a `ConfigFile` after its constructor: its strings are `StringRef`s into a buffer that is gone, and those in `lost` have been overwritten when they are read |
| `ProcessConfigFile`, `ProcessArguments` | the two halves of `option::process` |
| `Separated` | `-rc` is cut at its last `=`; without one, key and value are both the whole argument |
| `OpenRuleDirectory`, `SkipRuleDirectory`, `LoadRule`, `CloseRuleDirectory` | `consumeArgRulesPath` and `dynamicLoadRules` |
| `SkipHidden`, `CannotOpen` | what the rule loop and the reporter loop share |
| `OpenReporterDirectory`, `LoadReporter`, `NoReporterFound` | `loadReporter` |
| `ReporterPath` | found from the executable of the command line, `argv[0]` |
| `NoRuleLoaded`, `Fail` | the exits of `prepare` |
| `Passes`, `Flown` | `RulesetFilter::filteredRules` |

A directory is a set of entries and every order of taking them is tried. A
library registers its rules when it is opened for the first time (`DlOpen`).
`Mapped` and the answers of `dlopen`, `opendir` and `getcwd` are external.
`read` is a history variable.

### How `Suppression` follows the code

| definition | code |
|---|---|
| `AddNodeViolation` | `AbstractASTRuleBase::addViolation`: annotations above the node, then a comment on its line |
| `AddLineViolation` | `AbstractSourceCodeReaderRule::addViolation`: a comment on the line, then the annotated ranges |
| `Above`, `ShouldSuppressNode` | the climb along first parents in `markedParentsAsSuppress` |
| `Kin`, `MarkedAsSuppress` | `declHasActionAttribute` with property, protocol and categories |
| `singleLineMapping`, `rangeMapping`, `Lookup`, `Stored` | the two static maps and the way both are asked and filled |
| `Collect`, `CommentLines` | what is put in them: the ranges of the rule that asks first, the comment lines of every file of the unit |
| `NextRule`, `NextUnit` | the loops of `RulesetBasedAnalyzer::analyze` |

The syntax trees, comments and annotations are constants: clang builds them.
`passed` and `silenced` are history variables, the set of what the carrier got
and of what it did not.

### How `RuleBase`, `LimitRules` and `SizeRules` follow the code

| definition | code |
|---|---|
| `Refuse`, `SetUp` | `AbstractASTRuleBase::takeoff` and `isLanguageSupported`: Objective-C first, then C++, then C99; a unit of an older C is nobody's |
| `SkipDecl`, `TraverseDecl`, `TearDown` | the loop of `AbstractASTVisitorRule::apply` over the top-level declarations, which skips those without a location and those of other files |
| `VisitNode` | a step of clang's `RecursiveASTVisitor`: a node is visited before its children, these in order; `todo` is what it has still to visit |
| `Begin`, `threshold` | `setUp` of the rules that read their limit there; the others read it at each node |
| `Unsigned`, `NeverReports` | `TooManyParametersRule` keeps the int it reads in an unsigned member |
| `LooksThroughNull`, `Crash` | `LongMethodRule` asks a null pointer for its range at a body that is no block |
| `Reports` | the `Visit…` callbacks of the nine rules |
| `CyclomaticComplexity`, `NPath`, `Ncss`, `Depth` in `Metrics` | the four metrics, each taking a kind of node it does not know for a leaf; `Wrapped` is an int of `IntBits` bits |

Three different questions are asked of one walk. Which nodes are seen is
`RuleBase`'s part and is proved. Which of them are reported under a limit is
`LimitRules`', whose four measures are constant operators: it is proved for any
measure, and `MCSizeRules_*.cfg` put those of `Metrics` in their places. What
the measures are is `SizeRules`' part and compared with `ControlFlow`: `Runs`
are the executions of a body in which every loop is passed at most once,
`FlowGraph` is McCabe's graph. Neither counts anything the way the metrics do.

### How the rule families follow the code

In `Flight` a rule's turn is one step, `RulesetBasedAnalyzer`'s. One operator
per rule says where it reports in the tree; a rule that keeps something between
two callbacks (the ifs of an `UnnecessaryElse` chain, the stack of
`ShortVariableName`, the verdict of `MethodIsUsed`) folds over the nodes in
visiting order with that state. Helpers have the names they have in the code:
`ExitType` is `ExitTypeGetter`, `ExtractIdentifier`, `IsEqNullCheck` and
`HasVariableInExpr` are those of `AbstractNullCheckRule`,
`DeclRequiresSuperCall`, `IsObjCInterfaceClassOrSubclass` and
`InterfaceHierarchyDeclaresMethod` those of the Cocoa rules.

The properties never use a rule's own definition for what is right:

| property | what a report is judged by |
|---|---|
| `FlowReportsHold` | running the tree: what is dead is not `Reached`; an else lifted out of its chain, two ifs made one, a last jump removed leave `Runs` as it was; a quiet `@finally` lets the exception through; each empty guarded block is found by exactly one of nine rules |
| `SwitchReportsHold` | running the parts of a switch into each other; obeying the advice about `default` and asking again; the text order of labels |
| `NullCheckReportsHold` | evaluating the expression for null and other pointers, short circuits included: a check is broken exactly if the use behind it crashes, misplaced if taking it away changes nothing; running a guarded delete with and without the guard |
| `ConditionReportsHold` | the value, or the effect, of the tree and of what is advised in its place, for all small integers |
| `NameReportsHold` | the places of the tree: heads are exempt, the rest is not, up to `MaxLeft` entries that earlier units left on the stack |
| `ClassReportsHold` | sending the message: which methods run, in any object, class below class, categories and protocols included, wherever the declarations are written |

Each of them is a conjunction of named parts, one per rule or pair of rules.
Where a rule does not hold to what it says, the part says for which trees, and
the trees of the instance have others too: taking the condition away makes the
run fail. These conditions are listed below.

### How `Reporters` follows the code

Each reporter is an operator that builds a sequence of tokens in the order of
its statements: the header, the summary, the sections it has, the fields it
leaves out, the commas it puts between what remains. A string that holds a
character of the notation around it breaks off there, unless that reporter
escapes it. The readers (`ReadJSON` for JSON, `ReadElement` for XML and HTML, `Lines` for
text) are recursive descents written from the notations, external to the code; `Listed` is what they read.

### How `Analytics` follows the code

| definition | code |
|---|---|
| `ConsumeRuleConfiguration`, `LanguageOption` | the two maps of `Analytics`, made when they are first needed |
| `Prepare`, `PrepareFails`, `Analyze`, `DriverThrows`, `DriverReturns`, `Finish` | the ways through `main` |
| `SendAnalyticsAndExit` | `sendAnalyticsAndExit` and `Analytics::send`: which groups fall through from one exit code to the next |

The transport (`countly`) is external: `recorded` is what it was given. The
model is of a build with `COUNTLY_ANALYTICS`; the others tell nobody anything.

## Runs

| run | shows | instance |
|---|---|---|
| `oclint_wide` | the type invariant, the safety properties of the driver and of the exit code, and termination | two sources, each with no, one or two commands; a command that cannot be entered after another one, and again in the checker pass; a command of several jobs; both modes, with and without the checker; one diagnostic per compilation, two violations per unit |
| `oclint_views` | the report is what was collected, through the caches; the run implements `LintContract` | two commands with one header, two rules of two priorities, every section a reporter may read, duplicates wanted or not; the threshold of one priority is one, so that both verdicts occur |
| `startup` | filter, scalars and rule configurations form a hierarchy in which the command line stands; rules are loaded once; every start settles with a status its cause explains | 1684 starts of three families: four texts in each of four directories, with and without `HOME`, from any working directory, one text malformed; rule directories named twice, sharing a library, broken or missing, and reporters with and without a file that is no library; short texts with every subset of their strings overwritten. 106 145 states |
| `startup_picked` (violation) | a rule that is picked and then disabled leaves rules nobody picked | the same |
| `suppression` | nothing leaks, nothing is lost, verdicts are stable | two sources with names of their own, one reader rule, one source analysed twice. 198 920 states |
| `suppression_header` (violation) | a comment in a header silences the same line of the source | one source and its header |
| `size` | the walk sees the main file in order and lands; NPath counts paths, the cyclomatic number is McCabe's, NCSS and depth are what they are called after; a lower limit never reports less, and one below zero silences the parameter rule alone; the rule about long methods ends the process at a function-try-block and no other does | all structured bodies of two levels and sequences of three statements, all bodies of two levels with every kind of loop, jump, short circuit, try and switch, under seven limits from -1 to 6; histories of one and two units in five language modes with declarations of headers and without location, with records, parameters and function-try-blocks. 570 008 states, two minutes |
| `size_overflow` (violation) | NPath overflows and the function passes | four ifs in a row and an int of four bits; with 32 bits it takes 32 ifs |
| `rules` | the six properties above | for each family all trees of a few shapes, two to four levels deep: 55 839 trees; for the classes also declarations in headers, protocols and categories, and uses inside block literals. 221 019 states |
| `reporters` | every report can be read, tells everything, and its summary is that of its list | up to two units of up to two violations, diagnostics of each kind with and without columns, six formats; for PMD checker bugs whose message has a `<`, which it escapes. 54 384 states |
| `report_operator` (violation) | a rule's message with a `<` ends a PMD report early | one violation |
| `analytics_send` | what is told happened, completely, and at most once | two units in five language modes, two rules, two keys with two values, every exit. 163 440 states |

Bounds of the core: `MaxDiagnostics` diagnostics per compilation and `MaxFound`
violations per unit. One diagnostic is enough for a compilation to fail or to
warn, and two violations for a duplicate within a unit and, with two units,
across them. Two commands are enough for "before", "after" and "in between"
another one, which is all the loops distinguish. `Startup` and `Suppression`
need no bound on behaviour: the first walks finite data, and the sets of the
second saturate. Three configuration files are all the code ever reads; two
rules and two libraries give each rule a neighbour that must not be disturbed.
The proofs depend on none of these bounds.

Bounds of the trees: a rule or a metric looks at a node, its children and what
it carries up or along, so that two or three levels show every pair of a
construct inside another, and each of them before and after another. `MaxLeft`
is the number of entries an earlier unit leaves on `ShortVariableName`'s stack;
one is enough to hide a name. `MaxUnits` bounds the units analytics counts.
`IntBits` is 16 where nothing overflows and 4 where it should. The two
`Pointers` of the null checks let a check be about one variable and the use
about another; `Flags` are the variables that are no pointers. `Environments`
gives one of the `Names` of the conditions each value from -3 to 3, both parities
on either side of zero, another both truths, and the two that are assigned to a
value nothing else has.

Fairness: the three liveness properties, `Terminates`, `Settles` and `Lands`,
are checked under weak fairness of the whole next-state relation. The program
is one thread that never waits for anybody, so it takes a step as long as it
has one; the callbacks of a compilation or a rule are finite because a source
is, and a directory has finitely many entries. `Lands` allows for one other end:
the process is gone once `LongMethodRule` has crashed.

### Where the code does otherwise than it says

Four runs end in a counterexample; each is a finding in `PROJECT.json`.

- A `//!OCLINT` in an included file silences the same line number of the main
  file, since comment lines of all files go into one set.
- Picking a rule and then disabling it leaves the set of picked rules empty,
  which the filter reads as "all rules".
- NPath is an int: the product of enough statements is zero or negative, and
  the function is not reported.
- PMD's XML escapes the message of a checker bug and not that of a rule.

The other disagreements were met while modelling. They are in the model as the
code has them, and the properties say what holds in spite of them:

| where | what the code does |
|---|---|
| `SuppressHelper.cpp:169` | the ranges of a file are those of the reader rule that asked first; a second reader rule would be judged by them. OCLint ships one. `OneReader` is the hypothesis of `NoLoss` and `NoLeak` |
| `SuppressHelper.cpp:120` | two sources with one relative name share their comments. `SameNameSameText` is the other hypothesis |
| `ConfigFile.cpp:102` | a nearer file cannot override a farther one if the memory its `StringRef`s point into was reused. `NearestWins` is about what the object then says, `CommandLineStands` about what survives it |
| `AbstractASTRuleBase.cpp:80` | a unit in C89 supports no rule's language: it is analysed and nothing can be found in it |
| `NPathComplexityMetric.cpp:101` | a switch without default has no path past it, one without labels none at all; a statement before the first label is multiplied by zero. `NPathCountsPaths` is about structured bodies |
| `LongMethodRule.cpp:19` | the body is taken for a block; that of a function-try-block is none, and the rule goes through a null pointer (`Crash`) |
| `TooManyParametersRule.cpp:21` | a configured limit below zero becomes a very high unsigned one: the rule is silent where the other eight report everything (`NeverReports`) |
| `CyclomaticComplexityMetric.cpp:18` | a range-based `for` is no decision, and a leaf to all four metrics and to `EmptyForStatement` |
| `DeadCodeRule.cpp:46` | a block is left where its first jump stands, even if a switch enters the block behind it (`LabelsInPlace`) |
| `AbstractNullCheckRule.h:163` | a use of the pointer is looked for by name anywhere on the right; only where it is evaluated unconditionally is the verdict exact (`Straight`), and a pointer in parentheses is not taken for the variable |
| `RedundantNilCheckRule.cpp:19` | every right side is taken for one that nil makes false, unless it is a negation |
| `UnnecessaryNullCheckForCXXDeallocRule.cpp:45` | checked and deleted pointer are compared as written: `if (next()) delete next();` is reported |
| `RedundantIfStatementRule.cpp:74` | right sides and returned values are compared, not what the branches do with them: two branches that assign to two variables are reported as one assignment |
| `RedundantConditionalOperatorRule.cpp:76` | a cast literal is taken for its truth: `c ? (char)2 : (char)0` is reported |
| `BrokenOddnessCheckRule.cpp:55` | the advised `x & 1 == 1` is `x & (1 == 1)` in C, which happens to be right |
| `BitwiseOperatorInConditionalRule.cpp:84` | the condition is reported wherever in it a bitwise operator stands, the arguments of calls included; that of a `for` is not looked at |
| `TooFewBranchesInSwitchStatementRule.cpp:25` | the cases of a nested switch count for the outer one too; a default is no branch |
| `EmptyForStatementRule.cpp:58` | `for … in` and `for` are found, range-based `for` is not |
| `ObjCVerifyMustCallSuperRule.cpp:29`, `:127` | a declaration without body is asked for the call too; a class method never passes, since only an instance's `super` counts |
| `AbstractASTVisitorRule.h:30` | only declarations of the main file are visited, and accessors of properties are implicit and passed over. A header or a property that declares a marked base method again without the mark is asked for nothing, and classes below see the unmarked declaration: none of them has to call super, although `ObjCVerifyMustCallSuperRule.cpp:93-96` describes the mark as one for all subclasses (`MarkIsHidden`) |
| `ObjCVerifyProtectedMethodRule.cpp:36` | the sender must be the receiver's class or one below it, so the class that declares the method is reported when it sends it to an object of a subclass; a message to `id` never is |
| `ObjCVerifyMethodIsUsedRule.cpp:203` | a message whose method clang did not find goes through a null pointer (`Crash`) |
| `ObjCVerifyMethodIsUsedRule.cpp:233` | statements are collected from child to child, and the body of a block literal is no child: a method that is used in `^{ … }` alone is reported as unused (`Collected`, `Escapes`) |
| `ObjCVerifyMethodIsUsedRule.cpp:203` | a message to an expression uses instance methods only: a class method that is run by `[[self class] m]` alone is reported as unused (`Escapes`) |
| `ObjCVerifyMethodIsUsedRule.cpp:209` | a message to an object of a class above counts for the classes above only, although the object may be of this class and answers with this class's method: a method that a class above has too, without declaring it, is reported as unused (`Escapes`) |
| `ShortVariableNameRule.cpp:115` | `for (int count = 0, i = 0;;)` reports `i`: the long name stays on the stack; what is left there outlives its unit, and the comparison is with dangling pointers |

## Proofs

`OCLintProofs` proves, for every value of the constants that satisfies the
named assumptions, the type invariant and every safety invariant the two runs
check. The argument is one inductive invariant, `IInv`, a conjunction of named
parts:

- `TypeOK` and `Positions`: which index has which value in which phase;
- `Order`: units are compiled and analysed in command order;
- `Accounts`: for each phase, the commands passed so far are exactly those
  analysed, those waiting in `compilers` and those that failed, and exactly the
  failed and the not yet released ones are allocated. The properties only speak
  of the ends of the loops; the invariant has to say what holds in the middle;
- `Modes`: what the two analysis modes add;
- `Diagnoses`: errors on record and failed commands, across the two passes;
- `Published`: the caches hold nothing or what they would compute, and report
  and exit code agree.

Each part has a lemma of its own that every step preserves it, given the whole
invariant before the step. The lemmas before them are about the vocabulary:
the rest of a sequence from an index on, increasing sequences, and how many
elements one has.

From the same invariant follows `ContractImplemented`: under the mapping of
`OCLint` a run of the program implements `LintContract`. `ContractStep` says
which step does what for the caller: `AddSet` gathers (`AddSetGathers`),
`Report` publishes (`ReportPublishes`), `Threshold` and the exits judge, and the
rest are stutters. The interesting part is that the program publishes what its
caches hold while the contract asks for what was gathered, each violation once
and in the order in which it first came up. `Published` gives the caches;
`UniqueListsOnce` gives the rest: by induction over the vector, the loop of
`removeViolationDuplications` keeps exactly the first occurrences, in order.

`SuppressionProofs` works in two steps. `MapsGrow` says that an entry of either
map never changes once it is there. `Settled`, the invariant, says that every
verdict given is the one the maps give now, so the same violation cannot get
the other verdict later: `Stability` holds without any condition. `MapsAreTrue`
says that what the maps hold is what would be computed now; it is inductive
only if files that share a name share their text and if there is one reader
rule (`SameNameSameText`, `OneReader`), and these are the hypotheses of
`NoLeak` and `NoLoss`. What `SuppressHelper.cpp` does at the lines named above
is what goes wrong without them.

`StartupProofs` proves every invariant of `Startup`. `OneMoreSpeaker`
is the heart of `FilterIsAHierarchy`: whoever speaks next takes every rule he
names out of the other set and leaves the rest as it was. The loading loops
need to know what has been read in the middle of a directory: `Seen` is the
entries of the directories before `at` and those no longer left of the open
one, `Loads` says that the libraries loaded so far are exactly those seen, and
`Verdicts` what each exit of the loops has established. `CommandLineStands`
follows from all of them together and `Picked`, which says that an enabled
rule was picked by somebody. Memory that is reused is allowed throughout.
`LastConfigurationWins` says what the map holds after any number of files and
the command line: `ListApplied`, by induction over a list of pairs, says what
`addConfiguration` makes of a map when it is called for each pair, and
`OneMoreList` that one more list has the last word for its keys and leaves the
others as they were.

`RuleBaseProofs` proves that the walk sees nothing but the main files of
supported units and no node twice, for any finite or infinite set of trees. Its
invariant orders the work: `Stacked` says that the items on `todo` are siblings
of a path that ends in the declaration in hand, `NothingIsBehind` that no
visited item comes after the ones to visit, `NoneBelowAnother` that two items on
`todo` are never above each other, and `AllBegun` and `AllLawful` that whatever
was visited belongs to a declaration the loop of `apply` has let through. With
the items' places in their trees this makes the next item a new one.

That a walk misses nothing, `EachNodeInOrder`, is stated without recursion over
trees: the nodes visited are closed under going to a child, every one of them is
a root or a child of one, and each precedes the next. Its invariant, `OInv`,
says the same of the nodes visited and those on `todo` together: `Sorted`, the
visited come in order and before the ones to visit; `Descended`, none comes from
nowhere; `NoneMissed`, a child is visited or to be visited once its parent is.
`ChildPrecedes` is about two paths, and `ExpandedItems` about what `VisitNode`
puts on the stack. When the stack is empty the property is left.

The rules with a limit run the same walk (`LimitWalks`), so all of this holds of
them (`LimitRulesSeeEachNode`). `JudgedByTheKey` is their invariant: what was
reported so far is what exceeds the configured limit among the nodes visited so
far, in the units before and in this one, although some of the rules keep the
limit in a member that `Begin` sets. `LowerLimitsReportMore` follows with
`LowerLimit`, which is about each rule's comparison. The limits of the theorem
are all ints: one that is not below zero is the same without a sign
(`UnsignedIsSame`), and one below zero is more than any number of parameters
(`UnsignedIsMore`), so the parameter rule never reports under it (`Silent`).

`CocoaProofs` proves `ClassReportsHold` for every hierarchy of classes and
protocols and every program. `ReportsMade`, the invariant, says that three
of the four rules, once their turn is over, have missed none of their places in
this tree, and that the fourth reports only what nothing in its implementation
says is used; the rest is about what those places are. A chain of classes
is a recursive function that the assumption about `Superclass` makes well
defined: `ChainIsLeast` says that it is the least set closed under going up, and
from that it is transitive, antisymmetric and linear, and any set of classes of
one chain has a `Lowest` class, which is the one whose method answers. The
parts of the property then go through as follows.

- A marked base method (`BaseHolds`): what a method overrides is in the nearest
  class above whose interface declares it (`NearestIs`), so each implementation
  below the base is asked for the call as long as all classes in between that
  declare the method again mark it too (`MarkIsSeen`). They do where nothing is
  reported and nothing hides the mark (`AllAreMarked`): the highest of them that
  does not is visited, overrides a marked method and is reported itself. The
  calls then pass from class to class.
- Protected and abstract methods (`ProtectionHolds`, `ImplementationHolds`): the
  class that answers is between the receiver's class and the one that marks.
- Unused methods (`UseHolds`): the verdict over the statements of an
  implementation can only be "no" if each of them may say no (`NoMeansNo`, by
  induction over the statements); one that may run the method then falls under
  one of the three cases of `Escapes`, because what clang found for a message to a class above is
  implemented by a class above. `ExportHolds` takes the search through the
  protocols from the recursion of the code to the closure `Adopted`.

`ExpressionProofs` proves `NullCheckReportsHold`, `ConditionReportsHold` and
`NameReportsHold` for every tree, of any size. Two things had to be made before anything could be said
of one:

- Trees are records in records, so nothing but an assumption keeps them from
  going on for ever. `IsTree` says that one ends: some level of it is empty, and
  `Height` is the first such level. From that come `ContainedIsLeast`, whatever
  holds a tree and with every node its children holds all its nodes, and
  `TreeInduction`, from the leaves up, again about a set and not a predicate.
- What an expression comes to is computed from what its parts come to.
  `FromBelow` does that for any step, and `TreeRecursion` proves that such a
  function exists and that it satisfies its equation; two of them agree where
  both are defined (`RecursionsAgree`), which is what makes the value of a part
  the same on its own as within the whole. `TruthIs`, `ValueIs`, `ExecutedOf`,
  `IgnoreParensIs`, `UnwrappedIs` and `ConjunctsIs` are that equation for the
  recursions of the two families.

The invariant of the flight, `InFlight` with `NullChecksMade`, `ConditionsMade`
or `NamesMade`, says that a rule has reported exactly its places once its turn
is over and nothing before (of short names, what it finds from some stack that
earlier units left); the other rules report what they like or crash. The rest is
about what those places are.

- Broken and misplaced null checks: what is evaluated whatever its parts come to
  crashes as soon as one part looks through a null pointer (`ArrowCrashes`), and
  nothing else crashes (`NeverCrashes`); the six forms of a check are worth what
  they say (`ChecksAre`) and are the ones the rules find (`ChecksFound`).
- Checks for nil: an expression fails with any of its conjuncts
  (`ConjunctFails`). The answers to messages do not matter where all of them go
  to nil (`AnswersDoNotMatter`), and they do matter where the receiver is an
  object (`AnswersMatter`): the second half is why "reported exactly when" holds
  and not only one direction.
- Checks before a delete: a block whose statements each leave the world alone
  leaves it alone (`FreedNothing`, by induction over the statements).
- Conditions: parentheses and blocks of one statement do nothing
  (`ParensDoNothing`, `BlocksDoNothing`), so what the rules look through may be
  looked through; the literals a rule tells apart are of opposite truth
  (`TruthsDiffer`), so the condition or its negation takes their place
  (`SameInstead`). A branch may hold its return or assignment in any number
  of such blocks.
- `OppositeIs`, `NegatedTwice` and `OddRemainders` are the arithmetic: inverted
  logic, `!!` and `~~`, and the remainder of a negative number.
- Names: the rule compares what it visits with the top of a stack, so what it
  reports depends on what is visited just before. `PreorderInOrder` says what
  that is, for any tree: before a first child its parent, and before any other
  child its elder sibling where that has no children. So a head of short
  variables is visited head, declaration, first variable, second variable, and
  each of them is on top at its turn whatever lay below (`HeadsAreExempt`, by
  induction over the variables). On the other side nothing lies on the stack but
  what was there before the unit and variables of heads, so every other short
  name is found unless it was there before (`OthersAreFound`), and there are no
  more of those than entries (`FewLeft`).

What the three theorems are about is a flight in which every other rule does
what it likes (`NullCheckSpec`, `ConditionSpec`, `NamingSpec`, as `CocoaSpec`
above). The flight of
all families, `Rules`, is the case where the others are the modelled ones. That
last step is by inspection: `Rules` reaches the recursive operators of
`FlowRules`, and no module that does can hold a theorem.

`AnalyticsProofs` proves the three properties of `Analytics` for every number of
units, rules and keys. Its invariant says that the two maps, where they exist,
hold what the history of the run adds up to (`SameConfigurations`,
`CountsUnits`: each language as often as units that speak it, which is a fact
about the cardinality of a set of indices and grows by one with each), and that
nothing is recorded before the exit and exactly the groups of that exit after
it (`ToldAtExit`, with `EventsAre` for the sequence of events of each code).

The type invariants of `Startup`, `Suppression`, `RuleBase` and `Analytics` are
proved too, and hence no property of a run.

`Induction` is where the loops of the code meet the provers. A fact with a
predicate or an operator as a parameter cannot be instantiated, so induction is
stated about sets: a set of numbers that holds 0 and with n also n + 1 is `Nat`
(`SetInduction`, `BoundedInduction`), and a function whose n-th step is `G[n]`
exists and stays in its set (`RecursionExists`). A loop over a vector is
therefore a recursive function in the modules that are proved about
(`KeptSoFar`, `MapsAfter`), and each proof defines the set of the n for which
the claim holds.

Assumed, by name, in the modules: the constants have their types; a library
registers rules of its own, and one among the reporters of an executable has a
`create` function (`StartupAssumption`); command lines and texts name
directories, and their rule configurations are lists (`ConfigurationAssumption`,
`TextsAssumption`); a history is a sequence of units and a node has a sequence
of nodes below it (`TreeAssumption`); what stands for a null map or no exit is
none of the values (`NoCounterAssumption`, `NoExitAssumption`); an int has at
least one bit, with two facts about powers of two that the provers do not
compute (`IntBitsAssumption`); whatever is measured is an integer, and the
number of parameters an int that is not negative (`MeasuresAssumption`); a flight has a sequence of rules (`FlightsAssumption`),
no class is above itself (`CocoaAssumption`); the names of variables are no
kinds of other nodes, and valuations give each of them an integer
(`NullCheckAssumption`, `ConditionAssumption`); the trees that the rules of a
family fly over end, and their nodes have as many children as they have in the
languages, expressions where expressions stand
(`NullCheckTreesAssumption`, `ConditionTreesAssumption`,
`NamingTreesAssumption`; they ask nothing of the trees of other families). Of null checks they ask besides that comparisons
are with null and assignments are of null, since nothing else is modelled there;
of conditions, that what a remainder is taken by is a literal other than zero,
since C says nothing of the others. And a program is one that clang has
compiled, so that the method it finds for a message to a class is declared or
implemented for that class in the unit (`ProgramsAssumption`). TLC evaluates
every one of them.

Only model-checked: what the metrics compute (`NPathCountsPaths`,
`CyclomaticIsMcCabe`, `LengthAndDepthAreTrue`), what the rules about control flow
report (`FlowReportsHold`, `SwitchReportsHold`) and what the reporters print
(`ReportIsWellFormed`, `ReportTellsEverything`, `SummaryMatchesList`). Their
definitions or the semantics they are compared with are recursive operators over
trees and tokens, and a module that reaches one has no arithmetic to prove with. `Terminates`, `Settles` and `Lands` are
liveness properties and stay with TLC too.

## Not modelled

- Rules about single shapes of clang's tree that keep nothing between two
  callbacks, so that a model would repeat them: `ConstantConditionalOperator`,
  `ConstantIfExpression`, `ForLoopShouldBeWhileLoop`, `JumbledIncrementer`,
  `RedundantLocalVariable`, `UselessParentheses`, `ParameterReassignment`,
  `ObjCAssignIvarOutsideAccessors`, the four migration rules; and `LongLine`, which is the
  reader rule of `Suppression` and decides nothing but a length.
- Rules about what clang says of uses and types, which are outside:
  `UnusedLocalVariable`, `UnusedMethodParameter`, `FeatureEnvy`, the rules about
  C++ classes (destructors, default arguments, static members),
  `ObjCVerifyDeclarationIsUsed`, `ObjCVerifyIsEqualHash`,
  `ObjCVerifyProhibitedCall`, `ObjCVerifySafeObjects`.
- In `CocoaRules`: implementations of categories and those in headers; protocols
  that a category names, which are taken for the class's; whether a call of super
  is ever reached. C++ classes in general.
- The implicit casts clang puts into conditions. `ConditionRules` is about the
  operators and operands that are written.
- The wording, styles and dates of reports (`XMLReporter.cpp:51` formats the time
  into a buffer of fixed size), verbose and debug logging.
- The Windows ports of the loaders, the documentation generator, the scripts
  and templates.
- Clang, LLVM, the dynamic linker and the transport of analytics are outside.
  A working directory of 300 characters or more is a choice of `getcwd`
  (`TooLong`); what a relative report path then leads to is not modelled.
