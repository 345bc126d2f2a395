------------------------------ MODULE SuiteRun ------------------------------
(***************************************************************************)
(* Execution of a suite tree: RunnableTestSuite.run and                    *)
(* RunnableTestCase.run (running/model.py), the fixtures and their error   *)
(* listeners (running/fixture.py), the bookkeeping of errors that decides  *)
(* what may still run (running/runerrors.py) and the statuses and          *)
(* statistics that result (common/model.py, common/statistics.py).         *)
(*                                                                         *)
(* The recursion of suite.run is the stack `running`.  What a keyword does *)
(* is left open: a fixture or a test body ends with one of Outcomes, and   *)
(* KeywordRun says how the outcome comes about.  Messages are abstracted   *)
(* to their presence: every error message of the code is non-empty         *)
(* (ErrorDetails falls back to the exception's name), so `err is not None` *)
(* and `bool(err)` agree.                                                  *)
(***************************************************************************)
EXTENDS Integers, Sequences, FiniteSets, SequencesExt

CONSTANTS
  Suites,      \* the suites of the tree
  Tests,       \* the tests of the tree
  Root,        \* the suite suite.run is called on
  SubSuites,   \* SubSuites[s]: suite.suites, in execution order
  TestsOf,     \* TestsOf[s]: suite.tests, in execution order
  Critical,    \* the tests whose `critical` attribute is 'yes'
  RunModes,    \* the run modes to consider, see Mode
  NoTest       \* no test is being run

\* The two run modes that decide what happens after a failure.
Mode == [exitOnFailure: BOOLEAN, skipTeardownOnExit: BOOLEAN]

\* The suites form a tree rooted at Root, and a test belongs to one suite.
ASSUME TreeAssumption ==
  /\ Root \in Suites
  /\ SubSuites \in [Suites -> Seq(Suites)]
  /\ TestsOf \in [Suites -> Seq(Tests)]
  /\ \A s \in Suites : Root \notin Range(SubSuites[s])
  /\ \A s1, s2 \in Suites :
       /\ Range(SubSuites[s1]) \cap Range(SubSuites[s2]) # {} => s1 = s2
       /\ Range(TestsOf[s1]) \cap Range(TestsOf[s2]) # {} => s1 = s2
  /\ \A s \in Suites :
       /\ \A i, j \in DOMAIN SubSuites[s] : SubSuites[s][i] = SubSuites[s][j] => i = j
       /\ \A i, j \in DOMAIN TestsOf[s] : TestsOf[s][i] = TestsOf[s][j] => i = j

ASSUME ModeAssumption ==
  /\ Critical \subseteq Tests
  /\ RunModes \subseteq Mode
  /\ NoTest \notin Tests
  /\ IsFiniteSet(Tests)

\* PASS, an ordinary failure, and a failure whose `exit` attribute is set
\* (a fatal exception or a stop signal).
Outcomes == {"PASS", "FAIL", "EXIT"}

Failed(outcome) == outcome # "PASS"

VARIABLES
  mode,             \* run modes, fixed when the run starts
  running,          \* the suites whose run() is active, innermost last
  phase,            \* where each suite is in run()
  nextSuite,        \* loop position of _run_sub_suites
  nextTest,         \* loop position of _run_tests
  \* SuiteRunErrors; TRUE stands for an error message, FALSE for _NO_ERROR
  currentInitErr, currentSetupErr, setupExecuted,
  earlierInitErrs, earlierSetupErrs, earlierExecutions,
  exitRunmode, exitFatal,
  \* the running test: its TestRunErrors and where it is in run()
  test, step, testErrs,
  \* results
  status,           \* status of each test
  suiteStatus,      \* status of each suite
  stats,            \* critical_stats and all_stats of each suite
  setupStatus, teardownStatus,   \* status of each suite's fixtures
  \* auxiliary: what happened, for the properties
  initFailed,       \* the suites whose initialization failed
  ran,              \* the tests that were allowed to run
  failures,         \* the parts of each test that failed
  teardownRun,      \* the tests whose teardown was run
  fatal             \* some keyword has failed with `exit` set

errorVars == <<currentInitErr, currentSetupErr, setupExecuted,
               earlierInitErrs, earlierSetupErrs, earlierExecutions>>
exitVars == <<exitRunmode, exitFatal>>
suiteVars == <<running, phase, nextSuite, nextTest>>
testVars == <<test, step, testErrs>>
resultVars == <<status, suiteStatus, stats, setupStatus, teardownStatus>>
auxVars == <<initFailed, ran, failures, teardownRun, fatal>>
vars == <<mode, suiteVars, errorVars, exitVars, testVars, resultVars, auxVars>>

-----------------------------------------------------------------------------
(* The tree *)

\* The suites of the subtree of s, s included: the least set that contains s
\* and, with a suite, its sub suites.  (TLC evaluates this table only once.)
Subtree ==
  [s \in Suites |-> {x \in Suites : \A S \in SUBSET Suites :
     (s \in S /\ \A y \in S : Range(SubSuites[y]) \subseteq S) => x \in S}]

Under(s) == Subtree[s]

TestsUnder(s) == UNION {Range(TestsOf[x]) : x \in Under(s)}

Current == running[Len(running)]

At(p) == /\ running # <<>>
         /\ phase[Current] = p

\* run() of the innermost suite goes on with phase p.
GoTo(p) == phase' = [phase EXCEPT ![Current] = p]

-----------------------------------------------------------------------------
(* SuiteRunErrors and TestRunErrors *)

TrueIn(seq) == \E i \in DOMAIN seq : seq[i]

ExitMode == exitRunmode \/ exitFatal

\* Mutants: a rule forgets one of the sources of an error.
EarlierSetupErrorsOnly == ExitMode \/ TrueIn(earlierSetupErrs)
EarlierErrorsNotFatal ==
  exitRunmode \/ TrueIn(earlierSetupErrs) \/ TrueIn(earlierInitErrs)

EarlierErrors ==
  ExitMode \/ TrueIn(earlierSetupErrs) \/ TrueIn(earlierInitErrs)

SuiteSetupAllowed == ~currentInitErr /\ ~EarlierErrors

\* Mutant: SkipTeardownOnExit is not looked at.
TestTeardownUnlessExit == ~ExitMode

TestTeardownAllowed == mode.skipTeardownOnExit => ~ExitMode

\* Mutant: the teardown does not depend on whether the setup was run.
SuiteTeardownIfNoErrors ==
  TestTeardownAllowed /\ ~currentInitErr /\ ~EarlierErrors

SuiteTeardownAllowed ==
  /\ TestTeardownAllowed
  /\ setupExecuted \/ (~currentInitErr /\ ~EarlierErrors)

\* Mutants: the saved setup errors, or the exit modes, are forgotten.
ChildErrorNoEarlierSetup ==
  currentInitErr \/ TrueIn(earlierInitErrs) \/ currentSetupErr \/ ExitMode
ChildErrorNoExit ==
  \/ currentInitErr \/ TrueIn(earlierInitErrs)
  \/ currentSetupErr \/ TrueIn(earlierSetupErrs)

\* child_error: whether a test started now has a parent error.
ChildError ==
  \/ currentInitErr \/ TrueIn(earlierInitErrs)
  \/ currentSetupErr \/ TrueIn(earlierSetupErrs)
  \/ ExitMode

\* TestRunErrors.get_message: the setup's error or the keywords' error.
BodyFailed == testErrs.setup \/ testErrs.kw

NoErrs == [parent |-> FALSE, init |-> FALSE, setup |-> FALSE,
           kw |-> FALSE, teardown |-> FALSE]

\* Mutant: ExitOnFailure stops after failures that are not critical, too.
AnyTestFailed(exit) ==
  /\ exitRunmode' = (exitRunmode \/ mode.exitOnFailure)
  /\ exitFatal' = (exitFatal \/ exit)

\* SuiteRunErrors.test_failed for the running test; `exit` says whether the
\* error that is reported has its exit attribute set.
TestFailed(exit) ==
  /\ exitRunmode' = (exitRunmode \/ (test \in Critical /\ mode.exitOnFailure))
  /\ exitFatal' = (exitFatal \/ exit)

\* RunnableTestCase.keyword_failed when the outcome is a failure.
KeywordFailed(outcome) ==
  IF Failed(outcome)
  THEN TestFailed(outcome = "EXIT")
  ELSE UNCHANGED exitVars

-----------------------------------------------------------------------------
(* Statistics *)

NoStat == [passed |-> 0, failed |-> 0]

\* Stat.add_test over a set of tests with the statuses st.
Tally(T, st) ==
  [passed |-> Cardinality({t \in T : st[t] = "PASS"}),
   failed |-> Cardinality({t \in T : st[t] # "PASS"})]

\* Mutants: the tests of a failed suite pass, or are counted down.
PassAll(stat) == [passed |-> stat.failed + stat.passed, failed |-> 0]
FailRest(stat) == [passed |-> 0, failed |-> stat.passed - stat.failed]

FailAll(stat) == [passed |-> 0, failed |-> stat.failed + stat.passed]

SuiteTally(s, st) ==
  [critical |-> Tally(TestsUnder(s) \cap Critical, st),
   all |-> Tally(TestsUnder(s), st)]

StatusOf(stat) == IF stat.critical.failed = 0 THEN "PASS" ELSE "FAIL"

\* BaseTestSuite.set_status of the innermost suite: it recounts every suite
\* of the subtree from the statuses of the tests.
SetStatus ==
  /\ stats' = [s \in Suites |-> IF s \in Under(Current)
                                THEN SuiteTally(s, status) ELSE stats[s]]
  /\ suiteStatus' = [s \in Suites |-> IF s \in Under(Current)
                                      THEN StatusOf(stats'[s])
                                      ELSE suiteStatus[s]]

\* BaseTestSuite.suite_teardown_failed: the whole subtree fails.
SuiteTeardownFailed ==
  /\ stats' = [s \in Suites |->
                 IF s \in Under(Current)
                 THEN [critical |-> FailAll(stats[s].critical),
                       all |-> FailAll(stats[s].all)]
                 ELSE stats[s]]
  /\ suiteStatus' = [s \in Suites |-> IF s \in Under(Current)
                                      THEN StatusOf(stats'[s])
                                      ELSE suiteStatus[s]]
  /\ status' = [t \in Tests |-> IF t \in TestsUnder(Current)
                                THEN "FAIL" ELSE status[t]]

-----------------------------------------------------------------------------
Init ==
  /\ mode \in RunModes
  /\ running = <<>>
  /\ phase = [s \in Suites |-> "NOT_RUN"]
  /\ nextSuite = [s \in Suites |-> 1]
  /\ nextTest = [s \in Suites |-> 1]
  /\ currentInitErr = FALSE /\ currentSetupErr = FALSE
  /\ setupExecuted = FALSE
  /\ earlierInitErrs = <<>> /\ earlierSetupErrs = <<>>
  /\ earlierExecutions = <<>>
  /\ exitRunmode = FALSE /\ exitFatal = FALSE
  /\ test = NoTest /\ step = "idle" /\ testErrs = NoErrs
  /\ status = [t \in Tests |-> "NOT_RUN"]
  /\ suiteStatus = [s \in Suites |-> "NOT_RUN"]
  /\ stats = [s \in Suites |-> [critical |-> NoStat, all |-> NoStat]]
  /\ setupStatus = [s \in Suites |-> "NOT_RUN"]
  /\ teardownStatus = [s \in Suites |-> "NOT_RUN"]
  /\ initFailed = {} /\ ran = {} /\ teardownRun = {}
  /\ failures = [t \in Tests |-> {}]
  /\ fatal = FALSE

-----------------------------------------------------------------------------
(* RunnableTestSuite.run *)

\* _start_run: run_errors.start_suite saves the enclosing suite's errors, and
\* initErr says whether replacing variables in the suite's settings failed.
StartRun(s, initErr) ==
  /\ running' = Append(running, s)
  /\ phase' = [phase EXCEPT ![s] = "setup"]
  /\ earlierInitErrs' = Append(earlierInitErrs, currentInitErr)
  /\ earlierSetupErrs' = Append(earlierSetupErrs, currentSetupErr)
  /\ earlierExecutions' = Append(earlierExecutions, setupExecuted)
  /\ currentInitErr' = initErr
  /\ currentSetupErr' = FALSE
  /\ setupExecuted' = FALSE
  /\ suiteStatus' = [suiteStatus EXCEPT ![s] = "RUNNING"]
  /\ initFailed' = IF initErr THEN initFailed \cup {s} ELSE initFailed
  /\ UNCHANGED <<mode, nextTest, exitVars, testVars, status, stats,
                 setupStatus, teardownStatus, ran, failures, teardownRun, fatal>>

StartRootSuite ==
  /\ phase[Root] = "NOT_RUN"
  /\ UNCHANGED nextSuite
  /\ \E initErr \in BOOLEAN : StartRun(Root, initErr)

\* _run_setup, when the setup may run.  SuiteSetupListener records the error.
RunSuiteSetup ==
  /\ At("setup")
  /\ SuiteSetupAllowed
  /\ \E outcome \in Outcomes :
       /\ currentSetupErr' = Failed(outcome)
       /\ setupStatus' = [setupStatus EXCEPT ![Current] =
                            IF Failed(outcome) THEN "FAIL" ELSE "PASS"]
       /\ fatal' = (fatal \/ outcome = "EXIT")
  /\ setupExecuted' = TRUE
  /\ GoTo("suites")
  /\ UNCHANGED <<mode, running, nextSuite, nextTest, currentInitErr,
                 earlierInitErrs, earlierSetupErrs, earlierExecutions, exitVars,
                 testVars, status, suiteStatus, stats, teardownStatus,
                 initFailed, ran, failures, teardownRun>>

SkipSuiteSetup ==
  /\ At("setup")
  /\ ~SuiteSetupAllowed
  /\ GoTo("suites")
  /\ UNCHANGED <<mode, running, nextSuite, nextTest, errorVars, exitVars,
                 testVars, resultVars, auxVars>>

\* _run_sub_suites: run() of the next sub suite begins.
RunSubSuite ==
  /\ At("suites")
  /\ nextSuite[Current] <= Len(SubSuites[Current])
  /\ nextSuite' = [nextSuite EXCEPT ![Current] = @ + 1]
  /\ \E initErr \in BOOLEAN :
       StartRun(SubSuites[Current][nextSuite[Current]], initErr)

SubSuitesDone ==
  /\ At("suites")
  /\ nextSuite[Current] > Len(SubSuites[Current])
  /\ GoTo("tests")
  /\ UNCHANGED <<mode, running, nextSuite, nextTest, errorVars, exitVars,
                 testVars, resultVars, auxVars>>

TestsDone ==
  /\ At("tests")
  /\ test = NoTest
  /\ nextTest[Current] > Len(TestsOf[Current])
  /\ GoTo("report")
  /\ UNCHANGED <<mode, running, nextSuite, nextTest, errorVars, exitVars,
                 testVars, resultVars, auxVars>>

\* _report_status
ReportSuiteStatus ==
  /\ At("report")
  /\ SetStatus
  /\ GoTo("teardown")
  /\ UNCHANGED <<mode, running, nextSuite, nextTest, errorVars, exitVars,
                 testVars, status, setupStatus, teardownStatus, auxVars>>

\* _run_teardown, when the teardown may run.  SuiteTearDownListener fails the
\* subtree.
RunSuiteTeardown ==
  /\ At("teardown")
  /\ SuiteTeardownAllowed
  /\ \E outcome \in Outcomes :
       /\ teardownStatus' = [teardownStatus EXCEPT ![Current] =
                               IF Failed(outcome) THEN "FAIL" ELSE "PASS"]
       /\ IF Failed(outcome) THEN SuiteTeardownFailed
                             ELSE UNCHANGED <<stats, suiteStatus, status>>
       /\ fatal' = (fatal \/ outcome = "EXIT")
  /\ GoTo("end")
  /\ UNCHANGED <<mode, running, nextSuite, nextTest, errorVars, exitVars,
                 testVars, setupStatus, initFailed, ran, failures, teardownRun>>

SkipSuiteTeardown ==
  /\ At("teardown")
  /\ ~SuiteTeardownAllowed
  /\ GoTo("end")
  /\ UNCHANGED <<mode, running, nextSuite, nextTest, errorVars, exitVars,
                 testVars, resultVars, auxVars>>

\* Mutant: the outermost saved setup error is restored, not the innermost.
RestoreFirstErrors ==
  /\ currentInitErr' = Last(earlierInitErrs)
  /\ currentSetupErr' = Head(earlierSetupErrs)
  /\ setupExecuted' = Last(earlierExecutions)
  /\ earlierInitErrs' = Front(earlierInitErrs)
  /\ earlierSetupErrs' = Tail(earlierSetupErrs)
  /\ earlierExecutions' = Front(earlierExecutions)

\* SuiteRunErrors.end_suite: the errors of the enclosing suite are current again.
RestoreErrors ==
  /\ currentInitErr' = Last(earlierInitErrs)
  /\ currentSetupErr' = Last(earlierSetupErrs)
  /\ setupExecuted' = Last(earlierExecutions)
  /\ earlierInitErrs' = Front(earlierInitErrs)
  /\ earlierSetupErrs' = Front(earlierSetupErrs)
  /\ earlierExecutions' = Front(earlierExecutions)

\* _end_run: run_errors.end_suite restores the enclosing suite's errors.
EndSuite ==
  /\ At("end")
  /\ GoTo("ended")
  /\ running' = Front(running)
  /\ RestoreErrors
  /\ UNCHANGED <<mode, nextSuite, nextTest, exitVars, testVars, resultVars, auxVars>>

-----------------------------------------------------------------------------
(* RunnableTestCase.run *)

InStep(p) == test # NoTest /\ step = p

\* _start_run: TestRunErrors asks for the parent's error once, here, and
\* initErr says whether _init_test reports an error.
StartTest ==
  /\ At("tests")
  /\ test = NoTest
  /\ nextTest[Current] <= Len(TestsOf[Current])
  /\ nextTest' = [nextTest EXCEPT ![Current] = @ + 1]
  /\ test' = TestsOf[Current][nextTest[Current]]
  /\ \E initErr \in BOOLEAN :
       /\ testErrs' = [NoErrs EXCEPT !.parent = ChildError, !.init = initErr]
       /\ failures' = IF initErr
                      THEN [failures EXCEPT ![test'] = @ \cup {"init"}]
                      ELSE failures
  /\ step' = "start"
  /\ status' = [status EXCEPT ![test'] = "RUNNING"]
  /\ UNCHANGED <<mode, running, phase, nextSuite, errorVars, exitVars,
                 suiteStatus, stats, setupStatus, teardownStatus,
                 initFailed, ran, teardownRun, fatal>>

AllowedToRun == ~testErrs.parent /\ ~testErrs.init

\* Mutant: the status is left as it is.
NotAllowedButRunning ==
  /\ InStep("start") /\ ~AllowedToRun
  /\ step' = "end"
  /\ UNCHANGED <<mode, suiteVars, errorVars, exitVars, test, testErrs,
                 resultVars, auxVars>>

\* _not_allowed_to_run
NotAllowedToRun ==
  /\ InStep("start")
  /\ ~AllowedToRun
  /\ status' = [status EXCEPT ![test] = "FAIL"]
  /\ step' = "end"
  /\ UNCHANGED <<mode, suiteVars, errorVars, exitVars, test, testErrs,
                 suiteStatus, stats, setupStatus, teardownStatus, auxVars>>

\* A part of the running test ends with the given outcome.
Observe(part, outcome) ==
  /\ failures' = IF Failed(outcome)
                 THEN [failures EXCEPT ![test] = @ \cup {part}]
                 ELSE failures
  /\ fatal' = (fatal \/ outcome = "EXIT")

\* _run_setup with TestSetupListener
RunTestSetup ==
  /\ InStep("start")
  /\ AllowedToRun
  /\ \E outcome \in Outcomes :
       /\ KeywordFailed(outcome)
       /\ testErrs' = [testErrs EXCEPT !.setup = Failed(outcome)]
       /\ step' = IF Failed(outcome) THEN "report" ELSE "keywords"
       /\ Observe("setup", outcome)
  /\ ran' = ran \cup {test}
  /\ UNCHANGED <<mode, suiteVars, errorVars, test, resultVars,
                 initFailed, teardownRun>>

\* self.keywords.run
RunKeywords ==
  /\ InStep("keywords")
  /\ \E outcome \in Outcomes :
       /\ KeywordFailed(outcome)
       /\ testErrs' = [testErrs EXCEPT !.kw = Failed(outcome)]
       /\ Observe("keywords", outcome)
  /\ step' = "report"
  /\ UNCHANGED <<mode, suiteVars, errorVars, test, resultVars,
                 initFailed, ran, teardownRun>>

\* _report_status; from here on the test's keywords are in teardown.
ReportTestStatus ==
  /\ InStep("report")
  /\ status' = [status EXCEPT ![test] =
                  IF BodyFailed THEN "FAIL" ELSE "PASS"]
  /\ step' = "teardown"
  /\ UNCHANGED <<mode, suiteVars, errorVars, exitVars, test, testErrs,
                 suiteStatus, stats, setupStatus, teardownStatus, auxVars>>

\* _run_teardown with TestTeardownListener
RunTestTeardown ==
  /\ InStep("teardown")
  /\ TestTeardownAllowed
  /\ \E outcome \in Outcomes :
       /\ KeywordFailed(outcome)
       /\ testErrs' = [testErrs EXCEPT !.teardown = Failed(outcome)]
       /\ Observe("teardown", outcome)
  /\ teardownRun' = teardownRun \cup {test}
  /\ step' = "after"
  /\ UNCHANGED <<mode, suiteVars, errorVars, test, resultVars, initFailed, ran>>

SkipTestTeardown ==
  /\ InStep("teardown")
  /\ ~TestTeardownAllowed
  /\ step' = "after"
  /\ UNCHANGED <<mode, suiteVars, errorVars, exitVars, test, testErrs,
                 resultVars, auxVars>>

\* _report_status_after_teardown: a failed teardown and an exceeded test
\* timeout fail a test that has passed so far.
ReportAfterTeardown ==
  /\ InStep("after")
  /\ \E timedOut \in BOOLEAN :
       LET late == timedOut /\ status[test] = "PASS" /\ ~testErrs.teardown
           st == IF testErrs.teardown \/ late THEN "FAIL" ELSE status[test]
       IN /\ status' = [status EXCEPT ![test] = st]
          /\ IF st = "FAIL" THEN TestFailed(FALSE) ELSE UNCHANGED exitVars
          /\ failures' = IF late
                         THEN [failures EXCEPT ![test] = @ \cup {"timeout"}]
                         ELSE failures
  /\ step' = "end"
  /\ UNCHANGED <<mode, suiteVars, errorVars, test, testErrs, suiteStatus,
                 stats, setupStatus, teardownStatus, initFailed, ran,
                 teardownRun, fatal>>

\* _end_run of the test; the suite's loop goes on with the next one.
EndTest ==
  /\ InStep("end")
  /\ test' = NoTest
  /\ step' = "idle"
  /\ testErrs' = NoErrs
  /\ UNCHANGED <<mode, suiteVars, errorVars, exitVars, resultVars, auxVars>>

-----------------------------------------------------------------------------
SuiteStep ==
  \/ StartRootSuite \/ RunSuiteSetup \/ SkipSuiteSetup \/ RunSubSuite
  \/ SubSuitesDone \/ TestsDone \/ ReportSuiteStatus \/ RunSuiteTeardown
  \/ SkipSuiteTeardown \/ EndSuite

TestStep ==
  \/ StartTest \/ NotAllowedToRun \/ RunTestSetup \/ RunKeywords
  \/ ReportTestStatus \/ RunTestTeardown \/ SkipTestTeardown
  \/ ReportAfterTeardown \/ EndTest

\* The run is over when the root suite's run() has returned.
Over == phase[Root] = "ended" /\ UNCHANGED vars

Next == SuiteStep \/ TestStep \/ Over

Spec == Init /\ [][Next]_vars

\* One thread runs the suites and every keyword ends, so the run goes on.
FairSpec == Spec /\ WF_vars(Next)

-----------------------------------------------------------------------------
(* Properties *)

Phases == {"NOT_RUN", "setup", "suites", "tests", "report", "teardown",
           "end", "ended"}
Steps == {"idle", "start", "keywords", "report", "teardown", "after", "end"}
Parts == {"init", "setup", "keywords", "teardown", "timeout"}
Statuses == {"NOT_RUN", "RUNNING", "PASS", "FAIL"}
FixtureStatuses == {"NOT_RUN", "PASS", "FAIL"}
Stat == [passed: Nat, failed: Nat]

\* The type invariant: the values the objects of running/ and common/ hold.
TypeOK ==
  /\ mode \in Mode
  /\ running \in Seq(Suites)
  /\ phase \in [Suites -> Phases]
  /\ nextSuite \in [Suites -> Nat \ {0}] /\ nextTest \in [Suites -> Nat \ {0}]
  /\ currentInitErr \in BOOLEAN /\ currentSetupErr \in BOOLEAN
  /\ setupExecuted \in BOOLEAN
  /\ earlierInitErrs \in Seq(BOOLEAN) /\ earlierSetupErrs \in Seq(BOOLEAN)
  /\ earlierExecutions \in Seq(BOOLEAN)
  /\ exitRunmode \in BOOLEAN /\ exitFatal \in BOOLEAN
  /\ test \in Tests \cup {NoTest} /\ step \in Steps
  /\ testErrs \in [parent: BOOLEAN, init: BOOLEAN, setup: BOOLEAN,
                   kw: BOOLEAN, teardown: BOOLEAN]
  /\ status \in [Tests -> Statuses]
  /\ suiteStatus \in [Suites -> Statuses]
  /\ stats \in [Suites -> [critical: Stat, all: Stat]]
  /\ setupStatus \in [Suites -> FixtureStatuses]
  /\ teardownStatus \in [Suites -> FixtureStatuses]
  /\ initFailed \subseteq Suites /\ ran \subseteq Tests
  /\ teardownRun \subseteq Tests
  /\ failures \in [Tests -> SUBSET Parts]
  /\ fatal \in BOOLEAN

\* The suite failed before its tests could start.
Broken(s) == s \in initFailed \/ setupStatus[s] = "FAIL"

\* A test runs only if no suite above it, its own suite included, failed to
\* initialize or failed its setup (child_error over the saved errors).
NoTestRunsUnderErrors ==
  \A t \in ran : \A s \in Suites : t \in TestsUnder(s) => ~Broken(s)

\* Likewise a suite whose setup was run has no broken suite above it.
NoSetupRunsUnderErrors ==
  \A c, s \in Suites :
    (c \in Under(s) /\ c # s /\ setupStatus[c] # "NOT_RUN") => ~Broken(s)

\* The teardown of a suite is run exactly when its setup was run, whatever
\* failed or exited in between; only SkipTeardownOnExit leaves it out.
TeardownMatchesSetup ==
  \A s \in Suites : phase[s] \in {"end", "ended"} =>
    /\ teardownStatus[s] # "NOT_RUN" => setupStatus[s] # "NOT_RUN"
    /\ setupStatus[s] # "NOT_RUN" /\ teardownStatus[s] = "NOT_RUN"
         => mode.skipTeardownOnExit /\ ExitMode

\* A test that was allowed to run has its teardown run, whatever failed,
\* unless SkipTeardownOnExit is used and the execution is being stopped.
RunTestsAreTornDown ==
  \A t \in ran : (t # test /\ t \notin teardownRun) =>
    mode.skipTeardownOnExit /\ ExitMode

\* The inductive invariant behind NoTestRunsUnderErrors.

\* running is a path of the tree from Root, all of it within _run_sub_suites
\* but for the innermost suite; the error lists are as long as it is.
StackOK ==
  /\ Len(earlierInitErrs) = Len(running)
  /\ Len(earlierSetupErrs) = Len(running)
  /\ Len(earlierExecutions) = Len(running)
  /\ \A i \in DOMAIN running :
       /\ i = 1 => running[i] = Root
       /\ i > 1 => running[i] \in Range(SubSuites[running[i - 1]])
       /\ i < Len(running) => phase[running[i]] = "suites"
       /\ phase[running[i]] \notin {"NOT_RUN", "ended"}
       /\ \A j \in DOMAIN running : running[i] = running[j] => i = j

\* The sub suites a loop has not reached are untouched.
FreshOK ==
  /\ \A s \in Suites : \A j \in DOMAIN SubSuites[s] :
       j >= nextSuite[s] => phase[SubSuites[s][j]] = "NOT_RUN"
  /\ \A s \in Suites :
       /\ phase[s] = "NOT_RUN" => s \notin initFailed
       /\ phase[s] \in {"NOT_RUN", "setup"} => setupStatus[s] = "NOT_RUN"

\* The error SuiteRunErrors holds for the i-th suite of running.
InitErrAt(i) ==
  IF i = Len(running) THEN currentInitErr ELSE earlierInitErrs[i + 1]
SetupErrAt(i) ==
  IF i = Len(running) THEN currentSetupErr ELSE earlierSetupErrs[i + 1]

\* The saved and current errors are those of the suites they are saved for.
ErrorsOK ==
  \A i \in DOMAIN running :
    /\ running[i] \in initFailed => InitErrAt(i)
    /\ setupStatus[running[i]] = "FAIL" => SetupErrAt(i)

\* A test runs within _run_tests of the innermost suite, and what it was told
\* about the errors above it when it started still holds.
TestOK ==
  test # NoTest =>
    /\ At("tests")
    /\ test \in Range(TestsOf[Current])
    /\ ~testErrs.parent =>
         /\ ~currentInitErr /\ ~TrueIn(earlierInitErrs)
         /\ ~currentSetupErr /\ ~TrueIn(earlierSetupErrs)

\* The suites above a test that was run are past their setup, and not broken.
RanOK ==
  \A t \in ran : \A s \in Suites : t \in TestsUnder(s) =>
    /\ phase[s] \notin {"NOT_RUN", "setup"}
    /\ ~Broken(s)

\* The error bookkeeping of SuiteRunErrors is that of the suites being run, so
\* that what is_allowed_to_run answers for a test is true of the suites above it.
ErrorBookkeeping == StackOK /\ FreshOK /\ ErrorsOK /\ TestOK /\ RanOK

FailedTeardownAbove(t) ==
  \E s \in Suites : t \in TestsUnder(s) /\ teardownStatus[s] = "FAIL"

\* A finished test passes exactly when it was run, no part of it failed and no
\* suite teardown above it has failed.
StatusHasItsCause ==
  \A t \in Tests : (t # test /\ status[t] # "NOT_RUN") =>
    /\ status[t] \in {"PASS", "FAIL"}
    /\ status[t] = "PASS" <=>
         t \in ran /\ failures[t] = {} /\ ~FailedTeardownAbove(t)

\* A test is left out only for a reason: its own initialization, a broken suite
\* above it, a fatal error, or in ExitOnFailure mode a critical test that was
\* run and failed.
LeftOutForAReason ==
  \A t \in Tests : (t # test /\ status[t] # "NOT_RUN" /\ t \notin ran) =>
    \/ "init" \in failures[t]
    \/ \E s \in Suites : t \in TestsUnder(s) /\ Broken(s)
    \/ fatal
    \/ mode.exitOnFailure /\ \E c \in Critical \cap ran : failures[c] # {}

\* When a suite has ended its statistics count the statuses its tests have
\* now, though teardown failures arrive after the counting (fail_all), and the
\* suite failed exactly when a critical test in it did.  The root's critical
\* failures are the return code.
StatisticsAgree ==
  \A s \in Suites : phase[s] = "ended" =>
    /\ stats[s] = SuiteTally(s, status)
    /\ suiteStatus[s] = "FAIL" <=>
         \E t \in TestsUnder(s) \cap Critical : status[t] = "FAIL"

\* Once the execution is being stopped no further test and no further suite
\* setup is run, in any suite.
StopIsFinal == [][ExitMode => /\ ran' = ran
                              /\ \A s \in Suites : setupStatus[s] = "NOT_RUN"
                                   => setupStatus'[s] = "NOT_RUN"]_vars

\* The results only get worse: a failed test stays failed and a failed suite
\* stays failed, though both statuses are assigned several times.
FailureIsFinal ==
  [][/\ \A t \in Tests : status[t] = "FAIL" => status'[t] = "FAIL"
     /\ \A s \in Suites : suiteStatus[s] = "FAIL" => suiteStatus'[s] = "FAIL"]_vars

\* The run ends, with every suite ended and every test given a verdict.
RunEnds ==
  <>[](/\ phase[Root] = "ended"
       /\ \A s \in Suites : phase[s] = "ended"
       /\ \A t \in Tests : status[t] \in {"PASS", "FAIL"})

\* The user guide: in ExitOnFailure mode "the execution of tests stops
\* immediately if a critical test fails and the remaining tests are marked as
\* failed": once a critical test has ended as failed no further test runs.
ExitOnFailureStopsRun ==
  [][(mode.exitOnFailure /\ \E t \in Critical \ {test} : status[t] = "FAIL")
       => ran' = ran]_vars

\* The documentation of Fatal Error: it "stops the whole test execution", in
\* the test or suite where it is used: no further test runs.
FatalErrorStopsRun == [][fatal => ran' = ran]_vars

-----------------------------------------------------------------------------
(* SuiteRun implements TestResults *)

\* t comes before u in the execution order: a suite runs its sub suites in
\* order, then its own tests in order.
RunsBefore(t, u) ==
  \E s \in Suites :
    \/ \E i, j \in DOMAIN SubSuites[s] :
         i < j /\ t \in TestsUnder(SubSuites[s][i]) /\ u \in TestsUnder(SubSuites[s][j])
    \/ \E i \in DOMAIN SubSuites[s] :
         t \in TestsUnder(SubSuites[s][i]) /\ u \in Range(TestsOf[s])
    \/ \E i, j \in DOMAIN TestsOf[s] : i < j /\ t = TestsOf[s][i] /\ u = TestsOf[s][j]

\* While run() of a test is active its status may still change.
Results == INSTANCE TestResults WITH
  Before <- {p \in Tests \X Tests : RunsBefore(p[1], p[2])},
  Groups <- {TestsUnder(s) : s \in Suites},
  verdict <- [t \in Tests |-> IF t = test THEN "RUNNING" ELSE status[t]],
  stopped <- ExitMode

\* Running the suites implements the promise about the verdicts.
ImplementsResults == Results!Spec

\* What is reported of every item.
ResultsAreRight == StatusHasItsCause /\ LeftOutForAReason /\ StatisticsAgree
=============================================================================
