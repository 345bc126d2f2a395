----------------------------- MODULE SuiteProofs -----------------------------
(***************************************************************************)
(* The run of a suite and the outputs it writes, for every suite tree,     *)
(* every set of critical tests, every run mode and level of splitting:     *)
(*  - the types and the error bookkeeping are kept, so no test is run      *)
(*    below a suite that failed to initialize or failed its setup;         *)
(*  - what is reported of every test and every suite has its cause, the    *)
(*    statistics count the statuses the tests end with, and a failure      *)
(*    stays;                                                               *)
(*  - reading the output files gives every test the status the run left it *)
(*    with, and the variables name the file that is written, whatever      *)
(*    suite teardowns fail after tests were written.                       *)
(***************************************************************************)
EXTENDS SuiteOutput, FiniteSetTheorems, SequenceTheorems, TLAPS

-----------------------------------------------------------------------------
(* Sequences *)

LEMMA FrontType ==
  ASSUME NEW S, NEW seq \in Seq(S), seq # <<>>
  PROVE  /\ Front(seq) \in Seq(S)
         /\ Last(seq) \in S
         /\ Len(Front(seq)) = Len(seq) - 1
         /\ Len(seq) \in Nat \ {0}
         /\ \A i \in 1 .. Len(seq) - 1 : Front(seq)[i] = seq[i]
<1>1. Len(seq) \in Nat \ {0}
  BY LenProperties, EmptySeq
<1>2. \A i \in 1 .. Len(seq) - 1 : seq[i] \in S
  BY <1>1, ElementOfSeq
<1>3. seq[Len(seq)] \in S
  BY <1>1, ElementOfSeq
<1>4. /\ SubSeq(seq, 1, Len(seq) - 1) \in Seq(S)
      /\ Len(SubSeq(seq, 1, Len(seq) - 1)) = Len(seq) - 1
      /\ \A i \in 1 .. Len(seq) - 1 : SubSeq(seq, 1, Len(seq) - 1)[i] = seq[i]
  <2> DEFINE n == Len(seq) - 1
  <2>1. n \in Int /\ 1 \in Int /\ n >= 0
    BY <1>1
  <2>2. \A i \in 1 .. n : seq[i] \in S
    BY <1>2
  <2> HIDE DEF n
  <2>3. /\ SubSeq(seq, 1, n) \in Seq(S)
        /\ Len(SubSeq(seq, 1, n)) = IF 1 <= n THEN n - 1 + 1 ELSE 0
        /\ \A i \in 1 .. n - 1 + 1 : SubSeq(seq, 1, n)[i] = seq[1 + i - 1]
    BY <2>1, <2>2, SubSeqProperties
  <2>4. Len(SubSeq(seq, 1, n)) = n
    BY <2>1, <2>3
  <2>5. \A i \in 1 .. n : SubSeq(seq, 1, n)[i] = seq[i]
    BY <2>1, <2>3
  <2> QED BY <2>3, <2>4, <2>5 DEF n
<1> QED BY <1>1, <1>3, <1>4 DEF Front, Last

LEMMA RangeType ==
  ASSUME NEW S, NEW seq \in Seq(S)
  PROVE  Range(seq) \subseteq S
BY ElementOfSeq, LenProperties DEF Range

-----------------------------------------------------------------------------
(* Types *)

LEMMA TallyType ==
  ASSUME NEW s \in Suites, NEW st
  PROVE  SuiteTally(s, st) \in [critical: Stat, all: Stat]
<1>1. TestsUnder(s) \subseteq Tests
  BY RangeType, TreeAssumption DEF TestsUnder, Under, Subtree
<1>2. \A T \in SUBSET Tests : Tally(T, st) \in Stat
  <2> SUFFICES ASSUME NEW T \in SUBSET Tests PROVE Tally(T, st) \in Stat
    OBVIOUS
  <2>1. \A U \in SUBSET T : IsFiniteSet(U) /\ Cardinality(U) \in Nat
    BY FS_Subset, FS_CardinalityType, ModeAssumption
  <2>2. /\ {t \in T : st[t] = "PASS"} \in SUBSET T
        /\ {t \in T : st[t] # "PASS"} \in SUBSET T
    OBVIOUS
  <2> QED BY <2>1, <2>2 DEF Tally, Stat
<1> QED BY <1>1, <1>2 DEF SuiteTally

LEMMA FailAllType ==
  ASSUME NEW stat \in Stat
  PROVE  FailAll(stat) \in Stat
BY DEF FailAll, Stat

LEMMA CurrentType ==
  ASSUME TypeOK, running # <<>>
  PROVE  Current \in Suites
BY DEF TypeOK, Current

LEMMA StatsTypes ==
  ASSUME TypeOK
  PROVE  /\ SetStatus => /\ stats' \in [Suites -> [critical: Stat, all: Stat]]
                         /\ suiteStatus' \in [Suites -> Statuses]
         /\ SuiteTeardownFailed =>
              /\ stats' \in [Suites -> [critical: Stat, all: Stat]]
              /\ suiteStatus' \in [Suites -> Statuses]
              /\ status' \in [Tests -> Statuses]
<1>1. \A st : StatusOf(st) \in Statuses
  BY DEF StatusOf, Statuses
<1>2. ASSUME SetStatus
      PROVE  /\ stats' \in [Suites -> [critical: Stat, all: Stat]]
             /\ suiteStatus' \in [Suites -> Statuses]
  BY <1>1, <1>2, TallyType DEF SetStatus, TypeOK
<1>3. ASSUME SuiteTeardownFailed
      PROVE  /\ stats' \in [Suites -> [critical: Stat, all: Stat]]
             /\ suiteStatus' \in [Suites -> Statuses]
             /\ status' \in [Tests -> Statuses]
  BY <1>1, <1>3, FailAllType DEF SuiteTeardownFailed, TypeOK, Statuses
<1> QED BY <1>2, <1>3

LEMMA StartRunType ==
  ASSUME TypeOK, NEW s \in Suites, NEW initErr \in BOOLEAN, StartRun(s, initErr),
         nextSuite' \in [Suites -> Nat \ {0}]
  PROVE  TypeOK'
<1>1. /\ running' \in Seq(Suites)
      /\ earlierInitErrs' \in Seq(BOOLEAN)
      /\ earlierSetupErrs' \in Seq(BOOLEAN)
      /\ earlierExecutions' \in Seq(BOOLEAN)
  BY AppendProperties DEF StartRun, TypeOK
<1>2. phase' \in [Suites -> Phases] /\ suiteStatus' \in [Suites -> Statuses]
  BY DEF StartRun, TypeOK, Phases, Statuses
<1>3. initFailed' \subseteq Suites
  BY DEF StartRun, TypeOK
<1> QED BY <1>1, <1>2, <1>3 DEF StartRun, TypeOK, exitVars, testVars

\* The suite's own steps that leave the stack alone.
LEMMA SuiteStepType ==
  ASSUME TypeOK, RunSuiteSetup \/ SkipSuiteSetup \/ SubSuitesDone \/ TestsDone
                 \/ ReportSuiteStatus \/ RunSuiteTeardown \/ SkipSuiteTeardown
  PROVE  TypeOK'
<1> USE DEF suiteVars, errorVars, exitVars, testVars, resultVars, auxVars
<1>1. \A p \in Phases : GoTo(p) => phase' \in [Suites -> Phases]
  BY DEF GoTo, TypeOK
<1>2. {"suites", "tests", "report", "teardown", "end"} \subseteq Phases
  BY DEF Phases
<1>3. CASE RunSuiteSetup
  <2>1. PICK outcome \in Outcomes :
          /\ currentSetupErr' = Failed(outcome)
          /\ setupStatus' = [setupStatus EXCEPT ![Current] =
                               IF Failed(outcome) THEN "FAIL" ELSE "PASS"]
          /\ fatal' = (fatal \/ outcome = "EXIT")
    BY <1>3 DEF RunSuiteSetup
  <2>2. currentSetupErr' \in BOOLEAN /\ fatal' \in BOOLEAN
    BY <2>1 DEF Failed
  <2>3. setupStatus' \in [Suites -> FixtureStatuses]
    BY <2>1 DEF TypeOK, FixtureStatuses
  <2> QED BY <1>1, <1>2, <1>3, <2>2, <2>3 DEF RunSuiteSetup, TypeOK
<1>4. CASE SkipSuiteSetup \/ SubSuitesDone \/ TestsDone \/ SkipSuiteTeardown
  BY <1>1, <1>2, <1>4
     DEF SkipSuiteSetup, SubSuitesDone, TestsDone, SkipSuiteTeardown, TypeOK
<1>5. CASE ReportSuiteStatus
  BY <1>1, <1>2, <1>5, StatsTypes DEF ReportSuiteStatus, TypeOK
<1>6. CASE RunSuiteTeardown
  <2>1. PICK outcome \in Outcomes :
          /\ teardownStatus' = [teardownStatus EXCEPT ![Current] =
                                  IF Failed(outcome) THEN "FAIL" ELSE "PASS"]
          /\ IF Failed(outcome) THEN SuiteTeardownFailed
                                ELSE UNCHANGED <<stats, suiteStatus, status>>
          /\ fatal' = (fatal \/ outcome = "EXIT")
    BY <1>6 DEF RunSuiteTeardown
  <2>2. teardownStatus' \in [Suites -> FixtureStatuses] /\ fatal' \in BOOLEAN
    BY <2>1 DEF TypeOK, FixtureStatuses
  <2>3. /\ stats' \in [Suites -> [critical: Stat, all: Stat]]
        /\ suiteStatus' \in [Suites -> Statuses]
        /\ status' \in [Tests -> Statuses]
    BY <2>1, StatsTypes DEF TypeOK
  <2> QED BY <1>1, <1>2, <1>6, <2>2, <2>3 DEF RunSuiteTeardown, TypeOK
<1> QED BY <1>3, <1>4, <1>5, <1>6

LEMMA EndSuiteType ==
  ASSUME TypeOK, EndSuite,
         Len(earlierInitErrs) = Len(running),
         Len(earlierSetupErrs) = Len(running),
         Len(earlierExecutions) = Len(running)
  PROVE  TypeOK'
<1> USE DEF suiteVars, errorVars, exitVars, testVars, resultVars, auxVars
<1>1. running # <<>> /\ running \in Seq(Suites)
  BY DEF EndSuite, At, TypeOK
<1>2. earlierInitErrs # <<>> /\ earlierSetupErrs # <<>> /\ earlierExecutions # <<>>
  BY <1>1, FrontType, EmptySeq
<1>3. /\ running' \in Seq(Suites)
      /\ earlierInitErrs' \in Seq(BOOLEAN) /\ currentInitErr' \in BOOLEAN
      /\ earlierSetupErrs' \in Seq(BOOLEAN) /\ currentSetupErr' \in BOOLEAN
      /\ earlierExecutions' \in Seq(BOOLEAN) /\ setupExecuted' \in BOOLEAN
  BY <1>1, <1>2, FrontType DEF EndSuite, RestoreErrors, TypeOK
<1>4. phase' \in [Suites -> Phases]
  BY DEF EndSuite, GoTo, TypeOK, Phases
<1> QED BY <1>3, <1>4 DEF EndSuite, TypeOK

LEMMA TestFailedType ==
  ASSUME TypeOK
  PROVE  /\ \A exit \in BOOLEAN : TestFailed(exit) =>
              exitRunmode' \in BOOLEAN /\ exitFatal' \in BOOLEAN
         /\ \A outcome \in Outcomes : KeywordFailed(outcome) =>
              exitRunmode' \in BOOLEAN /\ exitFatal' \in BOOLEAN
BY DEF TestFailed, KeywordFailed, exitVars, TypeOK

LEMMA ObserveType ==
  ASSUME TypeOK, test \in Tests, NEW part \in Parts, NEW outcome, Observe(part, outcome)
  PROVE  failures' \in [Tests -> SUBSET Parts] /\ fatal' \in BOOLEAN
<1>1. failures[test] \cup {part} \in SUBSET Parts
  BY DEF TypeOK
<1> QED BY <1>1 DEF Observe, TypeOK

LEMMA StartTestType ==
  ASSUME TypeOK, StartTest
  PROVE  TypeOK'
<1> USE DEF errorVars, exitVars
<1>1. Current \in Suites /\ TestsOf[Current] \in Seq(Tests)
  BY CurrentType, TreeAssumption DEF StartTest, At
<1>2. nextTest[Current] \in 1 .. Len(TestsOf[Current])
  BY <1>1 DEF StartTest, TypeOK
<1>3. test' \in Tests
  BY <1>1, <1>2, ElementOfSeq DEF StartTest
<1>4. nextTest' \in [Suites -> Nat \ {0}]
  BY <1>1 DEF StartTest, TypeOK
<1>5. PICK initErr \in BOOLEAN :
        /\ testErrs' = [NoErrs EXCEPT !.parent = ChildError, !.init = initErr]
        /\ failures' = IF initErr
                       THEN [failures EXCEPT ![test'] = @ \cup {"init"}]
                       ELSE failures
  BY DEF StartTest
<1>6. testErrs' \in [parent: BOOLEAN, init: BOOLEAN, setup: BOOLEAN,
                     kw: BOOLEAN, teardown: BOOLEAN]
  <2>1. ChildError \in BOOLEAN
    BY DEF ChildError
  <2> QED BY <1>5, <2>1 DEF NoErrs
<1>7. failures' \in [Tests -> SUBSET Parts]
  <2>1. failures[test'] \cup {"init"} \in SUBSET Parts
    BY <1>3 DEF TypeOK, Parts
  <2> QED BY <1>5, <2>1, <1>3 DEF TypeOK
<1>8. status' \in [Tests -> Statuses] /\ step' \in Steps
  BY <1>3 DEF StartTest, TypeOK, Statuses, Steps
<1> QED BY <1>3, <1>4, <1>6, <1>7, <1>8 DEF StartTest, TypeOK

LEMMA TestStepType ==
  ASSUME TypeOK, TestStep
  PROVE  TypeOK'
<1> USE DEF suiteVars, errorVars, exitVars, testVars, resultVars, auxVars
<1> DEFINE Errs == [parent: BOOLEAN, init: BOOLEAN, setup: BOOLEAN,
                    kw: BOOLEAN, teardown: BOOLEAN]
<1>1. \A p : InStep(p) => test \in Tests
  BY DEF InStep, TypeOK
<1>2. {"idle", "keywords", "report", "teardown", "after", "end"} \subseteq Steps
  BY DEF Steps
<1>3. \A outcome : Failed(outcome) \in BOOLEAN
  BY DEF Failed
<1>4. CASE StartTest
  BY <1>4, StartTestType
<1>5. CASE NotAllowedToRun
  <2>1. status' \in [Tests -> Statuses]
    BY <1>1, <1>5 DEF NotAllowedToRun, TypeOK, Statuses
  <2> QED BY <1>2, <1>5, <2>1 DEF NotAllowedToRun, TypeOK
<1>6. CASE RunTestSetup
  <2>1. PICK outcome \in Outcomes :
          /\ KeywordFailed(outcome)
          /\ testErrs' = [testErrs EXCEPT !.setup = Failed(outcome)]
          /\ step' = IF Failed(outcome) THEN "report" ELSE "keywords"
          /\ Observe("setup", outcome)
    BY <1>6 DEF RunTestSetup
  <2>2. testErrs' \in Errs /\ step' \in Steps
    BY <1>2, <1>3, <2>1 DEF TypeOK
  <2>3. failures' \in [Tests -> SUBSET Parts] /\ fatal' \in BOOLEAN
    BY <1>1, <1>6, <2>1, ObserveType DEF Parts, RunTestSetup
  <2>4. exitRunmode' \in BOOLEAN /\ exitFatal' \in BOOLEAN
    BY <2>1, TestFailedType
  <2>5. ran' \subseteq Tests
    BY <1>1, <1>6 DEF RunTestSetup, TypeOK
  <2> QED BY <1>6, <2>2, <2>3, <2>4, <2>5 DEF RunTestSetup, TypeOK
<1>7. CASE RunKeywords
  <2>1. PICK outcome \in Outcomes :
          /\ KeywordFailed(outcome)
          /\ testErrs' = [testErrs EXCEPT !.kw = Failed(outcome)]
          /\ Observe("keywords", outcome)
    BY <1>7 DEF RunKeywords
  <2>2. testErrs' \in Errs /\ step' \in Steps
    BY <1>2, <1>3, <1>7, <2>1 DEF TypeOK, RunKeywords
  <2>3. failures' \in [Tests -> SUBSET Parts] /\ fatal' \in BOOLEAN
    BY <1>1, <1>7, <2>1, ObserveType DEF Parts, RunKeywords
  <2>4. exitRunmode' \in BOOLEAN /\ exitFatal' \in BOOLEAN
    BY <2>1, TestFailedType
  <2> QED BY <1>7, <2>2, <2>3, <2>4 DEF RunKeywords, TypeOK
<1>8. CASE ReportTestStatus
  <2>1. status' \in [Tests -> Statuses]
    BY <1>1, <1>8 DEF ReportTestStatus, TypeOK, Statuses
  <2> QED BY <1>2, <1>8, <2>1 DEF ReportTestStatus, TypeOK
<1>9. CASE RunTestTeardown
  <2>1. PICK outcome \in Outcomes :
          /\ KeywordFailed(outcome)
          /\ testErrs' = [testErrs EXCEPT !.teardown = Failed(outcome)]
          /\ Observe("teardown", outcome)
    BY <1>9 DEF RunTestTeardown
  <2>2. testErrs' \in Errs /\ step' \in Steps
    BY <1>2, <1>3, <1>9, <2>1 DEF TypeOK, RunTestTeardown
  <2>3. failures' \in [Tests -> SUBSET Parts] /\ fatal' \in BOOLEAN
    BY <1>1, <1>9, <2>1, ObserveType DEF Parts, RunTestTeardown
  <2>4. exitRunmode' \in BOOLEAN /\ exitFatal' \in BOOLEAN
    BY <2>1, TestFailedType
  <2>5. teardownRun' \subseteq Tests
    BY <1>1, <1>9 DEF RunTestTeardown, TypeOK
  <2> QED BY <1>9, <2>2, <2>3, <2>4, <2>5 DEF RunTestTeardown, TypeOK
<1>10. CASE SkipTestTeardown
  BY <1>2, <1>10 DEF SkipTestTeardown, TypeOK
<1>11. CASE ReportAfterTeardown
  <2> DEFINE late(b) == b /\ status[test] = "PASS" /\ ~testErrs.teardown
             st(b) == IF testErrs.teardown \/ late(b) THEN "FAIL" ELSE status[test]
  <2>1. PICK timedOut \in BOOLEAN :
          /\ status' = [status EXCEPT ![test] = st(timedOut)]
          /\ IF st(timedOut) = "FAIL" THEN TestFailed(FALSE) ELSE UNCHANGED exitVars
          /\ failures' = IF late(timedOut)
                         THEN [failures EXCEPT ![test] = @ \cup {"timeout"}]
                         ELSE failures
    BY <1>11 DEF ReportAfterTeardown
  <2>2. st(timedOut) \in Statuses
    BY <1>1, <1>11 DEF ReportAfterTeardown, TypeOK, Statuses
  <2> HIDE DEF st, late
  <2>3. status' \in [Tests -> Statuses]
    BY <2>1, <2>2 DEF TypeOK
  <2>4. failures' \in [Tests -> SUBSET Parts]
    <3>1. failures[test] \cup {"timeout"} \in SUBSET Parts
      BY <1>1, <1>11 DEF ReportAfterTeardown, TypeOK, Parts
    <3> QED BY <2>1, <3>1 DEF TypeOK
  <2>5. exitRunmode' \in BOOLEAN /\ exitFatal' \in BOOLEAN
    BY <2>1, TestFailedType DEF TypeOK
  <2> QED BY <1>2, <1>11, <2>3, <2>4, <2>5 DEF ReportAfterTeardown, TypeOK
<1>12. CASE EndTest
  <2>1. NoErrs \in Errs
    BY DEF NoErrs
  <2> QED BY <1>2, <1>12, <2>1 DEF EndTest, TypeOK
<1> QED BY <1>4, <1>5, <1>6, <1>7, <1>8, <1>9, <1>10, <1>11, <1>12 DEF TestStep

-----------------------------------------------------------------------------
(* The tree and the stack *)

\* Every suite above the innermost one is on the stack.
LEMMA SuitesAboveAreRunning ==
  ASSUME TypeOK, StackOK, running # <<>>,
         NEW s \in Suites, Current \in Under(s)
  PROVE  s \in Range(running)
<1> SUFFICES ASSUME s \notin Range(running)
             PROVE  FALSE
  OBVIOUS
<1> DEFINE S == Suites \ Range(running)
<1>1. ASSUME NEW y \in S, NEW c \in Range(SubSuites[y])
      PROVE  c \in S
  <2>1. c \in Suites
    BY RangeType, TreeAssumption
  <2>2. SUFFICES ASSUME c \in Range(running) PROVE FALSE
    BY <2>1
  <2>3. PICK i \in DOMAIN running : running[i] = c
    BY <2>2 DEF Range
  <2>4. i \in Nat \ {0} /\ DOMAIN running = 1 .. Len(running) /\ Len(running) \in Nat
    BY <2>3, LenProperties DEF TypeOK
  <2>5. CASE i = 1
    <3>1. c = Root /\ y \in Suites
      BY <2>3, <2>5 DEF StackOK
    <3> QED BY <3>1, TreeAssumption
  <2>6. CASE i > 1
    <3>1. c \in Range(SubSuites[running[i - 1]])
      BY <2>3, <2>6 DEF StackOK
    <3>2. i - 1 \in DOMAIN running
      BY <2>4, <2>6
    <3>3. running[i - 1] \in Suites /\ running[i - 1] \in Range(running)
      BY <3>2, <2>4, ElementOfSeq DEF TypeOK, Range
    <3>4. running[i - 1] = y
      BY <3>1, <3>3, TreeAssumption
    <3> QED BY <3>3, <3>4
  <2> QED BY <2>4, <2>5, <2>6
<1>2. Current \in S
  BY <1>1 DEF Under, Subtree
<1>3. Current \in Range(running)
  BY FrontType, LenProperties DEF TypeOK, Current, Range
<1> QED BY <1>2, <1>3

LEMMA SuiteOfTest ==
  ASSUME NEW c \in Suites, NEW s \in Suites, NEW t \in Range(TestsOf[c]),
         t \in TestsUnder(s)
  PROVE  c \in Under(s)
<1>1. PICK x \in Under(s) : t \in Range(TestsOf[x])
  BY DEF TestsUnder
<1>2. x \in Suites
  BY <1>1 DEF Under, Subtree
<1>3. x = c
  BY <1>1, <1>2, TreeAssumption
<1> QED BY <1>1, <1>3

LEMMA StackFacts ==
  ASSUME TypeOK, running # <<>>
  PROVE  /\ Len(running) \in Nat \ {0}
         /\ DOMAIN running = 1 .. Len(running)
         /\ Len(running) \in DOMAIN running
         /\ Current = running[Len(running)]
         /\ \A i \in DOMAIN running : running[i] \in Suites
BY FrontType, LenProperties, ElementOfSeq DEF TypeOK, Current

-----------------------------------------------------------------------------
(* The steps of a test *)

SuitesKept == UNCHANGED <<running, phase, nextSuite, errorVars, initFailed, setupStatus>>

LEMMA TestStepKeepsSuites ==
  ASSUME TestStep
  PROVE  SuitesKept
BY DEF TestStep, SuitesKept, StartTest, NotAllowedToRun, RunTestSetup, RunKeywords,
   ReportTestStatus, RunTestTeardown, SkipTestTeardown, ReportAfterTeardown,
   EndTest, suiteVars, errorVars, resultVars, auxVars

LEMMA SuitesKeptBooks ==
  ASSUME StackOK, FreshOK, ErrorsOK, SuitesKept
  PROVE  StackOK' /\ FreshOK' /\ ErrorsOK'
BY DEF StackOK, FreshOK, ErrorsOK, SuitesKept, errorVars, InitErrAt, SetupErrAt

LEMMA TestStepBooks ==
  ASSUME TypeOK, ErrorBookkeeping, TestStep
  PROVE  ErrorBookkeeping'
<1> USE DEF ErrorBookkeeping
<1>1. SuitesKept
  BY TestStepKeepsSuites
<1>2. StackOK' /\ FreshOK' /\ ErrorsOK'
  BY <1>1, SuitesKeptBooks
<1>3. TestOK'
  <2>1. CASE StartTest
    <3>1. Current \in Suites /\ nextTest[Current] \in DOMAIN TestsOf[Current]
      <4>1. Current \in Suites
        BY <2>1, CurrentType DEF StartTest, At
      <4>2. TestsOf[Current] \in Seq(Tests)
        BY <4>1, TreeAssumption
      <4>3. /\ DOMAIN TestsOf[Current] = 1 .. Len(TestsOf[Current])
            /\ Len(TestsOf[Current]) \in Nat
        BY <4>2, LenProperties
      <4>4. /\ nextTest[Current] \in Nat \ {0}
            /\ nextTest[Current] <= Len(TestsOf[Current])
        BY <2>1, <4>1 DEF StartTest, TypeOK
      <4> QED BY <4>1, <4>3, <4>4
    <3>2. test' \in Range(TestsOf[Current])
      BY <2>1, <3>1 DEF StartTest, Range
    <3>3. testErrs'.parent = ChildError
      BY <2>1 DEF StartTest, NoErrs
    <3>4. At("tests") /\ Current' = Current /\ At("tests")'
      BY <2>1, <1>1 DEF StartTest, SuitesKept, At, Current
    <3> QED BY <1>1, <3>2, <3>3, <3>4
            DEF TestOK, ChildError, SuitesKept, errorVars, TrueIn
  <2>2. CASE EndTest
    BY <2>2 DEF EndTest, TestOK
  <2>3. CASE ~StartTest /\ ~EndTest
    <3>1. UNCHANGED test /\ testErrs'.parent = testErrs.parent
      BY <2>3 DEF TestStep, NotAllowedToRun, RunTestSetup, RunKeywords,
         ReportTestStatus, RunTestTeardown, SkipTestTeardown, ReportAfterTeardown,
         TypeOK
    <3>2. Current' = Current /\ (At("tests") <=> At("tests")')
      BY <1>1 DEF SuitesKept, At, Current
    <3> QED BY <1>1, <3>1, <3>2 DEF TestOK, SuitesKept, errorVars, TrueIn
  <2> QED BY <2>1, <2>2, <2>3
<1>4. RanOK'
  <2>1. CASE RunTestSetup
    <3>1. /\ test # NoTest /\ ~testErrs.parent /\ ran' = ran \cup {test}
      BY <2>1 DEF RunTestSetup, InStep, AllowedToRun
    <3>2. /\ At("tests") /\ test \in Range(TestsOf[Current])
          /\ ~currentInitErr /\ ~TrueIn(earlierInitErrs)
          /\ ~currentSetupErr /\ ~TrueIn(earlierSetupErrs)
      BY <3>1 DEF TestOK
    <3>3. running # <<>> /\ phase[Current] = "tests" /\ Current \in Suites
      BY <3>2, CurrentType DEF At
    <3>4. ASSUME NEW i \in DOMAIN running
          PROVE  ~InitErrAt(i) /\ ~SetupErrAt(i)
      <4>1. i \in 1 .. Len(running) /\ Len(running) \in Nat
        BY <3>3, <3>4, StackFacts
      <4>2. CASE i = Len(running)
        BY <3>2, <4>2 DEF InitErrAt, SetupErrAt
      <4>3. CASE i < Len(running)
        <5>1. i + 1 \in DOMAIN earlierInitErrs /\ i + 1 \in DOMAIN earlierSetupErrs
          BY <4>1, <4>3, LenProperties DEF StackOK, TypeOK
        <5> QED BY <3>2, <4>1, <4>3, <5>1 DEF InitErrAt, SetupErrAt, TrueIn
      <4> QED BY <4>1, <4>2, <4>3
    <3>5. ASSUME NEW s \in Suites, test \in TestsUnder(s)
          PROVE  phase[s] \notin {"NOT_RUN", "setup"} /\ ~Broken(s)
      <4>1. s \in Range(running)
        BY <3>2, <3>3, <3>5, SuiteOfTest, SuitesAboveAreRunning
      <4>2. PICK i \in DOMAIN running : running[i] = s
        BY <4>1 DEF Range
      <4>3. ~Broken(s)
        BY <3>4, <4>2 DEF ErrorsOK, Broken
      <4>4. phase[s] \in {"suites", "tests"}
        BY <3>3, <4>2, StackFacts DEF StackOK
      <4> QED BY <4>3, <4>4
    <3> QED BY <1>1, <3>1, <3>5 DEF RanOK, SuitesKept, Broken
  <2>2. CASE ~RunTestSetup
    <3>1. UNCHANGED ran
      BY <2>2 DEF TestStep, StartTest, NotAllowedToRun, RunKeywords,
         ReportTestStatus, RunTestTeardown, SkipTestTeardown, ReportAfterTeardown,
         EndTest, auxVars
    <3> QED BY <1>1, <3>1 DEF RanOK, SuitesKept, Broken
  <2> QED BY <2>1, <2>2
<1> QED BY <1>2, <1>3, <1>4

-----------------------------------------------------------------------------
(* A suite starts *)

LEMMA StartRunBooks ==
  ASSUME TypeOK, ErrorBookkeeping,
         NEW s \in Suites, NEW initErr \in BOOLEAN, StartRun(s, initErr),
         phase[s] = "NOT_RUN",
         running = <<>> => s = Root,
         running # <<>> => At("suites") /\ s \in Range(SubSuites[Current]),
         nextSuite' \in [Suites -> Nat \ {0}],
         \A x \in Suites : \A j \in DOMAIN SubSuites[x] :
           j >= nextSuite'[x] => j >= nextSuite[x] /\ SubSuites[x][j] # s
  PROVE  ErrorBookkeeping'
<1> USE DEF ErrorBookkeeping
<1> DEFINE n == Len(running)
<1>1. /\ n \in Nat /\ DOMAIN running = 1 .. n
      /\ Len(running') = n + 1 /\ DOMAIN running' = 1 .. n + 1
      /\ running'[n + 1] = s
      /\ \A i \in 1 .. n : running'[i] = running[i]
  BY AppendProperties, LenProperties DEF StartRun, TypeOK
<1>2. /\ Len(earlierInitErrs') = n + 1 /\ earlierInitErrs'[n + 1] = currentInitErr
      /\ \A i \in 1 .. n : earlierInitErrs'[i] = earlierInitErrs[i]
      /\ Len(earlierSetupErrs') = n + 1 /\ earlierSetupErrs'[n + 1] = currentSetupErr
      /\ \A i \in 1 .. n : earlierSetupErrs'[i] = earlierSetupErrs[i]
      /\ Len(earlierExecutions') = n + 1
  BY AppendProperties DEF StartRun, TypeOK, StackOK
<1>3. \A i \in 1 .. n : running[i] \in Suites /\ running[i] # s
  <2> SUFFICES ASSUME NEW i \in 1 .. n
               PROVE  running[i] \in Suites /\ running[i] # s
    OBVIOUS
  <2>1. running[i] \in Suites
    BY ElementOfSeq DEF TypeOK
  <2>2. phase[running[i]] # "NOT_RUN"
    BY <1>1 DEF StackOK
  <2> QED BY <2>1, <2>2
<1>4. /\ \A x \in Suites \ {s} : phase'[x] = phase[x]
      /\ phase'[s] = "setup"
  BY DEF StartRun, TypeOK
<1>5. n > 0 => Current = running[n] /\ phase[running[n]] = "suites"
                 /\ s \in Range(SubSuites[running[n]])
  BY <1>1, EmptySeq DEF At, Current
<1>6. StackOK'
  <2>1. ASSUME NEW i \in 1 .. n + 1
        PROVE  /\ i = 1 => running'[i] = Root
               /\ i > 1 => running'[i] \in Range(SubSuites[running'[i - 1]])
               /\ i < n + 1 => phase'[running'[i]] = "suites"
               /\ phase'[running'[i]] \notin {"NOT_RUN", "ended"}
               /\ \A j \in 1 .. n + 1 : running'[i] = running'[j] => i = j
    <3>1. CASE i = n + 1
      <4>1. i = 1 => running'[i] = Root
        <5>1. n = 0 => running = <<>>
          BY EmptySeq DEF TypeOK
        <5> QED BY <1>1, <3>1, <5>1
      <4>2. i > 1 => running'[i] \in Range(SubSuites[running'[i - 1]])
        BY <1>1, <1>5, <3>1
      <4>3. phase'[running'[i]] = "setup"
        BY <1>1, <1>4, <3>1
      <4>4. \A j \in 1 .. n + 1 : running'[i] = running'[j] => i = j
        BY <1>1, <1>3, <3>1
      <4> QED BY <1>1, <3>1, <4>1, <4>2, <4>3, <4>4
    <3>2. CASE i \in 1 .. n
      <4>1. running'[i] = running[i] /\ phase'[running[i]] = phase[running[i]]
        BY <1>1, <1>3, <1>4, <3>2
      <4>2. i = 1 => running'[i] = Root
        BY <1>1, <3>2, <4>1 DEF StackOK
      <4>3. i > 1 => running'[i] \in Range(SubSuites[running'[i - 1]])
        <5>1. i > 1 => i - 1 \in 1 .. n
          BY <1>1, <3>2
        <5>2. i > 1 => running[i] \in Range(SubSuites[running[i - 1]])
          BY <1>1, <3>2 DEF StackOK
        <5>3. i > 1 => running'[i - 1] = running[i - 1]
          BY <1>1, <5>1
        <5> QED BY <4>1, <5>2, <5>3
      <4>4. phase[running[i]] = "suites"
        BY <1>1, <1>5, <3>2 DEF StackOK
      <4>5. \A j \in 1 .. n + 1 : running'[i] = running'[j] => i = j
        <5>1. \A j \in 1 .. n : running[i] = running[j] => i = j
          BY <1>1, <3>2 DEF StackOK
        <5>2. \A j \in 1 .. n : running'[j] = running[j]
          BY <1>1
        <5>3. running'[n + 1] # running'[i]
          BY <1>1, <1>3, <3>2, <4>1
        <5>4. \A j \in 1 .. n + 1 : j = n + 1 \/ j \in 1 .. n
          BY <1>1
        <5> QED BY <4>1, <5>1, <5>2, <5>3, <5>4
      <4> QED BY <4>1, <4>2, <4>3, <4>4, <4>5
    <3> QED BY <1>1, <3>1, <3>2
  <2> QED BY <1>1, <1>2, <2>1 DEF StackOK
<1>7. FreshOK'
  <2>1. \A x \in Suites : \A j \in DOMAIN SubSuites[x] :
          j >= nextSuite'[x] => phase'[SubSuites[x][j]] = "NOT_RUN"
    <3> SUFFICES ASSUME NEW x \in Suites, NEW j \in DOMAIN SubSuites[x],
                        j >= nextSuite'[x]
                 PROVE  phase'[SubSuites[x][j]] = "NOT_RUN"
      OBVIOUS
    <3>1. SubSuites[x][j] \in Suites
      BY TreeAssumption, ElementOfSeq, LenProperties
    <3> QED BY <1>4, <3>1 DEF FreshOK
  <2>2. \A x \in Suites :
          /\ phase'[x] = "NOT_RUN" => x \notin initFailed'
          /\ phase'[x] \in {"NOT_RUN", "setup"} => setupStatus'[x] = "NOT_RUN"
    BY <1>4 DEF FreshOK, StartRun
  <2> QED BY <2>1, <2>2 DEF FreshOK
<1>8. ErrorsOK'
  <2>1. ASSUME NEW i \in 1 .. n + 1
        PROVE  /\ running'[i] \in initFailed' => InitErrAt(i)'
               /\ setupStatus'[running'[i]] = "FAIL" => SetupErrAt(i)'
    <3>1. CASE i = n + 1
      <4>1. s \notin initFailed /\ setupStatus[s] = "NOT_RUN"
        BY DEF FreshOK
      <4>2. InitErrAt(i)' = initErr
        BY <1>1, <3>1 DEF InitErrAt, StartRun
      <4> QED BY <1>1, <3>1, <4>1, <4>2 DEF StartRun
    <3>2. CASE i \in 1 .. n
      <4>1. running'[i] = running[i] /\ running[i] # s
        BY <1>1, <1>3, <3>2
      <4>2. InitErrAt(i)' = InitErrAt(i) /\ SetupErrAt(i)' = SetupErrAt(i)
        <5>1. i # n + 1 /\ i + 1 \in 1 .. n + 1
          BY <1>1, <3>2
        <5>2. CASE i = n
          <6>1. InitErrAt(i) = currentInitErr /\ SetupErrAt(i) = currentSetupErr
            BY <5>2 DEF InitErrAt, SetupErrAt
          <6>2. /\ InitErrAt(i)' = earlierInitErrs'[i + 1]
                /\ SetupErrAt(i)' = earlierSetupErrs'[i + 1]
            BY <1>1, <5>1 DEF InitErrAt, SetupErrAt
          <6> QED BY <1>2, <5>2, <6>1, <6>2
        <5>3. CASE i # n
          <6>1. i + 1 \in 1 .. n
            <7> HIDE DEF n
            <7> QED BY <1>1, <3>2, <5>3
          <6>2. /\ earlierInitErrs'[i + 1] = earlierInitErrs[i + 1]
                /\ earlierSetupErrs'[i + 1] = earlierSetupErrs[i + 1]
            BY <1>2, <6>1
          <6>3. /\ InitErrAt(i)' = earlierInitErrs'[i + 1]
                /\ SetupErrAt(i)' = earlierSetupErrs'[i + 1]
            BY <1>1, <5>1 DEF InitErrAt, SetupErrAt
          <6>4. /\ InitErrAt(i) = earlierInitErrs[i + 1]
                /\ SetupErrAt(i) = earlierSetupErrs[i + 1]
            BY <5>3 DEF InitErrAt, SetupErrAt
          <6> QED BY <6>2, <6>3, <6>4
        <5> QED BY <5>2, <5>3
      <4>3. (running[i] \in initFailed' => running[i] \in initFailed)
              /\ setupStatus' = setupStatus
        BY <4>1 DEF StartRun
      <4> QED BY <1>1, <3>2, <4>1, <4>2, <4>3 DEF ErrorsOK
    <3> QED BY <1>1, <3>1, <3>2
  <2> QED BY <1>1, <2>1 DEF ErrorsOK
<1>9. TestOK'
  <2>1. test = NoTest
    <3>1. running # <<>> => phase[Current] # "tests"
      BY DEF At
    <3> QED BY <3>1 DEF TestOK, At
  <2> QED BY <2>1 DEF TestOK, StartRun, testVars
<1>10. RanOK'
  <2>1. ASSUME NEW t \in ran, NEW x \in Suites, t \in TestsUnder(x)
        PROVE  phase'[x] \notin {"NOT_RUN", "setup"} /\ ~Broken(x)'
    <3>1. phase[x] \notin {"NOT_RUN", "setup"} /\ ~Broken(x) /\ x # s
      BY <2>1 DEF RanOK
    <3> QED BY <1>4, <3>1 DEF Broken, StartRun
  <2> QED BY <2>1 DEF RanOK, StartRun
<1> QED BY <1>6, <1>7, <1>8, <1>9, <1>10

\* The two places where a suite starts satisfy the hypotheses of StartRunBooks.
LEMMA StartSuiteBooks ==
  ASSUME TypeOK, ErrorBookkeeping, StartRootSuite \/ RunSubSuite
  PROVE  TypeOK' /\ ErrorBookkeeping'
<1> USE DEF ErrorBookkeeping
<1>1. CASE StartRootSuite
  <2>1. PICK initErr \in BOOLEAN : StartRun(Root, initErr)
    BY <1>1 DEF StartRootSuite
  <2>2. phase[Root] = "NOT_RUN" /\ UNCHANGED nextSuite /\ Root \in Suites
    BY <1>1, TreeAssumption DEF StartRootSuite
  <2>3. running = <<>>
    <3>1. SUFFICES ASSUME running # <<>> PROVE FALSE
      OBVIOUS
    <3>2. 1 \in DOMAIN running
      BY <3>1, StackFacts
    <3> QED BY <2>2, <3>2 DEF StackOK
  <2>4. \A x \in Suites : \A j \in DOMAIN SubSuites[x] : SubSuites[x][j] # Root
    BY TreeAssumption DEF Range
  <2>5. nextSuite' \in [Suites -> Nat \ {0}]
    BY <2>2 DEF TypeOK
  <2>6. TypeOK'
    BY <2>1, <2>2, <2>5, StartRunType
  <2>7. \A x \in Suites : \A j \in DOMAIN SubSuites[x] :
          j >= nextSuite'[x] => j >= nextSuite[x] /\ SubSuites[x][j] # Root
    BY <2>2, <2>4
  <2>8. ErrorBookkeeping'
    <3> HIDE DEF ErrorBookkeeping
    <3> QED BY <2>1, <2>2, <2>3, <2>5, <2>7, StartRunBooks
  <2> QED BY <2>6, <2>8
<1>2. CASE RunSubSuite
  <2> DEFINE k == nextSuite[Current]
             c == SubSuites[Current][k]
  <2>1. PICK initErr \in BOOLEAN : StartRun(c, initErr)
    BY <1>2 DEF RunSubSuite
  <2>2. /\ running # <<>> /\ phase[Current] = "suites" /\ At("suites")
        /\ k <= Len(SubSuites[Current])
        /\ nextSuite' = [nextSuite EXCEPT ![Current] = @ + 1]
    BY <1>2 DEF RunSubSuite, At
  <2>3. Current \in Suites /\ k \in Nat \ {0}
    BY <2>2, CurrentType DEF TypeOK
  <2>4. k \in DOMAIN SubSuites[Current] /\ c \in Suites
    <3>1. SubSuites[Current] \in Seq(Suites)
      BY <2>3, TreeAssumption
    <3>2. /\ DOMAIN SubSuites[Current] = 1 .. Len(SubSuites[Current])
          /\ Len(SubSuites[Current]) \in Nat
      BY <3>1, LenProperties
    <3> QED BY <2>2, <2>3, <3>1, <3>2, ElementOfSeq
  <2>5. c \in Range(SubSuites[Current])
    BY <2>4 DEF Range
  <2>6. phase[c] = "NOT_RUN"
    BY <2>3, <2>4 DEF FreshOK
  <2>7. nextSuite' \in [Suites -> Nat \ {0}] /\ nextSuite'[Current] = k + 1
    BY <2>2, <2>3 DEF TypeOK
  <2>8. ASSUME NEW x \in Suites, NEW j \in DOMAIN SubSuites[x], j >= nextSuite'[x]
        PROVE  j >= nextSuite[x] /\ SubSuites[x][j] # c
    <3>1. j \in Nat
      <4>1. SubSuites[x] \in Seq(Suites)
        BY TreeAssumption
      <4> QED BY <4>1, LenProperties
    <3>2. CASE x = Current
      <4>1. j >= k + 1 /\ j # k
        BY <2>3, <2>7, <2>8, <3>1, <3>2
      <4>2. SubSuites[Current][j] # SubSuites[Current][k]
        BY <2>3, <2>4, <3>2, <4>1, TreeAssumption
      <4> QED BY <2>3, <3>1, <3>2, <4>1, <4>2
    <3>3. CASE x # Current
      <4>1. j >= nextSuite[x]
        BY <2>2, <2>8, <3>3 DEF TypeOK
      <4>2. SubSuites[x][j] \in Range(SubSuites[x])
        BY DEF Range
      <4>3. Range(SubSuites[x]) \cap Range(SubSuites[Current]) = {}
        BY <2>3, <3>3, TreeAssumption
      <4> QED BY <2>5, <4>1, <4>2, <4>3
    <3> QED BY <3>2, <3>3
  <2> HIDE DEF k, c
  <2>9. TypeOK'
    BY <2>1, <2>4, <2>7, StartRunType
  <2>10. ErrorBookkeeping'
    <3> HIDE DEF ErrorBookkeeping
    <3> QED BY <2>1, <2>2, <2>4, <2>5, <2>6, <2>7, <2>8, StartRunBooks
  <2> QED BY <2>9, <2>10
<1> QED BY <1>1, <1>2

-----------------------------------------------------------------------------
(* A suite goes on, and ends *)

LEMMA GoOnBooks ==
  ASSUME TypeOK, ErrorBookkeeping, running # <<>>, test = NoTest,
         NEW p \in {"suites", "tests", "report", "teardown", "end"}, GoTo(p),
         UNCHANGED <<running, nextSuite, test, currentInitErr, earlierInitErrs,
                     earlierSetupErrs, earlierExecutions, initFailed, ran>>,
         \A s \in Suites \ {Current} : setupStatus'[s] = setupStatus[s],
         setupStatus'[Current] = "FAIL" => currentSetupErr',
         p # "suites" => phase[Current] # "suites" \/ p = "tests",
         phase[Current] = "setup" \/ setupStatus' = setupStatus
  PROVE  ErrorBookkeeping'
<1> USE DEF ErrorBookkeeping
<1> DEFINE n == Len(running)
<1>1. /\ n \in Nat \ {0} /\ DOMAIN running = 1 .. n /\ Current = running[n]
      /\ n \in DOMAIN running
      /\ \A i \in 1 .. n : running[i] \in Suites
  BY StackFacts
<1>2. \A i \in 1 .. n : i < n => running[i] # Current
  BY <1>1 DEF StackOK
<1>3. /\ phase'[Current] = p
      /\ \A s \in Suites \ {Current} : phase'[s] = phase[s]
      /\ phase[Current] # "NOT_RUN"
  BY <1>1 DEF GoTo, TypeOK, StackOK
<1>4. StackOK'
  <2>1. \A i \in 1 .. n : /\ i < n => phase'[running[i]] = "suites"
                          /\ phase'[running[i]] \notin {"NOT_RUN", "ended"}
    <3> SUFFICES ASSUME NEW i \in 1 .. n
                 PROVE  /\ i < n => phase'[running[i]] = "suites"
                        /\ phase'[running[i]] \notin {"NOT_RUN", "ended"}
      OBVIOUS
    <3>1. CASE i < n
      BY <1>1, <1>2, <1>3, <3>1 DEF StackOK
    <3>2. CASE i = n
      BY <1>1, <1>3, <3>2
    <3>3. i < n \/ i = n
      <4> HIDE DEF n
      <4> QED BY <1>1
    <3> QED BY <1>1, <3>1, <3>2, <3>3
  <2> QED BY <1>1, <2>1 DEF StackOK
<1>5. FreshOK'
  <2>1. \A s \in Suites : \A j \in DOMAIN SubSuites[s] :
          j >= nextSuite'[s] => phase'[SubSuites[s][j]] = "NOT_RUN"
    <3> SUFFICES ASSUME NEW s \in Suites, NEW j \in DOMAIN SubSuites[s],
                        j >= nextSuite[s]
                 PROVE  phase'[SubSuites[s][j]] = "NOT_RUN"
      OBVIOUS
    <3>1. SubSuites[s][j] \in Suites
      BY TreeAssumption, ElementOfSeq, LenProperties
    <3>2. phase[SubSuites[s][j]] = "NOT_RUN"
      BY DEF FreshOK
    <3> QED BY <1>3, <3>1, <3>2
  <2>2. \A s \in Suites :
          /\ phase'[s] = "NOT_RUN" => s \notin initFailed
          /\ phase'[s] \in {"NOT_RUN", "setup"} => setupStatus'[s] = "NOT_RUN"
    BY <1>3 DEF FreshOK
  <2> QED BY <2>1, <2>2 DEF FreshOK
<1>6. ErrorsOK'
  <2>1. ASSUME NEW i \in 1 .. n
        PROVE  /\ running[i] \in initFailed => InitErrAt(i)'
               /\ setupStatus'[running[i]] = "FAIL" => SetupErrAt(i)'
    <3>1. CASE i = n
      <4>1. InitErrAt(i)' = currentInitErr /\ SetupErrAt(i)' = currentSetupErr'
        BY <3>1 DEF InitErrAt, SetupErrAt
      <4>2. running[i] \in initFailed => currentInitErr
        BY <1>1, <3>1 DEF ErrorsOK, InitErrAt
      <4> QED BY <1>1, <3>1, <4>1, <4>2
    <3>2. CASE i # n
      <4>1. InitErrAt(i)' = InitErrAt(i) /\ SetupErrAt(i)' = SetupErrAt(i)
        BY <3>2 DEF InitErrAt, SetupErrAt
      <4>2. running[i] # Current /\ running[i] \in Suites
        <5> HIDE DEF n
        <5> QED BY <1>1, <1>2, <3>2
      <4> QED BY <1>1, <4>1, <4>2 DEF ErrorsOK
    <3> QED BY <3>1, <3>2
  <2> QED BY <1>1, <2>1 DEF ErrorsOK
<1>7. TestOK'
  BY DEF TestOK
<1>8. RanOK'
  <2> SUFFICES ASSUME NEW t \in ran, NEW s \in Suites, t \in TestsUnder(s)
               PROVE  phase'[s] \notin {"NOT_RUN", "setup"} /\ ~Broken(s)'
    BY DEF RanOK
  <2>1. phase[s] \notin {"NOT_RUN", "setup"} /\ ~Broken(s)
    BY DEF RanOK
  <2>2. setupStatus'[s] = setupStatus[s]
    BY <2>1
  <2> QED BY <1>3, <2>1, <2>2 DEF Broken
<1> QED BY <1>4, <1>5, <1>6, <1>7, <1>8

\* No test runs in a suite that is not in _run_tests.
LEMMA NoTestElsewhere ==
  ASSUME TypeOK, ErrorBookkeeping, running # <<>>, phase[Current] # "tests"
  PROVE  test = NoTest
BY DEF ErrorBookkeeping, TestOK, At

LEMMA GoOnStepBooks ==
  ASSUME TypeOK, ErrorBookkeeping,
         \/ RunSuiteSetup \/ SkipSuiteSetup \/ SubSuitesDone \/ TestsDone
         \/ ReportSuiteStatus \/ RunSuiteTeardown \/ SkipSuiteTeardown
  PROVE  ErrorBookkeeping'
<1> USE DEF errorVars, testVars, resultVars, auxVars
<1>0. running # <<>> => Current \in Suites
  BY CurrentType
<1>1. CASE RunSuiteSetup
  <2>1. /\ running # <<>> /\ phase[Current] = "setup" /\ GoTo("suites")
        /\ UNCHANGED <<running, nextSuite, test, currentInitErr, earlierInitErrs,
                       earlierSetupErrs, earlierExecutions, initFailed, ran>>
    BY <1>1 DEF RunSuiteSetup, At
  <2>2. PICK outcome \in Outcomes :
          /\ currentSetupErr' = Failed(outcome)
          /\ setupStatus' = [setupStatus EXCEPT ![Current] =
                               IF Failed(outcome) THEN "FAIL" ELSE "PASS"]
    BY <1>1 DEF RunSuiteSetup
  <2>3. \A s \in Suites \ {Current} : setupStatus'[s] = setupStatus[s]
    BY <2>2 DEF TypeOK
  <2>4. setupStatus'[Current] = "FAIL" => currentSetupErr'
    BY <1>0, <2>1, <2>2 DEF TypeOK, Failed
  <2>5. test = NoTest
    BY <2>1, NoTestElsewhere
  <2> QED BY <2>1, <2>3, <2>4, <2>5, GoOnBooks
<1>2. ASSUME NEW p \in {"suites", "tests", "report", "teardown", "end"},
             running # <<>>, GoTo(p), test = NoTest,
             p # "suites" => phase[Current] # "suites" \/ p = "tests",
             UNCHANGED <<running, nextSuite, test, errorVars, initFailed, ran,
                         setupStatus>>
      PROVE  ErrorBookkeeping'
  <2>1. setupStatus[Current] = "FAIL" => currentSetupErr
    <3>1. Len(running) \in DOMAIN running /\ Current = running[Len(running)]
      BY <1>2, StackFacts
    <3> QED BY <3>1 DEF ErrorBookkeeping, ErrorsOK, SetupErrAt
  <2>2. \A s \in Suites \ {Current} : setupStatus'[s] = setupStatus[s]
    BY <1>2
  <2>3. setupStatus'[Current] = "FAIL" => currentSetupErr'
    BY <1>2, <2>1
  <2> QED BY <1>2, <2>2, <2>3, GoOnBooks
<1>3. CASE SkipSuiteSetup
  <2>1. /\ running # <<>> /\ phase[Current] = "setup" /\ GoTo("suites")
        /\ UNCHANGED <<running, nextSuite, test, errorVars, initFailed, ran,
                       setupStatus>>
    BY <1>3 DEF SkipSuiteSetup, At
  <2> QED BY <2>1, <1>2, NoTestElsewhere
<1>4. CASE SubSuitesDone
  <2>1. /\ running # <<>> /\ phase[Current] = "suites" /\ GoTo("tests")
        /\ UNCHANGED <<running, nextSuite, test, errorVars, initFailed, ran,
                       setupStatus>>
    BY <1>4 DEF SubSuitesDone, At
  <2> QED BY <2>1, <1>2, NoTestElsewhere
<1>5. CASE TestsDone
  <2>1. /\ running # <<>> /\ phase[Current] = "tests" /\ GoTo("report")
        /\ test = NoTest
        /\ UNCHANGED <<running, nextSuite, test, errorVars, initFailed, ran,
                       setupStatus>>
    BY <1>5 DEF TestsDone, At
  <2> QED BY <2>1, <1>2
<1>6. CASE ReportSuiteStatus
  <2>1. /\ running # <<>> /\ phase[Current] = "report" /\ GoTo("teardown")
        /\ UNCHANGED <<running, nextSuite, test, errorVars, initFailed, ran,
                       setupStatus>>
    BY <1>6 DEF ReportSuiteStatus, At
  <2> QED BY <2>1, <1>2, NoTestElsewhere
<1>7. CASE RunSuiteTeardown \/ SkipSuiteTeardown
  <2>1. /\ running # <<>> /\ phase[Current] = "teardown" /\ GoTo("end")
        /\ UNCHANGED <<running, nextSuite, test, errorVars, initFailed, ran,
                       setupStatus>>
    BY <1>7 DEF RunSuiteTeardown, SkipSuiteTeardown, At
  <2> QED BY <2>1, <1>2, NoTestElsewhere
<1> QED BY <1>1, <1>3, <1>4, <1>5, <1>6, <1>7

LEMMA EndSuiteBooks ==
  ASSUME TypeOK, ErrorBookkeeping, EndSuite
  PROVE  ErrorBookkeeping'
<1> USE DEF ErrorBookkeeping
<1> DEFINE n == Len(running)
<1>1. /\ running # <<>> /\ phase[Current] = "end"
      /\ running' = Front(running) /\ GoTo("ended") /\ RestoreErrors
      /\ UNCHANGED <<nextSuite, test, initFailed, ran, setupStatus>>
  BY DEF EndSuite, At, testVars, resultVars, auxVars
<1>2. /\ n \in Nat \ {0} /\ DOMAIN running = 1 .. n /\ Current = running[n]
      /\ n \in DOMAIN running
      /\ \A i \in 1 .. n : running[i] \in Suites
  BY <1>1, StackFacts
<1>3. /\ running' \in Seq(Suites) /\ Len(running') = n - 1
      /\ DOMAIN running' = 1 .. n - 1
      /\ \A i \in 1 .. n - 1 : running'[i] = running[i]
  <2>1. /\ running' \in Seq(Suites) /\ Len(running') = n - 1
        /\ \A i \in 1 .. n - 1 : running'[i] = running[i]
    <3>1. running \in Seq(Suites)
      BY DEF TypeOK
    <3>2. /\ Front(running) \in Seq(Suites) /\ Len(Front(running)) = n - 1
          /\ \A i \in 1 .. n - 1 : Front(running)[i] = running[i]
      BY <1>1, <3>1, FrontType
    <3> HIDE DEF n
    <3> QED BY <1>1, <3>2
  <2>2. DOMAIN running' = 1 .. Len(running')
    BY <2>1, LenProperties
  <2> QED BY <2>1, <2>2
<1>4. /\ Len(earlierInitErrs) = n /\ earlierInitErrs \in Seq(BOOLEAN)
      /\ Len(earlierSetupErrs) = n /\ earlierSetupErrs \in Seq(BOOLEAN)
      /\ Len(earlierExecutions) = n /\ earlierExecutions \in Seq(BOOLEAN)
  BY DEF TypeOK, StackOK
<1>5. earlierInitErrs # <<>> /\ earlierSetupErrs # <<>> /\ earlierExecutions # <<>>
  BY <1>2, <1>4, EmptySeq
<1>6. /\ Len(earlierInitErrs') = n - 1 /\ currentInitErr' = earlierInitErrs[n]
      /\ \A i \in 1 .. n - 1 : earlierInitErrs'[i] = earlierInitErrs[i]
      /\ Len(earlierSetupErrs') = n - 1 /\ currentSetupErr' = earlierSetupErrs[n]
      /\ \A i \in 1 .. n - 1 : earlierSetupErrs'[i] = earlierSetupErrs[i]
      /\ Len(earlierExecutions') = n - 1
  BY <1>1, <1>4, <1>5, FrontType DEF RestoreErrors, Last
<1>7. \A i \in 1 .. n - 1 : running[i] # Current
  BY <1>2 DEF StackOK
<1>8. 1 .. n - 1 \subseteq 1 .. n /\ \A i \in 1 .. n - 1 : i < n
  <2> HIDE DEF n
  <2> QED BY <1>2
<1>9. /\ phase'[Current] = "ended"
      /\ \A s \in Suites \ {Current} : phase'[s] = phase[s]
  BY <1>1, <1>2 DEF GoTo, TypeOK
<1>10. StackOK'
  <2>1. ASSUME NEW i \in 1 .. n - 1
        PROVE  /\ i = 1 => running[i] = Root
               /\ i > 1 => running[i] \in Range(SubSuites[running[i - 1]])
               /\ phase'[running[i]] = "suites"
               /\ \A j \in 1 .. n - 1 : running[i] = running[j] => i = j
    <3>1. i \in DOMAIN running /\ i < n /\ running[i] \in Suites \ {Current}
      BY <1>2, <1>7, <1>8
    <3>2. phase[running[i]] = "suites"
      BY <3>1 DEF StackOK
    <3>3. /\ i = 1 => running[i] = Root
          /\ i > 1 => running[i] \in Range(SubSuites[running[i - 1]])
          /\ \A j \in DOMAIN running : running[i] = running[j] => i = j
      BY <3>1 DEF StackOK
    <3> QED BY <1>2, <1>9, <1>8, <3>1, <3>2, <3>3
  <2>2. \A i \in 1 .. n - 1 : i > 1 => running'[i - 1] = running[i - 1]
    <3>1. \A i \in 1 .. n - 1 : i > 1 => i - 1 \in 1 .. n - 1
      <4> HIDE DEF n
      <4> QED BY <1>2
    <3> QED BY <1>3, <3>1
  <2>3. ASSUME NEW i \in DOMAIN running'
        PROVE  /\ i = 1 => running'[i] = Root
               /\ i > 1 => running'[i] \in Range(SubSuites[running'[i - 1]])
               /\ i < Len(running') => phase'[running'[i]] = "suites"
               /\ phase'[running'[i]] \notin {"NOT_RUN", "ended"}
               /\ \A j \in DOMAIN running' : running'[i] = running'[j] => i = j
    <3>1. i \in 1 .. n - 1 /\ running'[i] = running[i]
      BY <1>3
    <3> QED BY <1>3, <2>1, <2>2, <3>1
  <2> QED BY <1>3, <1>6, <2>3 DEF StackOK
<1>11. FreshOK'
  <2>1. \A s \in Suites : \A j \in DOMAIN SubSuites[s] :
          j >= nextSuite'[s] => phase'[SubSuites[s][j]] = "NOT_RUN"
    <3> SUFFICES ASSUME NEW s \in Suites, NEW j \in DOMAIN SubSuites[s],
                        j >= nextSuite[s]
                 PROVE  phase'[SubSuites[s][j]] = "NOT_RUN"
      BY <1>1
    <3>1. SubSuites[s][j] \in Suites
      BY TreeAssumption, ElementOfSeq, LenProperties
    <3>2. phase[SubSuites[s][j]] = "NOT_RUN"
      BY DEF FreshOK
    <3> QED BY <1>1, <1>9, <3>1, <3>2
  <2>2. \A s \in Suites :
          /\ phase'[s] = "NOT_RUN" => s \notin initFailed'
          /\ phase'[s] \in {"NOT_RUN", "setup"} => setupStatus'[s] = "NOT_RUN"
    BY <1>1, <1>9 DEF FreshOK
  <2> QED BY <2>1, <2>2 DEF FreshOK
<1>12. ErrorsOK'
  <2>1. ASSUME NEW i \in 1 .. n - 1
        PROVE  InitErrAt(i)' = InitErrAt(i) /\ SetupErrAt(i)' = SetupErrAt(i)
    <3>1. InitErrAt(i) = earlierInitErrs[i + 1] /\ SetupErrAt(i) = earlierSetupErrs[i + 1]
      <4>1. i # n
        <5> HIDE DEF n
        <5> QED BY <1>2, <1>8
      <4> QED BY <4>1 DEF InitErrAt, SetupErrAt
    <3>2. CASE i = n - 1
      <4>1. InitErrAt(i)' = currentInitErr' /\ SetupErrAt(i)' = currentSetupErr'
        BY <1>3, <3>2 DEF InitErrAt, SetupErrAt
      <4> QED BY <1>2, <1>6, <3>1, <3>2, <4>1
    <3>3. CASE i # n - 1
      <4>1. i + 1 \in 1 .. n - 1
        <5> HIDE DEF n
        <5> QED BY <1>2, <3>3
      <4>2. /\ InitErrAt(i)' = earlierInitErrs'[i + 1]
            /\ SetupErrAt(i)' = earlierSetupErrs'[i + 1]
        BY <1>3, <3>3 DEF InitErrAt, SetupErrAt
      <4> QED BY <1>6, <3>1, <4>1, <4>2
    <3> QED BY <3>2, <3>3
  <2> QED BY <1>1, <1>2, <1>3, <2>1 DEF ErrorsOK
<1>13. TestOK'
  BY <1>1, NoTestElsewhere DEF TestOK
<1>14. RanOK'
  BY <1>1, <1>9 DEF RanOK, Broken
<1> QED BY <1>10, <1>11, <1>12, <1>13, <1>14

-----------------------------------------------------------------------------
(* The theorems *)

LEMMA InitBooks ==
  ASSUME Init
  PROVE  TypeOK /\ ErrorBookkeeping
<1>1. TypeOK
  <2>1. NoStat \in Stat
    BY DEF NoStat, Stat
  <2>2. NoErrs \in [parent: BOOLEAN, init: BOOLEAN, setup: BOOLEAN,
                    kw: BOOLEAN, teardown: BOOLEAN]
    BY DEF NoErrs
  <2>3. mode \in Mode
    BY ModeAssumption DEF Init
  <2>4. running \in Seq(Suites) /\ earlierInitErrs \in Seq(BOOLEAN)
        /\ earlierSetupErrs \in Seq(BOOLEAN) /\ earlierExecutions \in Seq(BOOLEAN)
    BY DEF Init
  <2>5. stats \in [Suites -> [critical: Stat, all: Stat]]
    BY <2>1 DEF Init
  <2>6. /\ phase \in [Suites -> Phases]
        /\ nextSuite \in [Suites -> Nat \ {0}] /\ nextTest \in [Suites -> Nat \ {0}]
        /\ status \in [Tests -> Statuses] /\ suiteStatus \in [Suites -> Statuses]
        /\ setupStatus \in [Suites -> FixtureStatuses]
        /\ teardownStatus \in [Suites -> FixtureStatuses]
        /\ failures \in [Tests -> SUBSET Parts]
    BY DEF Init, Phases, Statuses, FixtureStatuses
  <2>7. step \in Steps /\ test \in Tests \cup {NoTest}
    BY DEF Init, Steps
  <2>8. /\ currentInitErr \in BOOLEAN /\ currentSetupErr \in BOOLEAN
        /\ setupExecuted \in BOOLEAN /\ exitRunmode \in BOOLEAN
        /\ exitFatal \in BOOLEAN /\ fatal \in BOOLEAN
        /\ initFailed \subseteq Suites /\ ran \subseteq Tests
        /\ teardownRun \subseteq Tests
    BY DEF Init
  <2>9. testErrs \in [parent: BOOLEAN, init: BOOLEAN, setup: BOOLEAN,
                      kw: BOOLEAN, teardown: BOOLEAN]
    BY <2>2 DEF Init
  <2> QED BY <2>3, <2>4, <2>5, <2>6, <2>7, <2>8, <2>9 DEF TypeOK
<1>2. running = <<>> /\ Len(running) = 0 /\ DOMAIN running = {}
  BY DEF Init
<1>3. StackOK
  BY <1>2 DEF Init, StackOK
<1>4. FreshOK
  <2> SUFFICES ASSUME NEW s \in Suites, NEW j \in DOMAIN SubSuites[s]
               PROVE  phase[SubSuites[s][j]] = "NOT_RUN"
    BY DEF Init, FreshOK
  <2>1. SubSuites[s][j] \in Suites
    BY TreeAssumption, ElementOfSeq, LenProperties
  <2> QED BY <2>1 DEF Init
<1>5. ErrorsOK /\ TestOK /\ RanOK
  BY <1>2 DEF Init, ErrorsOK, TestOK, RanOK
<1> QED BY <1>1, <1>3, <1>4, <1>5 DEF ErrorBookkeeping

LEMMA StepBooks ==
  ASSUME TypeOK, ErrorBookkeeping, [Next]_vars
  PROVE  TypeOK' /\ ErrorBookkeeping'
<1>1. CASE StartRootSuite \/ RunSubSuite
  BY <1>1, StartSuiteBooks
<1>2. CASE \/ RunSuiteSetup \/ SkipSuiteSetup \/ SubSuitesDone \/ TestsDone
           \/ ReportSuiteStatus \/ RunSuiteTeardown \/ SkipSuiteTeardown
  BY <1>2, SuiteStepType, GoOnStepBooks
<1>3. CASE EndSuite
  <2>1. TypeOK'
    BY <1>3, EndSuiteType DEF ErrorBookkeeping, StackOK
  <2> QED BY <1>3, <2>1, EndSuiteBooks
<1>4. CASE TestStep
  BY <1>4, TestStepType, TestStepBooks
<1>5. CASE Over \/ UNCHANGED vars
  <2>1. UNCHANGED vars
    BY <1>5 DEF Over
  <2> USE <2>1 DEF vars, suiteVars, errorVars, exitVars, testVars, resultVars, auxVars
  <2>2. TypeOK'
    BY DEF TypeOK
  <2>3. StackOK' /\ FreshOK' /\ ErrorsOK'
    BY SuitesKeptBooks DEF ErrorBookkeeping, SuitesKept
  <2>4. TestOK' /\ RanOK'
    BY DEF ErrorBookkeeping, TestOK, RanOK, At, Current, TrueIn, Broken
  <2> QED BY <2>2, <2>3, <2>4 DEF ErrorBookkeeping
<1> QED BY <1>1, <1>2, <1>3, <1>4, <1>5 DEF Next, SuiteStep

\* Running any suite tree keeps the types and keeps the errors of
\* SuiteRunErrors those of the suites whose run() is active (runerrors.py).
THEOREM BookkeepingHolds == Spec => [](TypeOK /\ ErrorBookkeeping)
<1>1. Init => TypeOK /\ ErrorBookkeeping
  BY InitBooks
<1>2. TypeOK /\ ErrorBookkeeping /\ [Next]_vars => TypeOK' /\ ErrorBookkeeping'
  BY StepBooks
<1> QED BY <1>1, <1>2, PTL DEF Spec

\* The objects of running/ and common/ hold values of their types.
THEOREM TypeCorrect == Spec => []TypeOK
BY BookkeepingHolds, PTL

\* No test is run below a suite that failed to initialize or failed its setup.
THEOREM NoTestRunsUnderErrorsHolds == Spec => []NoTestRunsUnderErrors
<1>1. ErrorBookkeeping => NoTestRunsUnderErrors
  BY DEF ErrorBookkeeping, RanOK, NoTestRunsUnderErrors
<1> QED BY <1>1, BookkeepingHolds, PTL

-----------------------------------------------------------------------------
(* Stopping *)

\* A test that is told it may run was told so when no stop was requested, and
\* no stop is requested between being told and running the setup.
StopKnown == (step = "start" /\ ~testErrs.parent) => ~ExitMode

\* Only a test's own steps can request a stop, and they leave "start".
LEMMA StopKnownStep ==
  ASSUME TypeOK, StopKnown, [Next]_vars
  PROVE  StopKnown'
<1> USE DEF StopKnown, ExitMode, exitVars, testVars
<1>1. CASE StartTest
  <2>1. testErrs'.parent = ChildError /\ UNCHANGED exitVars
    BY <1>1 DEF StartTest, NoErrs
  <2> QED BY <2>1 DEF ChildError
<1>2. CASE TestStep /\ ~StartTest
  BY <1>2 DEF TestStep, NotAllowedToRun, RunTestSetup, RunKeywords,
     ReportTestStatus, RunTestTeardown, SkipTestTeardown, ReportAfterTeardown, EndTest
<1>3. CASE SuiteStep
  BY <1>3 DEF SuiteStep, StartRootSuite, RunSuiteSetup, SkipSuiteSetup, RunSubSuite,
     StartRun, SubSuitesDone, TestsDone, ReportSuiteStatus, RunSuiteTeardown,
     SkipSuiteTeardown, EndSuite
<1>4. CASE Over \/ UNCHANGED vars
  BY <1>4 DEF Over, vars
<1> QED BY <1>1, <1>2, <1>3, <1>4 DEF Next

LEMMA StopIsFinalStep ==
  ASSUME TypeOK, StopKnown, [Next]_vars, ExitMode
  PROVE  /\ ran' = ran
         /\ \A s \in Suites : setupStatus[s] = "NOT_RUN" => setupStatus'[s] = "NOT_RUN"
<1> USE DEF resultVars, auxVars
<1>1. ~RunTestSetup
  BY DEF RunTestSetup, InStep, AllowedToRun, StopKnown
<1>2. ~RunSuiteSetup
  BY DEF RunSuiteSetup, SuiteSetupAllowed, EarlierErrors
<1>3. CASE TestStep
  BY <1>1, <1>3 DEF TestStep, StartTest, NotAllowedToRun, RunKeywords,
     ReportTestStatus, RunTestTeardown, SkipTestTeardown, ReportAfterTeardown, EndTest
<1>4. CASE SuiteStep
  BY <1>2, <1>4 DEF SuiteStep, StartRootSuite, SkipSuiteSetup, RunSubSuite, StartRun,
     SubSuitesDone, TestsDone, ReportSuiteStatus, RunSuiteTeardown,
     SkipSuiteTeardown, EndSuite
<1>5. CASE Over \/ UNCHANGED vars
  BY <1>5 DEF Over, vars
<1> QED BY <1>3, <1>4, <1>5 DEF Next

\* Once a fatal error or ExitOnFailure stops the execution, no further test and
\* no further suite setup is run, in any suite of any tree.
THEOREM StopIsFinalHolds == Spec => StopIsFinal
<1>1. Init => StopKnown
  BY DEF Init, StopKnown
<1>2. TypeOK /\ StopKnown /\ [Next]_vars => StopKnown'
  BY StopKnownStep
<1>3. TypeOK /\ StopKnown /\ [Next]_vars =>
        [ExitMode => /\ ran' = ran
                     /\ \A s \in Suites : setupStatus[s] = "NOT_RUN"
                          => setupStatus'[s] = "NOT_RUN"]_vars
  BY StopIsFinalStep
<1> QED BY <1>1, <1>2, <1>3, TypeCorrect, PTL DEF Spec, StopIsFinal

-----------------------------------------------------------------------------
(* Test teardowns *)

\* A test that was run has had its teardown, or has it ahead of it, or the
\* teardown was left out because the execution is being stopped.
TeardownAhead ==
  \A t \in ran \ teardownRun :
    \/ mode.skipTeardownOnExit /\ ExitMode
    \/ t = test /\ step \in {"keywords", "report", "teardown"}

\* The run modes are fixed, and a stop is not taken back.
LEMMA StopStays ==
  ASSUME [Next]_vars
  PROVE  mode' = mode /\ (ExitMode => ExitMode')
<1> USE DEF ExitMode, exitVars
<1>1. CASE SuiteStep
  BY <1>1 DEF SuiteStep, StartRootSuite, RunSuiteSetup, SkipSuiteSetup, RunSubSuite,
     StartRun, SubSuitesDone, TestsDone, ReportSuiteStatus, RunSuiteTeardown,
     SkipSuiteTeardown, EndSuite
<1>2. ASSUME StartTest \/ NotAllowedToRun \/ ReportTestStatus \/ SkipTestTeardown \/ EndTest
      PROVE  UNCHANGED <<mode, exitVars>>
  BY <1>2 DEF StartTest, NotAllowedToRun, ReportTestStatus, SkipTestTeardown, EndTest
<1>3. CASE RunTestSetup \/ RunKeywords \/ RunTestTeardown
  BY <1>3 DEF RunTestSetup, RunKeywords, RunTestTeardown, KeywordFailed, TestFailed
<1>4. CASE ReportAfterTeardown
  BY <1>4 DEF ReportAfterTeardown, TestFailed
<1>5. CASE Over \/ UNCHANGED vars
  BY <1>5 DEF Over, vars
<1> QED BY <1>1, <1>2, <1>3, <1>4, <1>5 DEF Next, TestStep

LEMMA TeardownAheadStep ==
  ASSUME TypeOK, TeardownAhead, [Next]_vars
  PROVE  TeardownAhead'
<1> USE DEF auxVars, testVars
<1> SUFFICES ASSUME NEW t \in ran', t \notin teardownRun'
             PROVE  \/ mode'.skipTeardownOnExit /\ ExitMode'
                    \/ t = test' /\ step' \in {"keywords", "report", "teardown"}
  BY DEF TeardownAhead
<1>1. mode' = mode /\ (ExitMode => ExitMode')
  BY StopStays
<1>2. ASSUME t \in ran, t \notin teardownRun
      PROVE  \/ mode'.skipTeardownOnExit /\ ExitMode'
             \/ t = test /\ step \in {"keywords", "report", "teardown"}
  BY <1>1, <1>2 DEF TeardownAhead
<1>3. CASE SuiteStep
  BY <1>2, <1>3 DEF SuiteStep, StartRootSuite, RunSuiteSetup, SkipSuiteSetup,
     RunSubSuite, StartRun, SubSuitesDone, TestsDone, ReportSuiteStatus,
     RunSuiteTeardown, SkipSuiteTeardown, EndSuite
<1>4. CASE StartTest
  <2>1. t # test
    BY <1>4, ModeAssumption DEF StartTest, TypeOK
  <2> QED BY <1>2, <1>4, <2>1 DEF StartTest
<1>5. CASE NotAllowedToRun \/ ReportAfterTeardown \/ EndTest
  BY <1>2, <1>5 DEF NotAllowedToRun, ReportAfterTeardown, EndTest, InStep
<1>6. CASE RunTestSetup
  BY <1>2, <1>6 DEF RunTestSetup, InStep
<1>7. CASE RunKeywords \/ ReportTestStatus
  BY <1>2, <1>7 DEF RunKeywords, ReportTestStatus, InStep
<1>8. CASE RunTestTeardown
  BY <1>2, <1>8 DEF RunTestTeardown
<1>9. CASE SkipTestTeardown
  <2>1. mode.skipTeardownOnExit /\ ExitMode
    BY <1>9 DEF SkipTestTeardown, TestTeardownAllowed
  <2> QED BY <1>1, <2>1
<1>10. CASE Over \/ UNCHANGED vars
  BY <1>2, <1>10 DEF Over, vars
<1> QED
  BY <1>3, <1>4, <1>5, <1>6, <1>7, <1>8, <1>9, <1>10 DEF Next, TestStep

\* Whatever fails in it, a test that was run has its teardown run, in any tree;
\* only SkipTeardownOnExit leaves it out while the execution is being stopped.
THEOREM RunTestsAreTornDownHolds == Spec => []RunTestsAreTornDown
<1>1. Init => TeardownAhead
  BY DEF Init, TeardownAhead
<1>2. TypeOK /\ TeardownAhead /\ [Next]_vars => TeardownAhead'
  BY TeardownAheadStep
<1>3. TeardownAhead => RunTestsAreTornDown
  BY DEF TeardownAhead, RunTestsAreTornDown
<1> QED BY <1>1, <1>2, <1>3, TypeCorrect, PTL DEF Spec


-----------------------------------------------------------------------------
(***************************************************************************)
(* The setups and teardowns of suites: no setup is run under a broken      *)
(* suite, and a teardown is run exactly when the setup was, for every      *)
(* suite tree, every set of critical tests and every run mode.  The proofs *)
(* follow what SuiteRunErrors keeps for the suites being run: whether      *)
(* their setups were executed, and if not, the error that kept them.       *)
(***************************************************************************)

\* Whether SuiteRunErrors has it that the setup of the i-th suite was executed.
ExecutedAt(i) ==
  IF i = Len(running) THEN setupExecuted ELSE earlierExecutions[i + 1]

\* An error of its own initialization, or of a suite above it, or a stop.
BlockedAt(i) ==
  \/ InitErrAt(i) \/ ExitMode
  \/ \E j \in 1 .. i : earlierInitErrs[j] \/ earlierSetupErrs[j]

\* What is kept about executions is true of the suites it is kept for.
ExecutedOK ==
  \A i \in DOMAIN running : setupStatus[running[i]] # "NOT_RUN" <=> ExecutedAt(i)

\* A setup was left out because of an error that is still there.
BlockedOK ==
  \A i \in DOMAIN running :
    phase[running[i]] # "setup" => ExecutedAt(i) \/ BlockedAt(i)

DoneOK ==
  /\ \A s \in Suites : phase[s] \notin {"end", "ended"} => teardownStatus[s] = "NOT_RUN"
  /\ TeardownMatchesSetup

-----------------------------------------------------------------------------
(* Steps that leave the suites being run as they are *)

\* Both places where a suite starts run a suite that was not run before.
LEMMA StartsFresh ==
  ASSUME TypeOK, ErrorBookkeeping, StartRootSuite \/ RunSubSuite
  PROVE  \E s \in Suites, initErr \in BOOLEAN :
           StartRun(s, initErr) /\ phase[s] = "NOT_RUN"
<1>1. CASE StartRootSuite
  BY <1>1, TreeAssumption DEF StartRootSuite
<1>2. CASE RunSubSuite
  <2> DEFINE k == nextSuite[Current]
  <2>1. /\ running # <<>> /\ k <= Len(SubSuites[Current])
        /\ \E initErr \in BOOLEAN : StartRun(SubSuites[Current][k], initErr)
    BY <1>2 DEF RunSubSuite, At
  <2>2. Current \in Suites /\ k \in Nat \ {0}
    BY <2>1, CurrentType DEF TypeOK
  <2>3. SubSuites[Current] \in Seq(Suites)
    BY <2>2, TreeAssumption
  <2>4. k \in DOMAIN SubSuites[Current]
    BY <2>1, <2>2, <2>3, LenProperties
  <2>5. SubSuites[Current][k] \in Suites
    BY <2>3, <2>4, LenProperties, ElementOfSeq
  <2>6. phase[SubSuites[Current][k]] = "NOT_RUN"
    BY <2>2, <2>4 DEF ErrorBookkeeping, FreshOK
  <2> QED BY <2>1, <2>5, <2>6
<1> QED BY <1>1, <1>2

\* The steps of suites that change neither the stack nor what was executed.
LEMMA StackKept ==
  ASSUME TypeOK, ErrorBookkeeping, ExecutedOK, BlockedOK,
         UNCHANGED <<running, setupExecuted, earlierExecutions, currentInitErr,
                     earlierInitErrs, earlierSetupErrs, setupStatus>>,
         ExitMode => ExitMode',
         \A i \in DOMAIN running :
           phase'[running[i]] # "setup" =>
             phase[running[i]] # "setup" \/ ExecutedAt(i) \/ BlockedAt(i)
  PROVE  ExecutedOK' /\ BlockedOK'
<1>1. \A i : ExecutedAt(i)' = ExecutedAt(i) /\ (BlockedAt(i) => BlockedAt(i)')
  BY DEF ExecutedAt, BlockedAt, InitErrAt
<1> QED BY <1>1 DEF ExecutedOK, BlockedOK

\* For the innermost suite, BlockedAt is what SuiteSetupAllowed asks.
LEMMA BlockedHere ==
  ASSUME TypeOK, ErrorBookkeeping, running # <<>>
  PROVE  /\ BlockedAt(Len(running)) <=> ~SuiteSetupAllowed
         /\ ExecutedAt(Len(running)) = setupExecuted
<1>1. /\ Len(earlierInitErrs) = Len(running) /\ earlierInitErrs \in Seq(BOOLEAN)
      /\ Len(earlierSetupErrs) = Len(running) /\ earlierSetupErrs \in Seq(BOOLEAN)
  BY DEF ErrorBookkeeping, StackOK, TypeOK
<1>2. DOMAIN earlierInitErrs = 1 .. Len(running) /\ DOMAIN earlierSetupErrs = 1 .. Len(running)
  BY <1>1, LenProperties
<1> QED BY <1>2 DEF BlockedAt, ExecutedAt, InitErrAt, SuiteSetupAllowed, EarlierErrors, TrueIn

-----------------------------------------------------------------------------
(* Each step *)

LEMMA StartExecuted ==
  ASSUME TypeOK, ErrorBookkeeping, ExecutedOK, BlockedOK,
         StartRootSuite \/ RunSubSuite
  PROVE  ExecutedOK' /\ BlockedOK'
<1>1. PICK s \in Suites, initErr \in BOOLEAN :
        StartRun(s, initErr) /\ phase[s] = "NOT_RUN"
  BY StartsFresh
<1> DEFINE n == Len(running)
<1>2. /\ n \in Nat /\ DOMAIN running = 1 .. n
      /\ Len(running') = n + 1 /\ DOMAIN running' = 1 .. n + 1
      /\ running'[n + 1] = s
      /\ \A i \in 1 .. n : running'[i] = running[i]
  BY <1>1, AppendProperties, LenProperties DEF StartRun, TypeOK
<1>3. /\ \A i \in 1 .. n : earlierInitErrs'[i] = earlierInitErrs[i]
      /\ \A i \in 1 .. n : earlierSetupErrs'[i] = earlierSetupErrs[i]
      /\ \A i \in 1 .. n : earlierExecutions'[i] = earlierExecutions[i]
      /\ earlierInitErrs'[n + 1] = currentInitErr
      /\ earlierExecutions'[n + 1] = setupExecuted
  BY <1>1, AppendProperties DEF StartRun, TypeOK, ErrorBookkeeping, StackOK
<1>4. /\ UNCHANGED <<setupStatus, exitVars>>
      /\ \A x \in Suites \ {s} : phase'[x] = phase[x]
      /\ phase'[s] = "setup" /\ setupExecuted' = FALSE
      /\ setupStatus[s] = "NOT_RUN"
  BY <1>1 DEF StartRun, TypeOK, ErrorBookkeeping, FreshOK
<1>5. \A i \in 1 .. n : running[i] \in Suites \ {s}
  BY <1>1, <1>2, ElementOfSeq DEF TypeOK, ErrorBookkeeping, StackOK
<1>6. ASSUME NEW i \in 1 .. n
      PROVE  ExecutedAt(i)' = ExecutedAt(i) /\ (BlockedAt(i) => BlockedAt(i)')
  <2>1. i # n + 1 /\ i + 1 \in 1 .. n + 1 /\ (i # n => i + 1 \in 1 .. n)
        /\ 1 .. i \subseteq 1 .. n
    <3> HIDE DEF n
    <3> QED BY <1>2
  <2>2. ExecutedAt(i)' = earlierExecutions'[i + 1] /\ InitErrAt(i)' = earlierInitErrs'[i + 1]
    BY <1>2, <2>1 DEF ExecutedAt, InitErrAt
  <2>3. ExecutedAt(i)' = ExecutedAt(i) /\ InitErrAt(i)' = InitErrAt(i)
    BY <1>3, <2>1, <2>2 DEF ExecutedAt, InitErrAt
  <2>4. ExitMode' = ExitMode
    BY <1>4 DEF ExitMode, exitVars
  <2> QED BY <1>3, <2>1, <2>3, <2>4 DEF BlockedAt
<1>7. ASSUME NEW i \in 1 .. n + 1
      PROVE  /\ setupStatus'[running'[i]] # "NOT_RUN" <=> ExecutedAt(i)'
             /\ phase'[running'[i]] # "setup" => ExecutedAt(i)' \/ BlockedAt(i)'
  <2>1. CASE i = n + 1
    BY <1>2, <1>4, <2>1 DEF ExecutedAt
  <2>2. CASE i \in 1 .. n
    BY <1>2, <1>4, <1>5, <1>6, <2>2 DEF ExecutedOK, BlockedOK
  <2> QED BY <1>2, <2>1, <2>2
<1> QED BY <1>2, <1>7 DEF ExecutedOK, BlockedOK

LEMMA EndExecuted ==
  ASSUME TypeOK, ErrorBookkeeping, ExecutedOK, BlockedOK, EndSuite
  PROVE  ExecutedOK' /\ BlockedOK'
<1> DEFINE n == Len(running)
<1>1. /\ running # <<>> /\ running' = Front(running) /\ GoTo("ended") /\ RestoreErrors
      /\ UNCHANGED <<exitVars, setupStatus>>
  BY DEF EndSuite, At, resultVars
<1>2. /\ n \in Nat \ {0} /\ DOMAIN running = 1 .. n /\ Current = running[n]
      /\ n \in DOMAIN running /\ \A i \in 1 .. n : running[i] \in Suites
  BY <1>1, StackFacts
<1>3. /\ Len(running') = n - 1 /\ DOMAIN running' = 1 .. n - 1
      /\ \A i \in 1 .. n - 1 : running'[i] = running[i]
  <2>1. /\ running' \in Seq(Suites) /\ Len(running') = n - 1
        /\ \A i \in 1 .. n - 1 : running'[i] = running[i]
    <3>1. running \in Seq(Suites)
      BY DEF TypeOK
    <3>2. /\ Front(running) \in Seq(Suites) /\ Len(Front(running)) = n - 1
          /\ \A i \in 1 .. n - 1 : Front(running)[i] = running[i]
      BY <1>1, <3>1, FrontType
    <3> HIDE DEF n
    <3> QED BY <1>1, <3>2
  <2>2. DOMAIN running' = 1 .. Len(running')
    BY <2>1, LenProperties
  <2> QED BY <2>1, <2>2
<1>4. /\ Len(earlierInitErrs) = n /\ earlierInitErrs \in Seq(BOOLEAN)
      /\ Len(earlierSetupErrs) = n /\ earlierSetupErrs \in Seq(BOOLEAN)
      /\ Len(earlierExecutions) = n /\ earlierExecutions \in Seq(BOOLEAN)
  BY DEF TypeOK, ErrorBookkeeping, StackOK
<1>5. earlierInitErrs # <<>> /\ earlierSetupErrs # <<>> /\ earlierExecutions # <<>>
  BY <1>2, <1>4, EmptySeq
<1>6. /\ currentInitErr' = earlierInitErrs[n] /\ setupExecuted' = earlierExecutions[n]
      /\ \A i \in 1 .. n - 1 : /\ earlierInitErrs'[i] = earlierInitErrs[i]
                                /\ earlierSetupErrs'[i] = earlierSetupErrs[i]
                                /\ earlierExecutions'[i] = earlierExecutions[i]
  BY <1>1, <1>4, <1>5, FrontType DEF RestoreErrors, Last
<1>7. \A i \in 1 .. n - 1 : running[i] \in Suites \ {Current}
  BY <1>2 DEF ErrorBookkeeping, StackOK
<1>8. \A s \in Suites \ {Current} : phase'[s] = phase[s]
  BY <1>1, <1>2 DEF GoTo, TypeOK
<1>9. ASSUME NEW i \in 1 .. n - 1
      PROVE  ExecutedAt(i)' = ExecutedAt(i) /\ (BlockedAt(i) => BlockedAt(i)')
  <2>1. /\ i # n /\ (i = n - 1 => i + 1 = n) /\ (i # n - 1 => i + 1 \in 1 .. n - 1)
        /\ 1 .. i \subseteq 1 .. n - 1
    <3> HIDE DEF n
    <3> QED BY <1>2
  <2>2. ExecutedAt(i) = earlierExecutions[i + 1] /\ InitErrAt(i) = earlierInitErrs[i + 1]
    BY <2>1 DEF ExecutedAt, InitErrAt
  <2>3. ExecutedAt(i)' = ExecutedAt(i) /\ InitErrAt(i)' = InitErrAt(i)
    BY <1>3, <1>6, <2>1, <2>2 DEF ExecutedAt, InitErrAt
  <2>4. ExitMode' = ExitMode
    BY <1>1 DEF ExitMode, exitVars
  <2> QED BY <1>6, <2>1, <2>3, <2>4 DEF BlockedAt
<1>10. 1 .. n - 1 \subseteq DOMAIN running
  <2> HIDE DEF n
  <2> QED BY <1>2
<1> QED
  BY <1>1, <1>3, <1>7, <1>8, <1>9, <1>10 DEF ExecutedOK, BlockedOK

LEMMA SetupExecuted ==
  ASSUME TypeOK, ErrorBookkeeping, ExecutedOK, BlockedOK, RunSuiteSetup
  PROVE  ExecutedOK' /\ BlockedOK'
<1> DEFINE n == Len(running)
<1>1. /\ running # <<>> /\ running' = running /\ GoTo("suites") /\ setupExecuted' = TRUE
      /\ UNCHANGED <<currentInitErr, earlierInitErrs, earlierSetupErrs,
                     earlierExecutions, exitVars>>
      /\ \E st \in {"PASS", "FAIL"} : setupStatus' = [setupStatus EXCEPT ![Current] = st]
  BY DEF RunSuiteSetup, At
<1>2. /\ n \in Nat \ {0} /\ DOMAIN running = 1 .. n /\ Current = running[n]
      /\ n \in DOMAIN running /\ \A i \in 1 .. n : running[i] \in Suites
  BY <1>1, StackFacts
<1>3. \A i \in 1 .. n : i # n => running[i] # Current
  BY <1>2 DEF ErrorBookkeeping, StackOK
<1>4. /\ setupStatus'[Current] # "NOT_RUN"
      /\ \A s \in Suites \ {Current} : setupStatus'[s] = setupStatus[s] /\ phase'[s] = phase[s]
  BY <1>1, <1>2 DEF GoTo, TypeOK
<1>5. ASSUME NEW i \in 1 .. n
      PROVE  /\ setupStatus'[running[i]] # "NOT_RUN" <=> ExecutedAt(i)'
             /\ phase'[running[i]] # "setup" => ExecutedAt(i)' \/ BlockedAt(i)'
  <2>1. CASE i = n
    BY <1>1, <1>2, <1>4, <2>1 DEF ExecutedAt
  <2>2. CASE i # n
    <3>1. ExecutedAt(i)' = ExecutedAt(i) /\ BlockedAt(i)' = BlockedAt(i)
      BY <1>1, <2>2 DEF ExecutedAt, BlockedAt, InitErrAt, ExitMode, exitVars
    <3>2. running[i] \in Suites \ {Current}
      BY <1>2, <1>3, <2>2
    <3> QED BY <1>2, <1>4, <3>1, <3>2 DEF ExecutedOK, BlockedOK
  <2> QED BY <2>1, <2>2
<1> QED BY <1>1, <1>2, <1>5 DEF ExecutedOK, BlockedOK

\* A setup that is left out is blocked; nothing else goes on from "setup".
LEMMA StepExecuted ==
  ASSUME TypeOK, ErrorBookkeeping, ExecutedOK, BlockedOK, [Next]_vars
  PROVE  ExecutedOK' /\ BlockedOK'
<1>1. CASE StartRootSuite \/ RunSubSuite
  BY <1>1, StartExecuted
<1>2. CASE EndSuite
  BY <1>2, EndExecuted
<1>3. CASE RunSuiteSetup
  BY <1>3, SetupExecuted
<1>4. CASE SkipSuiteSetup \/ SubSuitesDone \/ TestsDone \/ ReportSuiteStatus
           \/ RunSuiteTeardown \/ SkipSuiteTeardown
  <2>1. /\ running # <<>> /\ ExitMode' = ExitMode
        /\ UNCHANGED <<running, setupExecuted, earlierExecutions, currentInitErr,
                       earlierInitErrs, earlierSetupErrs, setupStatus>>
        /\ SkipSuiteSetup \/ phase[Current] # "setup"
        /\ \E p \in Phases : GoTo(p)
    BY <1>4 DEF SkipSuiteSetup, SubSuitesDone, TestsDone, ReportSuiteStatus,
       RunSuiteTeardown, SkipSuiteTeardown, At, errorVars, exitVars, resultVars, ExitMode,
       Phases
  <2>2. ASSUME NEW i \in DOMAIN running
        PROVE  phase[running[i]] # "setup" \/ ExecutedAt(i) \/ BlockedAt(i)
               \/ phase'[running[i]] = "setup"
    <3>1. CASE running[i] # Current
      <4>1. running[i] \in Suites /\ phase'[running[i]] = phase[running[i]]
        BY <2>1, <3>1, StackFacts DEF GoTo, TypeOK
      <4> QED BY <4>1
    <3>2. CASE running[i] = Current
      <4>1. i = Len(running)
        BY <2>1, <3>2, StackFacts DEF ErrorBookkeeping, StackOK
      <4>2. CASE SkipSuiteSetup
        BY <2>1, <4>1, <4>2, BlockedHere DEF SkipSuiteSetup
      <4> QED BY <2>1, <3>2, <4>2
    <3> QED BY <3>1, <3>2
  <2> QED BY <2>1, <2>2, StackKept
<1>5. CASE TestStep
  <2>1. SuitesKept /\ (ExitMode => ExitMode')
    BY <1>5, TestStepKeepsSuites, StopStays
  <2> QED BY <2>1, StackKept DEF SuitesKept, errorVars
<1>6. CASE Over \/ UNCHANGED vars
  <2>1. UNCHANGED vars
    BY <1>6 DEF Over
  <2> QED BY <2>1, StackKept DEF vars, suiteVars, errorVars, exitVars, resultVars, ExitMode
<1> QED BY <1>1, <1>2, <1>3, <1>4, <1>5, <1>6 DEF Next, SuiteStep

LEMMA StepDone ==
  ASSUME TypeOK, ErrorBookkeeping, ExecutedOK, BlockedOK, DoneOK, [Next]_vars
  PROVE  DoneOK'
<1> DEFINE Fine(st, td, ph, stop) ==
      /\ ph \notin {"end", "ended"} => td = "NOT_RUN"
      /\ ph \in {"end", "ended"} =>
           /\ td # "NOT_RUN" => st # "NOT_RUN"
           /\ st # "NOT_RUN" /\ td = "NOT_RUN" => stop
    stopped == mode.skipTeardownOnExit /\ ExitMode
<1> SUFFICES ASSUME NEW s \in Suites
             PROVE  Fine(setupStatus'[s], teardownStatus'[s], phase'[s], stopped')
  BY DEF DoneOK, TeardownMatchesSetup
<1>1. stopped => stopped'
  BY StopStays
<1>2. Fine(setupStatus[s], teardownStatus[s], phase[s], stopped)
  BY DEF DoneOK, TeardownMatchesSetup
<1>3. ASSUME UNCHANGED <<setupStatus[s], teardownStatus[s]>>,
             phase'[s] \in {"end", "ended"} <=> phase[s] \in {"end", "ended"}
      PROVE  Fine(setupStatus'[s], teardownStatus'[s], phase'[s], stopped')
  BY <1>1, <1>2, <1>3
<1> HIDE DEF Fine, stopped
<1>4. CASE StartRootSuite \/ RunSubSuite
  <2>1. PICK x \in Suites, initErr \in BOOLEAN : StartRun(x, initErr) /\ phase[x] = "NOT_RUN"
    BY <1>4, StartsFresh
  <2> QED BY <1>3, <2>1 DEF StartRun, TypeOK
<1>5. ASSUME NEW p \in Phases, GoTo(p), s # Current, running # <<>>
      PROVE  phase'[s] = phase[s]
  BY <1>5, CurrentType DEF GoTo, TypeOK
<1>6. ASSUME NEW p \in Phases, GoTo(p), running # <<>>
      PROVE  phase'[Current] = p
  BY <1>6, CurrentType DEF GoTo, TypeOK
<1>7. {"suites", "tests", "report", "teardown", "end", "ended"} \subseteq Phases
  BY DEF Phases
<1>8. CASE RunSuiteSetup
  <2>1. /\ running # <<>> /\ phase[Current] = "setup" /\ GoTo("suites")
        /\ UNCHANGED teardownStatus
        /\ \E st : setupStatus' = [setupStatus EXCEPT ![Current] = st]
    BY <1>8 DEF RunSuiteSetup, At
  <2>2. CASE s = Current
    BY <1>2, <1>6, <1>7, <2>1, <2>2 DEF Fine
  <2>3. CASE s # Current
    <3>1. phase'[s] = phase[s]
      BY <1>5, <1>7, <2>1, <2>3
    <3>2. setupStatus'[s] = setupStatus[s]
      BY <2>1, <2>3 DEF TypeOK
    <3> QED BY <1>3, <2>1, <3>1, <3>2
  <2> QED BY <2>2, <2>3
<1>9. CASE SkipSuiteSetup \/ SubSuitesDone \/ TestsDone \/ ReportSuiteStatus \/ EndSuite
  <2>1. /\ running # <<>> /\ UNCHANGED <<setupStatus, teardownStatus>>
        /\ \/ phase[Current] \notin {"end", "ended"}
              /\ \E p \in {"suites", "tests", "report", "teardown"} : GoTo(p)
           \/ phase[Current] = "end" /\ GoTo("ended")
    BY <1>9 DEF SkipSuiteSetup, SubSuitesDone, TestsDone, ReportSuiteStatus, EndSuite, At,
       resultVars
  <2>2. phase'[s] \in {"end", "ended"} <=> phase[s] \in {"end", "ended"}
    BY <1>5, <1>6, <1>7, <2>1
  <2> QED BY <1>3, <2>1, <2>2
<1>10. CASE RunSuiteTeardown \/ SkipSuiteTeardown
  <2>1. /\ running # <<>> /\ phase[Current] = "teardown" /\ GoTo("end")
        /\ UNCHANGED setupStatus
        /\ \A x \in Suites \ {Current} : teardownStatus'[x] = teardownStatus[x]
    BY <1>10 DEF RunSuiteTeardown, SkipSuiteTeardown, At, resultVars, TypeOK
  <2>2. CASE s # Current
    <3>1. phase'[s] = phase[s]
      BY <1>5, <1>7, <2>1, <2>2
    <3> QED BY <1>3, <2>1, <2>2, <3>1
  <2>3. CASE s = Current
    <3>1. phase'[s] = "end"
      BY <1>6, <1>7, <2>1, <2>3
    <3>2. setupStatus[s] # "NOT_RUN" <=> setupExecuted
      BY <2>1, <2>3, StackFacts, BlockedHere DEF ExecutedOK
    <3>3. setupExecuted \/ ~SuiteSetupAllowed
      BY <2>1, StackFacts, BlockedHere DEF BlockedOK
    <3>4. CASE RunSuiteTeardown
      <4>1. setupExecuted
        BY <3>3, <3>4 DEF RunSuiteTeardown, SuiteTeardownAllowed, SuiteSetupAllowed
      <4>2. teardownStatus'[s] # "NOT_RUN"
        BY <2>3, <3>4 DEF RunSuiteTeardown, TypeOK
      <4> QED BY <2>1, <3>1, <3>2, <4>1, <4>2 DEF Fine
    <3>5. CASE SkipSuiteTeardown
      <4>1. teardownStatus'[s] = "NOT_RUN"
        BY <1>2, <2>1, <2>3, <3>5 DEF SkipSuiteTeardown, resultVars, Fine
      <4>2. setupExecuted => stopped
        BY <3>5 DEF SkipSuiteTeardown, SuiteTeardownAllowed, TestTeardownAllowed, stopped
      <4> QED BY <1>1, <2>1, <3>1, <3>2, <4>1, <4>2 DEF Fine
    <3> QED BY <1>10, <3>4, <3>5
  <2> QED BY <2>2, <2>3
<1>11. CASE TestStep
  <2>1. SuitesKept /\ UNCHANGED teardownStatus
    BY <1>11, TestStepKeepsSuites DEF TestStep, StartTest, NotAllowedToRun, RunTestSetup,
       RunKeywords, ReportTestStatus, RunTestTeardown, SkipTestTeardown,
       ReportAfterTeardown, EndTest, resultVars
  <2> QED BY <1>3, <2>1 DEF SuitesKept
<1>12. CASE Over \/ UNCHANGED vars
  BY <1>3, <1>12 DEF Over, vars, suiteVars, resultVars
<1> QED
  BY <1>4, <1>8, <1>9, <1>10, <1>11, <1>12 DEF Next, SuiteStep

\* Whatever fails, stops or is left out around it: the teardown of a suite of any
\* tree is run exactly when its setup was run, unless SkipTeardownOnExit leaves it
\* out while the execution is being stopped.
THEOREM TeardownMatchesSetupHolds == Spec => []TeardownMatchesSetup
<1> DEFINE FixturesOK == ExecutedOK /\ BlockedOK /\ DoneOK
<1>1. Init => FixturesOK
  <2> SUFFICES ASSUME Init PROVE FixturesOK
    OBVIOUS
  <2>1. DOMAIN running = {}
    BY EmptySeq, LenProperties DEF Init
  <2>2. \A s \in Suites : phase[s] = "NOT_RUN" /\ teardownStatus[s] = "NOT_RUN"
    BY DEF Init
  <2> QED BY <2>1, <2>2 DEF ExecutedOK, BlockedOK, DoneOK, TeardownMatchesSetup
<1>2. TypeOK /\ ErrorBookkeeping /\ FixturesOK /\ [Next]_vars => FixturesOK'
  BY StepExecuted, StepDone
<1>3. FixturesOK => TeardownMatchesSetup
  BY DEF DoneOK
<1> QED BY <1>1, <1>2, <1>3, BookkeepingHolds, PTL DEF Spec

-----------------------------------------------------------------------------
(* Setups *)

\* A suite whose setup was run is below suites only that are past their own
\* setup, and not broken.
SetupsAboveOK ==
  \A c, s \in Suites :
    (c \in Under(s) /\ c # s /\ setupStatus[c] # "NOT_RUN") =>
      phase[s] \notin {"NOT_RUN", "setup"} /\ ~Broken(s)

\* No setup is changed, and the suites past their setup stay that and unbroken.
LEMMA SetupsKept ==
  ASSUME SetupsAboveOK, UNCHANGED setupStatus,
         \A s \in Suites : phase[s] \notin {"NOT_RUN", "setup"} =>
           /\ phase'[s] \notin {"NOT_RUN", "setup"}
           /\ s \in initFailed' => s \in initFailed
  PROVE  SetupsAboveOK'
BY DEF SetupsAboveOK, Broken

LEMMA SetupAbove ==
  ASSUME TypeOK, ErrorBookkeeping, SetupsAboveOK, RunSuiteSetup
  PROVE  SetupsAboveOK'
<1>1. /\ running # <<>> /\ phase[Current] = "setup" /\ GoTo("suites") /\ SuiteSetupAllowed
      /\ UNCHANGED initFailed
      /\ \E st : setupStatus' = [setupStatus EXCEPT ![Current] = st]
  BY DEF RunSuiteSetup, At
<1>2. Current \in Suites
  BY <1>1, CurrentType
<1>3. /\ phase'[Current] = "suites"
      /\ \A x \in Suites \ {Current} :
           phase'[x] = phase[x] /\ setupStatus'[x] = setupStatus[x]
  BY <1>1, <1>2 DEF GoTo, TypeOK
<1>4. ASSUME NEW i \in DOMAIN running, running[i] # Current
      PROVE  ~InitErrAt(i) /\ ~SetupErrAt(i) /\ phase[running[i]] = "suites"
  <2>1. i \in 1 .. Len(running) /\ Len(running) \in Nat /\ i # Len(running)
    BY <1>1, <1>4, StackFacts
  <2>2. i + 1 \in DOMAIN earlierInitErrs /\ i + 1 \in DOMAIN earlierSetupErrs
    BY <2>1, LenProperties DEF ErrorBookkeeping, StackOK, TypeOK
  <2>3. ~InitErrAt(i) /\ ~SetupErrAt(i)
    BY <1>1, <2>1, <2>2 DEF InitErrAt, SetupErrAt, SuiteSetupAllowed, EarlierErrors, TrueIn
  <2>4. i < Len(running)
    BY <2>1
  <2> QED BY <2>3, <2>4 DEF ErrorBookkeeping, StackOK
<1>5. ASSUME NEW s \in Suites, Current \in Under(s), s # Current
      PROVE  phase[s] = "suites" /\ ~Broken(s)
  <2>1. s \in Range(running)
    BY <1>1, <1>5, SuitesAboveAreRunning DEF ErrorBookkeeping
  <2>2. PICK i \in DOMAIN running : running[i] = s
    BY <2>1 DEF Range
  <2> QED BY <1>4, <1>5, <2>2 DEF ErrorBookkeeping, ErrorsOK, Broken
<1> SUFFICES ASSUME NEW c \in Suites, NEW s \in Suites,
                    c \in Under(s), c # s, setupStatus'[c] # "NOT_RUN"
             PROVE  phase'[s] \notin {"NOT_RUN", "setup"} /\ ~Broken(s)'
  BY DEF SetupsAboveOK, Under, Subtree
<1>6. CASE c = Current
  BY <1>1, <1>3, <1>5, <1>6 DEF Broken
<1>7. CASE c # Current
  <2>1. phase[s] \notin {"NOT_RUN", "setup"} /\ ~Broken(s)
    BY <1>3, <1>7 DEF SetupsAboveOK
  <2> QED BY <1>1, <1>3, <2>1 DEF Broken
<1> QED BY <1>6, <1>7

LEMMA StepAbove ==
  ASSUME TypeOK, ErrorBookkeeping, SetupsAboveOK, [Next]_vars
  PROVE  SetupsAboveOK'
<1>1. CASE StartRootSuite \/ RunSubSuite
  <2>1. PICK x \in Suites, initErr \in BOOLEAN : StartRun(x, initErr) /\ phase[x] = "NOT_RUN"
    BY <1>1, StartsFresh
  <2>2. /\ UNCHANGED setupStatus /\ phase' = [phase EXCEPT ![x] = "setup"]
        /\ initFailed' \subseteq initFailed \cup {x}
    BY <2>1 DEF StartRun
  <2> QED BY <2>1, <2>2, SetupsKept DEF TypeOK
<1>2. CASE RunSuiteSetup
  BY <1>2, SetupAbove
<1>3. CASE SkipSuiteSetup \/ SubSuitesDone \/ TestsDone \/ ReportSuiteStatus
           \/ RunSuiteTeardown \/ SkipSuiteTeardown \/ EndSuite
  <2>1. /\ UNCHANGED <<setupStatus, initFailed>>
        /\ \E p \in {"suites", "tests", "report", "teardown", "end", "ended"} : GoTo(p)
    BY <1>3 DEF SkipSuiteSetup, SubSuitesDone, TestsDone, ReportSuiteStatus,
       RunSuiteTeardown, SkipSuiteTeardown, EndSuite, resultVars, auxVars
  <2>2. \A s \in Suites : phase[s] \notin {"NOT_RUN", "setup"} =>
          phase'[s] \notin {"NOT_RUN", "setup"}
    BY <2>1 DEF GoTo, TypeOK
  <2> QED BY <2>1, <2>2, SetupsKept
<1>4. CASE TestStep
  BY <1>4, TestStepKeepsSuites, SetupsKept DEF SuitesKept
<1>5. CASE Over \/ UNCHANGED vars
  <2>1. UNCHANGED <<setupStatus, phase, initFailed>>
    BY <1>5 DEF Over, vars, suiteVars, resultVars, auxVars
  <2> QED BY <2>1, SetupsKept
<1> QED BY <1>1, <1>2, <1>3, <1>4, <1>5 DEF Next, SuiteStep

\* In any tree, no suite setup is run under a suite, at any height, whose
\* initialization or setup failed.
THEOREM NoSetupRunsUnderErrorsHolds == Spec => []NoSetupRunsUnderErrors
<1>1. Init => SetupsAboveOK
  BY DEF Init, SetupsAboveOK
<1>2. TypeOK /\ ErrorBookkeeping /\ SetupsAboveOK /\ [Next]_vars => SetupsAboveOK'
  BY StepAbove
<1>3. SetupsAboveOK => NoSetupRunsUnderErrors
  BY DEF SetupsAboveOK, NoSetupRunsUnderErrors
<1> QED BY <1>1, <1>2, <1>3, BookkeepingHolds, PTL DEF Spec

-----------------------------------------------------------------------------
(***************************************************************************)
(* What is reported of tests and suites                                    *)
(***************************************************************************)
-----------------------------------------------------------------------------
(* The inductive invariant *)

\* _run_sub_suites is over.
PastSuites == {"tests", "report", "teardown", "end", "ended"}

\* _run_tests is over, too.
PastTests == {"report", "teardown", "end", "ended"}

\* _report_status is over.
Reported == {"teardown", "end", "ended"}

\* The suites whose run() is active are on the stack, each below the one
\* before it; the suites a loop has passed were run, and where the loop is
\* over they have ended, with all that is under them.
PathOK ==
  /\ \A i, j \in DOMAIN running : i <= j => running[j] \in Under(running[i])
  /\ \A s \in Suites : phase[s] \notin {"NOT_RUN", "ended"} => s \in Range(running)
  /\ \A s \in Suites : \A i \in DOMAIN SubSuites[s] :
       i < nextSuite[s] => phase[SubSuites[s][i]] # "NOT_RUN"
  /\ \A s \in Suites : phase[s] \in PastSuites =>
       \A c \in Under(s) : c # s => phase[c] = "ended"

\* The tests a loop has passed have a status, the others have none.
LoopsOK ==
  /\ \A s \in Suites : \A j \in DOMAIN TestsOf[s] :
       j >= nextTest[s] <=> status[TestsOf[s][j]] = "NOT_RUN"
  /\ \A s \in Suites : phase[s] \in PastTests =>
       nextTest[s] > Len(TestsOf[s])

\* What SuiteRunErrors holds against a test: something above it, or a stop.
HeldAgainst(t) ==
  \/ \E s \in Suites : t \in TestsUnder(s) /\ Broken(s)
  \/ fatal
  \/ mode.exitOnFailure /\ \E c \in Critical \cap ran : failures[c] # {}

\* The errors that are kept were caused by the suites they are kept for.
ErrorSourcesOK ==
  /\ IF running = <<>> THEN ~currentInitErr /\ ~currentSetupErr
                       ELSE ~earlierInitErrs[1] /\ ~earlierSetupErrs[1]
  /\ \A i \in DOMAIN running :
       /\ InitErrAt(i) => running[i] \in initFailed
       /\ SetupErrAt(i) => setupStatus[running[i]] = "FAIL"

\* A stop was caused by a fatal error, or by a critical test that failed.
StopSourcesOK ==
  /\ exitFatal => fatal
  /\ exitRunmode =>
       mode.exitOnFailure /\ \E c \in Critical \cap ran : failures[c] # {}

\* The test being run: what its TestRunErrors and its status have recorded so
\* far is what has failed of it so far.
RunningTestOK ==
  test # NoTest =>
    /\ step # "idle"
    /\ testErrs.parent => HeldAgainst(test)
    /\ testErrs.init => "init" \in failures[test]
    /\ step = "start" => /\ status[test] = "RUNNING" /\ test \notin ran
                         /\ failures[test] # {} => testErrs.init
                         /\ ~BodyFailed /\ ~testErrs.teardown
    /\ step \in {"keywords", "report", "teardown", "after"} => test \in ran
    /\ step = "keywords" => /\ failures[test] = {} /\ status[test] = "RUNNING"
                            /\ ~BodyFailed /\ ~testErrs.teardown
    /\ step = "report" => /\ failures[test] # {} <=> BodyFailed
                          /\ status[test] = "RUNNING" /\ ~testErrs.teardown
    /\ step \in {"teardown", "after", "end"} => status[test] \in {"PASS", "FAIL"}
    /\ step = "teardown" => /\ status[test] = "PASS" <=> failures[test] = {}
                            /\ ~testErrs.teardown
    /\ step = "after" => (status[test] = "PASS" /\ ~testErrs.teardown)
                           <=> failures[test] = {}
    /\ step = "end" =>
         /\ status[test] = "PASS" <=> test \in ran /\ failures[test] = {}
         /\ test \notin ran => testErrs.parent \/ testErrs.init
    /\ test \in ran /\ failures[test] = {} => ~ExitMode

\* The other tests: StatusHasItsCause and LeftOutForAReason.
VerdictOK(t) ==
  /\ status[t] # "RUNNING"
  /\ status[t] = "NOT_RUN" => t \notin ran /\ failures[t] = {}
  /\ status[t] = "PASS" <=> t \in ran /\ failures[t] = {} /\ ~FailedTeardownAbove(t)
  /\ status[t] # "NOT_RUN" /\ t \notin ran => "init" \in failures[t] \/ HeldAgainst(t)

VerdictsOK == \A t \in Tests \ {test} : VerdictOK(t)

\* What was counted is still so.
CountedOK ==
  \A s \in Suites :
    IF phase[s] \in Reported
    THEN stats[s] = SuiteTally(s, status) /\ suiteStatus[s] = StatusOf(stats[s])
    ELSE suiteStatus[s] # "FAIL"

-----------------------------------------------------------------------------
(* The tree *)

LEMMA UnderFacts ==
  ASSUME NEW s \in Suites
  PROVE  /\ s \in Under(s)
         /\ Under(s) \subseteq Suites
         /\ \A y \in Under(s) : Range(SubSuites[y]) \subseteq Under(s)
<1>1. s \in Under(s) /\ Under(s) \subseteq Suites
  BY DEF Under, Subtree
<1>2. ASSUME NEW y \in Under(s), NEW c \in Range(SubSuites[y])
      PROVE  c \in Under(s)
  <2>1. y \in Suites /\ c \in Suites
    BY <1>1, RangeType, TreeAssumption
  <2> QED BY <2>1 DEF Under, Subtree
<1> QED BY <1>1, <1>2

LEMMA UnderLeast ==
  ASSUME NEW s \in Suites, NEW S \in SUBSET Suites, s \in S,
         \A y \in S : \A c \in Range(SubSuites[y]) : c \in S
  PROVE  Under(s) \subseteq S
BY DEF Under, Subtree

LEMMA UnderTransitive ==
  ASSUME NEW s \in Suites, NEW c \in Under(s)
  PROVE  Under(c) \subseteq Under(s)
BY UnderFacts, UnderLeast

\* A suite is under s when it is s or under a sub suite of s.
LEMMA UnderSplit ==
  ASSUME NEW s \in Suites, NEW c \in Under(s), c # s
  PROVE  \E y \in Range(SubSuites[s]) : c \in Under(y)
<1> DEFINE S == {s} \cup UNION {Under(y) : y \in Range(SubSuites[s])}
<1>1. Range(SubSuites[s]) \subseteq Suites
  BY RangeType, TreeAssumption
<1>2. S \in SUBSET Suites
  BY <1>1, UnderFacts
<1>3. \A y \in S : \A x \in Range(SubSuites[y]) : x \in S
  BY <1>1, UnderFacts
<1>4. Under(s) \subseteq S
  <2> HIDE DEF S
  <2> QED BY <1>2, <1>3, UnderLeast DEF S
<1> QED BY <1>4

\* What is below s, its suite is under s, too.
LEMMA ParentUnder ==
  ASSUME NEW s \in Suites, NEW c \in Under(s), c # s,
         NEW y \in Suites, c \in Range(SubSuites[y])
  PROVE  y \in Under(s)
<1> SUFFICES ASSUME y \notin Under(s) PROVE FALSE
  OBVIOUS
<1> DEFINE S == Under(s) \ {c}
<1>1. s \in S /\ S \in SUBSET Suites
  BY UnderFacts
<1>2. ASSUME NEW z \in S, NEW x \in Range(SubSuites[z])
      PROVE  x \in S
  BY <1>2, UnderFacts, TreeAssumption
<1>3. Under(s) \subseteq S
  BY <1>1, <1>2, UnderLeast
<1> QED BY <1>3

\* The subtrees of two suites are nested or disjoint.
LEMMA UnderNested ==
  ASSUME NEW s \in Suites, NEW x \in Suites, NEW c \in Under(s), c \in Under(x)
  PROVE  s \in Under(x) \/ x \in Under(s)
<1> DEFINE S == {y \in Under(s) : y \in Under(x) => s \in Under(x) \/ x \in Under(s)}
<1>1. s \in S /\ S \in SUBSET Suites
  BY UnderFacts
<1>2. ASSUME NEW y \in S, NEW w \in Range(SubSuites[y])
      PROVE  w \in S
  <2>1. w \in Under(s) /\ y \in Suites
    BY <1>1, UnderFacts
  <2>2. CASE w = x
    BY <2>1, <2>2
  <2>3. CASE w # x /\ w \in Under(x)
    BY <2>1, <2>3, ParentUnder
  <2> QED BY <2>1, <2>2, <2>3
<1>3. Under(s) \subseteq S
  BY <1>1, <1>2, UnderLeast
<1> QED BY <1>3

LEMMA TestsUnderFacts ==
  ASSUME NEW s \in Suites
  PROVE  /\ TestsUnder(s) \subseteq Tests
         /\ \A c \in Under(s) : TestsUnder(c) \subseteq TestsUnder(s)
         /\ Range(TestsOf[s]) \subseteq TestsUnder(s)
         /\ \A t \in TestsUnder(s) : \E c \in Under(s) : t \in Range(TestsOf[c])
<1>1. TestsUnder(s) \subseteq Tests
  BY RangeType, TreeAssumption, UnderFacts DEF TestsUnder
<1>2. \A c \in Under(s) : TestsUnder(c) \subseteq TestsUnder(s)
  BY UnderTransitive DEF TestsUnder
<1> QED BY <1>1, <1>2, UnderFacts DEF TestsUnder

\* Two suites with a test in common are nested.
LEMMA TestsNested ==
  ASSUME NEW s \in Suites, NEW x \in Suites, NEW t \in TestsUnder(s), t \in TestsUnder(x)
  PROVE  s \in Under(x) \/ x \in Under(s)
<1>1. PICK c \in Under(s) : t \in Range(TestsOf[c])
  BY TestsUnderFacts
<1>2. c \in Suites
  BY UnderFacts
<1> QED BY <1>1, <1>2, SuiteOfTest, UnderNested

-----------------------------------------------------------------------------
(* The suites being run *)

\* A suite starts as the root, or as the sub suite the innermost suite's loop is at.
LEMMA StartsBelow ==
  ASSUME TypeOK, ErrorBookkeeping, StartRootSuite \/ RunSubSuite
  PROVE  \E s \in Suites, initErr \in BOOLEAN :
           /\ StartRun(s, initErr) /\ phase[s] = "NOT_RUN"
           /\ running # <<>> => s \in Range(SubSuites[Current])
           /\ \A x \in Suites : \A i \in DOMAIN SubSuites[x] :
                i < nextSuite'[x] => i < nextSuite[x] \/ SubSuites[x][i] = s
<1>1. CASE StartRootSuite
  <2>1. running = <<>>
    <3> SUFFICES ASSUME running # <<>> PROVE FALSE
      OBVIOUS
    <3>1. 1 \in DOMAIN running
      BY StackFacts
    <3> QED BY <1>1, <3>1 DEF ErrorBookkeeping, StackOK, StartRootSuite
  <2>2. PICK initErr \in BOOLEAN : StartRun(Root, initErr)
    BY <1>1 DEF StartRootSuite
  <2>3. phase[Root] = "NOT_RUN" /\ nextSuite' = nextSuite /\ Root \in Suites
    BY <1>1, TreeAssumption DEF StartRootSuite
  <2> QED BY <2>1, <2>2, <2>3
<1>2. CASE RunSubSuite
  <2> DEFINE k == nextSuite[Current]
             c == SubSuites[Current][k]
  <2>1. /\ running # <<>> /\ k <= Len(SubSuites[Current])
        /\ nextSuite' = [nextSuite EXCEPT ![Current] = @ + 1]
    BY <1>2 DEF RunSubSuite, At
  <2>2. PICK initErr \in BOOLEAN : StartRun(c, initErr)
    BY <1>2 DEF RunSubSuite
  <2>3. Current \in Suites /\ k \in Nat \ {0} /\ SubSuites[Current] \in Seq(Suites)
    BY <2>1, CurrentType, TreeAssumption DEF TypeOK
  <2>4. k \in DOMAIN SubSuites[Current] /\ c \in Suites
    BY <2>1, <2>3, LenProperties, ElementOfSeq
  <2>5. phase[c] = "NOT_RUN" /\ c \in Range(SubSuites[Current])
    BY <2>3, <2>4 DEF ErrorBookkeeping, FreshOK, Range
  <2>6. ASSUME NEW x \in Suites, NEW i \in DOMAIN SubSuites[x], i < nextSuite'[x]
        PROVE  i < nextSuite[x] \/ SubSuites[x][i] = c
    <3>1. CASE x # Current
      BY <2>1, <2>6, <3>1 DEF TypeOK
    <3>2. CASE x = Current
      <4>1. i \in 1 .. Len(SubSuites[Current]) /\ Len(SubSuites[Current]) \in Nat
        BY <2>3, <3>2, LenProperties
      <4>2. nextSuite'[Current] = k + 1
        BY <2>1, <2>3 DEF TypeOK
      <4>3. i = k \/ i < k
        BY <2>3, <2>6, <3>2, <4>1, <4>2
      <4> QED BY <3>2, <4>3
    <3> QED BY <3>1, <3>2
  <2> HIDE DEF c
  <2> QED BY <2>2, <2>4, <2>5, <2>6
<1> QED BY <1>1, <1>2

LEMMA StartPath ==
  ASSUME TypeOK, ErrorBookkeeping, PathOK, StartRootSuite \/ RunSubSuite
  PROVE  PathOK'
<1> DEFINE n == Len(running)
<1>1. PICK s \in Suites, initErr \in BOOLEAN :
        /\ StartRun(s, initErr) /\ phase[s] = "NOT_RUN"
        /\ running # <<>> => s \in Range(SubSuites[Current])
        /\ \A x \in Suites : \A i \in DOMAIN SubSuites[x] :
             i < nextSuite'[x] => i < nextSuite[x] \/ SubSuites[x][i] = s
  BY StartsBelow
<1>2. /\ n \in Nat /\ DOMAIN running = 1 .. n
      /\ DOMAIN running' = 1 .. n + 1 /\ running'[n + 1] = s
      /\ \A i \in 1 .. n : running'[i] = running[i]
  BY <1>1, AppendProperties, LenProperties DEF StartRun, TypeOK
<1>3. phase'[s] = "setup" /\ \A x \in Suites \ {s} : phase'[x] = phase[x]
  BY <1>1 DEF StartRun, TypeOK
<1>4. ASSUME NEW i \in 1 .. n + 1, NEW j \in 1 .. n + 1, i <= j
      PROVE  running'[j] \in Under(running'[i])
  <2>1. CASE j \in 1 .. n
    <3>1. i \in 1 .. n
      <4> HIDE DEF n
      <4> QED BY <1>2, <1>4, <2>1
    <3> QED BY <1>2, <1>4, <2>1, <3>1 DEF PathOK
  <2>2. CASE i = n + 1
    <3>1. j = n + 1
      <4> HIDE DEF n
      <4> QED BY <1>2, <1>4, <2>2
    <3> QED BY <1>2, <2>2, <3>1, UnderFacts
  <2>3. CASE i \in 1 .. n /\ j = n + 1
    <3>1. running # <<>>
      BY <1>2, <2>3
    <3>2. n \in 1 .. n /\ i <= n /\ Current = running[n]
      <4> HIDE DEF n
      <4>1. n \in 1 .. n /\ i <= n
        BY <1>2, <2>3
      <4> QED BY <4>1 DEF Current, n
    <3>3. Current \in Under(running[i])
      BY <1>2, <2>3, <3>2 DEF PathOK
    <3>4. running[i] \in Suites
      BY <1>2, <2>3, <3>1, StackFacts
    <3>5. s \in Under(running[i])
      BY <1>1, <3>1, <3>3, <3>4, UnderFacts
    <3> QED BY <1>2, <2>3, <3>5
  <2> QED
    <3> HIDE DEF n
    <3> QED BY <1>2, <2>1, <2>2, <2>3
<1>5. \A x \in Range(running) : x \in Range(running')
  BY <1>2 DEF Range
<1>6. s \in Range(running')
  <2>1. n + 1 \in DOMAIN running'
    BY <1>2
  <2> QED BY <1>2, <2>1 DEF Range
<1>7. ASSUME NEW x \in Suites, NEW i \in DOMAIN SubSuites[x], i < nextSuite'[x]
      PROVE  phase'[SubSuites[x][i]] # "NOT_RUN"
  <2>1. SubSuites[x][i] \in Suites
    BY TreeAssumption, ElementOfSeq, LenProperties
  <2>2. SubSuites[x][i] = s \/ phase[SubSuites[x][i]] # "NOT_RUN"
    BY <1>1, <1>7 DEF PathOK
  <2> QED BY <1>3, <2>1, <2>2
<1>8. ASSUME NEW x \in Suites, phase'[x] \in PastSuites, NEW c \in Under(x), c # x
      PROVE  phase'[c] = "ended"
  <2>1. x # s /\ phase[x] \in PastSuites
    BY <1>3, <1>8 DEF PastSuites
  <2>2. phase[c] = "ended"
    BY <1>8, <2>1 DEF PathOK
  <2>3. c \in Suites /\ c # s
    BY <1>1, <2>2, UnderFacts
  <2> QED BY <1>3, <2>2, <2>3
<1> QED BY <1>2, <1>3, <1>4, <1>5, <1>6, <1>7, <1>8 DEF PathOK

\* The sub suites a finished loop has passed are not on the stack.
LEMMA SubSuitesEnded ==
  ASSUME TypeOK, ErrorBookkeeping, PathOK, running # <<>>,
         NEW c \in Range(SubSuites[Current]), phase[c] # "NOT_RUN"
  PROVE  phase[c] = "ended"
<1> SUFFICES ASSUME phase[c] # "ended" PROVE FALSE
  OBVIOUS
<1>1. /\ Len(running) \in Nat \ {0} /\ DOMAIN running = 1 .. Len(running)
      /\ Current \in Suites /\ Current = running[Len(running)]
      /\ Len(running) \in DOMAIN running
      /\ \A i \in DOMAIN running : running[i] \in Suites
  BY StackFacts, CurrentType
<1>2. c \in Suites
  BY <1>1, RangeType, TreeAssumption
<1>3. PICK i \in DOMAIN running : running[i] = c
  BY <1>2 DEF PathOK, Range
<1>4. i # 1
  BY <1>1, <1>3, TreeAssumption DEF ErrorBookkeeping, StackOK
<1>5. i - 1 \in DOMAIN running /\ i - 1 < Len(running) /\ i > 1
  BY <1>1, <1>4
<1>6. c \in Range(SubSuites[running[i - 1]])
  BY <1>3, <1>5 DEF ErrorBookkeeping, StackOK
<1>7. running[i - 1] = Current
  BY <1>1, <1>5, <1>6, TreeAssumption
<1>8. i - 1 = Len(running)
  BY <1>1, <1>5, <1>7 DEF ErrorBookkeeping, StackOK
<1> QED BY <1>5, <1>8

\* The innermost suite goes on; its loop over the sub suites may be over.
LEMMA GoOnPath ==
  ASSUME TypeOK, ErrorBookkeeping, PathOK, running # <<>>,
         NEW p \in Phases \ {"NOT_RUN", "ended"}, GoTo(p), UNCHANGED <<running, nextSuite>>,
         p \in PastSuites => phase[Current] \in PastSuites \/ SubSuitesDone
  PROVE  PathOK'
<1>1. /\ Current \in Suites /\ Current \in Range(running)
      /\ phase[Current] \notin {"NOT_RUN", "ended"}
  BY StackFacts, CurrentType DEF ErrorBookkeeping, StackOK, Range
<1>2. phase'[Current] = p /\ \A x \in Suites \ {Current} : phase'[x] = phase[x]
  BY <1>1 DEF GoTo, TypeOK
<1>3. ASSUME NEW x \in Suites, NEW i \in DOMAIN SubSuites[x], i < nextSuite[x]
      PROVE  phase'[SubSuites[x][i]] # "NOT_RUN"
  <2>1. SubSuites[x][i] \in Suites
    BY TreeAssumption, ElementOfSeq, LenProperties
  <2> QED BY <1>2, <1>3, <2>1 DEF PathOK
<1>4. ASSUME NEW x \in Suites, phase'[x] \in PastSuites, NEW c \in Under(x), c # x
      PROVE  phase[c] = "ended"
  <2>1. CASE phase[x] \in PastSuites
    BY <1>4, <2>1 DEF PathOK
  <2>2. CASE phase[x] \notin PastSuites
    <3>1. x = Current /\ SubSuitesDone
      BY <1>2, <1>4, <2>2
    <3>2. PICK y \in Range(SubSuites[x]) : c \in Under(y)
      BY <1>4, UnderSplit
    <3>3. PICK i \in DOMAIN SubSuites[x] : SubSuites[x][i] = y
      BY DEF Range
    <3>4. SubSuites[x] \in Seq(Suites)
      BY TreeAssumption
    <3>5. i < nextSuite[x] /\ y \in Suites
      <4>1. i \in 1 .. Len(SubSuites[x]) /\ Len(SubSuites[x]) \in Nat /\ y \in Suites
        BY <3>3, <3>4, LenProperties, ElementOfSeq
      <4>2. nextSuite[x] > Len(SubSuites[x]) /\ nextSuite[x] \in Nat
        BY <3>1 DEF SubSuitesDone, TypeOK
      <4> QED BY <4>1, <4>2
    <3>6. phase[y] = "ended"
      BY <3>1, <3>3, <3>5, SubSuitesEnded DEF PathOK
    <3> QED BY <3>2, <3>5, <3>6 DEF PathOK, PastSuites
  <2> QED BY <2>1, <2>2
<1>5. ASSUME NEW x \in Suites, phase'[x] \in PastSuites, NEW c \in Under(x), c # x
      PROVE  phase'[c] = "ended"
  <2>1. phase[c] = "ended" /\ c \in Suites
    BY <1>4, <1>5, UnderFacts
  <2> QED BY <1>1, <1>2, <2>1
<1> QED BY <1>1, <1>2, <1>3, <1>5 DEF PathOK

LEMMA EndPath ==
  ASSUME TypeOK, ErrorBookkeeping, PathOK, EndSuite
  PROVE  PathOK'
<1> DEFINE n == Len(running)
<1>1. /\ running # <<>> /\ phase[Current] = "end"
      /\ running' = Front(running) /\ GoTo("ended") /\ UNCHANGED nextSuite
  BY DEF EndSuite, At
<1>2. /\ n \in Nat \ {0} /\ DOMAIN running = 1 .. n /\ Current = running[n]
      /\ Current \in Suites
  BY <1>1, StackFacts, CurrentType
<1>3. DOMAIN running' = 1 .. n - 1 /\ \A i \in 1 .. n - 1 : running'[i] = running[i]
  <2>1. running \in Seq(Suites)
    BY DEF TypeOK
  <2>2. /\ Front(running) \in Seq(Suites) /\ Len(Front(running)) = n - 1
        /\ \A i \in 1 .. n - 1 : Front(running)[i] = running[i]
    BY <1>1, <2>1, FrontType
  <2> HIDE DEF n
  <2> QED BY <1>1, <2>2, LenProperties
<1>4. phase'[Current] = "ended" /\ \A x \in Suites \ {Current} : phase'[x] = phase[x]
  BY <1>1, <1>2 DEF GoTo, TypeOK, Phases
<1>5. 1 .. n - 1 \subseteq 1 .. n /\ \A i \in 1 .. n : i # n => i \in 1 .. n - 1
  <2> HIDE DEF n
  <2> QED BY <1>2
<1>6. \A i, j \in DOMAIN running' : i <= j => running'[j] \in Under(running'[i])
  BY <1>2, <1>3, <1>5 DEF PathOK
<1>7. ASSUME NEW s \in Suites, phase'[s] \notin {"NOT_RUN", "ended"}
      PROVE  s \in Range(running')
  <2>1. s # Current /\ s \in Range(running)
    BY <1>4, <1>7 DEF PathOK
  <2>2. PICK i \in DOMAIN running : running[i] = s
    BY <2>1 DEF Range
  <2>3. i \in 1 .. n - 1
    BY <1>2, <1>5, <2>1, <2>2
  <2> QED BY <1>3, <2>2, <2>3 DEF Range
<1>8. ASSUME NEW x \in Suites, NEW i \in DOMAIN SubSuites[x], i < nextSuite[x]
      PROVE  phase'[SubSuites[x][i]] # "NOT_RUN"
  <2>1. SubSuites[x][i] \in Suites
    BY TreeAssumption, ElementOfSeq, LenProperties
  <2> QED BY <1>4, <1>8, <2>1 DEF PathOK
<1>9. ASSUME NEW x \in Suites, phase'[x] \in PastSuites, NEW c \in Under(x), c # x
      PROVE  phase'[c] = "ended"
  <2>1. phase[x] \in PastSuites
    BY <1>1, <1>4, <1>9 DEF PastSuites
  <2> QED BY <1>4, <1>9, <2>1, UnderFacts DEF PathOK
<1> QED BY <1>1, <1>6, <1>7, <1>8, <1>9 DEF PathOK

LEMMA StepPath ==
  ASSUME TypeOK, ErrorBookkeeping, PathOK, [Next]_vars
  PROVE  PathOK'
<1>1. CASE StartRootSuite \/ RunSubSuite
  BY <1>1, StartPath
<1>2. CASE EndSuite
  BY <1>2, EndPath
<1>3. CASE \/ RunSuiteSetup \/ SkipSuiteSetup \/ SubSuitesDone \/ TestsDone
           \/ ReportSuiteStatus \/ RunSuiteTeardown \/ SkipSuiteTeardown
  <2>1. /\ running # <<>> /\ UNCHANGED <<running, nextSuite>>
        /\ \/ GoTo("suites")
           \/ \E p \in {"tests", "report", "teardown", "end"} :
                GoTo(p) /\ (phase[Current] \in PastSuites \/ SubSuitesDone)
    BY <1>3 DEF RunSuiteSetup, SkipSuiteSetup, SubSuitesDone, TestsDone, ReportSuiteStatus,
       RunSuiteTeardown, SkipSuiteTeardown, At, PastSuites
  <2>2. /\ {"suites", "tests", "report", "teardown", "end"} \subseteq Phases \ {"NOT_RUN", "ended"}
        /\ "suites" \notin PastSuites
    BY DEF Phases, PastSuites
  <2> QED BY <2>1, <2>2, GoOnPath
<1>4. CASE TestStep
  BY <1>4, TestStepKeepsSuites DEF PathOK, SuitesKept
<1>5. CASE Over \/ UNCHANGED vars
  <2>1. UNCHANGED <<running, phase, nextSuite>>
    BY <1>5 DEF Over, vars, suiteVars
  <2> QED BY <2>1 DEF PathOK
<1> QED BY <1>1, <1>2, <1>3, <1>4, <1>5 DEF Next, SuiteStep

-----------------------------------------------------------------------------
(* Steps *)

\* A suite goes on only between tests, and leaves what tests have recorded.
LEMMA SuiteStepBetweenTests ==
  ASSUME TypeOK, ErrorBookkeeping, SuiteStep
  PROVE  /\ test = NoTest
         /\ UNCHANGED <<mode, nextTest, exitVars, testVars, ran, failures>>
<1>1. UNCHANGED <<mode, nextTest, exitVars, testVars, ran, failures>>
  BY DEF SuiteStep, StartRootSuite, RunSuiteSetup, SkipSuiteSetup, RunSubSuite, StartRun,
     SubSuitesDone, TestsDone, ReportSuiteStatus, RunSuiteTeardown, SkipSuiteTeardown,
     EndSuite, auxVars
<1>2. CASE StartRootSuite
  <2> SUFFICES ASSUME test # NoTest PROVE FALSE
    BY <1>1
  <2>1. running # <<>>
    BY DEF ErrorBookkeeping, TestOK, At
  <2>2. 1 \in DOMAIN running
    BY <2>1, StackFacts
  <2> QED BY <1>2, <2>2 DEF ErrorBookkeeping, StackOK, StartRootSuite
<1>3. CASE SuiteStep /\ ~StartRootSuite
  BY <1>1, <1>3 DEF SuiteStep, RunSuiteSetup, SkipSuiteSetup, RunSubSuite, SubSuitesDone,
     TestsDone, ReportSuiteStatus, RunSuiteTeardown, SkipSuiteTeardown, EndSuite,
     ErrorBookkeeping, TestOK, At
<1> QED BY <1>2, <1>3

\* A test is in one suite, at one place.
LEMMA TestPlace ==
  ASSUME NEW s \in Suites, NEW x \in Suites,
         NEW i \in DOMAIN TestsOf[s], NEW j \in DOMAIN TestsOf[x],
         TestsOf[s][i] = TestsOf[x][j]
  PROVE  s = x /\ i = j /\ TestsOf[s][i] \in Tests
<1>1. TestsOf[s][i] \in Range(TestsOf[s]) /\ TestsOf[s][i] \in Range(TestsOf[x])
  BY DEF Range
<1>2. TestsOf[s][i] \in Tests
  BY <1>1, RangeType, TreeAssumption
<1> QED BY <1>1, <1>2, TreeAssumption

\* The test that starts is the one the loop is at; it was not touched before.
LEMMA StartedTest ==
  ASSUME TypeOK, ErrorBookkeeping, LoopsOK, VerdictsOK, StartTest
  PROVE  /\ running # <<>> /\ phase[Current] = "tests" /\ Current \in Suites
         /\ test = NoTest /\ test' \in Tests /\ test' # NoTest
         /\ nextTest[Current] \in DOMAIN TestsOf[Current]
         /\ test' = TestsOf[Current][nextTest[Current]]
         /\ nextTest' = [nextTest EXCEPT ![Current] = @ + 1]
         /\ status[test'] = "NOT_RUN" /\ status' = [status EXCEPT ![test'] = "RUNNING"]
         /\ test' \notin ran /\ failures[test'] = {}
<1>1. /\ running # <<>> /\ phase[Current] = "tests" /\ Current \in Suites /\ test = NoTest
      /\ test' = TestsOf[Current][nextTest[Current]]
      /\ nextTest' = [nextTest EXCEPT ![Current] = @ + 1]
      /\ status' = [status EXCEPT ![test'] = "RUNNING"]
      /\ nextTest[Current] <= Len(TestsOf[Current])
  BY CurrentType DEF StartTest, At
<1>2. nextTest[Current] \in Nat \ {0} /\ TestsOf[Current] \in Seq(Tests)
  BY <1>1, TreeAssumption DEF TypeOK
<1>3. nextTest[Current] \in DOMAIN TestsOf[Current] /\ test' \in Tests
  BY <1>1, <1>2, LenProperties, ElementOfSeq
<1>4. test' # NoTest
  BY <1>3, ModeAssumption
<1>5. status[test'] = "NOT_RUN"
  BY <1>1, <1>2, <1>3 DEF LoopsOK
<1>6. test' \notin ran /\ failures[test'] = {}
  BY <1>1, <1>3, <1>4, <1>5 DEF VerdictsOK, VerdictOK
<1> QED BY <1>1, <1>3, <1>4, <1>5, <1>6

\* The steps of a test under way change the status of no other test.
LEMMA OtherTests ==
  ASSUME TypeOK, TestStep, ~StartTest
  PROVE  /\ test \in Tests /\ test # NoTest /\ step # "idle"
         /\ \A t \in Tests : t # test =>
              status'[t] = status[t] /\ failures'[t] = failures[t]
         /\ UNCHANGED <<nextTest, stats, suiteStatus, teardownStatus>>
<1> USE DEF suiteVars, resultVars, auxVars, InStep, Observe
<1>1. test \in Tests /\ test # NoTest /\ step # "idle"
  BY ModeAssumption DEF TypeOK, TestStep, NotAllowedToRun, RunTestSetup, RunKeywords,
     ReportTestStatus, RunTestTeardown, SkipTestTeardown, ReportAfterTeardown, EndTest
<1>2. UNCHANGED <<nextTest, stats, suiteStatus, teardownStatus>>
  BY DEF TestStep, NotAllowedToRun, RunTestSetup, RunKeywords,
     ReportTestStatus, RunTestTeardown, SkipTestTeardown, ReportAfterTeardown, EndTest
<1>3. /\ status' = status \/ \E st : status' = [status EXCEPT ![test] = st]
      /\ failures' = failures \/ \E fs : failures' = [failures EXCEPT ![test] = fs]
  BY DEF TestStep, NotAllowedToRun, RunTestSetup, RunKeywords,
     ReportTestStatus, RunTestTeardown, SkipTestTeardown, ReportAfterTeardown, EndTest
<1> QED BY <1>1, <1>2, <1>3 DEF TypeOK

\* What has been recorded stays recorded.
LEMMA RecordsGrow ==
  ASSUME TypeOK, ErrorBookkeeping, [Next]_vars
  PROVE  /\ mode' = mode /\ ran \subseteq ran' /\ (fatal => fatal')
         /\ \A t \in Tests : failures[t] \subseteq failures'[t]
         /\ \A s \in Suites : Broken(s) => Broken(s)'
<1>1. CASE StartRootSuite \/ RunSubSuite
  <2>1. PICK s \in Suites, initErr \in BOOLEAN : StartRun(s, initErr)
    BY <1>1, StartsFresh
  <2>2. UNCHANGED <<mode, ran, fatal, failures, setupStatus>> /\ initFailed \subseteq initFailed'
    BY <2>1 DEF StartRun
  <2> QED BY <2>2 DEF Broken
<1>2. CASE RunSuiteSetup
  <2>1. /\ running # <<>> /\ phase[Current] = "setup"
        /\ UNCHANGED <<mode, ran, failures, initFailed>> /\ (fatal => fatal')
        /\ \E st : setupStatus' = [setupStatus EXCEPT ![Current] = st]
    BY <1>2 DEF RunSuiteSetup, At
  <2>2. setupStatus[Current] = "NOT_RUN"
    BY <2>1, CurrentType DEF ErrorBookkeeping, FreshOK
  <2> QED BY <2>1, <2>2 DEF TypeOK, Broken
<1>3. CASE SkipSuiteSetup \/ SubSuitesDone \/ TestsDone \/ ReportSuiteStatus
           \/ RunSuiteTeardown \/ SkipSuiteTeardown \/ EndSuite
  <2>1. UNCHANGED <<mode, ran, failures, initFailed, setupStatus>>
    BY <1>3 DEF SkipSuiteSetup, SubSuitesDone, TestsDone, ReportSuiteStatus,
       RunSuiteTeardown, SkipSuiteTeardown, EndSuite, resultVars, auxVars
  <2>2. fatal => fatal'
    BY <1>3 DEF SkipSuiteSetup, SubSuitesDone, TestsDone, ReportSuiteStatus,
       RunSuiteTeardown, SkipSuiteTeardown, EndSuite, resultVars, auxVars
  <2> QED BY <2>1, <2>2 DEF Broken
<1>4. CASE StartTest
  <2>1. UNCHANGED <<mode, ran, fatal, initFailed, setupStatus>>
    BY <1>4 DEF StartTest
  <2>2. failures' = failures \/ failures' = [failures EXCEPT ![test'] = @ \cup {"init"}]
    BY <1>4 DEF StartTest
  <2> QED BY <2>1, <2>2 DEF TypeOK, Broken
<1>5. CASE TestStep /\ ~StartTest
  <2>1. mode' = mode /\ (ran' = ran \/ ran' = ran \cup {test})
    BY <1>5 DEF TestStep, NotAllowedToRun, RunTestSetup, RunKeywords, ReportTestStatus,
       RunTestTeardown, SkipTestTeardown, ReportAfterTeardown, EndTest, auxVars, Observe
  <2>4. fatal => fatal'
    BY <1>5 DEF TestStep, NotAllowedToRun, RunTestSetup, RunKeywords, ReportTestStatus,
       RunTestTeardown, SkipTestTeardown, ReportAfterTeardown, EndTest, auxVars, Observe
  <2>2. failures' = failures \/ \E part : failures' = [failures EXCEPT ![test] = @ \cup {part}]
    BY <1>5 DEF TestStep, NotAllowedToRun, RunTestSetup, RunKeywords, ReportTestStatus,
       RunTestTeardown, SkipTestTeardown, ReportAfterTeardown, EndTest, auxVars, Observe
  <2>3. UNCHANGED <<initFailed, setupStatus>>
    BY <1>5, TestStepKeepsSuites DEF SuitesKept
  <2> QED BY <2>1, <2>2, <2>3, <2>4 DEF TypeOK, Broken
<1>6. CASE Over \/ UNCHANGED vars
  BY <1>6 DEF Over, vars, resultVars, auxVars, Broken
<1> QED BY <1>1, <1>2, <1>3, <1>4, <1>5, <1>6 DEF Next, SuiteStep, TestStep

\* So what is held against a test is not taken back.
LEMMA HeldStays ==
  ASSUME TypeOK, ErrorBookkeeping, [Next]_vars, NEW t, HeldAgainst(t)
  PROVE  HeldAgainst(t)'
<1>1. CASE \E s \in Suites : t \in TestsUnder(s) /\ Broken(s)
  BY <1>1, RecordsGrow DEF HeldAgainst
<1>2. CASE fatal
  BY <1>2, RecordsGrow DEF HeldAgainst
<1>3. CASE mode.exitOnFailure /\ \E c \in Critical \cap ran : failures[c] # {}
  <2>1. PICK c \in Critical \cap ran : failures[c] # {}
    BY <1>3
  <2>2. c \in Critical \cap ran' /\ failures'[c] # {} /\ mode' = mode
    BY <2>1, RecordsGrow, ModeAssumption
  <2> QED BY <1>3, <2>2 DEF HeldAgainst
<1> QED BY <1>1, <1>2, <1>3 DEF HeldAgainst

\* All tests under a suite that is past its loops have their verdict.
LEMMA TestsDecided ==
  ASSUME TypeOK, ErrorBookkeeping, PathOK, LoopsOK, VerdictsOK,
         NEW s \in Suites, phase[s] \in PastTests, NEW t \in TestsUnder(s)
  PROVE  t # test /\ status[t] \in {"PASS", "FAIL"}
<1>1. PICK c \in Under(s) : t \in Range(TestsOf[c])
  BY TestsUnderFacts
<1>2. c \in Suites /\ t \in Tests
  BY <1>1, UnderFacts, TestsUnderFacts
<1>3. phase[c] \in PastTests
  BY <1>1 DEF PathOK, PastSuites, PastTests
<1>4. PICK j \in DOMAIN TestsOf[c] : TestsOf[c][j] = t
  BY <1>1 DEF Range
<1>5. TestsOf[c] \in Seq(Tests) /\ j \in 1 .. Len(TestsOf[c]) /\ Len(TestsOf[c]) \in Nat
  BY <1>2, <1>4, LenProperties, TreeAssumption
<1>6. nextTest[c] \in Nat /\ nextTest[c] > Len(TestsOf[c])
  BY <1>2, <1>3 DEF LoopsOK, TypeOK
<1>7. ~(j >= nextTest[c])
  BY <1>5, <1>6
<1>8. status[t] # "NOT_RUN"
  BY <1>2, <1>4, <1>7 DEF LoopsOK
<1>9. t # test
  <2> SUFFICES ASSUME t = test PROVE FALSE
    OBVIOUS
  <2>1. /\ running # <<>> /\ phase[Current] = "tests"
        /\ t \in Range(TestsOf[Current]) /\ Current \in Suites
    BY <1>2, ModeAssumption, CurrentType DEF ErrorBookkeeping, TestOK, At
  <2>2. c = Current
    BY <1>1, <1>2, <2>1, TreeAssumption
  <2> QED BY <1>3, <2>1, <2>2 DEF PastTests
<1> QED BY <1>2, <1>8, <1>9 DEF VerdictsOK, VerdictOK, TypeOK, Statuses

\* No suite above the running test has reported or run its teardown.
LEMMA AboveRunningTest ==
  ASSUME TypeOK, ErrorBookkeeping, PathOK, running # <<>>, phase[Current] = "tests",
         NEW t \in Range(TestsOf[Current]), NEW s \in Suites, t \in TestsUnder(s)
  PROVE  phase[s] \in {"suites", "tests"}
<1>1. Current \in Under(s)
  BY CurrentType, SuiteOfTest
<1>2. PICK i \in DOMAIN running : running[i] = s
  BY <1>1, SuitesAboveAreRunning DEF ErrorBookkeeping, Range
<1>3. i = Len(running) \/ i < Len(running)
  BY StackFacts
<1> QED BY <1>2, <1>3, StackFacts DEF ErrorBookkeeping, StackOK

-----------------------------------------------------------------------------
(* The loops over tests *)

LEMMA StepLoops ==
  ASSUME TypeOK, ErrorBookkeeping, PathOK, LoopsOK, VerdictsOK, RunningTestOK, [Next]_vars
  PROVE  LoopsOK'
<1>1. ASSUME UNCHANGED nextTest,
             \A t \in Tests : status'[t] = "NOT_RUN" <=> status[t] = "NOT_RUN",
             \A s \in Suites : phase'[s] \in PastTests => phase[s] \in PastTests \/ (s = Current /\ TestsDone)
      PROVE  LoopsOK'
  <2>1. ASSUME NEW s \in Suites, NEW j \in DOMAIN TestsOf[s]
        PROVE  j >= nextTest[s] <=> status'[TestsOf[s][j]] = "NOT_RUN"
    <3>1. TestsOf[s][j] \in Tests
      BY TestPlace
    <3> QED BY <1>1, <3>1 DEF LoopsOK
  <2>2. ASSUME NEW s \in Suites, phase'[s] \in PastTests
        PROVE  nextTest[s] > Len(TestsOf[s])
    BY <1>1, <2>2 DEF LoopsOK, TestsDone
  <2> QED BY <1>1, <2>1, <2>2 DEF LoopsOK
<1>2. CASE StartRootSuite \/ RunSubSuite
  <2>1. PICK x \in Suites, initErr \in BOOLEAN : StartRun(x, initErr)
    BY <1>2, StartsFresh
  <2>2. UNCHANGED <<nextTest, status>> /\ phase' = [phase EXCEPT ![x] = "setup"]
    BY <2>1 DEF StartRun
  <2> QED BY <1>1, <2>2 DEF TypeOK, PastTests
<1>3. ASSUME running # <<>>, UNCHANGED <<nextTest, status>>, NEW p \in Phases, GoTo(p),
             p \in PastTests => phase[Current] \in PastTests \/ TestsDone
      PROVE  LoopsOK'
  <2>1. \A s \in Suites : phase'[s] \in PastTests => phase[s] \in PastTests \/ (s = Current /\ TestsDone)
    BY <1>3, CurrentType DEF GoTo, TypeOK
  <2> QED BY <1>1, <1>3, <2>1
<1>4. /\ {"suites", "tests", "report", "teardown", "end", "ended"} \subseteq Phases
      /\ "report" \in PastTests /\ "teardown" \in PastTests /\ "end" \in PastTests /\ "ended" \in PastTests
      /\ "suites" \notin PastTests /\ "tests" \notin PastTests
  BY DEF Phases, PastTests
<1>5. CASE RunSuiteSetup \/ SkipSuiteSetup \/ SubSuitesDone \/ TestsDone
           \/ ReportSuiteStatus \/ SkipSuiteTeardown \/ EndSuite
  <2>1. /\ running # <<>> /\ UNCHANGED <<nextTest, status>>
        /\ \/ GoTo("suites") \/ GoTo("tests")
           \/ GoTo("report") /\ TestsDone
           \/ GoTo("teardown") /\ phase[Current] = "report"
           \/ GoTo("end") /\ phase[Current] = "teardown"
           \/ GoTo("ended") /\ phase[Current] = "end"
    BY <1>5 DEF RunSuiteSetup, SkipSuiteSetup, SubSuitesDone, TestsDone, ReportSuiteStatus,
       SkipSuiteTeardown, EndSuite, At, resultVars
  <2> QED BY <1>3, <1>4, <2>1
<1>6. CASE RunSuiteTeardown
  <2>1. /\ running # <<>> /\ phase[Current] = "teardown" /\ UNCHANGED nextTest /\ GoTo("end")
        /\ SuiteTeardownFailed \/ UNCHANGED status
    BY <1>6 DEF RunSuiteTeardown, At
  <2>2. Current \in Suites
    BY <2>1, CurrentType
  <2>3. \A s \in Suites : phase'[s] \in PastTests => phase[s] \in PastTests
    BY <1>4, <2>1, <2>2 DEF GoTo, TypeOK
  <2>4. \A t \in TestsUnder(Current) : status[t] # "NOT_RUN"
    BY <1>4, <2>1, <2>2, TestsDecided
  <2>5. \A t \in Tests : status'[t] = "NOT_RUN" <=> status[t] = "NOT_RUN"
    BY <2>1, <2>4 DEF SuiteTeardownFailed
  <2> QED BY <1>1, <2>1, <2>3, <2>5
<1>7. CASE StartTest
  <2> DEFINE k == nextTest[Current]
  <2>1. /\ Current \in Suites /\ k \in DOMAIN TestsOf[Current] /\ test' = TestsOf[Current][k]
        /\ nextTest' = [nextTest EXCEPT ![Current] = @ + 1] /\ test' \in Tests
        /\ status' = [status EXCEPT ![test'] = "RUNNING"] /\ UNCHANGED phase
        /\ phase[Current] = "tests"
    BY <1>7, StartedTest DEF StartTest
  <2>2. ASSUME NEW s \in Suites, NEW j \in DOMAIN TestsOf[s]
        PROVE  j >= nextTest'[s] <=> status'[TestsOf[s][j]] = "NOT_RUN"
    <3>1. j \in Nat /\ k \in Nat /\ TestsOf[s][j] \in Tests
      <4>1. TestsOf[s] \in Seq(Tests)
        BY TreeAssumption
      <4>2. j \in 1 .. Len(TestsOf[s]) /\ Len(TestsOf[s]) \in Nat
        BY <4>1, LenProperties
      <4> QED BY <2>1, <4>2, TestPlace DEF TypeOK
    <3>2. CASE s = Current
      <4>1. TestsOf[s][j] = test' <=> j = k
        BY <2>1, <3>2, TestPlace
      <4>2. status'[TestsOf[s][j]] = "NOT_RUN" <=> j # k /\ j >= k
        BY <2>1, <3>1, <3>2, <4>1 DEF LoopsOK, TypeOK
      <4>3. nextTest'[s] = k + 1
        BY <2>1, <3>2 DEF TypeOK
      <4> QED BY <3>1, <4>2, <4>3
    <3>3. CASE s # Current
      <4>1. TestsOf[s][j] # test'
        BY <2>1, <3>3, TestPlace
      <4> QED BY <2>1, <3>1, <3>3, <4>1 DEF LoopsOK, TypeOK
    <3> QED BY <3>2, <3>3
  <2>3. ASSUME NEW s \in Suites, phase[s] \in PastTests
        PROVE  nextTest'[s] > Len(TestsOf[s])
    BY <2>1, <2>3 DEF LoopsOK, TypeOK
  <2> QED BY <2>1, <2>2, <2>3 DEF LoopsOK
<1>8. CASE TestStep /\ ~StartTest
  <2>1. /\ test \in Tests /\ test # NoTest /\ step # "idle"
        /\ \A t \in Tests : t # test => status'[t] = status[t]
        /\ UNCHANGED <<nextTest, phase>>
    BY <1>8, OtherTests, TestStepKeepsSuites DEF SuitesKept
  <2>2. status[test] # "NOT_RUN"
    BY <2>1 DEF RunningTestOK, TypeOK, Steps
  <2>3. \/ status' = status
        \/ \E st \in {"PASS", "FAIL", status[test]} : status' = [status EXCEPT ![test] = st]
    BY <1>8 DEF TestStep, NotAllowedToRun, RunTestSetup, RunKeywords, ReportTestStatus,
       RunTestTeardown, SkipTestTeardown, ReportAfterTeardown, EndTest, resultVars
  <2>4. status'[test] # "NOT_RUN"
    BY <2>1, <2>2, <2>3 DEF TypeOK
  <2> QED BY <1>1, <2>1, <2>2, <2>4
<1>9. CASE Over \/ UNCHANGED vars
  BY <1>1, <1>9 DEF Over, vars, suiteVars, resultVars
<1> QED
  BY <1>2, <1>5, <1>6, <1>7, <1>8, <1>9 DEF Next, SuiteStep, TestStep

-----------------------------------------------------------------------------
(* What SuiteRunErrors keeps has its cause *)

LEMMA StartSources ==
  ASSUME TypeOK, ErrorBookkeeping, ErrorSourcesOK, StartRootSuite \/ RunSubSuite
  PROVE  ErrorSourcesOK'
<1>1. PICK s \in Suites, initErr \in BOOLEAN : StartRun(s, initErr) /\ phase[s] = "NOT_RUN"
  BY StartsFresh
<1> DEFINE n == Len(running)
<1>2. /\ n \in Nat /\ DOMAIN running = 1 .. n
      /\ Len(running') = n + 1 /\ DOMAIN running' = 1 .. n + 1
      /\ running'[n + 1] = s
      /\ \A i \in 1 .. n : running'[i] = running[i]
  BY <1>1, AppendProperties, LenProperties DEF StartRun, TypeOK
<1>3. /\ \A i \in 1 .. n : earlierInitErrs'[i] = earlierInitErrs[i]
      /\ \A i \in 1 .. n : earlierSetupErrs'[i] = earlierSetupErrs[i]
      /\ earlierInitErrs'[n + 1] = currentInitErr
      /\ earlierSetupErrs'[n + 1] = currentSetupErr
  BY <1>1, AppendProperties DEF StartRun, TypeOK, ErrorBookkeeping, StackOK
<1>4. /\ UNCHANGED setupStatus /\ initFailed \subseteq initFailed'
      /\ currentInitErr' => s \in initFailed'
      /\ ~currentSetupErr'
  BY <1>1 DEF StartRun
<1>5. ASSUME NEW i \in 1 .. n
      PROVE  InitErrAt(i)' = InitErrAt(i) /\ SetupErrAt(i)' = SetupErrAt(i)
  <2>1. i # n + 1 /\ (i # n => i + 1 \in 1 .. n)
    <3> HIDE DEF n
    <3> QED BY <1>2
  <2>2. InitErrAt(i)' = earlierInitErrs'[i + 1] /\ SetupErrAt(i)' = earlierSetupErrs'[i + 1]
    BY <1>2, <2>1 DEF InitErrAt, SetupErrAt
  <2> QED BY <1>3, <2>1, <2>2 DEF InitErrAt, SetupErrAt
<1>6. ASSUME NEW i \in 1 .. n + 1
      PROVE  /\ InitErrAt(i)' => running'[i] \in initFailed'
             /\ SetupErrAt(i)' => setupStatus'[running'[i]] = "FAIL"
  <2>1. CASE i = n + 1
    BY <1>2, <1>4, <2>1 DEF InitErrAt, SetupErrAt
  <2>2. CASE i \in 1 .. n
    BY <1>2, <1>4, <1>5, <2>2 DEF ErrorSourcesOK
  <2> QED BY <1>2, <2>1, <2>2
<1>7. running' # <<>> /\ ~earlierInitErrs'[1] /\ ~earlierSetupErrs'[1]
  <2>1. running' # <<>>
    BY <1>2
  <2>2. CASE running = <<>>
    <3>1. n = 0
      BY <2>2
    <3> QED BY <1>3, <2>1, <2>2, <3>1 DEF ErrorSourcesOK
  <2>3. CASE running # <<>>
    <3>1. 1 \in 1 .. n
      BY <2>3, StackFacts
    <3> QED BY <1>3, <2>1, <2>3, <3>1 DEF ErrorSourcesOK
  <2> QED BY <2>2, <2>3
<1> QED BY <1>2, <1>6, <1>7 DEF ErrorSourcesOK

LEMMA EndSources ==
  ASSUME TypeOK, ErrorBookkeeping, ErrorSourcesOK, EndSuite
  PROVE  ErrorSourcesOK'
<1> DEFINE n == Len(running)
<1>1. /\ running # <<>> /\ running' = Front(running) /\ RestoreErrors
      /\ UNCHANGED <<initFailed, setupStatus>>
  BY DEF EndSuite, At, resultVars, auxVars
<1>2. n \in Nat \ {0} /\ DOMAIN running = 1 .. n
  BY <1>1, StackFacts
<1>3. /\ running' \in Seq(Suites) /\ Len(running') = n - 1 /\ DOMAIN running' = 1 .. n - 1
      /\ \A i \in 1 .. n - 1 : running'[i] = running[i]
  <2>1. running \in Seq(Suites)
    BY DEF TypeOK
  <2>2. /\ Front(running) \in Seq(Suites) /\ Len(Front(running)) = n - 1
        /\ \A i \in 1 .. n - 1 : Front(running)[i] = running[i]
    BY <1>1, <2>1, FrontType
  <2> HIDE DEF n
  <2> QED BY <1>1, <2>2, LenProperties
<1>4. /\ Len(earlierInitErrs) = n /\ earlierInitErrs \in Seq(BOOLEAN)
      /\ Len(earlierSetupErrs) = n /\ earlierSetupErrs \in Seq(BOOLEAN)
  BY DEF TypeOK, ErrorBookkeeping, StackOK
<1>5. earlierInitErrs # <<>> /\ earlierSetupErrs # <<>>
  BY <1>2, <1>4, EmptySeq
<1>6. /\ currentInitErr' = earlierInitErrs[n] /\ currentSetupErr' = earlierSetupErrs[n]
      /\ \A i \in 1 .. n - 1 : /\ earlierInitErrs'[i] = earlierInitErrs[i]
                                /\ earlierSetupErrs'[i] = earlierSetupErrs[i]
  BY <1>1, <1>4, <1>5, FrontType DEF RestoreErrors, Last
<1>7. ASSUME NEW i \in 1 .. n - 1
      PROVE  InitErrAt(i)' = InitErrAt(i) /\ SetupErrAt(i)' = SetupErrAt(i)
  <2>1. /\ i # n /\ (i = n - 1 => i + 1 = n) /\ (i # n - 1 => i + 1 \in 1 .. n - 1)
    <3> HIDE DEF n
    <3> QED BY <1>2
  <2>2. InitErrAt(i) = earlierInitErrs[i + 1] /\ SetupErrAt(i) = earlierSetupErrs[i + 1]
    BY <2>1 DEF InitErrAt, SetupErrAt
  <2> QED BY <1>3, <1>6, <2>1, <2>2 DEF InitErrAt, SetupErrAt
<1>8. 1 .. n - 1 \subseteq DOMAIN running
  <2> HIDE DEF n
  <2> QED BY <1>2
<1>9. ASSUME NEW i \in DOMAIN running'
      PROVE  /\ InitErrAt(i)' => running'[i] \in initFailed'
             /\ SetupErrAt(i)' => setupStatus'[running'[i]] = "FAIL"
  BY <1>1, <1>3, <1>7, <1>8, <1>9 DEF ErrorSourcesOK
<1>10. IF running' = <<>> THEN ~currentInitErr' /\ ~currentSetupErr'
                          ELSE ~earlierInitErrs'[1] /\ ~earlierSetupErrs'[1]
  <2>1. ~earlierInitErrs[1] /\ ~earlierSetupErrs[1]
    BY <1>1 DEF ErrorSourcesOK
  <2>2. CASE n = 1
    <3>1. running' = <<>>
      BY <1>3, <2>2, EmptySeq
    <3> QED BY <1>6, <2>1, <2>2, <3>1
  <2>3. CASE n # 1
    <3>1. 1 \in 1 .. n - 1 /\ n - 1 # 0
      <4> HIDE DEF n
      <4> QED BY <1>2, <2>3
    <3>2. running' # <<>>
      BY <1>3, <3>1, EmptySeq
    <3> QED BY <1>6, <2>1, <3>1, <3>2
  <2> QED BY <2>2, <2>3
<1> QED BY <1>9, <1>10 DEF ErrorSourcesOK

LEMMA StepSources ==
  ASSUME TypeOK, ErrorBookkeeping, ErrorSourcesOK, [Next]_vars
  PROVE  ErrorSourcesOK'
<1>1. CASE StartRootSuite \/ RunSubSuite
  BY <1>1, StartSources
<1>2. CASE EndSuite
  BY <1>2, EndSources
<1>3. CASE RunSuiteSetup
  <2>1. /\ running # <<>> /\ phase[Current] = "setup"
        /\ UNCHANGED <<running, currentInitErr, earlierInitErrs, earlierSetupErrs, initFailed>>
        /\ \E outcome \in Outcomes :
             /\ currentSetupErr' = Failed(outcome)
             /\ setupStatus' = [setupStatus EXCEPT ![Current] =
                                  IF Failed(outcome) THEN "FAIL" ELSE "PASS"]
    BY <1>3 DEF RunSuiteSetup, At
  <2>2. /\ Len(running) \in DOMAIN running /\ Current = running[Len(running)]
        /\ \A i \in DOMAIN running : running[i] \in Suites
    BY <2>1, StackFacts
  <2>3. currentSetupErr' => setupStatus'[Current] = "FAIL"
    BY <2>1, <2>2 DEF TypeOK
  <2>4. ASSUME NEW i \in DOMAIN running
        PROVE  /\ InitErrAt(i)' => running[i] \in initFailed
               /\ SetupErrAt(i)' => setupStatus'[running[i]] = "FAIL"
    <3>1. CASE i = Len(running)
      BY <2>1, <2>2, <2>3, <3>1 DEF ErrorSourcesOK, InitErrAt, SetupErrAt
    <3>2. CASE i # Len(running)
      <4>1. running[i] # Current
        BY <2>2, <3>2 DEF ErrorBookkeeping, StackOK
      <4>2. setupStatus'[running[i]] = setupStatus[running[i]]
        BY <2>1, <2>2, <4>1 DEF TypeOK
      <4> QED BY <2>1, <3>2, <4>2 DEF ErrorSourcesOK, InitErrAt, SetupErrAt
    <3> QED BY <3>1, <3>2
  <2> QED BY <2>1, <2>4 DEF ErrorSourcesOK
<1>4. ASSUME UNCHANGED <<running, currentInitErr, currentSetupErr, earlierInitErrs,
                         earlierSetupErrs, initFailed, setupStatus>>
      PROVE  ErrorSourcesOK'
  BY <1>4 DEF ErrorSourcesOK, InitErrAt, SetupErrAt
<1>5. CASE SkipSuiteSetup \/ SubSuitesDone \/ TestsDone \/ ReportSuiteStatus
           \/ RunSuiteTeardown \/ SkipSuiteTeardown
  BY <1>4, <1>5 DEF SkipSuiteSetup, SubSuitesDone, TestsDone, ReportSuiteStatus,
     RunSuiteTeardown, SkipSuiteTeardown, errorVars, resultVars, auxVars
<1>6. CASE TestStep
  BY <1>4, <1>6, TestStepKeepsSuites DEF SuitesKept, errorVars
<1>7. CASE Over \/ UNCHANGED vars
  BY <1>4, <1>7 DEF Over, vars, suiteVars, errorVars, resultVars, auxVars
<1> QED BY <1>1, <1>2, <1>3, <1>5, <1>6, <1>7 DEF Next, SuiteStep

\* A test starts with a parent error only when something is held against it.
LEMMA ParentErrorIsHeld ==
  ASSUME TypeOK, ErrorBookkeeping, PathOK, ErrorSourcesOK, StopSourcesOK,
         running # <<>>, ChildError, NEW t \in Range(TestsOf[Current])
  PROVE  HeldAgainst(t)
<1>1. /\ Len(running) \in Nat \ {0} /\ DOMAIN running = 1 .. Len(running)
      /\ Len(running) \in DOMAIN running /\ Current = running[Len(running)]
      /\ \A i \in DOMAIN running : running[i] \in Suites
  BY StackFacts
<1>2. CASE ExitMode
  BY <1>2 DEF ExitMode, StopSourcesOK, HeldAgainst
<1>3. ASSUME NEW i \in DOMAIN running, InitErrAt(i) \/ SetupErrAt(i)
      PROVE  HeldAgainst(t)
  <2>1. Broken(running[i])
    BY <1>3 DEF ErrorSourcesOK, Broken
  <2>2. i <= Len(running) /\ running[i] \in Suites
    BY <1>1
  <2>3. Current \in Under(running[i])
    BY <1>1, <2>2 DEF PathOK
  <2>4. t \in TestsUnder(running[i])
    BY <2>3 DEF TestsUnder
  <2> QED BY <2>1, <2>2, <2>4 DEF HeldAgainst
<1>4. CASE currentInitErr \/ currentSetupErr
  BY <1>1, <1>3, <1>4 DEF InitErrAt, SetupErrAt
<1>5. CASE TrueIn(earlierInitErrs) \/ TrueIn(earlierSetupErrs)
  <2>1. /\ DOMAIN earlierInitErrs = 1 .. Len(running)
        /\ DOMAIN earlierSetupErrs = 1 .. Len(running)
    BY LenProperties DEF TypeOK, ErrorBookkeeping, StackOK
  <2>2. PICK j \in 1 .. Len(running) : earlierInitErrs[j] \/ earlierSetupErrs[j]
    BY <1>5, <2>1 DEF TrueIn
  <2>3. j # 1
    BY <2>2 DEF ErrorSourcesOK
  <2>4. j - 1 \in DOMAIN running /\ j - 1 # Len(running) /\ (j - 1) + 1 = j
    BY <1>1, <2>3
  <2>5. InitErrAt(j - 1) \/ SetupErrAt(j - 1)
    BY <2>2, <2>4 DEF InitErrAt, SetupErrAt
  <2> QED BY <1>3, <2>4, <2>5
<1> QED BY <1>2, <1>4, <1>5 DEF ChildError

-----------------------------------------------------------------------------
(* The running test *)

\* A part of the running test ends: a stop it requests has its failure as cause.
LEMMA PartEnds ==
  ASSUME TypeOK, StopSourcesOK, test \in Tests, test \in ran', ran \subseteq ran',
         mode' = mode, NEW part, NEW outcome \in Outcomes,
         KeywordFailed(outcome), Observe(part, outcome)
  PROVE  /\ StopSourcesOK'
         /\ IF Failed(outcome) THEN failures'[test] # {}
            ELSE failures'[test] = failures[test] /\ UNCHANGED exitVars
<1>1. CASE ~Failed(outcome)
  <2>1. failures' = failures /\ UNCHANGED exitVars /\ (fatal => fatal')
    BY <1>1 DEF Observe, KeywordFailed
  <2> QED BY <1>1, <2>1 DEF StopSourcesOK, exitVars
<1>2. CASE Failed(outcome)
  <2>1. /\ failures' = [failures EXCEPT ![test] = @ \cup {part}]
        /\ exitRunmode' = (exitRunmode \/ (test \in Critical /\ mode.exitOnFailure))
        /\ exitFatal' = (exitFatal \/ outcome = "EXIT")
        /\ fatal' = (fatal \/ outcome = "EXIT")
    BY <1>2 DEF Observe, KeywordFailed, TestFailed
  <2>2. failures'[test] # {}
    BY <2>1 DEF TypeOK
  <2>3. \A c \in Tests : failures[c] # {} => failures'[c] # {}
    BY <2>1 DEF TypeOK
  <2>4. exitFatal' => fatal'
    BY <2>1 DEF StopSourcesOK
  <2>5. exitRunmode' =>
          mode.exitOnFailure /\ \E c \in Critical \cap ran' : failures'[c] # {}
    <3>1. CASE exitRunmode
      <4>1. mode.exitOnFailure
        BY <3>1 DEF StopSourcesOK
      <4>2. PICK c \in Critical \cap ran : failures[c] # {}
        BY <3>1 DEF StopSourcesOK
      <4> QED BY <4>1, <4>2, <2>3, ModeAssumption
    <3>2. CASE test \in Critical /\ mode.exitOnFailure
      BY <2>2, <3>2
    <3> QED BY <2>1, <3>1, <3>2
  <2> QED BY <1>2, <2>2, <2>4, <2>5 DEF StopSourcesOK
<1> QED BY <1>1, <1>2

\* Whatever does not stop the execution leaves the causes of a stop.
LEMMA StopKept ==
  ASSUME TypeOK, ErrorBookkeeping, StopSourcesOK, [Next]_vars, UNCHANGED exitVars
  PROVE  StopSourcesOK'
<1>1. exitFatal' => fatal'
  BY RecordsGrow DEF StopSourcesOK, exitVars
<1>2. ASSUME exitRunmode'
      PROVE  mode'.exitOnFailure /\ \E c \in Critical \cap ran' : failures'[c] # {}
  <2>1. mode.exitOnFailure
    BY <1>2 DEF StopSourcesOK, exitVars
  <2>2. PICK c \in Critical \cap ran : failures[c] # {}
    BY <1>2 DEF StopSourcesOK, exitVars
  <2>3. c \in Critical \cap ran' /\ failures'[c] # {} /\ mode' = mode
    BY <2>2, RecordsGrow, ModeAssumption
  <2> QED BY <2>1, <2>3
<1> QED BY <1>1, <1>2 DEF StopSourcesOK

\* A test starts with what was held against it, and with nothing of its own.
LEMMA StartTestRuns ==
  ASSUME TypeOK, ErrorBookkeeping, PathOK, LoopsOK, VerdictsOK,
         ErrorSourcesOK, StopSourcesOK, StartTest
  PROVE  RunningTestOK'
<1>1. /\ running # <<>> /\ Current \in Suites /\ test' \in Range(TestsOf[Current])
      /\ test' \in Tests /\ test' \notin ran /\ failures[test'] = {}
      /\ status' = [status EXCEPT ![test'] = "RUNNING"]
  BY StartedTest DEF Range
<1>2. PICK initErr \in BOOLEAN :
        /\ testErrs' = [NoErrs EXCEPT !.parent = ChildError, !.init = initErr]
        /\ failures' = IF initErr
                       THEN [failures EXCEPT ![test'] = @ \cup {"init"}]
                       ELSE failures
  BY DEF StartTest
<1>3. /\ testErrs'.parent = ChildError /\ testErrs'.init = initErr
      /\ ~testErrs'.setup /\ ~testErrs'.kw /\ ~testErrs'.teardown
  BY <1>2 DEF NoErrs
<1>4. step' = "start" /\ status'[test'] = "RUNNING" /\ test' \notin ran'
  BY <1>1 DEF StartTest, TypeOK
<1>5. failures'[test'] = IF initErr THEN {"init"} ELSE {}
  BY <1>1, <1>2 DEF TypeOK
<1>6. testErrs'.parent => HeldAgainst(test')
  BY <1>1, <1>3, ParentErrorIsHeld
<1>7. HeldAgainst(test') => HeldAgainst(test)'
  <2>1. UNCHANGED <<mode, ran, fatal, initFailed, setupStatus>>
    BY DEF StartTest
  <2>2. \A c \in Critical : failures[c] # {} => failures'[c] # {}
    BY <1>1, <1>2, ModeAssumption DEF TypeOK
  <2> QED BY <2>1, <2>2 DEF HeldAgainst, Broken
<1> QED BY <1>3, <1>4, <1>5, <1>6, <1>7 DEF RunningTestOK, BodyFailed

\* The parts of a test record their failures as they end.
LEMMA PartRuns ==
  ASSUME TypeOK, ErrorBookkeeping, RunningTestOK, StopSourcesOK, StopKnown,
         RunTestSetup \/ RunKeywords \/ RunTestTeardown,
         testErrs.parent => HeldAgainst(test)'
  PROVE  RunningTestOK' /\ StopSourcesOK'
<1> USE DEF InStep, AllowedToRun
<1>1. test \in Tests /\ test # NoTest /\ step # "idle"
  BY OtherTests DEF TestStep, RunTestSetup, RunKeywords, RunTestTeardown, StartTest
<1>2. /\ test' = test /\ mode' = mode /\ status' = status
      /\ ran' = ran \cup {test}
  BY DEF RunTestSetup, RunKeywords, RunTestTeardown, resultVars, RunningTestOK
<1>3. PICK part \in {"setup", "keywords", "teardown"}, outcome \in Outcomes :
        /\ KeywordFailed(outcome) /\ Observe(part, outcome)
        /\ part = "setup" <=> RunTestSetup
        /\ part = "keywords" <=> RunKeywords
        /\ part = "setup" => /\ testErrs' = [testErrs EXCEPT !.setup = Failed(outcome)]
                             /\ step' = IF Failed(outcome) THEN "report" ELSE "keywords"
        /\ part = "keywords" => testErrs' = [testErrs EXCEPT !.kw = Failed(outcome)]
        /\ part = "teardown" => testErrs' = [testErrs EXCEPT !.teardown = Failed(outcome)]
  <2>1. CASE RunTestSetup
    BY <2>1 DEF RunTestSetup, RunKeywords
  <2>2. CASE RunKeywords
    BY <2>2 DEF RunTestSetup, RunKeywords
  <2>3. CASE RunTestTeardown
    BY <2>3 DEF RunTestSetup, RunKeywords, RunTestTeardown
  <2> QED BY <2>1, <2>2, <2>3
<1>4. /\ StopSourcesOK'
      /\ IF Failed(outcome) THEN failures'[test] # {}
         ELSE failures'[test] = failures[test] /\ UNCHANGED exitVars
  BY <1>1, <1>2, <1>3, PartEnds
<1>5. ~Failed(outcome) => (ExitMode' = ExitMode)
  BY <1>4 DEF ExitMode, exitVars
<1>6. testErrs.init => "init" \in failures'[test]
  BY <1>1, <1>3 DEF RunningTestOK, Observe, TypeOK
<1>7. CASE RunTestSetup
  <2>1. /\ step = "start" /\ ~testErrs.parent /\ ~testErrs.init
        /\ failures[test] = {} /\ status[test] = "RUNNING" /\ ~ExitMode
        /\ ~testErrs.setup /\ ~testErrs.kw /\ ~testErrs.teardown
    BY <1>1, <1>7 DEF RunTestSetup, RunningTestOK, StopKnown, BodyFailed
  <2>2. /\ testErrs'.setup = Failed(outcome) /\ ~testErrs'.parent /\ ~testErrs'.init
        /\ ~testErrs'.kw /\ ~testErrs'.teardown
        /\ step' = IF Failed(outcome) THEN "report" ELSE "keywords"
    BY <1>3, <1>7, <2>1 DEF TypeOK
  <2> QED
    BY <1>1, <1>2, <1>4, <1>5, <2>1, <2>2 DEF RunningTestOK, BodyFailed
<1>8. CASE RunKeywords
  <2>1. /\ step = "keywords" /\ failures[test] = {} /\ status[test] = "RUNNING"
        /\ ~testErrs.setup /\ ~testErrs.kw /\ ~testErrs.teardown /\ ~ExitMode
    BY <1>1, <1>8 DEF RunKeywords, RunningTestOK, BodyFailed
  <2>2. /\ testErrs'.kw = Failed(outcome) /\ testErrs'.parent = testErrs.parent
        /\ testErrs'.init = testErrs.init
        /\ ~testErrs'.setup /\ ~testErrs'.teardown /\ step' = "report"
    BY <1>3, <1>8, <2>1 DEF TypeOK, RunKeywords
  <2> QED
    BY <1>1, <1>2, <1>4, <1>5, <1>6, <2>1, <2>2 DEF RunningTestOK, BodyFailed
<1>9. CASE RunTestTeardown
  <2>1. /\ step = "teardown" /\ status[test] \in {"PASS", "FAIL"} /\ ~testErrs.teardown
        /\ (status[test] = "PASS" <=> failures[test] = {})
        /\ failures[test] = {} => ~ExitMode
    BY <1>1, <1>9 DEF RunTestTeardown, RunningTestOK
  <2>2. part = "teardown" /\ step' = "after"
    BY <1>3, <1>9, <2>1 DEF RunTestTeardown, RunTestSetup, RunKeywords
  <2>3. /\ testErrs'.teardown = Failed(outcome) /\ testErrs'.parent = testErrs.parent
        /\ testErrs'.init = testErrs.init
    BY <1>3, <2>2 DEF TypeOK
  <2> QED BY <1>1, <1>2, <1>4, <1>5, <1>6, <2>1, <2>2, <2>3 DEF RunningTestOK
<1> QED BY <1>7, <1>8, <1>9

\* The status is given after the body, and may get worse after the teardown.
LEMMA StatusRuns ==
  ASSUME TypeOK, ErrorBookkeeping, RunningTestOK, StopSourcesOK,
         \/ NotAllowedToRun \/ ReportTestStatus \/ SkipTestTeardown
         \/ ReportAfterTeardown \/ EndTest,
         testErrs.parent => HeldAgainst(test)'
  PROVE  RunningTestOK' /\ StopSourcesOK'
<1> USE DEF InStep, AllowedToRun
<1>1. test \in Tests /\ test # NoTest /\ step # "idle"
  BY OtherTests DEF TestStep, NotAllowedToRun, ReportTestStatus, SkipTestTeardown,
     ReportAfterTeardown, EndTest, StartTest
<1>2. ASSUME UNCHANGED <<mode, exitVars, auxVars>>
      PROVE  StopSourcesOK' /\ ExitMode' = ExitMode
  BY <1>2 DEF StopSourcesOK, exitVars, auxVars, ExitMode
<1>3. CASE NotAllowedToRun
  <2>1. /\ step = "start" /\ (testErrs.parent \/ testErrs.init) /\ test \notin ran
        /\ status'[test] = "FAIL" /\ step' = "end"
        /\ UNCHANGED <<mode, exitVars, auxVars, test, testErrs>>
    BY <1>1, <1>3 DEF NotAllowedToRun, RunningTestOK, TypeOK
  <2> QED BY <1>1, <1>2, <2>1 DEF RunningTestOK, auxVars
<1>4. CASE ReportTestStatus
  <2>1. /\ step = "report" /\ test \in ran /\ (failures[test] # {} <=> BodyFailed)
        /\ ~testErrs.teardown
        /\ status'[test] = (IF BodyFailed THEN "FAIL" ELSE "PASS") /\ step' = "teardown"
        /\ UNCHANGED <<mode, exitVars, auxVars, test, testErrs>>
    BY <1>1, <1>4 DEF ReportTestStatus, RunningTestOK, TypeOK
  <2> QED BY <1>1, <1>2, <2>1 DEF RunningTestOK, auxVars
<1>5. CASE SkipTestTeardown
  <2>1. /\ step = "teardown" /\ step' = "after"
        /\ UNCHANGED <<mode, exitVars, auxVars, test, testErrs, status>>
    BY <1>5 DEF SkipTestTeardown, resultVars
  <2> QED BY <1>1, <1>2, <2>1 DEF RunningTestOK, auxVars
<1>6. CASE ReportAfterTeardown
  <2> DEFINE late(b) == b /\ status[test] = "PASS" /\ ~testErrs.teardown
             st(b) == IF testErrs.teardown \/ late(b) THEN "FAIL" ELSE status[test]
  <2>1. PICK timedOut \in BOOLEAN :
          /\ status' = [status EXCEPT ![test] = st(timedOut)]
          /\ IF st(timedOut) = "FAIL" THEN TestFailed(FALSE) ELSE UNCHANGED exitVars
          /\ failures' = IF late(timedOut)
                         THEN [failures EXCEPT ![test] = @ \cup {"timeout"}]
                         ELSE failures
    BY <1>6 DEF ReportAfterTeardown
  <2>2. /\ step = "after" /\ step' = "end" /\ test \in ran
        /\ status[test] \in {"PASS", "FAIL"}
        /\ (status[test] = "PASS" /\ ~testErrs.teardown) <=> failures[test] = {}
        /\ failures[test] = {} => ~ExitMode
        /\ UNCHANGED <<mode, test, testErrs, ran, fatal>>
    BY <1>1, <1>6 DEF ReportAfterTeardown, RunningTestOK
  <2>3. /\ status'[test] = st(timedOut) /\ st(timedOut) \in {"PASS", "FAIL"}
        /\ st(timedOut) = "PASS" <=> failures'[test] = {}
        /\ \A c \in Tests : failures[c] \subseteq failures'[c]
    <3>1. status'[test] = st(timedOut)
      BY <1>1, <2>1 DEF TypeOK
    <3>2. CASE late(timedOut)
      BY <1>1, <2>1, <3>1, <3>2 DEF TypeOK
    <3>3. CASE ~late(timedOut)
      BY <2>1, <2>2, <3>1, <3>3
    <3> QED BY <3>2, <3>3
  <2> HIDE DEF st, late
  <2>4. CASE st(timedOut) = "PASS"
    <3>1. UNCHANGED exitVars /\ failures[test] = {}
      BY <1>1, <2>1, <2>3, <2>4
    <3>2. exitFatal' = exitFatal /\ exitRunmode' = exitRunmode /\ ExitMode' = ExitMode
      BY <3>1 DEF exitVars, ExitMode
    <3>3. StopSourcesOK'
      BY <2>2, <2>3, <3>2, ModeAssumption DEF StopSourcesOK
    <3>4. RunningTestOK'
      BY <1>1, <2>2, <2>3, <2>4, <3>1, <3>2 DEF RunningTestOK
    <3> QED BY <3>3, <3>4
  <2>5. CASE st(timedOut) = "FAIL"
    <3>1. /\ exitRunmode' = (exitRunmode \/ (test \in Critical /\ mode.exitOnFailure))
          /\ exitFatal' = (exitFatal \/ FALSE)
      BY <2>1, <2>5 DEF TestFailed
    <3>2. failures'[test] # {}
      BY <2>3, <2>5
    <3>3. exitFatal' => fatal'
      BY <2>2, <3>1 DEF StopSourcesOK
    <3>4. ASSUME exitRunmode'
          PROVE  mode'.exitOnFailure /\ \E c \in Critical \cap ran' : failures'[c] # {}
      <4>1. CASE exitRunmode
        <5>1. PICK c \in Critical \cap ran : failures[c] # {}
          BY <4>1 DEF StopSourcesOK
        <5>2. c \in Critical \cap ran' /\ failures'[c] # {}
          BY <2>2, <2>3, <5>1, ModeAssumption
        <5> QED BY <2>2, <4>1, <5>2 DEF StopSourcesOK
      <4>2. CASE test \in Critical /\ mode.exitOnFailure
        BY <2>2, <3>2, <4>2
      <4> QED BY <3>1, <3>4, <4>1, <4>2
    <3>5. StopSourcesOK'
      BY <3>3, <3>4 DEF StopSourcesOK
    <3>6. testErrs.init => "init" \in failures'[test]
      BY <1>1, <2>3 DEF RunningTestOK
    <3>7. RunningTestOK'
      BY <1>1, <2>2, <2>3, <2>5, <3>2, <3>6 DEF RunningTestOK
    <3> QED BY <3>5, <3>7
  <2> QED BY <2>3, <2>4, <2>5
<1>7. CASE EndTest
  <2>1. test' = NoTest /\ UNCHANGED <<mode, exitVars, auxVars>>
    BY <1>7 DEF EndTest
  <2> QED BY <1>2, <2>1 DEF RunningTestOK
<1> QED BY <1>3, <1>4, <1>5, <1>6, <1>7

LEMMA StepRunning ==
  ASSUME TypeOK, ErrorBookkeeping, PathOK, LoopsOK, VerdictsOK, RunningTestOK,
         ErrorSourcesOK, StopSourcesOK, StopKnown, [Next]_vars
  PROVE  RunningTestOK' /\ StopSourcesOK'
<1>1. CASE StartTest
  BY <1>1, StartTestRuns, StopKept DEF StartTest
<1>2. CASE TestStep /\ ~StartTest
  <2>1. testErrs.parent /\ test' = test => HeldAgainst(test)'
    <3>1. test # NoTest
      BY <1>2, OtherTests
    <3>2. testErrs.parent => HeldAgainst(test)
      BY <3>1 DEF RunningTestOK
    <3>3. HeldAgainst(test) /\ test' = test => HeldAgainst(test)'
      <4>1. \A t : HeldAgainst(t) => HeldAgainst(t)'
        BY HeldStays
      <4> QED BY <4>1 DEF HeldAgainst, TestsUnder
    <3> QED BY <3>2, <3>3
  <2>2. CASE EndTest
    <3>1. test' = NoTest /\ UNCHANGED exitVars
      BY <2>2 DEF EndTest
    <3> QED BY <3>1, StopKept DEF RunningTestOK
  <2>3. CASE ~EndTest
    <3>1. test' = test
      BY <1>2, <2>3 DEF TestStep, NotAllowedToRun, RunTestSetup, RunKeywords,
         ReportTestStatus, RunTestTeardown, SkipTestTeardown, ReportAfterTeardown
    <3>2. testErrs.parent => HeldAgainst(test)'
      BY <2>1, <3>1
    <3> QED BY <1>2, <2>3, <3>2, PartRuns, StatusRuns DEF TestStep
  <2> QED BY <2>2, <2>3
<1>3. CASE SuiteStep
  <2>1. test' = NoTest /\ UNCHANGED exitVars
    BY <1>3, SuiteStepBetweenTests DEF testVars
  <2> QED BY <2>1, StopKept DEF RunningTestOK
<1>4. CASE Over \/ UNCHANGED vars
  <2>1. UNCHANGED <<mode, exitVars, testVars, resultVars, auxVars>>
    BY <1>4 DEF Over, vars
  <2>2. StopSourcesOK'
    BY <2>1, StopKept
  <2>3. RunningTestOK'
    BY <2>1 DEF RunningTestOK, HeldAgainst, Broken, BodyFailed, ExitMode,
       exitVars, testVars, resultVars, auxVars
  <2> QED BY <2>2, <2>3
<1> QED BY <1>1, <1>2, <1>3, <1>4 DEF Next

-----------------------------------------------------------------------------
(* The tests that have ended *)

\* No teardown above the running test has failed: none has been run.
LEMMA NoFailureAboveRunning ==
  ASSUME TypeOK, ErrorBookkeeping, PathOK, DoneOK, test # NoTest
  PROVE  ~FailedTeardownAbove(test)
<1>1. /\ running # <<>> /\ phase[Current] = "tests" /\ test \in Range(TestsOf[Current])
  BY DEF ErrorBookkeeping, TestOK, At
<1>2. \A s \in Suites : test \in TestsUnder(s) => teardownStatus[s] = "NOT_RUN"
  BY <1>1, AboveRunningTest DEF DoneOK
<1> QED BY <1>2 DEF FailedTeardownAbove

\* A test nothing happens to keeps its verdict.
LEMMA VerdictKept ==
  ASSUME TypeOK, ErrorBookkeeping, [Next]_vars, NEW t \in Tests, VerdictOK(t),
         status'[t] = status[t], failures'[t] = failures[t], t \in ran' <=> t \in ran,
         FailedTeardownAbove(t)' <=> FailedTeardownAbove(t)
  PROVE  VerdictOK(t)'
BY HeldStays DEF VerdictOK

LEMMA TeardownVerdicts ==
  ASSUME TypeOK, ErrorBookkeeping, PathOK, LoopsOK, DoneOK, VerdictsOK, RunSuiteTeardown
  PROVE  \A t \in Tests : VerdictOK(t)'
<1>1. PICK outcome \in Outcomes :
        /\ teardownStatus' = [teardownStatus EXCEPT ![Current] =
                                IF Failed(outcome) THEN "FAIL" ELSE "PASS"]
        /\ IF Failed(outcome) THEN SuiteTeardownFailed
                              ELSE UNCHANGED <<stats, suiteStatus, status>>
  BY DEF RunSuiteTeardown
<1>2. /\ running # <<>> /\ phase[Current] = "teardown" /\ Current \in Suites
      /\ UNCHANGED <<ran, failures>> /\ test = NoTest
  BY CurrentType, NoTestElsewhere DEF RunSuiteTeardown, At
<1>3. teardownStatus[Current] = "NOT_RUN"
  BY <1>2 DEF DoneOK
<1>4. [Next]_vars
  BY DEF Next, SuiteStep
<1> SUFFICES ASSUME NEW t \in Tests PROVE VerdictOK(t)'
  OBVIOUS
<1>5. VerdictOK(t)
  BY <1>2, ModeAssumption DEF VerdictsOK, VerdictOK
<1>6. \A s \in Suites \ {Current} : teardownStatus'[s] = teardownStatus[s]
  BY <1>1 DEF TypeOK
<1>7. CASE Failed(outcome) /\ t \in TestsUnder(Current)
  <2>1. status'[t] = "FAIL"
    BY <1>1, <1>7 DEF SuiteTeardownFailed
  <2>2. teardownStatus'[Current] = "FAIL"
    BY <1>1, <1>2, <1>7 DEF TypeOK
  <2>3. FailedTeardownAbove(t)'
    BY <1>2, <1>7, <2>2 DEF FailedTeardownAbove
  <2>4. status[t] # "NOT_RUN"
    BY <1>2, <1>7, TestsDecided DEF PastTests
  <2> QED BY <1>2, <1>4, <1>5, <2>1, <2>3, <2>4, HeldStays DEF VerdictOK
<1>8. CASE ~(Failed(outcome) /\ t \in TestsUnder(Current))
  <2>1. status'[t] = status[t]
    BY <1>1, <1>8 DEF SuiteTeardownFailed
  <2>2. \A s \in Suites : t \in TestsUnder(s) =>
          (teardownStatus'[s] = "FAIL" <=> teardownStatus[s] = "FAIL")
    BY <1>1, <1>2, <1>3, <1>6, <1>8 DEF TypeOK
  <2>3. FailedTeardownAbove(t)' <=> FailedTeardownAbove(t)
    BY <2>2 DEF FailedTeardownAbove
  <2> QED BY <1>2, <1>4, <1>5, <2>1, <2>3, VerdictKept
<1> QED BY <1>7, <1>8

LEMMA StepVerdicts ==
  ASSUME TypeOK, ErrorBookkeeping, PathOK, LoopsOK, DoneOK, VerdictsOK, RunningTestOK,
         [Next]_vars
  PROVE  VerdictsOK'
<1> SUFFICES ASSUME NEW t \in Tests, t # test' PROVE VerdictOK(t)'
  BY DEF VerdictsOK, VerdictOK
<1>1. t # test => VerdictOK(t)
  BY DEF VerdictsOK, VerdictOK
<1>2. UNCHANGED teardownStatus => (FailedTeardownAbove(t)' <=> FailedTeardownAbove(t))
  BY DEF FailedTeardownAbove
<1>3. CASE RunSuiteTeardown
  BY <1>3, TeardownVerdicts
<1>4. CASE SuiteStep /\ ~RunSuiteTeardown
  <2>1. t # test /\ UNCHANGED <<ran, failures>>
    BY <1>4, SuiteStepBetweenTests, ModeAssumption
  <2>2. UNCHANGED <<status, teardownStatus>>
    BY <1>4 DEF SuiteStep, StartRootSuite, RunSuiteSetup, SkipSuiteSetup, RunSubSuite, StartRun,
       SubSuitesDone, TestsDone, ReportSuiteStatus, SkipSuiteTeardown, EndSuite, resultVars
  <2> QED BY <1>1, <1>2, <2>1, <2>2, VerdictKept
<1>5. CASE StartTest
  <2>1. /\ test' \in Tests /\ test = NoTest /\ status' = [status EXCEPT ![test'] = "RUNNING"]
        /\ UNCHANGED <<ran, teardownStatus>>
    BY <1>5, StartedTest DEF StartTest
  <2>2. failures' = failures \/ failures' = [failures EXCEPT ![test'] = @ \cup {"init"}]
    BY <1>5 DEF StartTest
  <2>3. t # test /\ status'[t] = status[t] /\ failures'[t] = failures[t]
    BY <2>1, <2>2, ModeAssumption DEF TypeOK
  <2> QED BY <1>1, <1>2, <2>1, <2>3, VerdictKept
<1>6. CASE TestStep /\ ~StartTest
  <2>1. /\ test \in Tests /\ test # NoTest /\ UNCHANGED teardownStatus
        /\ t # test => status'[t] = status[t] /\ failures'[t] = failures[t]
    BY <1>6, OtherTests
  <2>2. ran' = ran \/ ran' = ran \cup {test}
    BY <1>6 DEF TestStep, NotAllowedToRun, RunTestSetup, RunKeywords, ReportTestStatus,
       RunTestTeardown, SkipTestTeardown, ReportAfterTeardown, EndTest, auxVars
  <2>3. CASE t # test
    BY <1>1, <1>2, <2>1, <2>2, <2>3, VerdictKept
  <2>4. CASE t = test
    <3>1. EndTest
      BY <1>6, <2>4 DEF TestStep, NotAllowedToRun, RunTestSetup, RunKeywords,
         ReportTestStatus, RunTestTeardown, SkipTestTeardown, ReportAfterTeardown
    <3>2. step = "end" /\ UNCHANGED <<ran, failures, status>>
      BY <3>1 DEF EndTest, InStep, resultVars, auxVars
    <3>3. /\ status[t] \in {"PASS", "FAIL"} /\ (status[t] = "PASS" <=> t \in ran /\ failures[t] = {})
          /\ t \notin ran => "init" \in failures[t] \/ HeldAgainst(t)
      BY <2>1, <2>4, <3>2 DEF RunningTestOK
    <3>4. ~FailedTeardownAbove(t)
      BY <2>1, <2>4, NoFailureAboveRunning
    <3>5. VerdictOK(t)
      BY <3>3, <3>4 DEF VerdictOK
    <3> QED BY <1>2, <2>1, <3>2, <3>5, VerdictKept
  <2> QED BY <2>3, <2>4
<1>7. CASE Over \/ UNCHANGED vars
  <2>1. t # test /\ UNCHANGED <<status, failures, ran, teardownStatus>>
    BY <1>7 DEF Over, vars, testVars, resultVars, auxVars
  <2> QED BY <1>1, <1>2, <2>1, VerdictKept
<1> QED
  BY <1>3, <1>4, <1>5, <1>6, <1>7 DEF Next

-----------------------------------------------------------------------------
(* Statistics *)

\* The statistics of a suite depend on the statuses of its own tests only.
LEMMA TallySame ==
  ASSUME NEW s \in Suites, NEW st1, NEW st2, \A t \in TestsUnder(s) : st1[t] = st2[t]
  PROVE  SuiteTally(s, st1) = SuiteTally(s, st2)
<1>1. ASSUME NEW T \in SUBSET TestsUnder(s)
      PROVE  Tally(T, st1) = Tally(T, st2)
  <2>1. /\ {t \in T : st1[t] = "PASS"} = {t \in T : st2[t] = "PASS"}
        /\ {t \in T : st1[t] # "PASS"} = {t \in T : st2[t] # "PASS"}
    OBVIOUS
  <2> QED BY <2>1 DEF Tally
<1> QED BY <1>1 DEF SuiteTally

\* Every test is counted once; none is counted as failed when all pass.
LEMMA TallyFacts ==
  ASSUME NEW T \in SUBSET Tests, NEW st
  PROVE  /\ Tally(T, st).failed = 0 <=> \A t \in T : st[t] = "PASS"
         /\ Tally(T, st).passed + Tally(T, st).failed = Cardinality(T)
<1> DEFINE P == {t \in T : st[t] = "PASS"}
           F == {t \in T : st[t] # "PASS"}
<1>1. IsFiniteSet(T)
  BY FS_Subset, ModeAssumption
<1>2. P \in SUBSET T /\ F \in SUBSET T /\ P \cup F = T /\ P \cap F = {}
  OBVIOUS
<1>3. IsFiniteSet(P) /\ IsFiniteSet(F)
  <2> HIDE DEF P, F
  <2> QED BY <1>1, <1>2, FS_Subset
<1>4. Cardinality(P) \in Nat /\ Cardinality(F) \in Nat
  BY <1>3, FS_CardinalityType
<1>5. Cardinality(T) = Cardinality(P) + Cardinality(F) - Cardinality(P \cap F)
  <2> HIDE DEF P, F
  <2> QED BY <1>2, <1>3, FS_Union
<1>6. Cardinality(P \cap F) = 0
  BY <1>2, FS_EmptySet
<1>7. Cardinality(F) = 0 <=> F = {}
  BY <1>3, FS_EmptySet
<1>8. F = {} <=> \A t \in T : st[t] = "PASS"
  OBVIOUS
<1>9. Tally(T, st).passed = Cardinality(P) /\ Tally(T, st).failed = Cardinality(F)
  BY DEF Tally
<1> HIDE DEF P, F
<1> QED BY <1>4, <1>5, <1>6, <1>7, <1>8, <1>9

\* A suite failed when a critical test in it has not passed.
LEMMA StatusOfTally ==
  ASSUME NEW s \in Suites, NEW st
  PROVE  StatusOf(SuiteTally(s, st)) = "FAIL" <=>
           \E t \in TestsUnder(s) \cap Critical : st[t] # "PASS"
<1>1. TestsUnder(s) \cap Critical \in SUBSET Tests
  BY TestsUnderFacts
<1>2. SuiteTally(s, st).critical = Tally(TestsUnder(s) \cap Critical, st)
  BY DEF SuiteTally
<1> QED BY <1>1, <1>2, TallyFacts DEF StatusOf

\* Counting all tests of a suite as failed is what counting them again would give.
LEMMA FailAllIsRight ==
  ASSUME NEW s \in Suites, NEW st1, NEW st2, \A t \in TestsUnder(s) : st2[t] = "FAIL"
  PROVE  LET tally == SuiteTally(s, st1)
         IN [critical |-> FailAll(tally.critical), all |-> FailAll(tally.all)] = SuiteTally(s, st2)
<1>1. ASSUME NEW T \in SUBSET TestsUnder(s)
      PROVE  FailAll(Tally(T, st1)) = Tally(T, st2)
  <2>1. T \in SUBSET Tests
    BY TestsUnderFacts
  <2>2. {t \in T : st2[t] = "PASS"} = {} /\ {t \in T : st2[t] # "PASS"} = T
    OBVIOUS
  <2>3. Tally(T, st2) = [passed |-> 0, failed |-> Cardinality(T)]
    BY <2>2, FS_EmptySet DEF Tally
  <2>4. Tally(T, st1).failed + Tally(T, st1).passed = Cardinality(T)
    <3>1. IsFiniteSet(T)
      BY <2>1, FS_Subset, ModeAssumption
    <3>2. {t \in T : st1[t] = "PASS"} \in SUBSET T /\ {t \in T : st1[t] # "PASS"} \in SUBSET T
      OBVIOUS
    <3>3. /\ Cardinality({t \in T : st1[t] = "PASS"}) \in Nat
          /\ Cardinality({t \in T : st1[t] # "PASS"}) \in Nat
      BY <3>1, <3>2, FS_Subset, FS_CardinalityType
    <3>4. Tally(T, st1).failed \in Nat /\ Tally(T, st1).passed \in Nat
      BY <3>3 DEF Tally
    <3> QED BY <2>1, <3>4, TallyFacts
  <2> QED BY <2>3, <2>4 DEF FailAll
<1> QED BY <1>1 DEF SuiteTally

\* A suite's statistics stay right when neither they nor its tests are changed.
LEMMA CountKept ==
  ASSUME CountedOK, NEW s \in Suites,
         phase[s] \in Reported <=> phase'[s] \in Reported,
         phase[s] \in Reported => \A t \in TestsUnder(s) : status'[t] = status[t],
         stats'[s] = stats[s],
         suiteStatus'[s] = suiteStatus[s] \/ (phase[s] \notin Reported /\ suiteStatus'[s] # "FAIL")
  PROVE  IF phase'[s] \in Reported
         THEN stats'[s] = SuiteTally(s, status') /\ suiteStatus'[s] = StatusOf(stats'[s])
         ELSE suiteStatus'[s] # "FAIL"
<1>1. CASE phase[s] \in Reported
  <2>1. SuiteTally(s, status') = SuiteTally(s, status)
    BY <1>1, TallySame
  <2> QED BY <1>1, <2>1 DEF CountedOK
<1>2. CASE phase[s] \notin Reported
  BY <1>2 DEF CountedOK
<1> QED BY <1>1, <1>2

LEMMA ReportCounts ==
  ASSUME TypeOK, ErrorBookkeeping, PathOK, CountedOK, ReportSuiteStatus
  PROVE  CountedOK'
<1>1. /\ running # <<>> /\ phase[Current] = "report" /\ SetStatus /\ GoTo("teardown")
      /\ UNCHANGED status /\ Current \in Suites
  BY CurrentType DEF ReportSuiteStatus, At
<1>2. phase'[Current] = "teardown" /\ \A s \in Suites \ {Current} : phase'[s] = phase[s]
  BY <1>1 DEF GoTo, TypeOK
<1> SUFFICES ASSUME NEW s \in Suites
             PROVE  IF phase'[s] \in Reported
                    THEN stats'[s] = SuiteTally(s, status') /\ suiteStatus'[s] = StatusOf(stats'[s])
                    ELSE suiteStatus'[s] # "FAIL"
  BY DEF CountedOK
<1>3. CASE s \in Under(Current)
  <2>1. stats'[s] = SuiteTally(s, status) /\ suiteStatus'[s] = StatusOf(stats'[s])
    BY <1>1, <1>3 DEF SetStatus
  <2>2. phase'[s] \in Reported
    BY <1>1, <1>2, <1>3 DEF PathOK, PastSuites, Reported
  <2> QED BY <1>1, <2>1, <2>2
<1>4. CASE s \notin Under(Current)
  <2>1. s # Current
    BY <1>1, <1>4, UnderFacts
  <2>2. stats'[s] = stats[s] /\ suiteStatus'[s] = suiteStatus[s] /\ phase'[s] = phase[s]
    BY <1>1, <1>2, <1>4, <2>1 DEF SetStatus
  <2> QED BY <1>1, <2>2, CountKept
<1> QED BY <1>3, <1>4

LEMMA TeardownCounts ==
  ASSUME TypeOK, ErrorBookkeeping, PathOK, CountedOK, RunSuiteTeardown
  PROVE  CountedOK'
<1>1. /\ running # <<>> /\ phase[Current] = "teardown" /\ GoTo("end") /\ Current \in Suites
      /\ SuiteTeardownFailed \/ UNCHANGED <<stats, suiteStatus, status>>
  BY CurrentType DEF RunSuiteTeardown, At
<1>2. phase'[Current] = "end" /\ \A s \in Suites \ {Current} : phase'[s] = phase[s]
  BY <1>1 DEF GoTo, TypeOK
<1>3. \A s \in Suites : phase'[s] \in Reported <=> phase[s] \in Reported
  BY <1>1, <1>2 DEF Reported
<1> SUFFICES ASSUME NEW s \in Suites
             PROVE  IF phase'[s] \in Reported
                    THEN stats'[s] = SuiteTally(s, status') /\ suiteStatus'[s] = StatusOf(stats'[s])
                    ELSE suiteStatus'[s] # "FAIL"
  BY DEF CountedOK
<1>4. CASE UNCHANGED <<stats, suiteStatus, status>>
  BY <1>3, <1>4, CountKept
<1>5. CASE SuiteTeardownFailed /\ s \in Under(Current)
  <2>1. phase[s] \in Reported
    BY <1>1, <1>5 DEF PathOK, PastSuites, Reported
  <2>2. stats[s] = SuiteTally(s, status)
    BY <2>1 DEF CountedOK
  <2>3. /\ stats'[s] = [critical |-> FailAll(stats[s].critical), all |-> FailAll(stats[s].all)]
        /\ suiteStatus'[s] = StatusOf(stats'[s])
    BY <1>5 DEF SuiteTeardownFailed
  <2>4. \A t \in TestsUnder(s) : status'[t] = "FAIL"
    <3>1. TestsUnder(s) \subseteq TestsUnder(Current) /\ TestsUnder(s) \subseteq Tests
      BY <1>1, <1>5, TestsUnderFacts
    <3> QED BY <1>5, <3>1 DEF SuiteTeardownFailed
  <2>5. stats'[s] = SuiteTally(s, status')
    BY <2>2, <2>3, <2>4, FailAllIsRight
  <2> QED BY <1>3, <2>1, <2>3, <2>5
<1>6. CASE SuiteTeardownFailed /\ s \notin Under(Current)
  <2>1. stats'[s] = stats[s] /\ suiteStatus'[s] = suiteStatus[s]
    BY <1>6 DEF SuiteTeardownFailed
  <2>2. ASSUME phase[s] \in Reported, NEW t \in TestsUnder(s)
        PROVE  status'[t] = status[t]
    <3>1. t \notin TestsUnder(Current)
      <4> SUFFICES ASSUME t \in TestsUnder(Current) PROVE FALSE
        OBVIOUS
      <4>1. Current \in Under(s) /\ Current # s
        BY <1>1, <1>6, <2>2, TestsNested, UnderFacts
      <4>2. phase[Current] = "ended"
        BY <2>2, <4>1 DEF PathOK, PastSuites, Reported
      <4> QED BY <1>1, <4>2
    <3>2. t \in Tests
      BY <2>2, TestsUnderFacts
    <3> QED BY <1>6, <3>1, <3>2 DEF SuiteTeardownFailed
  <2> QED BY <1>3, <2>1, <2>2, CountKept
<1> QED BY <1>1, <1>4, <1>5, <1>6

LEMMA StepCounts ==
  ASSUME TypeOK, ErrorBookkeeping, PathOK, LoopsOK, VerdictsOK, CountedOK, [Next]_vars
  PROVE  CountedOK'
<1>1. CASE ReportSuiteStatus
  BY <1>1, ReportCounts
<1>2. CASE RunSuiteTeardown
  BY <1>2, TeardownCounts
<1> DEFINE Kept(s) ==
      /\ phase[s] \in Reported <=> phase'[s] \in Reported
      /\ phase[s] \in Reported => \A t \in TestsUnder(s) : status'[t] = status[t]
      /\ stats'[s] = stats[s]
      /\ \/ suiteStatus'[s] = suiteStatus[s]
         \/ phase[s] \notin Reported /\ suiteStatus'[s] # "FAIL"
<1>3. (\A s \in Suites : Kept(s)) => CountedOK'
  BY CountKept DEF CountedOK
<1>4. CASE StartRootSuite \/ RunSubSuite
  <2>1. PICK x \in Suites, initErr \in BOOLEAN : StartRun(x, initErr) /\ phase[x] = "NOT_RUN"
    BY <1>4, StartsFresh
  <2>2. /\ phase' = [phase EXCEPT ![x] = "setup"]
        /\ suiteStatus' = [suiteStatus EXCEPT ![x] = "RUNNING"]
        /\ UNCHANGED <<status, stats>>
    BY <2>1 DEF StartRun
  <2>3. \A s \in Suites : Kept(s)
    BY <2>1, <2>2 DEF TypeOK, Reported
  <2> QED BY <1>3, <2>3
<1>5. CASE RunSuiteSetup \/ SkipSuiteSetup \/ SubSuitesDone \/ TestsDone
           \/ SkipSuiteTeardown \/ EndSuite
  <2>1. /\ running # <<>> /\ UNCHANGED <<status, stats, suiteStatus>>
        /\ \/ phase[Current] \in Reported /\ (GoTo("end") \/ GoTo("ended"))
           \/ phase[Current] \notin Reported /\ (GoTo("suites") \/ GoTo("tests") \/ GoTo("report"))
    BY <1>5 DEF RunSuiteSetup, SkipSuiteSetup, SubSuitesDone, TestsDone, SkipSuiteTeardown,
       EndSuite, At, resultVars, Reported
  <2>2. \A s \in Suites : phase[s] \in Reported <=> phase'[s] \in Reported
    BY <2>1, CurrentType DEF GoTo, TypeOK, Reported
  <2>3. \A s \in Suites : Kept(s)
    BY <2>1, <2>2
  <2> QED BY <1>3, <2>3
<1>6. CASE TestStep
  <2> DEFINE x == IF StartTest THEN test' ELSE test
  <2>1. /\ running # <<>> /\ phase[Current] = "tests" /\ x \in Range(TestsOf[Current])
        /\ UNCHANGED <<phase, stats, suiteStatus>>
        /\ \A t \in Tests : t # x => status'[t] = status[t]
    <3>1. CASE StartTest
      BY <3>1, StartedTest DEF StartTest, Range, TypeOK
    <3>2. CASE ~StartTest
      <4>1. test # NoTest
        BY <1>6, <3>2, OtherTests
      <4>2. /\ running # <<>> /\ phase[Current] = "tests" /\ test \in Range(TestsOf[Current])
        BY <4>1 DEF ErrorBookkeeping, TestOK, At
      <4> QED BY <1>6, <3>2, <4>2, OtherTests, TestStepKeepsSuites DEF SuitesKept
    <3> QED BY <3>1, <3>2
  <2> HIDE DEF x
  <2>2. \A s \in Suites : phase[s] \in Reported => x \notin TestsUnder(s)
    BY <2>1, AboveRunningTest DEF Reported
  <2>3. \A s \in Suites : Kept(s)
    BY <2>1, <2>2, TestsUnderFacts
  <2> QED BY <1>3, <2>3
<1>7. CASE Over \/ UNCHANGED vars
  <2>1. UNCHANGED <<phase, status, stats, suiteStatus>>
    BY <1>7 DEF Over, vars, suiteVars, resultVars
  <2> QED BY <1>3, <2>1
<1> QED BY <1>1, <1>2, <1>4, <1>5, <1>6, <1>7 DEF Next, SuiteStep

-----------------------------------------------------------------------------
(* What is reported *)

\* The inductive invariant.
ResultBookkeeping ==
  /\ TypeOK /\ ErrorBookkeeping
  /\ ExecutedOK /\ BlockedOK /\ DoneOK /\ StopKnown
  /\ PathOK /\ LoopsOK /\ ErrorSourcesOK /\ StopSourcesOK
  /\ RunningTestOK /\ VerdictsOK /\ CountedOK

LEMMA InitResults ==
  ASSUME Init
  PROVE  ResultBookkeeping
<1>1. TypeOK /\ ErrorBookkeeping
  BY InitBooks
<1>2. DOMAIN running = {} /\ running = <<>>
  BY EmptySeq, LenProperties DEF Init
<1>3. \A s \in Suites : phase[s] = "NOT_RUN" /\ nextSuite[s] = 1 /\ nextTest[s] = 1
                        /\ teardownStatus[s] = "NOT_RUN" /\ suiteStatus[s] = "NOT_RUN"
  BY DEF Init
<1>4. ExecutedOK /\ BlockedOK /\ DoneOK /\ StopKnown
  BY <1>2, <1>3 DEF Init, ExecutedOK, BlockedOK, DoneOK, TeardownMatchesSetup, StopKnown
<1>5. PathOK
  <2>1. ASSUME NEW s \in Suites, NEW i \in DOMAIN SubSuites[s]
        PROVE  ~(i < nextSuite[s])
    <3>1. SubSuites[s] \in Seq(Suites)
      BY TreeAssumption
    <3>2. i \in 1 .. Len(SubSuites[s])
      BY <3>1, LenProperties
    <3> QED BY <1>3, <3>2
  <2> QED BY <1>2, <1>3, <2>1 DEF PathOK, PastSuites
<1>6. LoopsOK
  <2>1. ASSUME NEW s \in Suites, NEW j \in DOMAIN TestsOf[s]
        PROVE  j >= nextTest[s] /\ status[TestsOf[s][j]] = "NOT_RUN"
    <3>1. TestsOf[s] \in Seq(Tests)
      BY TreeAssumption
    <3>2. j \in 1 .. Len(TestsOf[s]) /\ TestsOf[s][j] \in Tests
      BY <3>1, LenProperties, ElementOfSeq
    <3> QED BY <1>3, <3>2 DEF Init
  <2> QED BY <1>3, <2>1 DEF LoopsOK, PastTests
<1>7. ErrorSourcesOK /\ StopSourcesOK /\ RunningTestOK
  BY <1>2 DEF Init, ErrorSourcesOK, StopSourcesOK, RunningTestOK
<1>8. VerdictsOK
  BY DEF Init, VerdictsOK, VerdictOK
<1>9. CountedOK
  BY <1>3 DEF CountedOK, Reported
<1> QED BY <1>1, <1>4, <1>5, <1>6, <1>7, <1>8, <1>9 DEF ResultBookkeeping

LEMMA StepResults ==
  ASSUME ResultBookkeeping, [Next]_vars
  PROVE  ResultBookkeeping'
<1> USE DEF ResultBookkeeping
<1>1. TypeOK' /\ ErrorBookkeeping'
  BY StepBooks
<1>2. ExecutedOK' /\ BlockedOK' /\ DoneOK' /\ StopKnown'
  BY StepExecuted, StepDone, StopKnownStep
<1>3. PathOK' /\ LoopsOK'
  BY StepPath, StepLoops
<1>4. ErrorSourcesOK' /\ StopSourcesOK' /\ RunningTestOK'
  BY StepSources, StepRunning
<1>5. VerdictsOK' /\ CountedOK'
  BY StepVerdicts, StepCounts
<1> QED BY <1>1, <1>2, <1>3, <1>4, <1>5

\* The errors, the statuses and the counts that are kept during the run agree with
\* what has happened, in every tree and every run mode.
THEOREM ResultBookkeepingHolds == Spec => []ResultBookkeeping
<1>1. Init => ResultBookkeeping
  BY InitResults
<1>2. ResultBookkeeping /\ [Next]_vars => ResultBookkeeping'
  BY StepResults
<1> QED BY <1>1, <1>2, PTL DEF Spec

\* In any tree: a finished test passes exactly when it was run, no part of it failed
\* and no suite teardown above it has failed; a test is left out only for a reason;
\* and the statistics of an ended suite count the statuses its tests have now,
\* though set_status and suite_teardown_failed count at different times.
THEOREM ResultsAreRightHolds == Spec => []ResultsAreRight
<1> SUFFICES ASSUME ResultBookkeeping PROVE ResultsAreRight
  BY ResultBookkeepingHolds, PTL
<1> USE DEF ResultBookkeeping
<1>1. StatusHasItsCause
  BY DEF StatusHasItsCause, VerdictsOK, VerdictOK, TypeOK, Statuses
<1>2. LeftOutForAReason
  BY DEF LeftOutForAReason, VerdictsOK, VerdictOK, HeldAgainst
<1>3. StatisticsAgree
  <2> SUFFICES ASSUME NEW s \in Suites, phase[s] = "ended"
               PROVE  /\ stats[s] = SuiteTally(s, status)
                      /\ suiteStatus[s] = "FAIL" <=>
                           \E t \in TestsUnder(s) \cap Critical : status[t] = "FAIL"
    BY DEF StatisticsAgree
  <2>1. stats[s] = SuiteTally(s, status) /\ suiteStatus[s] = StatusOf(stats[s])
    BY DEF CountedOK, Reported
  <2>2. \A t \in TestsUnder(s) : status[t] \in {"PASS", "FAIL"}
    BY TestsDecided DEF PastTests
  <2> QED BY <2>1, <2>2, StatusOfTally
<1> QED BY <1>1, <1>2, <1>3 DEF ResultsAreRight

LEMMA TestFailureStays ==
  ASSUME ResultBookkeeping, [Next]_vars, NEW t \in Tests, status[t] = "FAIL"
  PROVE  status'[t] = "FAIL"
<1> USE DEF ResultBookkeeping
<1>1. CASE SuiteStep
  <2>1. UNCHANGED status \/ SuiteTeardownFailed
    BY <1>1 DEF SuiteStep, StartRootSuite, RunSuiteSetup, SkipSuiteSetup, RunSubSuite, StartRun,
       SubSuitesDone, TestsDone, ReportSuiteStatus, RunSuiteTeardown, SkipSuiteTeardown,
       EndSuite, resultVars
  <2> QED BY <2>1 DEF SuiteTeardownFailed
<1>2. CASE StartTest
  BY <1>2, StartedTest DEF TypeOK
<1>3. CASE TestStep /\ ~StartTest
  <2>1. /\ test \in Tests /\ test # NoTest
        /\ t # test => status'[t] = status[t]
    BY <1>3, OtherTests
  <2>2. CASE ReportTestStatus
    <3>1. status[test] = "RUNNING"
      BY <2>1, <2>2 DEF ReportTestStatus, InStep, RunningTestOK
    <3> QED BY <2>1, <3>1
  <2>3. CASE ~ReportTestStatus
    <3>1. UNCHANGED status \/ \E st \in {"FAIL", status[test]} : status' = [status EXCEPT ![test] = st]
      BY <1>3, <2>3 DEF TestStep, NotAllowedToRun, RunTestSetup, RunKeywords,
         RunTestTeardown, SkipTestTeardown, ReportAfterTeardown, EndTest, resultVars
    <3> QED BY <2>1, <3>1 DEF TypeOK
  <2> QED BY <2>2, <2>3
<1>4. CASE Over \/ UNCHANGED vars
  BY <1>4 DEF Over, vars, resultVars
<1> QED BY <1>1, <1>2, <1>3, <1>4 DEF Next

LEMMA SuiteFailureStays ==
  ASSUME ResultBookkeeping, [Next]_vars, NEW s \in Suites, suiteStatus[s] = "FAIL"
  PROVE  suiteStatus'[s] = "FAIL"
<1> USE DEF ResultBookkeeping
<1>1. phase[s] \in Reported /\ stats[s] = SuiteTally(s, status)
      /\ StatusOf(SuiteTally(s, status)) = "FAIL"
  BY DEF CountedOK
<1>2. phase'[s] \in Reported
  <2>1. CASE StartRootSuite \/ RunSubSuite
    <3>1. PICK x \in Suites, initErr \in BOOLEAN : StartRun(x, initErr) /\ phase[x] = "NOT_RUN"
      BY <2>1, StartsFresh
    <3> QED BY <1>1, <3>1 DEF StartRun, TypeOK, Reported
  <2>2. CASE SuiteStep /\ ~StartRootSuite /\ ~RunSubSuite
    <3>1. /\ running # <<>>
          /\ \/ phase[Current] \notin Reported
             \/ GoTo("end") \/ GoTo("ended")
          /\ \E p \in Phases : GoTo(p)
      BY <2>2 DEF SuiteStep, RunSuiteSetup, SkipSuiteSetup, SubSuitesDone, TestsDone,
         ReportSuiteStatus, RunSuiteTeardown, SkipSuiteTeardown, EndSuite, At, Reported, Phases
    <3> QED BY <1>1, <3>1, CurrentType DEF GoTo, TypeOK, Reported
  <2>3. CASE TestStep
    BY <1>1, <2>3, TestStepKeepsSuites DEF SuitesKept
  <2>4. CASE Over \/ UNCHANGED vars
    BY <1>1, <2>4 DEF Over, vars, suiteVars
  <2> QED BY <2>1, <2>2, <2>3, <2>4 DEF Next
<1>3. suiteStatus'[s] = StatusOf(SuiteTally(s, status'))
  BY <1>2, StepResults DEF CountedOK
<1>4. PICK t \in TestsUnder(s) \cap Critical : status[t] # "PASS"
  BY <1>1, StatusOfTally
<1>5. status[t] = "FAIL"
  BY <1>1, <1>4, TestsDecided DEF PastTests, Reported
<1>6. status'[t] = "FAIL"
  BY <1>4, <1>5, TestFailureStays, ModeAssumption
<1> QED BY <1>3, <1>4, <1>6, StatusOfTally

\* The results only get worse: though the statuses of tests and suites are assigned
\* several times and in several places, no failure is ever taken back.
THEOREM FailureIsFinalHolds == Spec => FailureIsFinal
<1>1. ResultBookkeeping /\ [Next]_vars =>
        [/\ \A t \in Tests : status[t] = "FAIL" => status'[t] = "FAIL"
         /\ \A s \in Suites : suiteStatus[s] = "FAIL" => suiteStatus'[s] = "FAIL"]_vars
  BY TestFailureStays, SuiteFailureStays
<1> QED BY <1>1, ResultBookkeepingHolds, PTL DEF Spec, FailureIsFinal


-----------------------------------------------------------------------------
(***************************************************************************)
(* SuiteRun implements the safety part of TestResults: every step of the   *)
(* execution is, for the verdicts of the tests, a step that TestResults    *)
(* allows, or none.                                                        *)
(***************************************************************************)

Verdict == [t \in Tests |-> IF t = test THEN "RUNNING" ELSE status[t]]

\* The tests before the one that starts have been decided.
LEMMA EarlierTestsDecided ==
  ASSUME ResultBookkeeping, StartTest, NEW u \in Tests, RunsBefore(u, test')
  PROVE  status[u] \in {"PASS", "FAIL"}
<1> USE DEF ResultBookkeeping
<1> DEFINE k == nextTest[Current]
           n == Len(running)
<1>1. /\ running # <<>> /\ phase[Current] = "tests" /\ Current \in Suites /\ test = NoTest
      /\ k \in DOMAIN TestsOf[Current] /\ test' = TestsOf[Current][k]
      /\ test' \in Range(TestsOf[Current]) /\ u # test
  BY StartedTest, ModeAssumption DEF Range
<1>2. /\ n \in Nat \ {0} /\ DOMAIN running = 1 .. n /\ Current = running[n]
      /\ \A i \in DOMAIN running : running[i] \in Suites
  BY <1>1, StackFacts
<1>3. ASSUME NEW s \in Suites, phase[s] = "ended", u \in TestsUnder(s)
      PROVE  status[u] \in {"PASS", "FAIL"}
  BY <1>3, TestsDecided DEF PastTests
<1>4. PICK s \in Suites :
        \/ \E i, j \in DOMAIN SubSuites[s] :
             i < j /\ u \in TestsUnder(SubSuites[s][i]) /\ test' \in TestsUnder(SubSuites[s][j])
        \/ \E i \in DOMAIN SubSuites[s] :
             u \in TestsUnder(SubSuites[s][i]) /\ test' \in Range(TestsOf[s])
        \/ \E i, j \in DOMAIN TestsOf[s] : i < j /\ u = TestsOf[s][i] /\ test' = TestsOf[s][j]
  BY DEF RunsBefore
<1>5. SubSuites[s] \in Seq(Suites) /\ TestsOf[s] \in Seq(Tests)
  BY TreeAssumption
<1>6. CASE \E i, j \in DOMAIN SubSuites[s] :
             i < j /\ u \in TestsUnder(SubSuites[s][i]) /\ test' \in TestsUnder(SubSuites[s][j])
  <2>1. PICK i \in DOMAIN SubSuites[s], j \in DOMAIN SubSuites[s] :
          i < j /\ u \in TestsUnder(SubSuites[s][i]) /\ test' \in TestsUnder(SubSuites[s][j])
    BY <1>6
  <2> DEFINE c == SubSuites[s][i]
             d == SubSuites[s][j]
  <2>2. c \in Suites /\ d \in Suites /\ c \in Range(SubSuites[s]) /\ d \in Range(SubSuites[s])
        /\ c # d /\ i \in Nat /\ j \in Nat
    <3>1. c \in Suites /\ d \in Suites /\ i \in Nat /\ j \in Nat
      BY <1>5, LenProperties, ElementOfSeq
    <3>2. c # d
      BY <2>1, <3>1, TreeAssumption
    <3> QED BY <3>1, <3>2 DEF Range
  <2> HIDE DEF c, d
  <2>3. phase[d] \in {"suites", "tests"}
    BY <1>1, <2>1, <2>2, AboveRunningTest DEF d
  <2>4. ~(j >= nextSuite[s])
    BY <2>3 DEF ErrorBookkeeping, FreshOK, d
  <2>5. i < nextSuite[s]
    BY <2>1, <2>2, <2>4 DEF TypeOK
  <2>6. phase[c] # "NOT_RUN"
    BY <2>5 DEF PathOK, c
  <2>7. c \notin Range(running)
    <3> SUFFICES ASSUME c \in Range(running) PROVE FALSE
      OBVIOUS
    <3>1. PICK p \in 1 .. n, q \in 1 .. n : running[p] = c /\ running[q] = d
      BY <1>2, <2>2, <2>3 DEF PathOK, Range
    <3>2. p > 1 /\ q > 1
      <4>1. c # Root /\ d # Root
        BY <2>2, TreeAssumption
      <4>2. p \in DOMAIN running /\ q \in DOMAIN running
        BY <1>2, <3>1
      <4>3. p # 1 /\ q # 1
        BY <3>1, <4>1, <4>2 DEF ErrorBookkeeping, StackOK
      <4> QED BY <1>2, <3>1, <4>3
    <3>3. p - 1 \in DOMAIN running /\ q - 1 \in DOMAIN running
      BY <1>2, <3>1, <3>2
    <3>4. running[p - 1] = s /\ running[q - 1] = s
      <4>1. c \in Range(SubSuites[running[p - 1]]) /\ d \in Range(SubSuites[running[q - 1]])
        BY <1>2, <3>1, <3>2 DEF ErrorBookkeeping, StackOK
      <4> QED BY <1>2, <2>2, <3>3, <4>1, TreeAssumption
    <3>5. p - 1 = q - 1
      BY <3>3, <3>4 DEF ErrorBookkeeping, StackOK
    <3>6. p = q
      BY <3>1, <3>5
    <3> QED BY <2>2, <3>1, <3>6
  <2>8. phase[c] = "ended"
    BY <2>2, <2>6, <2>7 DEF PathOK
  <2> QED BY <1>3, <2>1, <2>2, <2>8 DEF c
<1>7. CASE \E i \in DOMAIN SubSuites[s] :
             u \in TestsUnder(SubSuites[s][i]) /\ test' \in Range(TestsOf[s])
  <2>1. PICK i \in DOMAIN SubSuites[s] :
          u \in TestsUnder(SubSuites[s][i]) /\ test' \in Range(TestsOf[s])
    BY <1>7
  <2>2. s = Current
    BY <1>1, <2>1, TreeAssumption
  <2>3. SubSuites[s][i] \in Suites /\ SubSuites[s][i] \in Range(SubSuites[s])
    BY <1>5, LenProperties, ElementOfSeq DEF Range
  <2>4. SubSuites[s][i] \in Under(s)
    BY <2>3, UnderFacts
  <2>5. SubSuites[s][i] # s
    <3> SUFFICES ASSUME s \in Range(SubSuites[s]) PROVE FALSE
      BY <2>3
    <3>1. s # Root
      BY TreeAssumption
    <3>2. n > 1
      BY <1>2, <2>2, <3>1 DEF ErrorBookkeeping, StackOK
    <3>3. s \in Range(SubSuites[running[n - 1]]) /\ n - 1 \in DOMAIN running
      BY <1>2, <2>2, <3>2 DEF ErrorBookkeeping, StackOK
    <3>4. running[n - 1] = running[n]
      BY <1>2, <2>2, <3>3, TreeAssumption
    <3>5. n - 1 = n
      BY <1>2, <3>3, <3>4 DEF ErrorBookkeeping, StackOK
    <3> HIDE DEF n
    <3> QED BY <1>2, <3>5
  <2>6. phase[SubSuites[s][i]] = "ended"
    BY <1>1, <2>2, <2>4, <2>5 DEF PathOK, PastSuites
  <2> QED BY <1>3, <2>1, <2>3, <2>6
<1>8. CASE \E i, j \in DOMAIN TestsOf[s] : i < j /\ u = TestsOf[s][i] /\ test' = TestsOf[s][j]
  <2>1. PICK i \in DOMAIN TestsOf[s], j \in DOMAIN TestsOf[s] :
          i < j /\ u = TestsOf[s][i] /\ test' = TestsOf[s][j]
    BY <1>8
  <2>2. s = Current /\ j = k
    <3>1. TestsOf[s][j] = TestsOf[Current][k]
      BY <1>1, <2>1
    <3> QED BY <1>1, <3>1, TestPlace
  <2>3. i \in Nat /\ k \in Nat
    <3>1. DOMAIN TestsOf[s] = 1 .. Len(TestsOf[s]) /\ Len(TestsOf[s]) \in Nat
      BY <1>5, LenProperties
    <3>2. k \in Nat
      BY <1>1 DEF TypeOK
    <3> HIDE DEF k
    <3> QED BY <3>1, <3>2
  <2>4. ~(i >= nextTest[s])
    BY <2>1, <2>2, <2>3
  <2>5. status[u] # "NOT_RUN"
    BY <2>1, <2>4 DEF LoopsOK
  <2> QED BY <1>1, <2>5 DEF VerdictsOK, VerdictOK, TypeOK, Statuses
<1> QED BY <1>4, <1>6, <1>7, <1>8

\* Nothing happens to the verdicts.
LEMMA VerdictsSame ==
  ASSUME test' = test, status' = status
  PROVE  Verdict' = Verdict
BY DEF Verdict

\* A step of the running test stops the execution or leaves the verdicts alone.
LEMMA StopStep ==
  ASSUME ResultBookkeeping, test \in Tests, test' = test,
         status' = status \/ \E st \in Statuses : status' = [status EXCEPT ![test] = st],
         ExitMode' = ExitMode \/ ExitMode'
  PROVE  Results!Next \/ UNCHANGED <<Verdict, ExitMode>>
<1>1. Verdict' = Verdict
  BY DEF Verdict, ResultBookkeeping, TypeOK
<1>2. CASE ExitMode' = ExitMode
  BY <1>1, <1>2
<1>3. CASE ExitMode'
  <2>1. Results!Running(test)
    BY DEF Results!Running
  <2>2. Results!Stop
    BY <1>1, <1>3, <2>1 DEF Results!Stop, Verdict
  <2> QED BY <2>2 DEF Results!Next
<1> QED BY <1>2, <1>3

\* The test that ends passes or fails.
LEMMA EndStep ==
  ASSUME ResultBookkeeping, EndTest
  PROVE  Results!Next
<1> USE DEF ResultBookkeeping
<1>1. /\ test \in Tests /\ step = "end" /\ test' = NoTest /\ status' = status
      /\ ExitMode' = ExitMode
  BY DEF EndTest, InStep, TypeOK, resultVars, exitVars, ExitMode
<1>2. status[test] \in {"PASS", "FAIL"}
  BY <1>1, ModeAssumption DEF RunningTestOK
<1>3. PICK t \in Tests : t = test
  BY <1>1
<1>4. Verdict' = [Verdict EXCEPT ![test] = status[test]]
  BY <1>1, ModeAssumption DEF Verdict
<1>5. CASE status[test] = "PASS"
  <2>1. ~ExitMode
    BY <1>1, <1>5, ModeAssumption DEF RunningTestOK
  <2>2. Results!Pass(t)
    BY <1>1, <1>3, <1>4, <1>5, <2>1 DEF Results!Pass, Results!Running, Verdict
  <2> QED BY <2>2 DEF Results!Next
<1>6. CASE status[test] = "FAIL"
  <2>1. Results!Fail(t)
    BY <1>1, <1>3, <1>4, <1>6 DEF Results!Fail, Results!Running, Verdict
  <2> QED BY <2>1 DEF Results!Next
<1> QED BY <1>2, <1>5, <1>6

LEMMA StartStep ==
  ASSUME ResultBookkeeping, StartTest
  PROVE  Results!Next
<1> USE DEF ResultBookkeeping
<1>1. /\ test' \in Tests /\ test = NoTest /\ status[test'] = "NOT_RUN"
      /\ status' = [status EXCEPT ![test'] = "RUNNING"] /\ test' # NoTest
  BY StartedTest
<1>2. \A t \in Tests : Verdict[t] = status[t]
  BY <1>1, ModeAssumption DEF Verdict
<1>3. \A t \in Tests : status[t] # "RUNNING"
  BY <1>1, ModeAssumption DEF VerdictsOK, VerdictOK
<1>4. \A u \in Tests : RunsBefore(u, test') => status[u] \in {"PASS", "FAIL"}
  BY EarlierTestsDecided
<1>5. Verdict' = [Verdict EXCEPT ![test'] = "RUNNING"]
  BY <1>1, <1>2 DEF Verdict, TypeOK
<1>6. ExitMode' = ExitMode
  BY DEF StartTest, ExitMode, exitVars
<1>7. PICK t \in Tests : t = test'
  BY <1>1
<1>8. Results!Start(t)
  BY <1>1, <1>2, <1>3, <1>4, <1>5, <1>6, <1>7
     DEF Results!Start, Results!Running, Results!Decided, Verdict
<1> QED BY <1>8 DEF Results!Next

\* A suite teardown fails all the tests under its suite, or none.
LEMMA TeardownStep ==
  ASSUME ResultBookkeeping, RunSuiteTeardown
  PROVE  Results!Next \/ UNCHANGED <<Verdict, ExitMode>>
<1> USE DEF ResultBookkeeping
<1>1. /\ running # <<>> /\ phase[Current] = "teardown" /\ Current \in Suites
      /\ test' = test /\ ExitMode' = ExitMode
  BY CurrentType DEF RunSuiteTeardown, At, testVars, exitVars, ExitMode
<1>2. test = NoTest
  BY <1>1 DEF ErrorBookkeeping, TestOK, At
<1>3. \A t \in Tests : Verdict[t] = status[t]
  BY <1>2, ModeAssumption DEF Verdict
<1>4. CASE status' = status
  BY <1>1, <1>4, VerdictsSame
<1>5. CASE SuiteTeardownFailed
  <2> DEFINE G == TestsUnder(Current)
  <2>1. \A t \in Tests : status[t] # "RUNNING"
    BY <1>2, ModeAssumption DEF VerdictsOK, VerdictOK
  <2>2. \A t \in G : t \in Tests /\ status[t] \in {"PASS", "FAIL"}
    BY <1>1, TestsDecided, TestsUnderFacts DEF PastTests
  <2>3. Verdict' = [t \in Tests |-> IF t \in G THEN "FAIL" ELSE Verdict[t]]
    BY <1>1, <1>2, <1>3, <1>5, ModeAssumption DEF SuiteTeardownFailed, Verdict
  <2>4. PICK H \in {TestsUnder(s) : s \in Suites} : H = G
    BY <1>1
  <2>5. Results!FailGroup(H)
    <3> HIDE DEF G
    <3> QED BY <1>1, <1>3, <2>1, <2>2, <2>3, <2>4
            DEF Results!FailGroup, Results!Running, Results!Decided, Verdict
  <2> QED BY <2>5 DEF Results!Next
<1> QED BY <1>4, <1>5 DEF RunSuiteTeardown

LEMMA ResultsStep ==
  ASSUME ResultBookkeeping, [Next]_vars
  PROVE  Results!Next \/ UNCHANGED <<Verdict, ExitMode>>
<1> USE DEF ResultBookkeeping
<1>1. CASE SuiteStep /\ ~RunSuiteTeardown
  <2>1. UNCHANGED <<test, status, ExitMode>>
    BY <1>1 DEF SuiteStep, StartRootSuite, RunSuiteSetup, SkipSuiteSetup, RunSubSuite,
       SubSuitesDone, TestsDone, ReportSuiteStatus, SkipSuiteTeardown, EndSuite, StartRun,
       testVars, resultVars, exitVars, ExitMode
  <2> QED BY <2>1, VerdictsSame
<1>2. CASE NotAllowedToRun \/ RunTestSetup \/ RunKeywords \/ ReportTestStatus
           \/ RunTestTeardown \/ SkipTestTeardown \/ ReportAfterTeardown
  <2>1. test \in Tests /\ test' = test
    BY <1>2 DEF NotAllowedToRun, RunTestSetup, RunKeywords, ReportTestStatus, RunTestTeardown,
       SkipTestTeardown, ReportAfterTeardown, InStep, TypeOK
  <2>2. status' = status \/ \E st \in Statuses : status' = [status EXCEPT ![test] = st]
    <3>1. CASE NotAllowedToRun \/ ReportTestStatus
      BY <3>1 DEF NotAllowedToRun, ReportTestStatus, Statuses
    <3>2. CASE RunTestSetup \/ RunKeywords \/ RunTestTeardown \/ SkipTestTeardown
      BY <3>2 DEF RunTestSetup, RunKeywords, RunTestTeardown, SkipTestTeardown, resultVars
    <3>3. CASE ReportAfterTeardown
      <4>1. status[test] \in Statuses /\ "FAIL" \in Statuses
        BY <2>1 DEF TypeOK, Statuses
      <4> QED BY <3>3, <4>1 DEF ReportAfterTeardown
    <3> QED BY <1>2, <3>1, <3>2, <3>3
  <2>3. ExitMode' = ExitMode \/ ExitMode'
    <3>1. CASE NotAllowedToRun \/ ReportTestStatus \/ SkipTestTeardown
      BY <3>1 DEF NotAllowedToRun, ReportTestStatus, SkipTestTeardown, exitVars, ExitMode
    <3>2. CASE RunTestSetup \/ RunKeywords \/ RunTestTeardown \/ ReportAfterTeardown
      <4>1. UNCHANGED exitVars \/ \E exit \in BOOLEAN : TestFailed(exit)
        BY <3>2 DEF RunTestSetup, RunKeywords, RunTestTeardown, ReportAfterTeardown, KeywordFailed
      <4>2. ExitMode => ExitMode'
        BY <4>1 DEF exitVars, TestFailed, ExitMode
      <4>3. ExitMode \in BOOLEAN /\ ExitMode' \in BOOLEAN
        BY DEF ExitMode
      <4> QED BY <4>2, <4>3
    <3> QED BY <1>2, <3>1, <3>2
  <2> QED BY <2>1, <2>2, <2>3, StopStep
<1>3. CASE Over \/ UNCHANGED vars
  BY <1>3, VerdictsSame DEF Over, vars, testVars, resultVars, exitVars, ExitMode
<1>4. CASE StartTest
  BY <1>4, StartStep
<1>5. CASE EndTest
  BY <1>5, EndStep
<1>6. CASE RunSuiteTeardown
  BY <1>6, TeardownStep
<1> QED BY <1>1, <1>2, <1>3, <1>4, <1>5, <1>6 DEF Next, TestStep

\* The tests of a run get their verdicts as TestResults allows: one at a time,
\* in the execution order, none passing once the execution is being stopped,
\* and changed only by a failing suite teardown, for a whole suite.
THEOREM ImplementsSafeResults == Spec => Results!SafeSpec
<1>1. Init => Results!Init
  BY ModeAssumption DEF Init, Results!Init, ExitMode
<1>2. ResultBookkeeping /\ [Next]_vars => [Results!Next]_(Results!resultsVars)
  BY ResultsStep DEF Verdict, Results!resultsVars
<1> QED BY <1>1, <1>2, ResultBookkeepingHolds, PTL DEF Spec, Results!SafeSpec

-----------------------------------------------------------------------------
(***************************************************************************)
(* What is read from the output files                                      *)
(***************************************************************************)
-----------------------------------------------------------------------------
(* The inductive invariant *)

SplitSuites == {s \in Suites : src[s] # Index}

\* The number of files that were named and where the writer is: in the file of
\* the suite on the stack that is split, or in the index.
WriterOK ==
  /\ writer = IF SplitLevel # -1 /\ Len(running) > SplitLevel
              THEN src[running[SplitLevel + 1]] ELSE Index
  /\ indexWriter = Index
  /\ outputCount = Cardinality(SplitSuites)
  /\ WithLog => logCount = outputCount
  /\ Index \in closed => phase[Root] = "ended"

\* Suites of one level are split, so there is one in every branch at most.
SplitOK ==
  /\ \A i \in DOMAIN running : src[running[i]] # Index <=> i = SplitLevel + 1
  /\ \A s \in SplitSuites : phase[s] # "NOT_RUN"
  /\ \A s, x \in SplitSuites : s \in Under(x) => s = x

\* What is above a suite has been started before it.
StartedAboveOK ==
  \A s \in Suites : \A c \in Under(s) : phase[c] # "NOT_RUN" => phase[s] # "NOT_RUN"

\* The teardowns and tests that were written, and that nothing was written twice.
\* A test was written with the status it has, unless a teardown failed later.
TeardownsOK ==
  \A s \in Suites :
    <<FileOf(s), Element("teardown", s, s, "FAIL")>> \in elements
      <=> teardownStatus[s] = "FAIL"
WrittenOnce(t, s) ==
  \E st \in {"PASS", "FAIL"} :
    /\ ElementsOf(t, s) = {<<FileOf(s), Element("test", s, t, st)>>}
    /\ st = status[t] \/ FailedTeardownAbove(t)
TestElementsOK ==
  \A s \in Suites : \A t \in Range(TestsOf[s]) :
    IF t = test \/ status[t] = "NOT_RUN" THEN ElementsOf(t, s) = {} ELSE WrittenOnce(t, s)
ElementsOK ==
  /\ \A e \in elements : phase[e[2].suite] # "NOT_RUN"
  /\ TeardownsOK /\ TestElementsOK

\* A split log is about the tests of a split suite that is over.
SplitLogOK ==
  \A t \in Tests : splitLog[t] # "NOT_RUN" =>
    \E s \in SplitSuites : t \in TestsUnder(s) /\ phase[s] = "ended"

OutputBookkeeping ==
  /\ OutputTypeOK /\ WriterOK /\ SplitOK /\ StartedAboveOK /\ CurrentFileIsNamed
  /\ ElementsOK /\ SplitLogOK /\ SplitLogsRightSoFar

-----------------------------------------------------------------------------
(* The files of suites *)

SplitAbove(s) == {x \in Suites : s \in Under(x) /\ src[x] # Index}

\* The contents of a suite that was started stay in one file.
LEMMA FileKept ==
  ASSUME StartedAboveOK, NEW s \in Suites, phase[s] # "NOT_RUN",
         \A x \in Suites : phase[x] # "NOT_RUN" => src'[x] = src[x]
  PROVE  FileOf(s)' = FileOf(s)
<1>1. \A x \in Suites : s \in Under(x) => src'[x] = src[x]
  BY DEF StartedAboveOK
<1>2. SplitAbove(s)' = SplitAbove(s)
  BY <1>1 DEF SplitAbove
<1>3. CASE SplitAbove(s) = {}
  BY <1>2, <1>3 DEF FileOf, SplitAbove
<1>4. CASE SplitAbove(s) # {}
  <2> DEFINE c == CHOOSE x \in SplitAbove(s) : TRUE
  <2>1. c \in SplitAbove(s)
    BY <1>4
  <2>2. src'[c] = src[c]
    BY <1>1, <2>1 DEF SplitAbove
  <2>3. FileOf(s) = src[c]
    BY <1>4 DEF FileOf, SplitAbove
  <2>4. FileOf(s)' = src'[c]
    <3>1. SplitAbove(s)' # {}
      BY <1>2, <1>4
    <3>2. FileOf(s)' = src'[CHOOSE x \in SplitAbove(s)' : TRUE]
      BY <3>1 DEF FileOf, SplitAbove
    <3> QED BY <1>2, <3>2
  <2> QED BY <2>2, <2>3, <2>4
<1> QED BY <1>3, <1>4

\* What is written belongs to the innermost suite.
LEMMA WriterIsCurrent ==
  ASSUME TypeOK, ErrorBookkeeping, PathOK, WriterOK, SplitOK, running # <<>>
  PROVE  writer = FileOf(Current)
<1> DEFINE n == Len(running)
<1>1. /\ n \in Nat \ {0} /\ DOMAIN running = 1 .. n /\ n \in DOMAIN running
      /\ Current = running[n]
      /\ \A i \in DOMAIN running : running[i] \in Suites
  BY StackFacts
<1>2. \A x \in Suites : Current \in Under(x) => x \in Range(running)
  BY SuitesAboveAreRunning DEF ErrorBookkeeping
<1>3. SplitLevel \in {-1} \cup (Nat \ {0})
  BY SplitAssumption
<1>4. \A x \in SplitAbove(Current) : \E i \in DOMAIN running : x = running[i] /\ i = SplitLevel + 1
  BY <1>2 DEF SplitAbove, Range, SplitOK
<1>5. CASE SplitLevel # -1 /\ n > SplitLevel
  <2> DEFINE x == running[SplitLevel + 1]
  <2>1. SplitLevel + 1 \in DOMAIN running /\ SplitLevel + 1 <= n
    BY <1>1, <1>3, <1>5
  <2>2. x \in Suites /\ src[x] # Index /\ Current \in Under(x)
    BY <1>1, <2>1 DEF SplitOK, PathOK
  <2>3. SplitAbove(Current) = {x}
    BY <1>4, <2>2 DEF SplitAbove
  <2>4. (CHOOSE y \in SplitAbove(Current) : TRUE) = x
    BY <2>3
  <2>5. FileOf(Current) = src[x]
    BY <2>3, <2>4 DEF FileOf, SplitAbove
  <2> QED BY <1>5, <2>5 DEF WriterOK
<1>6. CASE ~(SplitLevel # -1 /\ n > SplitLevel)
  <2>1. SplitLevel + 1 \notin DOMAIN running
    BY <1>1, <1>3, <1>6
  <2>2. SplitAbove(Current) = {}
    BY <1>4, <2>1
  <2>3. FileOf(Current) = Index
    BY <2>2 DEF FileOf, SplitAbove
  <2> QED BY <1>6, <2>3 DEF WriterOK
<1> QED BY <1>5, <1>6

-----------------------------------------------------------------------------
(* Steps between the start and the end of a suite *)

\* The files stay the same, but for what is written into the open ones.
LEMMA FilesKept ==
  ASSUME WriterOK, SplitOK, StartedAboveOK, CurrentFileIsNamed,
         running' = running, phase[Root] = "ended" => phase'[Root] = "ended",
         \A s \in Suites : phase'[s] = "NOT_RUN" <=> phase[s] = "NOT_RUN",
         UNCHANGED <<src, writer, indexWriter, outputCount, logCount, closed,
                     outputFile, logFile>>
  PROVE  /\ WriterOK' /\ SplitOK' /\ StartedAboveOK' /\ CurrentFileIsNamed'
         /\ \A s \in Suites : FileOf(s)' = FileOf(s)
<1>1. SplitSuites' = SplitSuites
  BY DEF SplitSuites
<1>2. WriterOK'
  BY <1>1, TreeAssumption DEF WriterOK
<1>3. SplitOK'
  BY <1>1 DEF SplitOK, SplitSuites
<1>4. StartedAboveOK'
  <2>1. \A s \in Suites : Under(s) \subseteq Suites
    BY UnderFacts
  <2> QED BY <2>1 DEF StartedAboveOK
<1>5. CurrentFileIsNamed'
  BY DEF CurrentFileIsNamed
<1>6. \A s \in Suites : FileOf(s)' = FileOf(s)
  BY DEF FileOf
<1> QED BY <1>2, <1>3, <1>4, <1>5, <1>6

\* A test in a split log has been decided.
LEMMA LoggedTest ==
  ASSUME ResultBookkeeping, SplitLogOK, NEW t \in Tests, splitLog[t] # "NOT_RUN"
  PROVE  t # test /\ status[t] \in {"PASS", "FAIL"}
<1>1. PICK s \in SplitSuites : t \in TestsUnder(s) /\ phase[s] = "ended"
  BY DEF SplitLogOK
<1>2. s \in Suites /\ phase[s] \in PastTests
  BY <1>1 DEF SplitSuites, PastTests
<1> QED BY <1>1, <1>2, TestsDecided DEF ResultBookkeeping

\* What such a step does to suites and tests.
LEMMA OtherSteps ==
  ASSUME ResultBookkeeping, OtherStep
  PROVE  /\ Next
         /\ running' = running
         /\ phase[Root] = "ended" => phase'[Root] = "ended"
         /\ \A s \in Suites : /\ phase'[s] = "NOT_RUN" <=> phase[s] = "NOT_RUN"
                              /\ phase[s] = "ended" => phase'[s] = "ended"
         /\ teardownStatus' = teardownStatus
         /\ \A t \in Tests :
              \/ status'[t] = status[t] /\ (t = test' <=> t = test)
              \/ (t = test \/ status[t] = "NOT_RUN") /\ t = test'
<1> USE DEF ResultBookkeeping
<1>1. CASE TestStep /\ ~EndTest
  <2>1. SuitesKept /\ Next
    BY <1>1, TestStepKeepsSuites DEF Next
  <2>2. running' = running /\ phase' = phase
    BY <2>1 DEF SuitesKept
  <2>3. CASE StartTest
    <3>1. /\ test = NoTest /\ test' \in Tests /\ test' # NoTest
          /\ status[test'] = "NOT_RUN" /\ status' = [status EXCEPT ![test'] = "RUNNING"]
      BY <2>3, StartedTest
    <3>2. teardownStatus' = teardownStatus
      BY <2>3 DEF StartTest
    <3>3. ASSUME NEW t \in Tests
          PROVE  \/ status'[t] = status[t] /\ (t = test' <=> t = test)
                 \/ (t = test \/ status[t] = "NOT_RUN") /\ t = test'
      BY <3>1, ModeAssumption DEF TypeOK
    <3> QED BY <2>1, <2>2, <3>2, <3>3
  <2>4. CASE ~StartTest
    <3>1. /\ \A t \in Tests : t # test => status'[t] = status[t]
          /\ teardownStatus' = teardownStatus
      BY <1>1, <2>4, OtherTests
    <3>2. test' = test
      BY <1>1, <2>4 DEF TestStep, NotAllowedToRun, RunTestSetup, RunKeywords,
         ReportTestStatus, RunTestTeardown, SkipTestTeardown, ReportAfterTeardown
    <3> QED BY <2>1, <2>2, <3>1, <3>2
  <2> QED BY <2>3, <2>4
<1>2. CASE RunSuiteSetup \/ SkipSuiteSetup \/ SubSuitesDone \/ TestsDone
           \/ ReportSuiteStatus \/ SkipSuiteTeardown
  <2>1. Next /\ SuiteStep
    BY <1>2 DEF Next, SuiteStep
  <2>2. running # <<>> /\ phase[Current] \in {"setup", "suites", "tests", "report", "teardown"}
    BY <1>2 DEF RunSuiteSetup, SkipSuiteSetup, SubSuitesDone, TestsDone,
       ReportSuiteStatus, SkipSuiteTeardown, At
  <2>3. PICK p \in {"suites", "tests", "report", "teardown", "end"} : GoTo(p)
    BY <1>2 DEF RunSuiteSetup, SkipSuiteSetup, SubSuitesDone, TestsDone,
       ReportSuiteStatus, SkipSuiteTeardown
  <2>4. UNCHANGED <<running, status, teardownStatus, test>>
    BY <1>2 DEF RunSuiteSetup, SkipSuiteSetup, SubSuitesDone, TestsDone,
       ReportSuiteStatus, SkipSuiteTeardown, testVars, resultVars
  <2>5. \A s \in Suites : /\ phase'[s] = "NOT_RUN" <=> phase[s] = "NOT_RUN"
                          /\ phase[s] = "ended" => phase'[s] = "ended"
    BY <2>2, <2>3 DEF GoTo, TypeOK
  <2> QED BY <2>1, <2>4, <2>5, TreeAssumption
<1> QED BY <1>1, <1>2 DEF OtherStep, TestStep, RunSuiteSetup, SkipSuiteSetup, StartTest,
      NotAllowedToRun, RunTestSetup, RunKeywords, ReportTestStatus, RunTestTeardown,
      SkipTestTeardown, ReportAfterTeardown, EndTest, InStep

LEMMA FilesSame ==
  ASSUME ResultBookkeeping, OutputBookkeeping, UNCHANGED fileVars, running' = running,
         phase[Root] = "ended" => phase'[Root] = "ended",
         \A s \in Suites : /\ phase'[s] = "NOT_RUN" <=> phase[s] = "NOT_RUN"
                           /\ phase[s] = "ended" => phase'[s] = "ended",
         teardownStatus' = teardownStatus,
         \A t \in Tests :
           \/ status'[t] = status[t] /\ (t = test' <=> t = test)
           \/ (t = test \/ status[t] = "NOT_RUN") /\ t = test'
  PROVE  OutputBookkeeping'
<1> USE DEF OutputBookkeeping
<1>2. UNCHANGED <<suiteLevel, writer, indexWriter, outputCount, logCount, src, elements,
                  closed, outputFile, logFile, splitLog>>
  BY DEF fileVars
<1>3. /\ WriterOK' /\ SplitOK' /\ StartedAboveOK' /\ CurrentFileIsNamed'
      /\ \A s \in Suites : FileOf(s)' = FileOf(s)
  BY <1>2, FilesKept
<1>4. OutputTypeOK'
  BY <1>2 DEF OutputTypeOK
<1>5. TeardownsOK'
  BY <1>2, <1>3 DEF ElementsOK, TeardownsOK
<1>6. TestElementsOK'
  <2> SUFFICES ASSUME NEW s \in Suites, NEW t \in Range(TestsOf[s])
               PROVE  IF t = test' \/ status'[t] = "NOT_RUN" THEN ElementsOf(t, s)' = {}
                      ELSE WrittenOnce(t, s)'
    BY DEF TestElementsOK
  <2>1. t \in Tests
    BY TestsUnderFacts
  <2>2. ElementsOf(t, s)' = ElementsOf(t, s)
    BY <1>2, <1>3 DEF ElementsOf
  <2>3. FailedTeardownAbove(t)' <=> FailedTeardownAbove(t)
    BY DEF FailedTeardownAbove
  <2>4. IF t = test \/ status[t] = "NOT_RUN" THEN ElementsOf(t, s) = {} ELSE WrittenOnce(t, s)
    BY DEF ElementsOK, TestElementsOK
  <2>5. CASE status'[t] = status[t] /\ (t = test' <=> t = test)
    BY <1>3, <2>2, <2>3, <2>4, <2>5 DEF WrittenOnce
  <2>6. CASE (t = test \/ status[t] = "NOT_RUN") /\ t = test'
    BY <2>2, <2>4, <2>6
  <2> QED BY <2>1, <2>5, <2>6
<1>7. \A e \in elements' : phase'[e[2].suite] # "NOT_RUN"
  BY <1>2 DEF ElementsOK, OutputTypeOK
<1>8. SplitLogOK'
  BY <1>2 DEF SplitLogOK, SplitSuites
<1>9. SplitLogsRightSoFar'
  <2>1. \A t \in Tests : splitLog[t] # "NOT_RUN" => status'[t] = status[t]
    BY LoggedTest
  <2> QED BY <1>2, <1>3, <2>1 DEF SplitLogsRightSoFar
<1> QED BY <1>3, <1>4, <1>5, <1>6, <1>7, <1>8, <1>9 DEF ElementsOK

LEMMA OtherKeeps ==
  ASSUME ResultBookkeeping, OutputBookkeeping, OtherStep
  PROVE  OutputBookkeeping'
<1>1. UNCHANGED fileVars
  BY DEF OtherStep
<1> QED BY <1>1, OtherSteps, FilesSame

-----------------------------------------------------------------------------
(* Tests and suite teardowns that end *)

\* What the end of a test or of a teardown writes is well-formed.
LEMMA WrittenType ==
  ASSUME OutputTypeOK, NEW kind \in {"test", "teardown", "suite"}, NEW s \in Suites,
         NEW item \in Suites \cup Tests, NEW st \in {"PASS", "FAIL"}, NEW f \in Files
  PROVE  <<f, Element(kind, s, item, st)>> \in
           Files \X [kind: {"test", "teardown", "suite"}, suite: Suites,
                     item: Suites \cup Tests, status: {"PASS", "FAIL"}]
BY DEF Element

LEMMA EndTestKeeps ==
  ASSUME ResultBookkeeping, OutputBookkeeping, OutputEndTest
  PROVE  OutputBookkeeping'
<1> USE DEF OutputBookkeeping
<1> DEFINE new == <<writer, Element("test", Current, test, status[test])>>
<1>1. /\ test \in Tests /\ test # NoTest /\ step = "end" /\ test' = NoTest
      /\ UNCHANGED <<running, phase, status, teardownStatus>>
  BY DEF OutputEndTest, EndTest, InStep, suiteVars, resultVars, ResultBookkeeping, TypeOK
<1>2. /\ elements' = elements \cup {new}
      /\ UNCHANGED <<suiteLevel, writer, indexWriter, outputCount, logCount, src,
                     closed, outputFile, logFile, splitLog>>
  BY DEF OutputEndTest, Write
<1>3. /\ running # <<>> /\ Current \in Suites /\ test \in Range(TestsOf[Current])
      /\ phase[Current] = "tests" /\ status[test] \in {"PASS", "FAIL"}
  BY <1>1, CurrentType DEF ResultBookkeeping, ErrorBookkeeping, TestOK, At, RunningTestOK
<1>4. writer = FileOf(Current) /\ writer \in Files
  BY <1>3, WriterIsCurrent DEF ResultBookkeeping, OutputTypeOK
<1>5. /\ WriterOK' /\ SplitOK' /\ StartedAboveOK' /\ CurrentFileIsNamed'
      /\ \A s \in Suites : FileOf(s)' = FileOf(s)
  BY <1>1, <1>2, FilesKept
<1>6. OutputTypeOK'
  <2>1. new \in Files \X [kind: {"test", "teardown", "suite"}, suite: Suites,
                          item: Suites \cup Tests, status: {"PASS", "FAIL"}]
    BY <1>1, <1>3, <1>4, WrittenType
  <2> HIDE DEF new
  <2> QED BY <1>1, <1>2, <2>1 DEF OutputTypeOK
<1>7. TeardownsOK'
  <2>1. \A f, s : <<f, Element("teardown", s, s, "FAIL")>> # new
    BY DEF Element
  <2> HIDE DEF new
  <2> QED BY <1>1, <1>2, <1>5, <2>1 DEF ElementsOK, TeardownsOK
<1>8. TestElementsOK'
  <2> SUFFICES ASSUME NEW s \in Suites, NEW t \in Range(TestsOf[s])
               PROVE  IF t = test' \/ status'[t] = "NOT_RUN" THEN ElementsOf(t, s)' = {}
                      ELSE WrittenOnce(t, s)'
    BY DEF TestElementsOK
  <2>1. t \in Tests /\ t # NoTest
    BY TestsUnderFacts, ModeAssumption
  <2>2. IF t = test \/ status[t] = "NOT_RUN" THEN ElementsOf(t, s) = {} ELSE WrittenOnce(t, s)
    BY DEF ElementsOK, TestElementsOK
  <2>3. FailedTeardownAbove(t)' <=> FailedTeardownAbove(t)
    BY <1>1 DEF FailedTeardownAbove
  <2>4. CASE t # test
    <3>1. ElementsOf(t, s)' = ElementsOf(t, s)
      BY <1>2, <1>5, <2>4 DEF ElementsOf, Element
    <3> QED BY <1>1, <1>5, <2>1, <2>2, <2>3, <2>4, <3>1 DEF WrittenOnce
  <2>5. CASE t = test
    <3>1. s = Current
      BY <1>3, <2>5, TreeAssumption
    <3>2. ElementsOf(t, s) = {}
      BY <2>2, <2>5
    <3>3. /\ new[1] = FileOf(s) /\ new[2].kind = "test" /\ new[2].suite = s /\ new[2].item = t
          /\ new = <<FileOf(s), Element("test", s, t, status[t])>>
      BY <1>4, <2>5, <3>1 DEF Element
    <3> HIDE DEF new
    <3>4. ElementsOf(t, s)' = {new}
      BY <1>2, <1>5, <3>2, <3>3 DEF ElementsOf
    <3>5. WrittenOnce(t, s)'
      BY <1>1, <1>3, <1>5, <2>5, <3>3, <3>4 DEF WrittenOnce
    <3> QED BY <1>1, <1>3, <2>1, <2>5, <3>5
  <2> QED BY <2>4, <2>5
<1>9. \A e \in elements' : phase'[e[2].suite] # "NOT_RUN"
  <2>1. new[2].suite = Current
    BY DEF Element
  <2> HIDE DEF new
  <2> QED BY <1>1, <1>2, <1>3, <2>1 DEF ElementsOK
<1>10. SplitLogOK'
  BY <1>1, <1>2 DEF SplitLogOK, SplitSuites
<1>11. SplitLogsRightSoFar'
  BY <1>1, <1>2, <1>5 DEF SplitLogsRightSoFar
<1> QED BY <1>5, <1>6, <1>7, <1>8, <1>9, <1>10, <1>11 DEF ElementsOK

\* Above a split suite that is over there is only the index.
LEMMA AboveSplitSuite ==
  ASSUME ResultBookkeeping, SplitOK, running # <<>>, NEW s \in SplitSuites,
         phase[s] = "ended", NEW t \in TestsUnder(s), t \in TestsUnder(Current)
  PROVE  src[Current] = Index /\ FileOf(Current) = Index
<1> USE DEF ResultBookkeeping
<1>1. s \in Suites /\ Current \in Suites /\ phase[Current] # "ended"
  BY CurrentType, StackFacts DEF SplitSuites, ErrorBookkeeping, StackOK
<1>2. Current \notin Under(s)
  BY <1>1 DEF PathOK, PastSuites
<1>3. s \in Under(Current)
  BY <1>1, <1>2, TestsNested
<1>4. \A x \in Suites : Current \in Under(x) => src[x] = Index
  <2> SUFFICES ASSUME NEW x \in Suites, Current \in Under(x), x \in SplitSuites
               PROVE  FALSE
    BY DEF SplitSuites
  <2>1. s \in Under(x)
    BY <1>1, <1>3, UnderTransitive
  <2>2. s = x
    BY <2>1 DEF SplitOK
  <2> QED BY <1>2, <2>2
<1>5. Current \in Under(Current)
  BY <1>1, UnderFacts
<1> QED BY <1>1, <1>4, <1>5 DEF FileOf

LEMMA TeardownKeeps ==
  ASSUME ResultBookkeeping, OutputBookkeeping, OutputRunSuiteTeardown
  PROVE  OutputBookkeeping'
<1> USE DEF OutputBookkeeping
<1> DEFINE st == teardownStatus'[Current]
           new == <<writer, Element("teardown", Current, Current, st)>>
<1>1. /\ running # <<>> /\ Current \in Suites /\ phase[Current] = "teardown"
      /\ GoTo("end") /\ running' = running /\ test' = test
  BY CurrentType DEF OutputRunSuiteTeardown, RunSuiteTeardown, At, ResultBookkeeping, testVars
<1>2. test = NoTest
  BY SuiteStepBetweenTests DEF OutputRunSuiteTeardown, SuiteStep, ResultBookkeeping
<1>3. PICK outcome \in Outcomes :
        /\ teardownStatus' = [teardownStatus EXCEPT ![Current] =
                                IF Failed(outcome) THEN "FAIL" ELSE "PASS"]
        /\ IF Failed(outcome) THEN SuiteTeardownFailed
                              ELSE UNCHANGED <<stats, suiteStatus, status>>
  BY DEF OutputRunSuiteTeardown, RunSuiteTeardown
<1>4. /\ st = IF Failed(outcome) THEN "FAIL" ELSE "PASS"
      /\ teardownStatus[Current] = "NOT_RUN"
      /\ \A s \in Suites : s # Current => teardownStatus'[s] = teardownStatus[s]
  BY <1>1, <1>3 DEF ResultBookkeeping, TypeOK, DoneOK
<1>5. /\ elements' = elements \cup {new}
      /\ UNCHANGED <<suiteLevel, writer, indexWriter, outputCount, logCount, src,
                     closed, outputFile, logFile, splitLog>>
  BY DEF OutputRunSuiteTeardown, Write
<1>6. writer = FileOf(Current) /\ writer \in Files
  BY <1>1, WriterIsCurrent DEF ResultBookkeeping, OutputTypeOK
<1>7. \A s \in Suites : /\ phase'[s] = "NOT_RUN" <=> phase[s] = "NOT_RUN"
                        /\ phase[s] = "ended" => phase'[s] = "ended"
  BY <1>1 DEF GoTo, ResultBookkeeping, TypeOK
<1>8. /\ WriterOK' /\ SplitOK' /\ StartedAboveOK' /\ CurrentFileIsNamed'
      /\ \A s \in Suites : FileOf(s)' = FileOf(s)
  BY <1>1, <1>5, <1>7, FilesKept, TreeAssumption
<1>9. /\ ~Failed(outcome) => status' = status
      /\ Failed(outcome) => \A t \in Tests :
           status'[t] = IF t \in TestsUnder(Current) THEN "FAIL" ELSE status[t]
  BY <1>3 DEF SuiteTeardownFailed
<1>10. \A t : FailedTeardownAbove(t) => FailedTeardownAbove(t)'
  BY <1>4 DEF FailedTeardownAbove
<1>11. \A t \in TestsUnder(Current) : t # test /\ status[t] \in {"PASS", "FAIL"}
  BY <1>1, TestsDecided DEF PastTests, ResultBookkeeping
<1>12. OutputTypeOK'
  <2>1. new \in Files \X [kind: {"test", "teardown", "suite"}, suite: Suites,
                          item: Suites \cup Tests, status: {"PASS", "FAIL"}]
    BY <1>1, <1>4, <1>6, WrittenType
  <2> HIDE DEF new
  <2> QED BY <1>1, <1>5, <2>1 DEF OutputTypeOK
<1>13. TeardownsOK'
  <2> SUFFICES ASSUME NEW s \in Suites
               PROVE  <<FileOf(s)', Element("teardown", s, s, "FAIL")>> \in elements'
                        <=> teardownStatus'[s] = "FAIL"
    BY DEF TeardownsOK, Element
  <2>1. <<FileOf(s), Element("teardown", s, s, "FAIL")>> \in elements
          <=> teardownStatus[s] = "FAIL"
    BY DEF ElementsOK, TeardownsOK
  <2>2. CASE s # Current
    <3>1. <<FileOf(s), Element("teardown", s, s, "FAIL")>> # new
      BY <2>2 DEF Element
    <3> HIDE DEF new
    <3> QED BY <1>4, <1>5, <1>8, <2>1, <2>2, <3>1
  <2>3. CASE s = Current
    <3>1. <<FileOf(s), Element("teardown", s, s, "FAIL")>> = new <=> st = "FAIL"
      BY <1>6, <2>3 DEF Element
    <3> HIDE DEF new
    <3> QED BY <1>4, <1>5, <1>8, <2>1, <2>3, <3>1
  <2> QED BY <2>2, <2>3
<1>14. TestElementsOK'
  <2> SUFFICES ASSUME NEW s \in Suites, NEW t \in Range(TestsOf[s])
               PROVE  IF t = test' \/ status'[t] = "NOT_RUN" THEN ElementsOf(t, s)' = {}
                      ELSE WrittenOnce(t, s)'
    BY DEF TestElementsOK
  <2>1. t \in Tests
    BY TestsUnderFacts
  <2>2. ElementsOf(t, s)' = ElementsOf(t, s)
    <3>1. new[2].kind = "teardown"
      BY DEF Element
    <3> HIDE DEF new
    <3> QED BY <1>5, <1>8, <3>1 DEF ElementsOf
  <2>3. IF t = test \/ status[t] = "NOT_RUN" THEN ElementsOf(t, s) = {} ELSE WrittenOnce(t, s)
    BY DEF ElementsOK, TestElementsOK
  <2>4. CASE Failed(outcome) /\ t \in TestsUnder(Current)
    <3>1. status'[t] = "FAIL" /\ FailedTeardownAbove(t)'
      BY <1>1, <1>4, <1>9, <2>1, <2>4 DEF FailedTeardownAbove
    <3> QED BY <1>1, <1>8, <1>11, <2>2, <2>3, <2>4, <3>1 DEF WrittenOnce
  <2>5. CASE ~(Failed(outcome) /\ t \in TestsUnder(Current))
    <3>1. status'[t] = status[t]
      BY <1>9, <2>1, <2>5
    <3> QED BY <1>1, <1>8, <1>10, <2>2, <2>3, <3>1 DEF WrittenOnce
  <2> QED BY <2>4, <2>5
<1>15. \A e \in elements' : phase'[e[2].suite] # "NOT_RUN"
  <2>1. new[2].suite = Current
    BY DEF Element
  <2> HIDE DEF new
  <2> QED BY <1>1, <1>5, <1>7, <2>1 DEF ElementsOK, OutputTypeOK
<1>16. SplitLogOK'
  BY <1>5, <1>7 DEF SplitLogOK, SplitSuites
<1>17. SplitLogsRightSoFar'
  <2> SUFFICES ASSUME NEW t \in Tests, splitLog[t] # "NOT_RUN"
               PROVE  \/ splitLog[t] = status'[t]
                      \/ \E s \in Suites : /\ t \in TestsUnder(s) /\ src[s] = Index
                                           /\ teardownStatus'[s] = "FAIL"
                                           /\ FileOf(s) = Index
    BY <1>5, <1>8 DEF SplitLogsRightSoFar
  <2>1. CASE Failed(outcome) /\ t \in TestsUnder(Current)
    <3>1. PICK s \in SplitSuites : t \in TestsUnder(s) /\ phase[s] = "ended"
      BY DEF SplitLogOK
    <3>2. src[Current] = Index /\ FileOf(Current) = Index
      BY <1>1, <2>1, <3>1, AboveSplitSuite
    <3> QED BY <1>1, <1>4, <2>1, <3>2
  <2>2. CASE ~(Failed(outcome) /\ t \in TestsUnder(Current))
    BY <1>4, <1>9, <2>2 DEF SplitLogsRightSoFar
  <2> QED BY <2>1, <2>2
<1> QED BY <1>8, <1>12, <1>13, <1>14, <1>15, <1>16, <1>17 DEF ElementsOK

-----------------------------------------------------------------------------
(* Suites that start and end *)

LEMMA ElementsKept ==
  ASSUME ResultBookkeeping, OutputTypeOK, StartedAboveOK, ElementsOK,
         elements \subseteq elements',
         \A e \in elements' : e \in elements \/ (/\ e[2].kind = "suite"
                                                 /\ phase'[e[2].suite] # "NOT_RUN"),
         \A x \in Suites : phase[x] # "NOT_RUN" => src'[x] = src[x] /\ phase'[x] # "NOT_RUN",
         UNCHANGED <<status, test, teardownStatus>>
  PROVE  ElementsOK'
<1>1. \A e \in elements' : phase'[e[2].suite] # "NOT_RUN"
  BY DEF ElementsOK, OutputTypeOK
<1>2. \A s \in Suites : phase[s] # "NOT_RUN" => FileOf(s)' = FileOf(s)
  BY FileKept
<1>3. \A s \in Suites : phase[s] = "NOT_RUN" => \A e \in elements : e[2].suite # s
  BY DEF ElementsOK
<1>4. TeardownsOK'
  <2> SUFFICES ASSUME NEW s \in Suites
               PROVE  <<FileOf(s)', Element("teardown", s, s, "FAIL")>> \in elements'
                        <=> teardownStatus[s] = "FAIL"
    BY DEF TeardownsOK, Element
  <2> DEFINE e(f) == <<f, Element("teardown", s, s, "FAIL")>>
  <2>1. \A f : e(f)[2].kind = "teardown" /\ e(f)[2].suite = s
    BY DEF Element
  <2>2. e(FileOf(s)) \in elements <=> teardownStatus[s] = "FAIL"
    BY DEF ElementsOK, TeardownsOK
  <2> HIDE DEF e
  <2>3. \A f : e(f) \in elements' <=> e(f) \in elements
    BY <2>1
  <2>4. e(FileOf(s)') \in elements' <=> teardownStatus[s] = "FAIL"
    <3>1. CASE phase[s] # "NOT_RUN"
      BY <1>2, <2>2, <2>3, <3>1
    <3>2. CASE phase[s] = "NOT_RUN"
      <4>1. teardownStatus[s] # "FAIL"
        BY <3>2 DEF ResultBookkeeping, DoneOK
      <4> QED BY <1>3, <2>1, <2>3, <3>2, <4>1
    <3> QED BY <3>1, <3>2
  <2> QED BY <2>4 DEF e
<1>5. TestElementsOK'
  <2> SUFFICES ASSUME NEW s \in Suites, NEW t \in Range(TestsOf[s])
               PROVE  IF t = test \/ status[t] = "NOT_RUN" THEN ElementsOf(t, s)' = {}
                      ELSE WrittenOnce(t, s)'
    BY DEF TestElementsOK
  <2>1. IF t = test \/ status[t] = "NOT_RUN" THEN ElementsOf(t, s) = {} ELSE WrittenOnce(t, s)
    BY DEF ElementsOK, TestElementsOK
  <2>2. FailedTeardownAbove(t)' <=> FailedTeardownAbove(t)
    BY DEF FailedTeardownAbove
  <2>3. CASE phase[s] # "NOT_RUN"
    <3>1. ElementsOf(t, s)' = ElementsOf(t, s)
      BY <1>2, <2>3 DEF ElementsOf
    <3> QED BY <1>2, <2>1, <2>2, <2>3, <3>1 DEF WrittenOnce
  <2>4. CASE phase[s] = "NOT_RUN"
    <3>1. ElementsOf(t, s) = {} /\ ElementsOf(t, s)' = {}
      BY <1>3, <2>4 DEF ElementsOf
    <3>2. ~WrittenOnce(t, s)
      BY <3>1 DEF WrittenOnce
    <3> QED BY <2>1, <3>1, <3>2
  <2> QED BY <2>3, <2>4
<1> QED BY <1>1, <1>4, <1>5 DEF ElementsOK

\* Split logs that were written stay as right as they were.
LEMMA LogsKept ==
  ASSUME ResultBookkeeping, OutputBookkeeping,
         \A x \in Suites : phase[x] # "NOT_RUN" => src'[x] = src[x] /\ phase'[x] # "NOT_RUN",
         \A x \in Suites : phase[x] = "ended" => phase'[x] = "ended",
         UNCHANGED <<status, test, teardownStatus>>,
         \A t \in Tests : splitLog'[t] = splitLog[t] \/ (/\ splitLog'[t] = status[t]
                            /\ \E s \in SplitSuites' : t \in TestsUnder(s) /\ phase'[s] = "ended")
  PROVE  SplitLogOK' /\ SplitLogsRightSoFar'
<1> USE DEF OutputBookkeeping
<1>1. SplitLogOK'
  BY DEF SplitLogOK, SplitSuites
<1>2. SplitLogsRightSoFar'
  <2> SUFFICES ASSUME NEW t \in Tests, splitLog'[t] # "NOT_RUN", splitLog'[t] # status[t]
               PROVE  \E s \in Suites : /\ t \in TestsUnder(s) /\ src'[s] = Index
                                        /\ teardownStatus[s] = "FAIL" /\ FileOf(s)' = Index
    BY DEF SplitLogsRightSoFar
  <2>1. PICK s \in Suites : /\ t \in TestsUnder(s) /\ src[s] = Index
                            /\ teardownStatus[s] = "FAIL" /\ FileOf(s) = Index
    BY DEF SplitLogsRightSoFar
  <2>2. phase[s] # "NOT_RUN"
    BY <2>1 DEF ResultBookkeeping, DoneOK
  <2>3. FileOf(s)' = FileOf(s) /\ src'[s] = src[s]
    BY <2>2, FileKept
  <2> QED BY <2>1, <2>3
<1> QED BY <1>1, <1>2

\* The suite that starts, and what is above it.
LEMMA OutputStarts ==
  ASSUME ResultBookkeeping, OutputStartRootSuite \/ OutputRunSubSuite
  PROVE  \E s \in Suites, initErr \in BOOLEAN :
           /\ StartRun(s, initErr) /\ StartSuiteOutput(s) /\ phase[s] = "NOT_RUN"
           /\ \A x \in Suites : s \in Under(x) => x = s \/ x \in Range(running)
<1> USE DEF ResultBookkeeping
<1>1. PICK s \in Suites, initErr \in BOOLEAN :
        /\ StartRun(s, initErr) /\ phase[s] = "NOT_RUN"
        /\ running # <<>> => s \in Range(SubSuites[Current])
  BY StartsBelow DEF OutputStartRootSuite, OutputRunSubSuite
<1>2. running \in Seq(Suites) /\ running' = Append(running, s)
  BY <1>1 DEF StartRun, TypeOK
<1>3. PICK c : StartSuiteOutput(c) /\ running' = Append(running, c) /\ c \in Suites
              /\ (running = <<>> => c = Root)
  <2>1. CASE OutputStartRootSuite
    BY <2>1, TreeAssumption DEF OutputStartRootSuite, StartRootSuite, StartRun
  <2>2. CASE OutputRunSubSuite
    <3> DEFINE k == nextSuite[Current]
    <3>1. /\ running # <<>> /\ k <= Len(SubSuites[Current])
          /\ StartSuiteOutput(SubSuites[Current][k])
          /\ running' = Append(running, SubSuites[Current][k])
      BY <2>2 DEF OutputRunSubSuite, RunSubSuite, At, StartRun
    <3>2. Current \in Suites /\ k \in Nat \ {0} /\ SubSuites[Current] \in Seq(Suites)
      BY <3>1, CurrentType, TreeAssumption DEF TypeOK
    <3>3. SubSuites[Current][k] \in Suites
      BY <3>1, <3>2, ElementOfSeq
    <3> QED BY <3>1, <3>3
  <2> QED BY <2>1, <2>2
<1>4. c = s
  <2>1. Append(running, s)[Len(running) + 1] = s
    BY <1>2, AppendProperties
  <2>2. Append(running, c)[Len(running) + 1] = c
    BY <1>2, <1>3, AppendProperties
  <2> QED BY <1>2, <1>3, <2>1, <2>2
<1>5. ASSUME NEW x \in Suites, s \in Under(x), x # s PROVE x \in Range(running)
  <2>1. CASE running = <<>>
    <3>1. s = Root
      BY <1>3, <1>4, <2>1
    <3> DEFINE S == Suites \ {Root}
    <3>2. \A y \in S : \A z \in Range(SubSuites[y]) : z \in S
      <4>1. ASSUME NEW y \in S, NEW z \in Range(SubSuites[y]) PROVE z \in S
        <5>1. Range(SubSuites[y]) \subseteq Suites /\ Root \notin Range(SubSuites[y])
          BY RangeType, TreeAssumption
        <5> QED BY <5>1
      <4> QED BY <4>1
    <3>3. Under(x) \subseteq S
      <4>1. S \in SUBSET Suites /\ x \in S
        BY <1>5, <3>1
      <4> HIDE DEF S
      <4> QED BY <3>2, <4>1, UnderLeast
    <3> QED BY <1>5, <3>1, <3>3
  <2>2. CASE running # <<>>
    <3>1. Current \in Suites /\ s \in Range(SubSuites[Current])
      BY <1>1, <2>2, CurrentType
    <3>2. Current \in Under(x)
      BY <1>5, <3>1, ParentUnder
    <3> QED BY <2>2, <3>2, SuitesAboveAreRunning DEF ErrorBookkeeping
  <2> QED BY <2>1, <2>2
<1> QED BY <1>1, <1>3, <1>4, <1>5

LEMMA StartKeeps ==
  ASSUME ResultBookkeeping, OutputBookkeeping, OutputStartRootSuite \/ OutputRunSubSuite
  PROVE  OutputBookkeeping'
<1> USE DEF OutputBookkeeping
<1> DEFINE n == Len(running)
<1>1. PICK s \in Suites, initErr \in BOOLEAN :
        /\ StartRun(s, initErr) /\ StartSuiteOutput(s) /\ phase[s] = "NOT_RUN"
        /\ \A x \in Suites : s \in Under(x) => x = s \/ x \in Range(running)
  BY OutputStarts
<1>2. /\ running \in Seq(Suites) /\ n \in Nat /\ DOMAIN running = 1 .. n
      /\ DOMAIN running' = 1 .. n + 1 /\ Len(running') = n + 1
      /\ \A i \in 1 .. n : running'[i] = running[i]
      /\ running'[n + 1] = s
  <2>1. running \in Seq(Suites) /\ running' = Append(running, s)
    BY <1>1 DEF StartRun, ResultBookkeeping, TypeOK
  <2>2. /\ Append(running, s) \in Seq(Suites) /\ Len(Append(running, s)) = n + 1
        /\ \A i \in 1 .. n : Append(running, s)[i] = running[i]
        /\ Append(running, s)[n + 1] = s
    BY <2>1, AppendProperties
  <2>3. n \in Nat /\ DOMAIN running = 1 .. n /\ DOMAIN Append(running, s) = 1 .. n + 1
    BY <2>1, <2>2, LenProperties
  <2> QED BY <2>1, <2>2, <2>3
<1>3. /\ \A i \in 1 .. n : running[i] \in Suites /\ phase[running[i]] # "NOT_RUN"
      /\ \A i \in 1 .. n : running[i] # s
  <2>1. \A i \in 1 .. n : running[i] \in Suites
    BY <1>2, ElementOfSeq
  <2>2. \A i \in 1 .. n : phase[running[i]] # "NOT_RUN"
    BY <1>2 DEF ResultBookkeeping, ErrorBookkeeping, StackOK
  <2> QED BY <1>1, <2>1, <2>2
<1>4. /\ phase' = [phase EXCEPT ![s] = "setup"]
      /\ UNCHANGED <<status, test, teardownStatus>>
  BY <1>1 DEF StartRun, testVars
<1>5. /\ \A x \in Suites : phase[x] # "NOT_RUN" => phase'[x] = phase[x]
      /\ phase'[s] = "setup"
      /\ \A x \in Suites \ {s} : phase'[x] = phase[x]
  BY <1>1, <1>4 DEF ResultBookkeeping, TypeOK
<1>6. \A x \in Suites : s \in Under(x) => x = s \/ \E i \in 1 .. n : x = running[i]
  BY <1>1, <1>2 DEF Range
<1>7. \A c \in Under(s) : phase[c] = "NOT_RUN"
  BY <1>1 DEF StartedAboveOK
<1>8. src[s] = Index /\ s \notin SplitSuites
  BY <1>1 DEF SplitOK, SplitSuites
<1>9. /\ suiteLevel = n /\ suiteLevel' = n + 1
      /\ elements' = elements /\ closed' = closed /\ splitLog' = splitLog
  BY <1>1 DEF StartSuiteOutput, OutputTypeOK
<1>10. SplitLevel \in {-1} \cup (Nat \ {0})
  BY SplitAssumption
<1>11. StartedAboveOK'
  <2> SUFFICES ASSUME NEW x \in Suites, NEW c \in Under(x), phase'[c] # "NOT_RUN"
               PROVE  phase'[x] # "NOT_RUN"
    BY DEF StartedAboveOK
  <2>1. c \in Suites
    BY UnderFacts
  <2>2. CASE c = s
    BY <1>3, <1>5, <1>6, <2>2
  <2>3. CASE c # s
    BY <1>5, <2>1, <2>3 DEF StartedAboveOK
  <2> QED BY <2>2, <2>3
<1>12. ASSUME n = SplitLevel
       PROVE  /\ src' = [src EXCEPT ![s] = outputCount + 1] /\ writer' = outputCount + 1
              /\ outputCount' = outputCount + 1 /\ indexWriter' = Index
              /\ outputCount \in Nat /\ outputCount + 1 \in Files
              /\ SplitSuites' = SplitSuites \cup {s}
              /\ Cardinality(SplitSuites') = outputCount + 1
  <2>1. /\ src' = [src EXCEPT ![s] = outputCount + 1] /\ writer' = outputCount + 1
        /\ outputCount' = outputCount + 1 /\ indexWriter' = writer
    BY <1>1, <1>9, <1>12 DEF StartSuiteOutput
  <2>2. writer = Index
    BY <1>2, <1>12 DEF WriterOK
  <2>3. IsFiniteSet(Suites) /\ SplitSuites \subseteq Suites
    BY OutputTreeAssumption DEF SplitSuites
  <2>4. IsFiniteSet(SplitSuites) /\ outputCount = Cardinality(SplitSuites) /\ outputCount \in Nat
    BY <2>3, FS_Subset, FS_CardinalityType DEF WriterOK
  <2>5. SplitSuites' = SplitSuites \cup {s}
    <3>1. src'[s] = outputCount + 1 /\ \A x \in Suites : x # s => src'[x] = src[x]
      BY <2>1 DEF OutputTypeOK
    <3>2. outputCount + 1 # Index
      BY <2>4 DEF Index
    <3> QED BY <3>1, <3>2 DEF SplitSuites
  <2>6. Cardinality(SplitSuites \cup {s}) = outputCount + 1
    BY <1>8, <2>4, FS_AddElement
  <2>7. SplitSuites \cup {s} \subseteq Suites
    BY <2>3
  <2>8. Cardinality(SplitSuites \cup {s}) <= Cardinality(Suites) /\ Cardinality(Suites) \in Nat
    BY <2>3, <2>7, FS_Subset, FS_CardinalityType
  <2> QED BY <2>1, <2>2, <2>4, <2>5, <2>6, <2>8 DEF Files
<1>13. ASSUME n # SplitLevel
       PROVE  /\ UNCHANGED <<outputCount, src, indexWriter, writer, logCount>>
              /\ SplitSuites' = SplitSuites
  BY <1>1, <1>9, <1>13 DEF StartSuiteOutput, SplitSuites
<1>14. \A x \in Suites : x # s => src'[x] = src[x]
  BY <1>12, <1>13 DEF OutputTypeOK
<1>15. WithLog => logCount' = outputCount'
  BY <1>1, <1>9, <1>12, <1>13 DEF StartSuiteOutput, WriterOK
<1>16. WriterOK'
  <2>1. Index \in closed' => phase'[Root] = "ended"
    BY <1>5, <1>9, TreeAssumption DEF WriterOK
  <2>2. CASE n = SplitLevel
    <3>1. SplitLevel # -1 /\ n + 1 > SplitLevel /\ running'[SplitLevel + 1] = s
      BY <1>2, <2>2
    <3>2. src'[s] = outputCount + 1
      BY <1>12, <2>2 DEF OutputTypeOK
    <3> QED BY <1>2, <1>12, <1>15, <2>1, <2>2, <3>1, <3>2 DEF WriterOK
  <2>3. CASE n # SplitLevel
    <3>1. CASE SplitLevel # -1 /\ n + 1 > SplitLevel
      <4>1. n > SplitLevel /\ SplitLevel + 1 \in 1 .. n
        <5>1. n \in Nat /\ SplitLevel \in Nat \ {0} /\ n # SplitLevel /\ n + 1 > SplitLevel
          BY <1>2, <1>10, <2>3, <3>1
        <5> HIDE DEF n
        <5> QED BY <5>1
      <4> QED BY <1>2, <1>13, <1>15, <2>1, <2>3, <3>1, <4>1 DEF WriterOK
    <3>2. CASE ~(SplitLevel # -1 /\ n + 1 > SplitLevel)
      <4>1. ~(SplitLevel # -1 /\ n > SplitLevel)
        BY <1>2, <1>10, <3>2
      <4> QED BY <1>2, <1>13, <1>15, <2>1, <2>3, <3>2, <4>1 DEF WriterOK
    <3> QED BY <3>1, <3>2
  <2> QED BY <2>2, <2>3
<1>17. SplitOK'
  <2>1. \A i \in DOMAIN running' : src'[running'[i]] # Index <=> i = SplitLevel + 1
    <3> SUFFICES ASSUME NEW i \in 1 .. n + 1
                 PROVE  src'[running'[i]] # Index <=> i = SplitLevel + 1
      BY <1>2
    <3>1. CASE i \in 1 .. n
      BY <1>2, <1>3, <1>14, <3>1 DEF SplitOK
    <3>2. CASE i = n + 1
      <4>1. src'[running'[i]] # Index <=> n = SplitLevel
        <5>1. n = SplitLevel => src'[s] = outputCount + 1 /\ outputCount + 1 # Index
          BY <1>12 DEF OutputTypeOK, Index
        <5>2. n # SplitLevel => src'[s] = Index
          BY <1>8, <1>13
        <5> QED BY <1>2, <3>2, <5>1, <5>2
      <4> QED BY <1>2, <1>10, <3>2, <4>1
    <3> QED BY <1>2, <3>1, <3>2
  <2>2. \A x \in SplitSuites' : x \in Suites /\ phase'[x] # "NOT_RUN"
    BY <1>5, <1>12, <1>13 DEF SplitOK, SplitSuites
  <2>3. ASSUME NEW x \in SplitSuites', NEW y \in SplitSuites', y \in Under(x)
        PROVE  y = x
    <3>1. CASE n = SplitLevel /\ y = s /\ x # s
      <4>1. x \in SplitSuites /\ x \in Suites
        BY <1>12, <3>1 DEF SplitSuites
      <4>2. PICK i \in 1 .. n : x = running[i]
        BY <1>6, <2>3, <3>1, <4>1
      <4>3. i = SplitLevel + 1
        BY <1>2, <4>1, <4>2 DEF SplitOK, SplitSuites
      <4> QED BY <1>2, <3>1, <4>3
    <3>2. CASE n = SplitLevel /\ x = s /\ y # s
      <4>1. y \in SplitSuites
        BY <1>12, <3>2
      <4> QED BY <1>7, <2>3, <3>2, <4>1 DEF SplitOK
    <3>3. CASE x \in SplitSuites /\ y \in SplitSuites
      BY <2>3, <3>3 DEF SplitOK
    <3> QED BY <1>12, <1>13, <3>1, <3>2, <3>3
  <2> QED BY <2>1, <2>2, <2>3 DEF SplitOK
<1>18. Range(running') = Range(running) \cup {s}
  BY <1>2 DEF Range
<1>19. Range(running) \subseteq Suites /\ GlobalScope \notin Suites
  BY <1>2, RangeType, SplitAssumption
<1>20. CurrentFileIsNamed' /\ outputFile' \in [Scopes -> Files] /\ logFile' \in [Scopes -> Files]
  <2> DEFINE reach == Range(running) \cup {s}
  <2>1. /\ \A x \in Range(running) \cup {GlobalScope} :
             outputFile[x] = writer /\ (WithLog => logFile[x] = writer)
        /\ outputFile \in [Scopes -> Files] /\ logFile \in [Scopes -> Files]
        /\ writer \in Files
    BY DEF CurrentFileIsNamed, OutputTypeOK
  <2>2. CASE n = SplitLevel
    <3>1. /\ outputFile' = SetGlobal(NewNamespace(outputFile, s), outputCount + 1, reach)
          /\ logFile' = IF WithLog THEN SetGlobal(NewNamespace(logFile, s), logCount + 1, reach)
                        ELSE NewNamespace(logFile, s)
          /\ WithLog => logCount = outputCount
      BY <1>1, <1>9, <2>2 DEF StartSuiteOutput, WriterOK
    <3>2. \A var \in [Scopes -> Files] : NewNamespace(var, s) \in [Scopes -> Files]
      BY DEF NewNamespace, Scopes
    <3>3. /\ outputCount + 1 \in Files /\ writer' = outputCount + 1
      BY <1>12, <2>2
    <3>4. \A var \in [Scopes -> Files] :
            /\ SetGlobal(var, outputCount + 1, reach) \in [Scopes -> Files]
            /\ \A x \in reach \cup {GlobalScope} :
                 SetGlobal(var, outputCount + 1, reach)[x] = outputCount + 1
      BY <1>19, <3>3 DEF SetGlobal, Scopes
    <3>5. outputFile' \in [Scopes -> Files] /\ logFile' \in [Scopes -> Files]
      BY <2>1, <3>1, <3>2, <3>4
    <3>6. \A x \in reach \cup {GlobalScope} :
            outputFile'[x] = writer' /\ (WithLog => logFile'[x] = writer')
      BY <2>1, <3>1, <3>2, <3>3, <3>4
    <3> QED BY <1>18, <3>5, <3>6 DEF CurrentFileIsNamed
  <2>3. CASE n # SplitLevel
    <3>1. outputFile' = NewNamespace(outputFile, s) /\ logFile' = NewNamespace(logFile, s)
      BY <1>1, <1>9, <2>3 DEF StartSuiteOutput
    <3>2. outputFile' \in [Scopes -> Files] /\ logFile' \in [Scopes -> Files]
      BY <2>1, <3>1 DEF NewNamespace, Scopes
    <3>3. \A x \in Range(running) \cup {s, GlobalScope} :
            outputFile'[x] = writer /\ (WithLog => logFile'[x] = writer)
      BY <1>19, <2>1, <3>1 DEF NewNamespace, Scopes
    <3> QED BY <1>13, <1>18, <2>3, <3>2, <3>3 DEF CurrentFileIsNamed
  <2> QED BY <2>2, <2>3
<1>21. OutputTypeOK'
  <2>1. {writer', indexWriter', outputCount', logCount'} \subseteq Files /\ src' \in [Suites -> Files]
    <3>1. CASE n = SplitLevel
      <4>1. logCount' \in Files
        <5>1. WithLog => logCount' = outputCount + 1
          BY <1>12, <1>15, <3>1
        <5>2. ~WithLog => logCount' = logCount
          BY <1>1, <1>9, <3>1 DEF StartSuiteOutput
        <5> QED BY <1>12, <3>1, <5>1, <5>2 DEF OutputTypeOK
      <4>2. Index \in Files
        BY DEF OutputTypeOK, WriterOK
      <4> QED BY <1>12, <3>1, <4>1, <4>2 DEF OutputTypeOK
    <3>2. CASE n # SplitLevel
      BY <1>13, <3>2 DEF OutputTypeOK
    <3> QED BY <3>1, <3>2
  <2> QED BY <1>2, <1>9, <1>20, <2>1 DEF OutputTypeOK
<1>22. \A x \in Suites : phase[x] # "NOT_RUN" => src'[x] = src[x] /\ phase'[x] # "NOT_RUN"
  BY <1>1, <1>5, <1>14
<1>23. ElementsOK'
  BY <1>4, <1>9, <1>22, ElementsKept
<1>24. SplitLogOK' /\ SplitLogsRightSoFar'
  BY <1>4, <1>5, <1>9, <1>22, LogsKept
<1> QED BY <1>11, <1>16, <1>17, <1>20, <1>21, <1>23, <1>24

\* Reading a suite that is over, before any suite above it has failed.
LEMMA ReadIsRight ==
  ASSUME ResultBookkeeping, OutputBookkeeping, NEW top \in Suites,
         phase[top] \in PastTests, NEW t \in TestsUnder(top),
         \A x \in Suites : top \in Under(x) /\ teardownStatus[x] = "FAIL" => x = top
  PROVE  ReadStatus(t, top) = status[t] /\ status[t] \in {"PASS", "FAIL"}
<1> USE DEF ResultBookkeeping, OutputBookkeeping
<1>1. t # test /\ status[t] \in {"PASS", "FAIL"} /\ t \in Tests
  BY TestsDecided, TestsUnderFacts
<1> DEFINE s == CHOOSE x \in Suites : t \in Range(TestsOf[x])
<1>2. s \in Suites /\ t \in Range(TestsOf[s])
  BY TestsUnderFacts, UnderFacts
<1> DEFINE read == CHOOSE e \in ElementsOf(t, s) : TRUE
<1>3. ReadStatus(t, top) = IF TeardownFailedIn(t, top) THEN "FAIL" ELSE read[2].status
  BY DEF ReadStatus
<1> HIDE DEF s
<1>4. PICK st \in {"PASS", "FAIL"} :
        /\ ElementsOf(t, s) = {<<FileOf(s), Element("test", s, t, st)>>}
        /\ st = status[t] \/ FailedTeardownAbove(t)
  BY <1>1, <1>2 DEF ElementsOK, TestElementsOK, WrittenOnce
<1>5. read = <<FileOf(s), Element("test", s, t, st)>>
  BY <1>4
<1>6. read[2].status = st
  <2> HIDE DEF read
  <2> QED BY <1>5 DEF Element
<1>7. TeardownFailedIn(t, top) <=>
        \E x \in Under(top) : t \in TestsUnder(x) /\ teardownStatus[x] = "FAIL"
  BY UnderFacts DEF TeardownFailedIn, ElementsOK, TeardownsOK
<1>8. TeardownFailedIn(t, top) <=> FailedTeardownAbove(t)
  <2>1. ASSUME NEW x \in Suites, t \in TestsUnder(x), teardownStatus[x] = "FAIL"
        PROVE  x \in Under(top)
    <3>1. top \in Under(x) \/ x \in Under(top)
      BY <2>1, TestsNested
    <3> QED BY <2>1, <3>1, UnderFacts
  <2> QED BY <1>7, <2>1, UnderFacts DEF FailedTeardownAbove
<1>9. FailedTeardownAbove(t) => status[t] = "FAIL"
  BY <1>1 DEF VerdictsOK, VerdictOK
<1> QED BY <1>1, <1>3, <1>4, <1>6, <1>8, <1>9

LEMMA EndKeeps ==
  ASSUME ResultBookkeeping, OutputBookkeeping, OutputEndSuite
  PROVE  OutputBookkeeping'
<1> USE DEF OutputBookkeeping
<1> DEFINE n == Len(running)
           element == Element("suite", Current, Current, suiteStatus[Current])
<1>1. /\ running # <<>> /\ phase[Current] = "end" /\ Current \in Suites
      /\ phase' = [phase EXCEPT ![Current] = "ended"] /\ running' = Front(running)
      /\ UNCHANGED <<status, test, teardownStatus>> /\ EndSuiteOutput
  BY CurrentType DEF OutputEndSuite, EndSuite, At, GoTo, testVars, resultVars, ResultBookkeeping
<1>2. /\ n \in Nat \ {0} /\ DOMAIN running = 1 .. n /\ Current = running[n]
      /\ \A i \in 1 .. n : running[i] \in Suites
  BY <1>1, StackFacts DEF ResultBookkeeping
<1>3. /\ DOMAIN running' = 1 .. n - 1 /\ Len(running') = n - 1
      /\ \A i \in 1 .. n - 1 : running'[i] = running[i]
  <2>1. running \in Seq(Suites)
    BY DEF ResultBookkeeping, TypeOK
  <2>2. Front(running) \in Seq(Suites) /\ Len(Front(running)) = n - 1
        /\ \A i \in 1 .. n - 1 : Front(running)[i] = running[i]
    BY <1>1, <2>1, FrontType
  <2>3. DOMAIN Front(running) = 1 .. n - 1
    BY <2>2, LenProperties
  <2> QED BY <1>1, <2>2, <2>3
<1>4. /\ suiteLevel = n /\ suiteLevel' = n - 1
      /\ UNCHANGED <<indexWriter, outputCount, logCount, src>> /\ SplitSuites' = SplitSuites
  BY <1>1 DEF EndSuiteOutput, OutputTypeOK, SplitSuites
<1>5. /\ \A x \in Suites : phase[x] # "NOT_RUN" => src'[x] = src[x] /\ phase'[x] # "NOT_RUN"
      /\ \A x \in Suites : phase'[x] = "NOT_RUN" <=> phase[x] = "NOT_RUN"
      /\ \A x \in Suites : phase[x] = "ended" => phase'[x] = "ended"
      /\ phase'[Current] = "ended"
  BY <1>1, <1>4 DEF ResultBookkeeping, TypeOK
<1>6. SplitLevel \in {-1} \cup (Nat \ {0}) /\ SplitLevel \in Int
  BY SplitAssumption
<1>7. suiteStatus[Current] \in {"PASS", "FAIL"}
  BY <1>1 DEF ResultBookkeeping, CountedOK, Reported, StatusOf
<1>8. element.kind = "suite" /\ element.suite = Current
      /\ \A f \in Files : <<f, element>> \in
           Files \X [kind: {"test", "teardown", "suite"}, suite: Suites,
                     item: Suites \cup Tests, status: {"PASS", "FAIL"}]
  BY <1>1, <1>7, WrittenType DEF Element
<1>9. /\ elements \subseteq elements'
      /\ \A e \in elements' : e \in elements \/ (\E f \in Files : e = <<f, element>>)
  <2>1. writer \in Files /\ indexWriter \in Files
    BY DEF OutputTypeOK
  <2>2. elements' = elements \cup {<<writer, element>>, <<indexWriter, element>>}
        \/ elements' = elements \cup {<<writer, element>>}
    BY <1>1 DEF EndSuiteOutput
  <2> HIDE DEF element
  <2> QED BY <2>1, <2>2
<1> HIDE DEF element
<1>10. ElementsOK'
  <2>1. \A e \in elements' : e \in elements \/ (/\ e[2].kind = "suite"
                                                /\ phase'[e[2].suite] # "NOT_RUN")
    BY <1>5, <1>8, <1>9
  <2> QED BY <1>1, <1>5, <1>9, <2>1, ElementsKept
<1>11. StartedAboveOK'
  <2>1. \A s \in Suites : Under(s) \subseteq Suites
    BY UnderFacts
  <2> QED BY <1>5, <2>1 DEF StartedAboveOK
<1>12. SplitOK'
  <2>1. \A i \in DOMAIN running' : src'[running'[i]] # Index <=> i = SplitLevel + 1
    BY <1>2, <1>3, <1>4 DEF SplitOK
  <2> QED BY <1>4, <1>5, <2>1 DEF SplitOK, SplitSuites
<1>13. Range(running') \subseteq Range(running) /\ Current \in Range(running)
  BY <1>2, <1>3 DEF Range
<1>14. Index \in closed => phase'[Root] = "ended"
  BY <1>5, TreeAssumption DEF WriterOK
<1>15. indexWriter = Index /\ outputCount' = Cardinality(SplitSuites')
       /\ (WithLog => logCount' = outputCount') /\ Index \in Files
  BY <1>4 DEF WriterOK, OutputTypeOK
<1>16. CASE n - 1 # SplitLevel
  <2>1. UNCHANGED <<closed, writer, outputFile, logFile, splitLog>>
    BY <1>1, <1>4, <1>16 DEF EndSuiteOutput
  <2>2. WriterOK'
    <3>1. CASE SplitLevel # -1 /\ n > SplitLevel
      <4>1. /\ n - 1 > SplitLevel /\ SplitLevel + 1 \in 1 .. n - 1
        <5>1. n \in Nat /\ SplitLevel \in Nat \ {0} /\ n - 1 # SplitLevel /\ n > SplitLevel
          BY <1>2, <1>6, <1>16, <3>1
        <5> HIDE DEF n
        <5> QED BY <5>1
      <4> QED BY <1>3, <1>4, <1>14, <1>15, <2>1, <3>1, <4>1 DEF WriterOK
    <3>2. CASE ~(SplitLevel # -1 /\ n > SplitLevel)
      <4>1. ~(SplitLevel # -1 /\ n - 1 > SplitLevel)
        BY <1>2, <1>6, <3>2
      <4> QED BY <1>3, <1>4, <1>14, <1>15, <2>1, <3>2, <4>1 DEF WriterOK
    <3> QED BY <3>1, <3>2
  <2>3. CurrentFileIsNamed'
    BY <1>13, <2>1 DEF CurrentFileIsNamed
  <2>4. OutputTypeOK'
    BY <1>3, <1>4, <1>8, <1>9, <2>1 DEF OutputTypeOK
  <2>5. SplitLogOK' /\ SplitLogsRightSoFar'
    BY <1>1, <1>5, <2>1, LogsKept
  <2> QED BY <1>10, <1>11, <1>12, <2>2, <2>3, <2>4, <2>5
<1>17. CASE n - 1 = SplitLevel
  <2> DEFINE reach == Range(running)
  <2>1. /\ closed' = closed \cup {writer} /\ writer' = Index
        /\ outputFile' = SetGlobal(outputFile, Index, reach)
        /\ IF WithLog
           THEN /\ splitLog' = [t \in Tests |-> IF t \in TestsUnder(Current)
                                                THEN ReadStatus(t, Current) ELSE splitLog[t]]
                /\ logFile' = SetGlobal(logFile, Index, reach)
           ELSE UNCHANGED <<splitLog, logFile>>
    BY <1>1, <1>4, <1>15, <1>17 DEF EndSuiteOutput, BackToIndex
  <2>2. SplitLevel # -1 /\ n > SplitLevel /\ n = SplitLevel + 1
    <3>1. n \in Nat \ {0} /\ SplitLevel \in Int /\ n - 1 = SplitLevel
      BY <1>2, <1>6, <1>17
    <3> HIDE DEF n
    <3> QED BY <3>1
  <2>3. writer = src[Current] /\ src[Current] # Index
    BY <1>2, <2>2 DEF WriterOK, SplitOK
  <2>4. WriterOK'
    <3>1. ~(n - 1 > SplitLevel)
      BY <1>2, <1>17
    <3> QED BY <1>3, <1>4, <1>14, <1>15, <2>1, <2>3, <3>1 DEF WriterOK
  <2>5. Range(running) \subseteq Suites /\ GlobalScope \notin Suites
    BY <1>2, SplitAssumption DEF Range
  <2>6. \A var \in [Scopes -> Files] :
          /\ SetGlobal(var, Index, reach) \in [Scopes -> Files]
          /\ \A x \in reach \cup {GlobalScope} : SetGlobal(var, Index, reach)[x] = Index
    BY <1>15, <2>5 DEF SetGlobal, Scopes
  <2>7. /\ outputFile' \in [Scopes -> Files] /\ logFile' \in [Scopes -> Files]
        /\ CurrentFileIsNamed'
    BY <1>13, <2>1, <2>6 DEF CurrentFileIsNamed, OutputTypeOK
  <2>8. \A t \in TestsUnder(Current) :
          ReadStatus(t, Current) = status[t] /\ status[t] \in {"PASS", "FAIL"}
    <3>1. ASSUME NEW x \in Suites, Current \in Under(x), teardownStatus[x] = "FAIL"
          PROVE  x = Current
      <4>1. PICK i \in 1 .. n : x = running[i]
        BY <1>1, <1>2, <3>1, SuitesAboveAreRunning DEF ResultBookkeeping, ErrorBookkeeping, Range
      <4>2. i < n => phase[x] = "suites"
        BY <1>2, <4>1 DEF ResultBookkeeping, ErrorBookkeeping, StackOK
      <4>3. phase[x] \in {"end", "ended"}
        BY <3>1 DEF ResultBookkeeping, DoneOK
      <4> QED BY <1>2, <4>1, <4>2, <4>3
    <3>2. phase[Current] \in PastTests
      BY <1>1 DEF PastTests
    <3> QED BY <1>1, <3>1, <3>2, ReadIsRight
  <2>9. \A t \in Tests : splitLog'[t] = splitLog[t]
          \/ (t \in TestsUnder(Current) /\ splitLog'[t] = status[t])
    BY <2>1, <2>8
  <2>10. SplitLogOK' /\ SplitLogsRightSoFar'
    <3>1. Current \in SplitSuites'
      BY <1>1, <1>4, <2>3 DEF SplitSuites
    <3> QED BY <1>1, <1>5, <2>9, <3>1, LogsKept
  <2>11. splitLog' \in [Tests -> {"NOT_RUN", "PASS", "FAIL"}]
    BY <2>1, <2>8 DEF OutputTypeOK
  <2>12. OutputTypeOK'
    <3>1. closed' \subseteq Files /\ writer' \in Files
      BY <1>15, <2>1 DEF OutputTypeOK
    <3> QED BY <1>3, <1>4, <1>8, <1>9, <2>7, <2>11, <3>1 DEF OutputTypeOK
  <2> QED BY <1>10, <1>11, <1>12, <2>4, <2>7, <2>10, <2>12
<1> QED BY <1>16, <1>17

LEMMA CloseKeeps ==
  ASSUME OutputBookkeeping, CloseOutput
  PROVE  OutputBookkeeping'
<1> USE DEF OutputBookkeeping
<1>1. /\ phase[Root] = "ended" /\ closed' = closed \cup {writer}
      /\ UNCHANGED <<running, phase, status, test, teardownStatus>>
      /\ UNCHANGED <<suiteLevel, writer, indexWriter, outputCount, logCount, src, elements,
                     outputFile, logFile, splitLog>>
  BY DEF CloseOutput, vars, suiteVars, testVars, resultVars
<1>2. OutputTypeOK' /\ WriterOK' /\ SplitOK' /\ StartedAboveOK' /\ CurrentFileIsNamed'
  BY <1>1 DEF OutputTypeOK, WriterOK, SplitOK, SplitSuites, StartedAboveOK, CurrentFileIsNamed
<1>3. /\ \A s \in Suites : FileOf(s)' = FileOf(s)
      /\ \A s, t : ElementsOf(t, s)' = ElementsOf(t, s)
      /\ \A t : FailedTeardownAbove(t)' = FailedTeardownAbove(t)
  BY <1>1 DEF FileOf, ElementsOf, FailedTeardownAbove
<1>4. ElementsOK'
  BY <1>1, <1>3 DEF ElementsOK, TeardownsOK, TestElementsOK, WrittenOnce
<1>5. SplitLogOK' /\ SplitLogsRightSoFar'
  BY <1>1, <1>3 DEF SplitLogOK, SplitSuites, SplitLogsRightSoFar
<1> QED BY <1>2, <1>4, <1>5

-----------------------------------------------------------------------------
(* The whole run *)

LEMMA OutputStarted ==
  ASSUME OutputInit
  PROVE  OutputBookkeeping
<1> USE DEF OutputInit, Init
<1>1. DOMAIN running = {} /\ Len(running) = 0 /\ Range(running) = {}
  BY EmptySeq, LenProperties DEF Range
<1>2. \A s \in Suites : phase[s] = "NOT_RUN" /\ src[s] = Index /\ teardownStatus[s] = "NOT_RUN"
  OBVIOUS
<1>3. \A t \in Tests : status[t] = "NOT_RUN" /\ splitLog[t] = "NOT_RUN"
  OBVIOUS
<1>4. 0 \in Files /\ Index \in Files /\ Index = 0
  BY OutputTreeAssumption, FS_CardinalityType DEF Files, Index
<1>5. SplitSuites = {} /\ Cardinality({}) = 0
  BY <1>2, FS_EmptySet DEF SplitSuites
<1>6. OutputTypeOK
  BY <1>1, <1>4 DEF OutputTypeOK
<1>7. WriterOK
  <2>1. SplitLevel \in {-1} \cup (Nat \ {0})
    BY SplitAssumption
  <2>2. ~(SplitLevel # -1 /\ 0 > SplitLevel)
    BY <2>1
  <2> QED BY <1>1, <1>4, <1>5, <2>2 DEF WriterOK
<1>8. SplitOK /\ StartedAboveOK
  <2>1. \A s \in Suites : Under(s) \subseteq Suites
    BY UnderFacts
  <2> QED BY <1>1, <1>2, <1>5, <2>1 DEF SplitOK, StartedAboveOK
<1>9. CurrentFileIsNamed
  BY <1>1, <1>4 DEF CurrentFileIsNamed, Scopes
<1>10. ElementsOK
  <2>1. \A s \in Suites : \A t \in Range(TestsOf[s]) : t \in Tests
    BY TestsUnderFacts
  <2> QED BY <1>2, <1>3, <2>1 DEF ElementsOK, TeardownsOK, TestElementsOK, ElementsOf
<1>11. SplitLogOK /\ SplitLogsRightSoFar
  BY <1>3 DEF SplitLogOK, SplitLogsRightSoFar
<1> QED BY <1>6, <1>7, <1>8, <1>9, <1>10, <1>11 DEF OutputBookkeeping

\* Writing and reading are added to the steps of the run, none of which changes.
LEMMA OutputStepsRun ==
  ASSUME ResultBookkeeping, [OutputNext]_<<vars, fileVars>>
  PROVE  [Next]_vars
<1>1. CASE OtherStep
  BY <1>1, OtherSteps
<1>2. CASE OutputStartRootSuite \/ OutputRunSubSuite \/ OutputRunSuiteTeardown \/ OutputEndSuite
           \/ OutputEndTest
  BY <1>2 DEF OutputStartRootSuite, OutputRunSubSuite, OutputRunSuiteTeardown, OutputEndSuite,
     OutputEndTest, Next, SuiteStep, TestStep
<1>3. CASE CloseOutput \/ OutputOver \/ UNCHANGED <<vars, fileVars>>
  BY <1>3 DEF CloseOutput, OutputOver
<1> QED BY <1>1, <1>2, <1>3 DEF OutputNext

LEMMA OutputKept ==
  ASSUME ResultBookkeeping, OutputBookkeeping, [OutputNext]_<<vars, fileVars>>
  PROVE  OutputBookkeeping'
<1>1. CASE OutputOver \/ UNCHANGED <<vars, fileVars>>
  <2>1. UNCHANGED vars /\ UNCHANGED fileVars
    BY <1>1 DEF OutputOver
  <2>2. UNCHANGED <<running, phase, status, test, teardownStatus>>
    BY <2>1 DEF vars, suiteVars, testVars, resultVars
  <2> QED BY <2>1, <2>2, FilesSame
<1> QED BY <1>1, OtherKeeps, StartKeeps, TeardownKeeps, EndKeeps, EndTestKeeps, CloseKeeps
        DEF OutputNext

\* The inductive invariant: a run that writes output files is a run, and what it
\* has written so far belongs to what was run so far.
THEOREM OutputBookkeepingHolds ==
  OutputSpec => [](ResultBookkeeping /\ OutputBookkeeping)
<1>1. OutputInit => ResultBookkeeping /\ OutputBookkeeping
  BY InitResults, OutputStarted DEF OutputInit
<1>2. /\ ResultBookkeeping /\ OutputBookkeeping
      /\ [OutputNext]_<<vars, fileVars>>
      => (ResultBookkeeping /\ OutputBookkeeping)'
  BY OutputStepsRun, StepResults, OutputKept
<1> QED BY <1>1, <1>2, PTL DEF OutputSpec

\* The output files say what was run: reading the index and the split files that
\* it refers to gives every test the status it ended with, though suite teardowns
\* fail tests after they were written; the variables of every suite that is run
\* name the current file; and split logs are right but for teardowns above them
\* (output/xmllogger.py, output/output.py, output/readers.py).
THEOREM OutputsAreRightHolds == OutputSpec => []OutputsAreRight
<1>1. ASSUME ResultBookkeeping, OutputBookkeeping
      PROVE  OutputReproducesResults
  <2> SUFFICES ASSUME Index \in closed, NEW t \in Tests
               PROVE  /\ \A s \in Suites : t \in Range(TestsOf[s]) =>
                           Cardinality(ElementsOf(t, s)) = 1
                      /\ ReadStatus(t, Root) = status[t]
    BY DEF OutputReproducesResults
  <2>1. phase[Root] = "ended" /\ t \in TestsUnder(Root) /\ Root \in Suites
    BY <1>1, OutputTreeAssumption, TreeAssumption DEF OutputBookkeeping, WriterOK
  <2>2. phase[Root] \in PastTests
    BY <2>1 DEF PastTests
  <2>3. ASSUME NEW x \in Suites, Root \in Under(x) PROVE x = Root
    <3> SUFFICES ASSUME x # Root PROVE FALSE
      OBVIOUS
    <3> DEFINE S == Suites \ {Root}
    <3>1. \A y \in S : \A z \in Range(SubSuites[y]) : z \in S
      <4>1. ASSUME NEW y \in S, NEW z \in Range(SubSuites[y]) PROVE z \in S
        <5>1. Range(SubSuites[y]) \subseteq Suites /\ Root \notin Range(SubSuites[y])
          BY RangeType, TreeAssumption
        <5> QED BY <5>1
      <4> QED BY <4>1
    <3>2. S \in SUBSET Suites /\ x \in S /\ Root \notin S
      OBVIOUS
    <3> HIDE DEF S
    <3> QED BY <2>3, <3>1, <3>2, UnderLeast
  <2>4. ReadStatus(t, Root) = status[t]
    BY <1>1, <2>1, <2>2, <2>3, ReadIsRight
  <2>5. ASSUME NEW s \in Suites, t \in Range(TestsOf[s])
        PROVE  Cardinality(ElementsOf(t, s)) = 1
    <3>1. t # test /\ status[t] # "NOT_RUN"
      BY <1>1, <2>1, <2>2, TestsDecided DEF ResultBookkeeping
    <3>2. WrittenOnce(t, s)
      BY <1>1, <2>5, <3>1 DEF OutputBookkeeping, ElementsOK, TestElementsOK
    <3> QED BY <3>2, FS_Singleton DEF WrittenOnce
  <2> QED BY <2>4, <2>5
<1>2. ResultBookkeeping /\ OutputBookkeeping => OutputsAreRight
  BY <1>1 DEF OutputBookkeeping, OutputsAreRight
<1> QED BY <1>2, OutputBookkeepingHolds, PTL

=============================================================================
