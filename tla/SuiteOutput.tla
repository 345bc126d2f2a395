----------------------------- MODULE SuiteOutput -----------------------------
(***************************************************************************)
(* The output files of a test run: SuiteRun composed with the part of      *)
(* XmlLogger (output/xmllogger.py) and Output (output/output.py) that      *)
(* writes the results, possibly split to several files, and with the       *)
(* reader of output files (output/readers.py), from which logs and reports *)
(* are made.                                                               *)
(*                                                                         *)
(* A file is its running counter: file 0 is the index, which is the only   *)
(* output when outputs are not split.  An element of a file is a record:   *)
(* the suite element it is in, what it is about, and its status.           *)
(***************************************************************************)
EXTENDS SuiteRun

CONSTANTS
  SplitLevel,   \* --splitoutputs: suites of this level get their own files
  WithLog,      \* whether logs are created at all (--log)
  GlobalScope   \* stands for GLOBAL_VARIABLES

\* RobotSettings accepts positive integers and uses -1 for "not split".
ASSUME SplitAssumption ==
  /\ SplitLevel \in {-1} \cup (Nat \ {0})
  /\ WithLog \in BOOLEAN
  /\ GlobalScope \notin Suites

\* Every test is in a suite that is run.
ASSUME OutputTreeAssumption == IsFiniteSet(Suites) /\ TestsUnder(Root) = Tests

Index == 0

VARIABLES
  suiteLevel,    \* XmlLogger._suite_level
  writer,        \* the file XmlLogger writes to
  indexWriter,   \* the file it goes on with after a split suite
  outputCount,   \* output file names given by XmlLogger._namegen
  logCount,      \* log file names given by Output._namegen
  src,           \* the file the element of each suite refers to, Index if none
  elements,      \* the elements in each file, as <<file, element>>
  closed,        \* the files that have been closed
  outputFile,    \* ${OUTPUT_FILE} of each suite, and in the global variables
  logFile,       \* ${LOG_FILE} likewise
  splitLog       \* what the log of a split suite says of its tests

fileVars == <<suiteLevel, writer, indexWriter, outputCount, logCount, src,
              elements, closed, outputFile, logFile, splitLog>>

Scopes == Suites \cup {GlobalScope}

OutputInit ==
  /\ Init
  /\ suiteLevel = 0
  /\ writer = Index /\ indexWriter = Index
  /\ outputCount = 0 /\ logCount = 0
  /\ src = [s \in Suites |-> Index]
  /\ elements = {} /\ closed = {}
  /\ outputFile = [x \in Scopes |-> Index]
  /\ logFile = [x \in Scopes |-> Index]
  /\ splitLog = [t \in Tests |-> "NOT_RUN"]

-----------------------------------------------------------------------------
(* Reading output files *)

Element(kind, suite, item, st) ==
  [kind |-> kind, suite |-> suite, item |-> item, status |-> st]

\* The file with the contents of a suite's element (_get_node).
FileOf(s) ==
  LET split == {x \in Suites : s \in Under(x) /\ src[x] # Index}
  IN IF split = {} THEN Index ELSE src[CHOOSE x \in split : TRUE]

\* Mutant: only the suite the test is in is asked for its teardown.
OwnTeardownFailedIn(t, top) ==
  \E s \in Under(top) :
    /\ t \in Range(TestsOf[s])
    /\ <<FileOf(s), Element("teardown", s, s, "FAIL")>> \in elements

\* A suite below top that has t was read with a failed teardown.
TeardownFailedIn(t, top) ==
  \E s \in Under(top) :
    /\ t \in TestsUnder(s)
    /\ <<FileOf(s), Element("teardown", s, s, "FAIL")>> \in elements

ElementsOf(t, s) ==
  {e \in elements : e[1] = FileOf(s) /\ e[2].kind = "test"
                      /\ e[2].suite = s /\ e[2].item = t}

\* The status of t when the tree of top is read: TestSuite.__init__ reads the
\* tests and fails all of a suite's tests when its teardown is read as failed.
ReadStatus(t, top) ==
  LET s == CHOOSE x \in Suites : t \in Range(TestsOf[x])
      read == CHOOSE e \in ElementsOf(t, s) : TRUE
  IN IF TeardownFailedIn(t, top) THEN "FAIL" ELSE read[2].status

-----------------------------------------------------------------------------
(* Names of the current files *)

\* _VariableScopes.set_global: the global variables and the active suites.
SetGlobal(var, value, reach) ==
  [x \in Scopes |-> IF x = GlobalScope \/ x \in reach THEN value ELSE var[x]]

\* A new namespace takes the global variables.
NewNamespace(var, s) == [var EXCEPT ![s] = var[GlobalScope]]

-----------------------------------------------------------------------------
(* What the actions of SuiteRun write *)

\* start_suite of s, in _start_run after its namespace has been created.
StartSuiteOutput(s) ==
  LET reach == Range(running) \cup {s}
      file == outputCount + 1
      log == logCount + 1
      output0 == NewNamespace(outputFile, s)
      log0 == NewNamespace(logFile, s)
  IN /\ suiteLevel' = suiteLevel + 1
     /\ IF suiteLevel = SplitLevel
        THEN /\ outputCount' = file
             /\ src' = [src EXCEPT ![s] = file]
             /\ indexWriter' = writer
             /\ writer' = file
             /\ outputFile' = SetGlobal(output0, file, reach)
             /\ logCount' = IF WithLog THEN log ELSE logCount
             /\ logFile' = IF WithLog THEN SetGlobal(log0, log, reach) ELSE log0
        ELSE /\ outputFile' = output0
             /\ logFile' = log0
             /\ UNCHANGED <<outputCount, src, indexWriter, writer, logCount>>
     /\ UNCHANGED <<elements, closed, splitLog>>

\* The last lines of _end_split_output: the index is written again.
BackToIndex == writer' = indexWriter

\* end_suite of the innermost suite: its status is written, and a split file
\* is closed, its suite ended in the index too, and its log made from the file.
EndSuiteOutput ==
  LET element == Element("suite", Current, Current, suiteStatus[Current])
      reach == Range(running)
  IN /\ suiteLevel' = suiteLevel - 1
     /\ IF suiteLevel - 1 = SplitLevel
        THEN /\ elements' = elements \cup {<<writer, element>>, <<indexWriter, element>>}
             /\ closed' = closed \cup {writer}
             /\ BackToIndex
             /\ outputFile' = SetGlobal(outputFile, Index, reach)
             /\ IF WithLog
                THEN /\ splitLog' = [t \in Tests |->
                           IF t \in TestsUnder(Current)
                           THEN ReadStatus(t, Current) ELSE splitLog[t]]
                     /\ logFile' = SetGlobal(logFile, Index, reach)
                ELSE UNCHANGED <<splitLog, logFile>>
        ELSE /\ elements' = elements \cup {<<writer, element>>}
             /\ UNCHANGED <<closed, writer, outputFile, logFile, splitLog>>
     /\ UNCHANGED <<indexWriter, outputCount, logCount, src>>

\* end_test, and end_keyword of a suite's teardown.
Write(element) ==
  /\ elements' = elements \cup {<<writer, element>>}
  /\ UNCHANGED <<suiteLevel, writer, indexWriter, outputCount, logCount, src,
                 closed, outputFile, logFile, splitLog>>

-----------------------------------------------------------------------------
(* The actions of SuiteRun and what they write *)

OutputStartRootSuite == StartRootSuite /\ StartSuiteOutput(Root)

OutputRunSubSuite ==
  RunSubSuite /\ StartSuiteOutput(SubSuites[Current][nextSuite[Current]])

\* The status in the element is that of the keyword, which its end reports
\* before the suite's tests are failed.
OutputRunSuiteTeardown ==
  /\ RunSuiteTeardown
  /\ Write(Element("teardown", Current, Current, teardownStatus'[Current]))

OutputEndSuite == EndSuite /\ EndSuiteOutput

OutputEndTest ==
  EndTest /\ Write(Element("test", Current, test, status[test]))

\* Output.close, after the run: statistics and errors go to the index.
CloseOutput ==
  /\ phase[Root] = "ended"
  /\ Index \notin closed
  /\ closed' = closed \cup {writer}
  /\ UNCHANGED <<vars, suiteLevel, writer, indexWriter, outputCount, logCount,
                 src, elements, outputFile, logFile, splitLog>>

OtherStep ==
  /\ \/ RunSuiteSetup \/ SkipSuiteSetup \/ SubSuitesDone \/ TestsDone
     \/ ReportSuiteStatus \/ SkipSuiteTeardown
     \/ StartTest \/ NotAllowedToRun \/ RunTestSetup \/ RunKeywords
     \/ ReportTestStatus \/ RunTestTeardown \/ SkipTestTeardown
     \/ ReportAfterTeardown
  /\ UNCHANGED fileVars

OutputOver == Index \in closed /\ UNCHANGED <<vars, fileVars>>

OutputNext ==
  \/ OutputStartRootSuite \/ OutputRunSubSuite \/ OutputRunSuiteTeardown
  \/ OutputEndSuite \/ OutputEndTest \/ CloseOutput \/ OtherStep \/ OutputOver

OutputSpec == OutputInit /\ [][OutputNext]_<<vars, fileVars>>

-----------------------------------------------------------------------------
(* Properties *)

Files == 0 .. Cardinality(Suites)

\* The type invariant: counters stay below the number of suites and what is
\* written has a status the reader accepts.
OutputTypeOK ==
  /\ suiteLevel = Len(running)
  /\ {writer, indexWriter, outputCount, logCount} \subseteq Files
  /\ src \in [Suites -> Files]
  /\ elements \subseteq Files \X
       [kind: {"test", "teardown", "suite"}, suite: Suites,
        item: Suites \cup Tests, status: {"PASS", "FAIL"}]
  /\ closed \subseteq Files
  /\ outputFile \in [Scopes -> Files] /\ logFile \in [Scopes -> Files]
  /\ splitLog \in [Tests -> {"NOT_RUN", "PASS", "FAIL"}]

\* When the run is over, reading the index and the files it refers to finds
\* every test once and gives it the status it ended the run with: what a
\* failed suite teardown changed after a test was written, the reader changes
\* likewise, across the files of split outputs.
OutputReproducesResults ==
  Index \in closed => \A t \in Tests :
    /\ \A s \in Suites : t \in Range(TestsOf[s]) =>
         Cardinality(ElementsOf(t, s)) = 1
    /\ ReadStatus(t, Root) = status[t]

\* The user guide: ${OUTPUT_FILE} and ${LOG_FILE} always contain the path to
\* the current file.  Every suite being run, and the next one to be started,
\* has the name of the file that is written.
CurrentFileIsNamed ==
  \A x \in Range(running) \cup {GlobalScope} :
    /\ outputFile[x] = writer
    /\ WithLog => logFile[x] = writer

\* The log of a split suite is right about a test unless the teardown of a
\* suite above the split one fails later.
SplitLogsRightSoFar ==
  \A t \in Tests : splitLog[t] # "NOT_RUN" =>
    \/ splitLog[t] = status[t]
    \/ \E s \in Suites :
         /\ t \in TestsUnder(s) /\ src[s] = Index
         /\ teardownStatus[s] = "FAIL" /\ FileOf(s) = Index

\* The user guide: if the suite teardown fails, all tests in the suite are
\* marked failed afterwards in reports and logs.
SplitLogsShowResults ==
  Index \in closed =>
    \A t \in Tests : splitLog[t] # "NOT_RUN" => splitLog[t] = status[t]

\* What split outputs promise.
OutputsAreRight ==
  OutputTypeOK /\ OutputReproducesResults /\ CurrentFileIsNamed /\ SplitLogsRightSoFar
=============================================================================
