# Robot Framework in TLA+

This directory is a formal model of Robot Framework in `src/src/robot` (below
written without that prefix): TLA+ modules translated from the code, TLC
configurations that check them on small instances, and proofs for all instances
where TLAPS could be used. `PROJECT.json` maps each definition to the lines it
stands for and lists the runs, the hazards, the disagreements found and the
theorems.

## The system

Robot Framework runs test suites written in tables. The command line becomes
settings; data files become a tree of suites; the tree is run in one thread
(keywords with a timeout get a thread each, which the main thread waits for),
and every step is told to loggers, one of which writes an XML output file. Logs
and reports are made by reading that file again, at once or later by Rebot.

| Component | State it keeps | Operations | Module |
| --- | --- | --- | --- |
| Command line and settings: `utils/argumentparser.py`, `conf/settings.py`, `__init__.py` | parsed options; the options a program adds to a class attribute | argument files, spellings, escapes, settings of a run and of Rebot after it | `CommandLine` |
| Parsing: `parsing/` | a chain of populators, each with rows it keeps back; the state of the HTML reader | tables, rows, end of file; tags; which files of a directory are suites | `Populators`, `HtmlReader`, `TestDataDirectories` |
| Suites and tests: `running/model.py`, `fixture.py`, `runerrors.py` | statuses, statistics, stacks of the errors of enclosing suites, exit flags | run of suites and tests, setups, teardowns, errors, `suite_teardown_failed` | `SuiteRun`, `TestResults` |
| Keywords and failures: `running/keywords.py`, `userkeyword.py`, `errors.py`, run keyword variants | the call stack, failures collected so far and their flags | rows, for loops, user keywords, variants that catch, convert, retry or repeat | `KeywordRun` |
| Keyword resolution: `running/namespace.py`, `userkeyword.py` | imported files and libraries, search order | imports, search by name and full name | `KeywordLookup` |
| Arguments: `running/arguments.py`, `javaargcoercer.py` | none | limits, named arguments, defaults, varargs, coercion | `Arguments` |
| Libraries: `running/importer.py`, `testlibraries.py`, `handlers.py` | import cache, instance and instance stack per library, handlers | import, copy for a custom name, start and end hooks | `LibraryScopes` |
| Timeouts, threads, signals: `running/timeouts.py`, `signalhandler.py`, `utils/robotthread.py`, `stoppablethread.py` | start times, threads, stop flags, signal count, running flag | start of keywords, wait, expiry, stop, signals | `KeywordThreads` |
| Variables: `running/namespace.py`, `context.py`, `variables/` | stores of the globals, suites, tests and user keywords | Set keywords, imports, tables; replacing in texts and arguments | `VariableScopes`, `VariableReplacement` |
| Loggers and listeners: `output/logger.py`, `listeners.py`, `monitor.py`, `debugfile.py` | registered loggers, message cache, calls in progress | register, relay, send to all, fail, close | `Loggers` |
| Output files: `output/xmllogger.py`, `output.py`, `readers.py` | open and closed files, what is written, variables naming them | start and end of suites, tests, teardowns; closing; reading back | `SuiteOutput` |
| Results, Rebot, logs and reports: `common/`, `output/readers.py`, `serializing/` | the result tree, cached statistics, file names | read, combine, select, tag, remove keywords, count, link, write | `Results`, `ResultFiles`, `Rebot` |
| Templates: `serializing/templating.py` | functions, variables | lines, blocks, calls | `Templating` |
| Conditions and tags: `libraries/BuiltIn.py` | statuses and tags of tests | Run Keyword If Test Failed and its like, Set Tags, Remove Tags | `TestConditions` |
| robotdiff: `src/tools/robotdiff` | columns, rows of suites and tests | add an output, report | `OutputDiffs` |
| Standard libraries | files; lists and dictionaries; connections and processes | their keywords | `OperatingSystem`, `Paths`, `Collections`, `Connections`, `Verifications`, `Texts` |
| Remote libraries and servers: `libraries/Remote.py`, `RemoteB.py`, `src/tools/remoteserver` | libraries and state of the server, requests on their way | import, send a library, call, stop | `RemoteLibrary` |
| Utilities | dictionaries with normalized keys | normalize, match, escape; times | `Texts`, `Times` |

How they interact: a suite's `run` creates a namespace (libraries, variables),
tells the loggers about every start and end, and runs fixtures and tests; each
of these runs keywords, which are found in the namespace, get their arguments
with variables replaced, and use instances of libraries. A failing keyword
raises, and what reaches a fixture or a test goes to `SuiteRunErrors`, which
decides what runs next. Signals and timeouts are exceptions raised into a
keyword. The output changes variables (`${OUTPUT_FILE}`) through the namespace.

What is hard here: failures arrive at many levels and decide what may still
run; results change after they have been counted and written; errors,
instances and variables of enclosing scopes are saved by one hook and
restored by another; a keyword in a thread can end, hang, time out or be
interrupted at any moment; servers and files change while keywords wait for
them; listeners are called by what they call; rows are kept until later rows
tell what they are; texts are escaped in one place and unescaped in another.

## The modules

Every module uses one action per operation of the code, with the guard taken
from the code's conditions. An uncertain part of the environment (what a library
keyword does, whether a variable can be replaced, when a file appears) is a
choice. Algorithms without state are operators, which are applied by one action
to every input of the bounds.

**`SuiteRun`**. The recursion of `RunnableTestSuite.run` is the stack `running`;
`phase[s]` says where in `run` a suite is, `step` where in
`RunnableTestCase.run` the running test is. `currentInitErr`, `earlierInitErrs`
and so on are the fields of `SuiteRunErrors` with messages reduced to presence;
`exitRunmode` and `exitFatal` are its exit flags, `testErrs` is `TestRunErrors`.
A fixture or test body ends with `PASS`, `FAIL` or `EXIT` (a fatal failure).
Auxiliary variables record what failed and what ran. `Next` is every method of
the two `run`s. A fixture that is not defined is one that passes.

**`TestResults`** is what a run promises about verdicts without saying how:
one test at a time, in order, one verdict each, nothing passing after a stop, and
a change only to `FAIL`, for a whole suite. `SuiteRun!ImplementsResults` maps the
statuses to it.

**`SuiteOutput`** composes `SuiteRun` with the writer and the reader of output
files: each action that starts or ends something is the action of `SuiteRun`
conjoined with what is written. `writer`, `indexWriter`, `src` and
`suiteLevel` are the fields of `XmlLogger`; `ReadStatus` is what
`readers.TestSuite` makes of the files.

**`KeywordRun`**. The program is a tree of nodes; `stack` holds the calls and
`raised` what the last one left. A failure is a record of the flags of
`errors.py` (`timeout`, `syntax`, `exit`, `cont`, `exit_for_loop`), several
failures are a set, as in `ExecutionFailures`. User keywords, loops and every
kind of run keyword variant are actions.

**`KeywordLookup`**. `pending` is the list of imports that `_handle_imports` works
on, with those of resource files put in front. A name is a sequence of words;
`Handlers` is the set of what `get_handler` may find, with more than one element
where the order of a dictionary decides. A file that is there but invalid is remembered as
imported before it is read, so that only its first import is reported. `LeftOut` are the numbers of Given, When,
Then and And that `_get_bdd_style_handler` leaves out, one call after the other.

**`Arguments`** has the same call resolved as a keyword of Python, as a user
keyword, as a dry run and as a Java method resolve it, so that they can be compared.

**`LibraryScopes`**. A library object has a current instance, the list of
instances put aside (shared by copies, as in the code) and its handlers. `phase` says
where in its imports, setup, sub suites, tests, teardown or hooks each suite of
`running` is. The hooks of suites and tests push and pop the instances; `todo` are the
libraries whose hook is still to be called, one `Hook` after the other in any order, as they
come out of a dictionary. `ImportSetting` and `ImportLibrary` import one library, in
the settings and at run time.

**`KeywordThreads`**. `calls` is the stack of user and library keywords, `now` a
clock, `threads[i]` the state of each thread, `runningKeyword` and `signals` the
monitor's fields. Two are facts about the program that is run: `nests`, whether library
keywords in the main thread run others, and `recurs`, whether user keywords use themselves.
Whether a late keyword ends or its timeout expires first is a choice.

**`VariableScopes`**. Each namespace has the stores of a suite, its test and its
user keywords. One variable is followed; the values are numbered in the order they
are set. `log` remembers, with their times, the assignments that are in force and where:
in a scope, at a depth of suites and a level of user keywords. `deferred` are the times
that only keywords run later see, `forgotten` says that a suite of suites has ended since
the last test.
**`VariableReplacement`** is the text side: `Split` is the state machine of
`VariableSplitter`, and texts are put together from pieces (names, braces,
escapes). Values are texts, lists and objects. `rows` is a variable table, `table` what is
left to be set of it and `rowValues` what the rows before that had for a value, or that they
failed.

**`Loggers`**. A call of a method of `LOGGER` is a frame with the loggers it has
still to reach; a listener that fails (`Fail`) pushes the frames of the error messages on
top of it. What is raised out of `LOGGER` are actions of their own: `Raise` (a closed file, or
too much recursion), `RaiseExit` (KeyboardInterrupt, SystemExit and MemoryError, which
`get_error_details` raises again), `ImportExits` (the same from an import of a listener) and
`RaiseDataError` (an output file that cannot be opened). `RunFromCli` and `RunSuite` are the main
program.

**`RemoteLibrary`**. Requests have numbers and connections of their own; between
any two steps a connection may break, the keyword may time out and the server may
stop and be started again, without the libraries it was sent. `Inverted` is the function around
the call that makes the result of a `failed_` twin of it; a keyword timeout is raised
outside of it and fails both. What becomes of
values on their way (what `Remote` makes of arguments and the server of results, and what
XML-RPC has room for) are its constants `Converted`, `Returned` and `Sendable`, so that it can be
proved about without their recursion; `MCWaiting` gives them the conversions of the code,
`HandleArgument`, `HandleReturnValue` and `CanBeSent`.

**`Connections`**. The output of a server is a sequence of tokens, of which the
first ones have arrived; `StepsOf` lists the steps of each Telnet keyword, which returns what its last step
reads: the echo that Execute Command reads while it writes is dropped. Reading until the prompt fails
if none has been set, after the command has been sent. The same cache is used by
background processes.

**`OperatingSystem`**. The file system is a function from paths to directories and
files; a keyword gives the file systems it may leave behind, each with whether it failed,
since any of its calls to write, copy and remove can: `Rmtree` is `shutil.rmtree`, which goes
depth first in any order and stops at what it cannot remove, `Copytree` copies what it can and
reports the rest. The system under test changes files between the steps of keywords that wait. **`Paths`** is how paths are joined, normalized and split.

**`Populators`** follows one file row by row. Cells know their row and column, so
that the parsed data tell which cells they are made of. **`HtmlReader`** runs two
readers on the same tags, one of which does not get the optional ones.
**`TestDataDirectories`** is the recursion over directories.

**`CommandLine`** starts from the options that are meant, spells them and puts them
into files in every way, and parses what came out. A file may be missing.

**`Results`**, **`ResultFiles`** and **`Rebot`**: the result tree with its filters and
cached statistics; the files, anchors and links made of it; and the program that reads
outputs, changes the tree, and writes an output that it can read again.

**`OutputDiffs`** is robotdiff: outputs are added one by one, and each change of the
columns and rows can be read in a report.

**`TestConditions`**. The timeout of a test is a `timer` that is `"up"` at any moment, also in
the teardown, where Run Keyword If Timeout Occurred asks the clock; `late` are the tests in
which a timeout has occurred.

**`Times`**. A moment is a number of seconds and milliseconds. `Fraction` is what Python's
floats make of the milliseconds when they are cut off: a float of these years has 22 bits
behind the point.

**`Templating`**, **`Texts`**, **`Collections`**,
**`Verifications`**: the head of each says what it models.

## Runs

Components that share no state are checked together, so that one configuration covers
what belongs together: a variable `active` of the MC module says which of them runs, and the others
keep one initial state. Where the names differ, the property of the run is the
conjunction of the properties of the components, which are stated and explained
there.

| Run | What it shows |
| --- | --- |
| `suite_runs` | No test or setup is run under a failed initialization or setup; teardowns are run exactly for what was set up; verdicts have their causes, and statistics agree with statuses also after suite teardowns (`ResultsAreRight`); a stop and failures are final; the errors kept for enclosing suites are right; the run ends with a verdict for every test; and `SuiteRun` implements `TestResults`, its fairness included. |
| `split_outputs` | Reading split outputs back gives the final results; the variables name the file that is written; split logs show what was known then. |
| `keywords` | Which keywords run after a failure, in a test, a teardown, a template and a dry run (`ResultsAreComplete`), and that no failure is lost or invented on its way up (`FailuresGoUp`). Imports end and are complete; an invalid file is reported once and gives nothing; which keyword a name means follows the priorities and is no matter of chance (`KeywordsAreFound`). Python, user and Java keywords and dry runs agree about arguments (`ArgumentsAgree`). |
| `waiting` | The least time left counts and ends the wait, a thread that is left is told to stop, all but the one a signal finds, and a signal reaches the keyword that runs, in teardowns and after timeouts, too (`KeywordsAreUnderControl`). An answer of a remote server is that of the request, imports are whole, values arrive converted, and a keyword that timed out has failed, a `failed_` one as well (`AnswersAreTrue`). Hanging keywords, waits for files, reads and requests end (`WaitingEnds`). |
| `libraries` | Instances of libraries keep to their scopes, also when imported at run time. Wherever a keyword for files fails, it has lost nothing that it was not to remove or to write over; what is moved is at its old place or at the new one; and waits tell the truth (`FilesAreSafe`). Execute Command returns the answer to its command without the echo, and aliases and indexes lead to their connections (`ConnectionsAreKept`). Conditions are told the truth about failures and timeouts, also about a timeout in the teardown, after which the test cannot pass (`TestsAreKnown`). Written times keep their second and lose at most two milliseconds. Indexes, comparisons, tags, conversions and paths agree with each other. |
| `variables` | Every keyword sees the last assignment made in a scope it is in (`VariablesAreKnown`). What is escaped is unescaped, equal texts match and have one key (`TextsAgree`). Variables are replaced once and mean the same in texts, arguments and conditions (`VariablesMeanTheirValues`); every row of a table is looked at, whatever has failed before it; the first valid row of a name counts, and those that fail are reported (`TableRowsAreSet`). |
| `test_data` | Layout, comments outside loops and optional end tags have no meaning and no cell is lost; the files chosen are run; options mean the same however they are given, a missing argument file ends the program before anything is parsed, and settings of one run do not leak into the next. |
| `results` | Rebot shows the selected tests with right counts and with the keywords that explain failures; processing the output again changes nothing; links lead to anchors, combined tags select; templates show what they say; robotdiff highlights what differs between outputs, and nothing else (`DifferencesAreShown`, a part of `LogsAndStatisticsAreRight`). |
| `loggers` | Every logger gets every message once and in order, the XML file encloses what listeners cause, failures of listeners stay where they are unless they are of the kinds `FailuresStayContained` names, and those that ask to exit end the run. |

Each property has a mutant in `PROJECT.json`, a plausible bug in a definition
that the property catches.

Three runs find a disagreement of the code with its own documentation; the lines
are quoted in `PROJECT.json`:

| Run | What happens |
| --- | --- |
| `fatal_error_doc` | Fatal errors in suite setups and teardowns do not stop the run. |
| `failed_keyword_doc` | A `failed_` keyword of a remote library passes when the server is down and nothing was run. |
| `move_directory_doc` | Move Directory to the directory itself, or into it, passes and all files are lost. |

### Statements the code does not keep

These properties say what the documentation says, and the code does not. To see a
counterexample, put the property in place of the properties of the configuration
(`CHECK_DEADLOCK FALSE`), with the constants changed as told; `[P]` marks those that are
a `PROPERTY`, all others are an `INVARIANT`. The comment of each definition quotes what
is promised; the `.txt` files are in `src/doc/userguide/src`.

| Property | Configuration | What the code does |
| --- | --- | --- |
| `ExitOnFailureStopsRun` [P] | `MCSuiteRun_fatal`, `RunModes <- ExitOnFailureMode` | A critical test that fails without having been run, because of the setup of its suite, does not stop the run (`running/model.py:291`; TestExecution.txt:243). |
| `ExitForLoopStaysInLoop` [P] | `MCKeywords` | Merged with a continuable failure before it, Exit For Loop becomes a failure of the test (`running/keywords.py:297`; `BuiltIn.py:157`). |
| `ExitForLoopIsImmediate` [P] | `MCKeywords` | In a teardown the keywords after it are run, too (`errors.py:98`; `BuiltIn.py:144`). |
| `ConvertedStaysContinuable` [P] | `MCKeywords` | Of an exception with several failures only the whole is made continuable; its parts, which the next user keyword merges, are not (`BuiltIn.py:867`; TestExecution.txt:175). |
| `ExternalKeywordsAreUsed` | `MCKeywords` | With keywords of two standard libraries and an external one the name is ambiguous (`running/namespace.py:301`; AdvancedFeatures.txt:37). |
| `FullNamesAreNormalized` | `MCKeywords` | The library part of a full name is compared without ignoring underscores (`running/namespace.py:337`; AdvancedFeatures.txt:72). |
| `OnlyDefaultsAreNamed` | `MCKeywords` | For user keywords, names of arguments without defaults are taken, too (`running/arguments.py:377`; CreatingTestCases.txt:289). |
| `OneInstancePerScope` | `MCLibraries`, `Imports <- ImportedTwice` | A library imported with and without a custom name has two objects that share their list of instances put aside (`running/importer.py:65`; CreatingTestLibraries.txt:210). |
| `NoInstanceInTwoScopes` | `MCLibraries`, `Dynamic <- TwoLibraries` | Handlers of dynamic libraries keep the instance they were created with (`running/handlers.py:201`; CreatingTestLibraries.txt:214). |
| `KeywordFailsWithMethod` | `MCLibraries`, `Imports <- ImportedTwice`, `Scope <- GlobalScopes`, `Inverted = {TRUE, FALSE}` | Copied with a custom name, a library has its `failed_` keyword in the place of the keyword (`running/importer.py:72`; with_name_2.txt:22). |
| `IntendedFailure` | `MCLibraries`, `Inverted = {TRUE}` | If the library is not global the `failed_` twin is looked up by the name of the method, and is the keyword itself (`running/testlibraries.py:218`, its comment at `:215`). |
| `NumbersArePassed` | `MCWaiting`, `RemoteValues <- MCLongNumber` | XML-RPC has no integers of more than 32 bits (`libraries/Remote.py:66`; RemoteLibrary.txt:114). |
| `WriteReturnsTheText` | `MCLibraries` | What was in the buffer before is returned with the text (`libraries/Telnet.py:309`, `:293`). |
| `StoppedProcessesEnd` | `MCLibraries` | Stop All Processes closes the output of a process, which may run on (`libraries/OperatingSystem.py:1279`, `:271`). |
| `SubListsAreFound` | `MCLibraries` | The check is that the text of what is missing is empty, as it is when only an empty text is missing (`libraries/Collections.py:335`, `:327`). |
| `MinusOneIsNotFound` | `MCLibraries` | -1 is also the index of a value found with a negative start (`libraries/Collections.py:224`, `:210`). |
| `TimestampsAreUsed` | `MCLibraries`, `Zones <- MCSummerZones` | Where there is summer time, every time is read as one of the summer (`utils/robottime.py:326`; `OperatingSystem.py:1016`). |
| `ShortHoursAreRead` | `MCLibraries`, `TwoDigits = FALSE` | The digits of a timestamp are read at fixed places (`utils/robottime.py:337`; `OperatingSystem.py:1029`). |
| `StartTimesAreKept` | `MCLibraries` | Milliseconds that have no exact value in binary are cut off, and may lose one (`utils/robottime.py:282`; `rebot.py:167`). |
| `VariableTagsAreCritical` | `MCLibraries`, `WrittenTags <- MCVariableTags` | Criticality is decided before variables in tags are replaced (`running/model.py:236`; `runner.py:95`). |
| `MessagesAreAsExplained` | `MCLibraries` | Should Contain adds the values by another rule (`BuiltIn.py:542`, `:330`). |
| `PrevTestIsKnownEverywhere` | `MCVariables` | `${PREV_TEST_NAME}` reaches the suites that start later, but not those around, which have copies of the variables; and the end of a directory of suites puts back what was known when the directory started, so the suites after it see an older test or none (`running/context.py:54`; Variables.txt:671). |
| `TestVariablesNeedATest` | `MCVariables` | After a test its variables are still there to be set (`running/namespace.py:447`, `:470`). |
| `ImportedVariableIsAvailable` | `MCVariables` | What is imported while a test runs is set in the suite only (`running/namespace.py:415`; `BuiltIn.py:1286`). |
| `VariablesEndWithBraces` | `MCVariables` | A variable that is not closed takes the character after the last brace (`variables/variables.py:387`; `utest/variables/test_variables.py:328`). |
| `ShouldMatchIsExact` | `MCVariables` | A newline after what the pattern matches is accepted (`utils/match.py:53`; `BuiltIn.py:392`). |
| `SplittingIsTheSame` | `MCVariables` | Separators that overlap are found from the other side (`libraries/String.py:262`, `:254`). |
| `SpellingsAreOneKey` | `MCVariables`, `PlainUpdates = TRUE` | Updating with a dictionary of two spellings of a key depends on its order (`utils/normalizing.py:88`; `utest/utils/test_normalizing.py:174`). |
| `CommentsAreIgnored` | `MCTestData` | A comment between a FOR row and the row that continues it ends the FOR row (`parsing/tablepopulators.py:118`; TestDataSyntax.txt:438, :448). |
| `OtherTablesAreIgnored` | `MCTestData` | A table with an empty header makes the whole file fail (`parsing/model.py:57`; TestDataSyntax.txt:438). |
| `LinesAreArguments` | `MCTestData`, `AnyLines = TRUE`, `Styles <- MCEquals` | `--option=value` in a file is split at its first space, also one in the value (`utils/argumentparser.py:223`; `runner.py:244`). |
| `LongOptionsAreCaseInsensitive` | `MCTestData`, `Styles <- MCCapitalFiles` | `--ArgumentFile` is not expanded (`utils/argumentparser.py:214`; `runner.py:261`). |
| `SuitesAreFoundByParents` | `MCResults`, `Outputs <- Doubled`, `Settings <- DoubledSettings` | A parent in a suite of the same name is not tried as the beginning of the name (`common/model.py:236`; `runner.py:79`). |
| `CombinedStatisticsAreCombined` | `MCResults`, `Settings <- TagNameSettings` | Tests of a combination that has the name of a tag are counted into the statistic of that tag (`common/statistics.py:232`; OutputFiles.txt:492). |
| `MessagesAreSelected` | `MCResults`, `Settings <- LevelSettings` | The log level is not passed on to keywords inside keywords (`output/readers.py:146`; `rebot.py:118`). |
| `InputsAreDistinguished` | `MCResults` | When outputs have only the root directory in common, all separators are removed from their names, and two may get one heading (`robotdiff.py:259`, `:36`, in `src/tools/robotdiff`). |
| `TemplatesAreFollowed` | `MCResults`, `TemplateLines <- MCSwaps` | The arguments of a call are set one after the other, so one can be seen by the next (`serializing/templating.py`). |
| `ListenersAreClosed` | `MCLoggers` | The failure of one listener in close keeps the next one from being called (`output/listeners.py:194`; ListenerInterface.txt:201). |
| `SplitLogsShowResults` | `MCSuiteOutput` | Split logs of tests are written before the teardown of the suites above fails them (`output/output.py:77`; TestExecution.txt:69). |

Others are kept in part, and the properties of the runs say exactly in which part:

- A user keyword that uses itself starts the timeout anew that is on its way, since all of its calls
  share one timeout object (`running/userkeyword.py:117`; AdvancedFeatures.txt:210). `IsGiven` says of
  programs with such keywords that a library keyword is never given less than the least time left,
  and never forever if there is a timeout, and of all others that it is given the least.
- A keyword in a thread that a signal leaves is not told to stop (`running/timeouts.py:84`;
  TestExecution.txt:212). It is the only one: `AbandonedKeywordsAreStopped`.
- After a keyword that another keyword has run in the main thread the monitor believes that none runs
  (`running/signalhandler.py:51`). `SignalReachesKeyword` excepts those keywords, and no others.
- Of the failures of listeners, those in message methods, those in close after the file logger has been
  closed, and the exceptions that ask to exit get out of `LOGGER` (`output/listeners.py:193`).
- A file that is invalid is reported by its first import only, and taken to be imported by the others
  (`running/namespace.py:88`, `:95`).

### Bounds

- The tree of `suite_runs` is a directory with two suites, the first of which has a
  suite of its own: a chain of three (errors saved and restored twice), two
  siblings at two levels (what one leaves to the next), a test in each suite but the
  root, one of them not critical. The run has either ExitOnFailure or
  SkipTeardownOnExit: they are read in separate conditions, and neither matters until
  something fails (`split_outputs` has runs with neither). The proofs hold for every
  tree and any combination of modes.
- `split_outputs` uses four suites and three tests: a split suite with a sub suite
  and a second one after it.
- Keyword programs are three bodies of up to 13 nodes with all kinds of nodes; loops
  make two rounds, the least in which a round can affect another. Every library
  keyword call may fail in each way the code distinguishes.
- Imports: two files that import each other, one of them in two places, an invalid one that the suite
  and another file import, a library that is missing; up to two imports of the suite. Names with no, one and two
  Given, When and Then before them.
- Arguments: three, two of which may have a default, given in up to three texts,
  names and list variables of up to two items.
- `MaxTime` 5 with timeouts of 2 and 3 lets each of them be the smaller one;
  `MaxDepth`, `MaxThreads` and `MaxSignals` are named in the guards. A second signal
  ends the process, so two are enough.
- Remote: two libraries, two calls, one broken connection, one restart: each can fall
  between any two requests. Telnet and processes: two connections in `libraries`, where
  they can be mixed up, one in `waiting`, where only the end of reading matters.
- Files: every call that writes, copies or removes may fail, at any point of its keyword. In `libraries` every tree two deep of two names, so that a destination can be
  missing, a file, a directory, in the source or the source; one keyword and two
  changes by others.
- Libraries: two suites, two tests: an instance has a scope before, inside and after it.
  The proof holds for all bounds.
- Variables: three suites in each other, four in all, so that a directory of suites can end
  before another suite starts; two tests, one level of user keywords, three values: each
  store can be stale relative to another. The proof holds for all bounds.
- Texts of up to three characters out of those the code treats differently; pieces of
  variables up to three; conditions of up to four words.
- Test data of up to five rows, of all kinds of rows a table has; HTML of twelve tags,
  enough for two rows of two cells; the variable table of every order of five rows, of which some fail
  only when they come before what they use and two are of one variable; a directory with a sub directory, each with init
  files, in which every file may be invalid and every path chosen.
- Up to two options of every kind and three of two kinds (values and escapes), in six
  spellings, with any part of the command line in an argument file and any part of that
  in another, which may be missing.
- Outputs of three levels of suites with equal names, all statuses of three tests and two
  teardowns; one or two options at a time. Templates of up to five lines, of which
  every one may be a directive. Three outputs are compared: a name that is used twice
  needs two to be numbered and a third to be mistaken.
- Loggers: two listeners of version 1 and 2, which may fail or ask to exit in every method, one that
  cannot be imported, and two failures at most. The proof holds for any number of listeners, each of
  which may fail in any method, and any bound on failures. `MaxFailures` is a bound of the model that
  the code does not have: see the known limits.
- Times: moments with milliseconds that a float keeps and that it does not, from January 2004 to
  January 2038, where the resolution of floats is the same (`MomentsAssumption`).
- Connections: two, two keywords and two tries; the proof holds for all bounds.

The runs stop at these bounds, and programs come to their ends, hence
`CHECK_DEADLOCK FALSE` in most of them; the suites, which are never to get stuck, are
checked for deadlocks.

### Fairness

`SuiteRun!FairSpec` has weak fairness of `Next`: one thread executes the suites,
nothing blocks in the framework itself, and a keyword is assumed to end. That is
not so for a keyword without a timeout that hangs, and the model of suites does
not claim it. `KeywordThreads` assumes only that time passes and that the main
thread's wait with a timeout returns (`WF(Tick)`, `WF(TimeoutExpires)`); keywords
there may hang for ever. The waits of `OperatingSystem` and the reads of
`Connections` go on and time passes, whatever others do. In `RemoteLibrary` a
server that runs handles what it has got and the keyword there ends, and the client goes
on with every answer (weak fairness of each of these steps); that a connection breaks, a
keyword times out or the server is started again is never assumed.
`KeywordLookup` handles its imports one after the other (weak fairness of `Next`). The other
modules, `Loggers` among them, check safety only.

## Proofs

What TLC checks on small instances is proved with TLAPS, where the prover can reach it, for
all suite trees, programs, listeners, timeouts and bounds that the named assumptions of the
modules (`TreeAssumption`, `ModeAssumption`, ...) allow. Each theorem follows the same
path: an invariant that says how the bookkeeping of the code and what it stands for belong
together, which was checked with TLC before it was proved; one lemma for each action or
group of actions that keeps it; and the property as its consequence.

### Suites: `SuiteProofs`

Errors and fixtures:

- `TypeCorrect`: `Spec => []TypeOK`;
- `BookkeepingHolds`: `TypeOK /\ ErrorBookkeeping` is an invariant;
- `NoTestRunsUnderErrorsHolds`, `NoSetupRunsUnderErrorsHolds`: no test and no suite setup
  is run under a suite, at any height, whose initialization or setup failed;
- `StopIsFinalHolds`: once an exit flag is set, no test and no suite setup is run;
- `RunTestsAreTornDownHolds`, `TeardownMatchesSetupHolds`: a test that was run has
  its teardown run, and a suite has its teardown run exactly when its setup was, but for
  SkipTeardownOnExit.

`NoTestRunsUnderErrors` is not inductive: `is_allowed_to_run` looks at the saved
errors, not at the suites. `ErrorBookkeeping` connects the two. `StackOK`: `running`
is a path from the root, without repetition, and the lists of errors are as long.
`FreshOK`: suites a loop has not reached are untouched. `ErrorsOK`: if the i-th
suite of the path is broken, the error kept for it says so. `TestOK`: the running
test belongs to the innermost suite, and what it was told when it started still
holds. `RanOK`: suites above a test that was run are past their setup and not
broken. The proof has a lemma per group of actions (`StartSuiteBooks`,
`EndSuiteBooks`, `GoOnStepBooks`, `TestStepBooks`); the key facts are
`SuitesAboveAreRunning` (the suites above a test of the innermost suite are
those of the path), which uses that the path starts at the root and sub suites
have one parent, and that pushing and popping move each error along with its
suite.
`StopIsFinal` needs only that what a test was told at its start includes the
exit flags and that these are never reset; it is proved with an invariant that a
test that has not been told of a parent error started before the stop.
`RunTestsAreTornDown` is proved with `TeardownAhead`: a test whose teardown was not run
is the running test, and still on its way to the teardown.
`TeardownMatchesSetup` needs what `SuiteRunErrors` keeps about executed setups: for each
suite of the path it is true (`ExecutedOK`), and a suite past its setup phase whose setup was
not executed still has the error that kept it, in the part of the saved lists that belongs
to the suites above it (`BlockedOK`); so `suite_teardown_allowed` cannot answer that the
teardown of such a suite may run. `SetupsAboveOK`, for `NoSetupRunsUnderErrors`, is to
setups what `RanOK` is to tests.

Results:

- `ResultsAreRightHolds`: verdicts have their causes, also those a failing suite teardown
  changes, and the statistics of the suites agree with the statuses of their tests;
- `FailureIsFinalHolds`: a test or suite that failed never passes afterwards;
- `ImplementsSafeResults`: every step is, for the verdicts, a step of `TestResults` or
  none. (`TestResults!SafeSpec` is `TestResults!Spec` without its fairness.)

The invariant is `ResultBookkeeping`. `PathOK`: the suites that run lie in each other,
and what the loops over sub suites have passed has ended. `LoopsOK`: the same for the tests
a loop has passed or not yet reached. `ErrorSourcesOK` and `StopSourcesOK`: an error that
is kept, or an exit flag, comes from a suite or test for which `causes` of it are recorded.
`RunningTestOK`: how far the test has come and which errors it has collected. `VerdictsOK`:
a decided test is failed if and only if it has a cause: its own, one of a suite around it,
a stop, or a teardown above it. `CountedOK`: the tally of a suite that has been reported is
the number of its critical and other tests that passed and failed. The last one needs
cardinalities of unions: the tally of a suite is that of its tests and those of its sub suites, whose
sets of tests are disjoint (`TestsUnder`), and `FailAll`, which moves all passed tests of a
tally to the failed ones when a teardown fails, is exactly the tally of the tests that are
now failed.
For the refinement, the order of `TestResults` is that of the tree: `EarlierTestsDecided`
shows with `PathOK` and `LoopsOK` that every test before the one that starts has a verdict.

Output files:

- `OutputsAreRightHolds`: the files read back give each test the status it ended with, the
  split files and logs are where the main output says, and the variables name the
  file that is written to; at every split level, with and without logs.

The assumption `OutputTreeAssumption` is that the tree is finite and every test belongs to
a suite of it. `OutputBookkeeping` has, besides the property's own parts: `WriterOK`, the
open file is that of the innermost suite; `SplitOK`, there is at most one suite with a file
of its own on the path; `StartedAboveOK`, all suites above one that has started have started,
so that the file a suite belongs to cannot change any more; and `ElementsOK`, which
says what is in the files: each decided test once, in the file of its suite, with the status
it was reported with, and the teardown elements of exactly the suites whose teardown failed.
So a reader, who fails all tests under a failed teardown, ends with the status of the run,
which changed them in memory.

### Keywords: `KeywordRunProofs`

- `ResultsAreCompleteHolds`: a timeout or fatal error is reported at the end, and dry runs,
  teardowns and templates run everything they are to run;
- `FailuresGoUpHolds`: no failure is lost or invented on its way up through rows, loops, user
  keywords and run keyword variants, nothing is called after what ends the execution,
  and Exit For Loop stays in its loop.

They hold for programs of any size, also with keywords that call themselves. The
invariant `KeywordBookkeeping` says of each call of the stack how it belongs to the program
and to the call below it (`CallsOK`), that the failures it holds were raised (`KindsOK`) and
agree with whether it failed (`FailedOK`), that it has no step left once something that
ends everything is on its way up (`StopOK`), and which steps have been visited
(`VisitedOK`). Every action is, for the stack, a push, a change of the top or a pop
(`PushKeepsCalls`, `ChangeKeepsCalls`, `PopKeepsCalls`, ...), and what is below the top stays as it is.

### Imports and names of keywords: `KeywordLookupProofs`

- `LookupBookkeepingHolds`: every import is taken, reported, skipped because of the report of
  another import of the same invalid file, or still pending;
- `KeywordsAreFoundHolds`: when names are looked up all imports have been handled, those of
  imported files too, once each and also when files import each other; an invalid file has been
  reported once, however many import it, and gives neither keywords nor imports; a name without an
  owner means the keyword of the file, of a resource file or of a library, in that order,
  and chance decides only between two standard libraries; a full name, with or without
  a prefix, reaches the only keyword it can mean.

The assumption, `LookupAssumption`, is that there are finitely many libraries, known by
different names, and no keywords without a name; files may import what they like, and any of
them may be invalid. The invariant is `LookupBookkeeping`: each import of a file that was taken
has been handled, has failed, is skipped or is pending (`NothingIsForgotten`); a failure has its
reason (`ReportedForAReason`); no file is taken twice (`TakenOnce`), and no invalid one is
reported twice (`InvalidReportedOnce`); and what was found is one of
the `Handlers` of the state it is in (`FoundOK`), which needs that nothing is imported
after it. `ImportsAreComplete` alone is not inductive, as it says nothing while
imports are pending. What a name means is then a matter of the operators: `InLibraries`
says what the search order and the choice between two libraries leave over, `FoundWith` that the
fewest prefixes are left out, and `FoundByOwner` what a full name reaches. That all imports
are handled in the end is checked by TLC only.

### Threads, timeouts and signals: `KeywordThreadProofs`

- `KeywordsAreUnderControlHolds`: if user keywords do not use themselves, the wait for a keyword has
  the least time left of all active timeouts; if they do, it is never less and never endless while
  a timeout is active. A thread that is left is told to stop, all but the one that a signal finds, and
  none before a signal. A signal reaches the keyword that runs, unless it runs in the main
  thread and keywords there run others.

It is for all sets of timeouts and any nesting of calls, in tests and in teardowns, before and after
signals. The conditions are parts of the property, and the program is free to be outside of them:
`nests` and `recurs` are variables that have any value. `ThreadBookkeeping`
has `CallsOK` (what calls other keywords runs in the main thread, and a thread was started
for what runs in one), `TimersOK` (the timeout of a user keyword counts from the beginning
of its last call, which is the only one if user keywords do not use themselves) and `FlagOK`
(the monitor believes that a keyword is run only while one is). That a least timeout exists is `MinExists`, from
the well-foundedness of the natural numbers.

### Instances of libraries: `LibraryScopeProofs`

- `InstancesFollowScopesHolds`: the keywords of a library that are run in one test, or
  in the setup and teardown of one suite, use one instance, no two scopes share an
  instance, the instances put aside are as many as the scopes that are open, and the
  teardown of a suite finds the instance of its setup again.

It holds for suites of any depth, all imports in settings, all imports by keywords and any
order of the hooks. The assumptions are that no suite can import a library under two
names (`OneNamePerSuite`) and that dynamic libraries are global (`DynamicAreGlobal`);
without them the property is not true of the code, as the table of statements that
are not kept shows. The invariant is `LibraryBookkeeping`. That the lengths match
(`CacheMatchesScopes`) is not inductive for what it is meant for: a stack may have the
right length and the wrong instances. `ScopesOK` says of every suite that has the
library where its instance is: put aside at the depth of the next suite that has the same
object, since each suite puts aside what the one before it used; on top of the stack
if the innermost suite runs a test; and else in use. Copies with custom names share the
stack with the library but have instances of their own, so that the next suite with the
same object need not be the next on the stack. `PushSuiteKeeps`, `PushTestKeeps`,
`PopTestKeeps`, `PopSuiteKeeps` and `UseKeeps` prove this of a stack alone, without the
state of the program; `InstancesUsed` makes an instance that is created differ from
all that were ever used.

### Variables: `VariableScopeProofs`

- `VariablesAreKnownHolds`: a keyword sees the value assigned last of those whose scope has
  not ended, in suites of any depth, and a test knows the test before it, unless a suite of
  suites has ended in between.

A store that no keyword reads now is read later, when the suites, tests and keywords
above it on the stacks have ended. The invariant, `StoresOK`, is therefore about all stores:
each `HoldsLatest` of the assignments its readers may see (`SuiteSees`, `LevelSees`).
`LogOK` and `DeferredOK` say what the history holds, `PrevOK` what each suite knows of the
previous test.

### Loggers and listeners: `LoggerProofs`

- `LoggersAreToldHolds`: every logger has got every message it wants when nothing is being
  sent any more, also those from before it was registered; unless a listener fails on a
  message, nobody gets one twice or too late; what a listener is told of is open in the output
  file; no error is shown without a cause; what leaves `LOGGER` is the failure of a message method that
  comes back to the listener until Python gives up, that of close after the file logger has been closed, a
  listener that asks to exit, or an output file that cannot be opened, which ends the run before any
  test; and a listener that asks to exit always ends the run.

It assumes nothing but that listeners are different from each other and from the built-in
loggers. None of the five parts is inductive: they speak of what loggers have got, while some
messages are still in the frames of `calls`, on which a failing listener pushes others. The
invariant, `LoggerBookkeeping`, says where they are. `MainCall` and `FramesOK`: the first frame
is the call of the main program that belongs to where it is, those above it are messages, or
close of the debug file, to loggers that are registered. `ReachOK`: every message that was sent has been got by every
registered logger that wants it, or is on its way to it (`OnItsWay`: in a frame that has still
to call the logger, or in the part of the cache that is still to be relayed to it). `CacheOK`: as
long as there is a cache, it has every message, or the frame that is being sent will put it
there. `OrderOK`: unless a listener has failed on a message, a message is in the top frame, and
every logger it has still to reach has got earlier ones only. `EventsOK`: which suites, tests and keywords are
open in whom, from the event that the main program is at (`Opened`) and whether the call of it has
reached the logger; the XML logger is called first at the start and last at the end.
`FilesOK` and `FailuresOK`: which files are open, what each way out of `LOGGER` comes from, and that
nothing goes on in the run after one that is not caught.
`ErrorsOK` counts: the errors among all messages are not more than failures and other causes, and
the same for those that each logger has got. Calling a logger, failing, relaying, returning and each
step of the main program then have lemmas for each of these parts.

### Connections and remote libraries: `ServerProofs`

- `ConnectionsAreKeptHolds`: an alias leads to the connection that was opened with it last, an
  index to the connection that has it, and the index that Switch Connection returned back to
  the connection that was left; Execute Command returns the answer to its command, without the echo, and nothing
  else if nothing was left unread before; and the output of a process is read once.

It holds for any number of connections, processes, keywords and tries, any commands and any names
(`ConnectionsAssumption` types them). `CacheInv` connects the cache with the history of aliases:
aliases and the current index lead into the list, and each alias to what the history says it was
last registered for. `KeywordOK` is needed for answers: it says of an Execute Command that found all
output read where it is (`Asked`, `Sent`, `Begun`, `Done`), and what exactly of the answer is
read and what is still to come, since a step that reads to a prompt takes what it finds
up to the first match. `ProcessesOK`: a process that is not in the list is closed, and one that is
not closed has not been read. That AnswersBelongToCommands speaks of clean reads only is not a
weakness of the proof: a read that timed out does leave its answer to the next command.

- `AnswersAreTrueHolds`: no keyword of a remote library is run twice for one request; what the
  client says of a keyword is said of the same request by the server, which ran it, and it
  passed only if the server has answered, but for `failed_` twins, which pass also when a connection is
  broken; what timed out has failed, twin or not; an import during which no connection breaks knows all
  keywords of the server with their twins, and others know no keywords but those; and values
  arrive converted.

It holds for any libraries, keywords, values, numbers of imports, calls, broken connections and
starts of the server. The invariant is `RemoteInvariant`. `RequestsInOrder`: what was run, what is being run and
what waits have numbers that increase, so that nothing is run again, though the client
sends more requests while those it has given up are still on their way. `RequestsFit` and
`AnswerFits`: the only request with the number the client waits for is one of the kind it has sent,
and so is its answer. `LastCallOK` keeps what is said of the last keyword, and `FirstImport`
follows an import through its phases: while libraries are sent at most one request
is on its way, names are asked for only when no library is, and each name is either still to
be described or has both of its handlers. `NotYet` is about the time before: a server that was never started
cannot have let the first import pass undisturbed. That values are converted once is proved from
`ConversionAssumption`, which says of the two conversions alone that they go together
with what XML-RPC can send; they are recursive, and TLC evaluates the assumption for the values of the runs.

### What is only checked with TLC

- Liveness and fairness: `RunEnds`, `WaitingEnds`, `SuiteImportsEnd` and the
  fairness in `ImplementsResults`. The prover does not reason about ENABLED.
- What recursion over data computes: folds, `SelectSeq`, `FlattenSeq` and recursive
  functions. Theorems about such definitions need induction over operators, which the
  provers at hand cannot instantiate. This concerns `Arguments`, `Collections`,
  `CommandLine`, `HtmlReader`, `Paths`, `Texts`, `Times`, `Verifications`.
- The modules with RECURSIVE operators: `OperatingSystem`, `Populators`, `Rebot`,
  `ResultFiles`, `Results`, `Templating`, `TestConditions`, `TestDataDirectories`,
  `VariableReplacement`; and the conversions of values in `MCWaiting`.

## Plan

Done: suites, tests, their results and output files; keywords, their lookup and
arguments; libraries, timeouts, threads and signals; variables; loggers and listeners;
parsing of tables, HTML and directories; the command line; results, Rebot, logs and
templates; remote libraries; the standard libraries that keep or compare something.

Left:

1. Proofs: that keywords that fail or wait change no files, and what moving leaves behind
   (`FilesAreSafe`), after removing has been written without recursion; what
   `TestsAreKnown` says of trees of suites.
2. The XML-RPC server of `src/tools/remoteserver` with several clients at a time.
3. Reading plain text and reST, which become the same rows.
4. The other tools (libdoc, testdoc, statuschecker), if they come to share more with the program.

## Not modelled

- The layout of logs and reports and what is written on the console: no later step depends on it.
- Capturing the standard streams: what keywords print is a part of their messages, which
  are abstracted everywhere.
- Jython's threads, signals and reflection: they follow the protocol of Python's on another
  API. Java values are modelled in `Arguments`.
- Importing classes and modules, Evaluate and calling methods of objects, which are
  Python itself.
- Screenshot, Dialogs and Easter, which show something on the screen, and the tools but robotdiff.

Known limits of what is modelled:

- A thread that is blocked outside Python does not see that it is told to stop
  (`utils/stoppablethread.py:40`); `KeywordThreads` says only that it is told.
- A constructor of a library that sets a global variable runs before the namespace of its
  suite is registered (`running/namespace.py:60`); `VariableScopes` sets variables in
  keywords only.
- `CommandLine`: a value that is an argument of its own and begins with `--` is lower-cased
  (it is taken for an option) and is not among the inputs; escapes whose results are
  escapes depend on the order of a dictionary (`utils/argumentparser.py:260`); argument files
  that name each other are read for ever (`:203`).
- `Loggers`: a listener of version 2 whose `message` fails on every message that is relayed to it when it
  is registered is relayed the ERROR about that failure, too, as the loop is over the list that the
  ERROR is added to (`output/logger.py:62`); this never ends. `MaxFailures` cuts it off in the model, so
  no run says that the process ends.
- `KeywordThreads`: a library keyword that runs others in the way of a run keyword variant, but is not
  registered as one and has a timeout, would run them in its thread. It calls none in the model
  (`MayCall`); registered variants are never in a thread (`running/handlers.py:254`).
- `OperatingSystem`: making directories and looking at files is not refused by the system; writing,
  copying and removing are.
- `CommandLine`: an argument file that is missing ends the program with an UnboundLocalError, since the
  finally clause closes what has not been opened (`utils/argumentparser.py:228`). The model ends there, too;
  what is shown is the traceback, not the error message that was meant.
- `RemoteLibrary`: what is sent to the server can be imported there; the debugger a server
  can wait in (`libraries/RemoteB.py:112`) is left out.
- `VariableReplacement`: Set Variable If with an empty list variable as its last argument
  is an error where an empty cell would be no value (`ConditionsChoose` leaves it out).
- `Templating`: `TemplatesAreFollowed`, and `TemplateTextsAreFollowed` with it, leave out
  functions that are defined in a loop, empty blocks before ELSE and blocks inside
  blocks of their kind, where the code does something else than a reader expects; INCLUDE
  and IMPORT are not modelled.
