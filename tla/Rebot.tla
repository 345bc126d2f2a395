-------------------------------- MODULE Rebot --------------------------------
(***************************************************************************)
(* Post-processing of output files: run_rebot (robot/__init__.py) with     *)
(* RebotTestOutput (serializing/testoutput.py).  Output files are read and *)
(* possibly combined, options are set, statistics are made of the result,  *)
(* and the output, log and report files are written.  The output can then  *)
(* be processed again, with the same options.                              *)
(***************************************************************************)
EXTENDS ResultFiles

CONSTANTS
  Outputs,    \* the sequences of output files that may be given
  Settings,   \* the options that may be given
  None        \* what has not been made

VARIABLES
  phase,       \* what has been done
  outputs,     \* the output files given
  settings,    \* RebotSettings
  source,      \* the result model as it was read
  suite,       \* the result model
  errors,      \* the messages of the execution errors
  statistics,  \* Statistics of suite
  log, report, \* the anchors and links in the files
  output,      \* the output file
  first        \* what the first round made, when the output is processed again

rebotVars == <<phase, outputs, settings, source, suite, errors, statistics, log,
               report, output, first>>

RebotInit ==
  /\ phase = "started"
  /\ outputs \in Outputs /\ settings \in Settings
  /\ source = None /\ suite = None /\ errors = None /\ statistics = None
  /\ log = None /\ report = None /\ output = None /\ first = None

\* What process_output makes of a file: it exists, it can be parsed, and it is
\* an output file with known statuses.
RECURSIVE HasValidStatuses(_)
HasValidStatuses(node) ==
  /\ node.status \in {"PASS", "FAIL", "NOT_RUN", "missing"}
  /\ \A i \in DOMAIN node.suites : HasValidStatuses(node.suites[i])
  /\ \A i \in DOMAIN node.tests :
       node.tests[i].status \in {"PASS", "FAIL", "NOT_RUN", "missing"}

IsReadable(file) == file.root = "robot" /\ HasValidStatuses(file.suite)

CanBeRead == outputs # <<>> /\ \A i \in DOMAIN outputs : IsReadable(outputs[i])

\* process_outputs.
ReadOutputs ==
  /\ phase = "started" /\ CanBeRead
  /\ source' = ProcessOutputs(outputs, settings)
  /\ suite' = source'
  /\ errors' = ReadErrors(outputs)
  /\ phase' = "read"
  /\ UNCHANGED <<outputs, settings, statistics, log, report, output, first>>

\* DataError from process_outputs, or from set_options: nothing is written.
GiveUp ==
  /\ \/ phase = "started" /\ ~CanBeRead
     \/ phase = "read" /\ NothingLeft(suite, settings)
  /\ phase' = "failed"
  /\ UNCHANGED <<outputs, settings, source, suite, errors, statistics, log, report,
                 output, first>>

\* set_options; outputs are not split when there are no sub suites.
SetRebotOptions ==
  /\ phase = "read" /\ ~NothingLeft(suite, settings)
  /\ suite' = SetOptions(suite, settings)
  /\ settings' = IF suite'.suites = <<>> THEN [settings EXCEPT !.split = -2] ELSE settings
  /\ phase' = "set"
  /\ UNCHANGED <<outputs, source, errors, statistics, log, report, output, first>>

\* RobotTestOutput.__init__.
MakeStatistics ==
  /\ phase = "set"
  /\ statistics' = Statistics(suite, settings)
  /\ phase' = "counted"
  /\ UNCHANGED <<outputs, settings, source, suite, errors, log, report, output, first>>

\* RobotTestOutput.serialize.
Serialize ==
  /\ phase = "counted"
  /\ output' = [root |-> "robot", generator |-> "rebot", suite |-> SuiteNode(suite),
                errors |-> errors]
  /\ report' = SerializeReport(suite, statistics, settings)
  /\ log' = IF settings.log = "NONE" THEN [anchors |-> {}, links |-> {}]
            ELSE SerializeLog(suite, statistics, settings)
  /\ phase' = "done"
  /\ UNCHANGED <<outputs, settings, source, suite, errors, statistics, first>>

\* The output is given to Rebot with the same options.
RebotAgain ==
  /\ phase = "done" /\ first = None
  /\ outputs' = <<output>>
  /\ first' = [suite |-> suite, errors |-> errors, statistics |-> statistics,
               report |-> report]
  /\ phase' = "started"
  /\ UNCHANGED <<settings, source, suite, errors, statistics, log, report, output>>

RebotNext ==
  ReadOutputs \/ GiveUp \/ SetRebotOptions \/ MakeStatistics \/ Serialize \/ RebotAgain

RebotSpec == RebotInit /\ [][RebotNext]_rebotVars

-----------------------------------------------------------------------------
(* Properties *)

IsSet == phase \in {"set", "counted", "done"}

\* A suite name selects a suite when its parts are the names of the suite and
\* of the suites right above it.
NameIsIn(name, path) ==
  \E i \in DOMAIN path : \E j \in i..Len(path) :
    /\ j - i + 1 = Len(name)
    /\ \A k \in DOMAIN name : Matches(path[i + k - 1], name[k])

RuleHolds(rule, tags) ==
  LET Has(part) == \A i \in DOMAIN part : \E t \in tags : Matches(t, part[i])
  IN Has(rule[1]) /\ \A i \in 2..Len(rule) : rule[i] # <<"">> /\ ~Has(rule[i])

\* The selection that the options ask for, of the tests that were read: by
\* name, by the names of the suites a test is in, and by its tags, with those
\* that are set.
IsSelected(t) ==
  LET tags == t.test.tags \cup settings.set_tag
  IN /\ settings.suites = {} \/ \E n \in settings.suites : NameIsIn(n, Front(t.path))
     /\ settings.tests = {} \/ MatchesAny(t.test.name, settings.tests)
     /\ settings.include = {} \/ \E r \in settings.include : RuleHolds(r, tags)
     /\ ~\E r \in settings.exclude : RuleHolds(r, tags)

PathsBelow(tests) == Map(LAMBDA t : Tail(t.path), tests)

Selected == SelectSeq(TestsIn(source, <<>>), IsSelected)

\* Exactly the tests that the options ask for are left, in their order, and
\* Rebot fails only when they ask for none (filter_by_names and filter_by_tags
\* of common/model.py): suites are walked once from the top with what is left
\* of the names, tags are set before they are used, and the two filters meet.
SelectedTestsAreLeft ==
  /\ IsSet => PathsBelow(TestsIn(suite, <<>>)) = PathsBelow(Selected)
  /\ phase = "failed" /\ source # None => Selected = <<>>

\* "'-s X.Y' selects suite 'Y' only if its parent is 'X'", says runner.py of
\* the suites that are found by their parents, and so do they in Rebot.
SuitesAreFoundByParents ==
  phase = "failed" /\ source # None => Selected = <<>>

RECURSIVE CountsAreRight(_)
CountsAreRight(s) ==
  LET tests == Map(LAMBDA t : t.test, TestsIn(s, <<>>))
      Count(Test(_)) == Len(SelectSeq(tests, Test))
      Passed(t) == t.status = "PASS"
  IN /\ s.all_stats = [passed |-> Count(Passed), failed |-> Len(tests) - Count(Passed)]
     /\ s.critical_stats.passed = Count(LAMBDA t : t.critical /\ Passed(t))
     /\ s.critical_stats.failed = Count(LAMBDA t : t.critical /\ ~Passed(t))
     /\ s.status = "FAIL" <=> \E i \in DOMAIN tests : tests[i].critical /\ tests[i].status # "PASS"
     /\ \A i \in DOMAIN s.suites : CountsAreRight(s.suites[i])

\* The statistics that suites keep, their statuses, and the statistics made of
\* the tests (Statistics) tell the same, although suites are counted when they
\* are read, combined, filtered, made critical, and failed by a suite teardown
\* that ended after the suites below it: common/model.py keeps counts that are
\* not updated when a test is.
CountsAgree ==
  /\ phase \in {"read", "set", "counted", "done"} => CountsAreRight(suite)
  /\ phase \in {"counted", "done"} =>
       /\ statistics.suite.all = suite.all_stats
       /\ statistics.suite.critical = suite.critical_stats

\* When Rebot processes its own output with the same options, nothing changes:
\* failures of suite teardowns, which outputs of test runs do not tell of tests,
\* are added once, and combining, selecting and tagging are done already
\* (readers.py:168, generator of the output file).
RebotTwiceIsRebotOnce ==
  first # None /\ phase # "started" =>
    /\ phase # "failed"
    /\ errors = first.errors
    /\ IsSet => suite = first.suite
    /\ phase = "done" => statistics = first.statistics /\ report = first.report

\* Links from statistics, from reports to logs, and between the files of a
\* split log lead to something that is there.  Files are named by four
\* counters and items by paths cut in four places, in serializers that do not
\* know of each other (logserializers.py, statserializers.py,
\* reportserializers.py, testoutput.py).
LinksLead ==
  phase = "done" => log.links \cup report.links \subseteq log.anchors \cup report.anchors

RECURSIVE KeepsFailures(_, _)
KeepsFailures(new, old) ==
  /\ new.status = old.status
  /\ new.status = "FAIL" => new.setup = old.setup /\ new.teardown = old.teardown
  /\ \A i \in DOMAIN new.tests :
       new.tests[i].status = "FAIL" => new.tests[i] = old.tests[i]
  /\ \A i \in DOMAIN new.suites : KeepsFailures(new.suites[i], old.suites[i])

\* When the keywords of what passed are removed, failures can still be studied:
\* failed tests, and the fixtures of failed suites, are as they were, whatever
\* is selected and critical (remove_keywords of readers.py, which is called
\* after everything else in set_options).
FailuresKeepTheirKeywords ==
  IsSet /\ settings.remove_keywords = "PASSED" =>
    KeepsFailures(suite, SetOptions(source, [settings EXCEPT !.remove_keywords = "NONE"]))

\* The combined statistics of a rule have the tests that selecting by the same
\* rule leaves, when the name of the statistics is not a tag itself.
CombinedTagsSelect ==
  phase \in {"counted", "done"} =>
    \A i \in DOMAIN settings.combine :
      LET c == settings.combine[i]
          left == TestsIn(FilterSuitesByTags(suite, {c.rule}, {}), <<>>)
      IN c.name \in UNION {t.test.tags : t \in Range(TestsIn(suite, <<>>))} \/
           (/\ statistics.tags[c.name].tests = {t.path : t \in Range(left)}
            /\ statistics.tags[c.name].stat.passed + statistics.tags[c.name].stat.failed
                 = Len(left))

\* "The combined statistics contain tests that have all the listed tags", says
\* the user guide; a name that is also a tag is given to tests that have it.
CombinedStatisticsAreCombined ==
  phase \in {"counted", "done"} =>
    \A i \in DOMAIN settings.combine :
      LET c == settings.combine[i]
          left == TestsIn(FilterSuitesByTags(suite, {c.rule}, {}), <<>>)
          stat == statistics.tags[c.name].stat
      IN stat.passed + stat.failed = Len(left)

\* "Threshold for selecting messages" is how rebot.py describes --loglevel.
RECURSIVE LevelsIn(_)
LevelsIn(kw) == kw.levels \cup UNION {LevelsIn(kw.kws[i]) : i \in DOMAIN kw.kws}

MessagesAreSelected ==
  phase = "read" =>
    \A t \in Range(TestsIn(suite, <<>>)) :
      \A i \in DOMAIN t.test.keywords :
        \A l \in LevelsIn(t.test.keywords[i]) : RankOf[l] >= RankOf[settings.log_level]
=============================================================================
