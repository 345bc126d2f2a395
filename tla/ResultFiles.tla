----------------------------- MODULE ResultFiles -----------------------------
(***************************************************************************)
(* What is made of the result model: statistics (common/statistics.py),    *)
(* and the output, log and report files (serializing/), of which the log   *)
(* may be split.  A file is "log", "report", or the number FileNameGenerator *)
(* gave it.  An anchor is a file and a name in it; a link is the anchor it *)
(* leads to.  The name of a suite or a test is the sequence of names from  *)
(* the top suite, or from a lower one in the files of a split log.         *)
(***************************************************************************)
EXTENDS Results

-----------------------------------------------------------------------------
(* Statistics *)

\* SuiteStatistics, with the path of the suite.
RECURSIVE SuiteStatistics(_, _)
SuiteStatistics(suite, parents) ==
  LET path == Append(parents, suite.name)
      Sub(s) == SuiteStatistics(s, path)
      suites == Map(Sub, suite.suites)
      all == FoldLeft(LAMBDA stat, s : AddStat(stat, s.all), Stat, suites)
      critical == FoldLeft(LAMBDA stat, s : AddStat(stat, s.critical), Stat, suites)
  IN [path |-> path, suites |-> suites,
      all |-> FoldLeft(AddTest, all, suite.tests),
      critical |-> FoldLeft(AddTest, critical,
                            SelectSeq(suite.tests, LAMBDA t : t.critical))]

\* The tests in the order they are added to the statistics by tag.
RECURSIVE TestsIn(_, _)
TestsIn(suite, parents) ==
  LET path == Append(parents, suite.name)
      Sub(s) == TestsIn(s, path)
  IN Flattened(Map(Sub, suite.suites))
       \o Map(LAMBDA t : [path |-> Append(path, t.name), test |-> t,
                          critical |-> suite.critical], suite.tests)

TagStat(critical, non_critical, combined) ==
  [stat |-> Stat, critical |-> critical, non_critical |-> non_critical,
   combined |-> combined, tests |-> {}]

AddToTag(tagstat, test) ==
  [tagstat EXCEPT !.stat = AddTest(@, test.test), !.tests = @ \cup {test.path}]

\* TagStatistics._is_included.
TagIsIncluded(tag, settings) ==
  /\ settings.tag_include = {} \/ MatchesAny(tag, settings.tag_include)
  /\ ~MatchesAny(tag, settings.tag_exclude)

\* _add_tags_statistics: a tag seen for the first time gets its TagStat.
AddTagsStatistics(stats, test, settings) ==
  LET tags == {t \in test.test.tags : TagIsIncluded(t, settings)}
      New(t) == TagStat(MatchesAny(t, test.critical.tags),
                        MatchesAny(t, test.critical.nons), FALSE)
  IN [t \in DOMAIN stats \cup tags |->
        LET stat == IF t \in DOMAIN stats THEN stats[t] ELSE New(t)
        IN IF t \in tags THEN AddToTag(stat, test) ELSE stat]

\* One round of _add_tagstatcombine_statistics.
AddCombined(stats, combine, test) ==
  [t \in DOMAIN stats \cup {combine.name} |->
     LET stat == IF t \in DOMAIN stats THEN stats[t] ELSE TagStat(FALSE, FALSE, TRUE)
     IN IF t = combine.name /\ IsIncluded(test.test, {combine.rule}, {})
        THEN AddToTag(stat, test) ELSE stat]

\* TagStatistics.add_test for all the tests of a suite.
TagStatistics(suite, settings) ==
  LET Add(stats, test) ==
        FoldLeft(LAMBDA all, c : AddCombined(all, c, test),
                 AddTagsStatistics(stats, test, settings), settings.combine)
  IN FoldLeft(Add, <<>>, TestsIn(suite, <<>>))

Statistics(suite, settings) ==
  [suite |-> SuiteStatistics(suite, <<>>), tags |-> TagStatistics(suite, settings)]

\* SuiteStatistics._serialize: the rows, suite_stat_level levels of them.
RECURSIVE SuiteRows(_, _, _)
SuiteRows(stat, max, level) ==
  LET Sub(s) == SuiteRows(s, max, level + 1)
  IN <<stat.path>> \o
       (IF max < 0 \/ max > level THEN Flattened(Map(Sub, stat.suites)) ELSE <<>>)

\* SuiteStatistics.serialize.
SuiteStatRows(statistics, settings) ==
  IF settings.suite_stat_level = 0 THEN <<>>
  ELSE SuiteRows(statistics.suite, settings.suite_stat_level, 1)

-----------------------------------------------------------------------------
(* Names *)

\* Mutant: tests are cut like suites.
SuiteSliceIndex(parts, split_level, is_test) == split_level

\* _get_name_slice_index of suites and of tests: a test right below the level
\* of the split keeps its whole name.
NameSliceIndex(parts, split_level, is_test) ==
  IF is_test /\ parts = split_level + 1 THEN split_level + 1 ELSE split_level

\* get_long_name.
LongName(path, split_level, is_test) ==
  LET index == NameSliceIndex(Len(path), split_level, is_test)
  IN IF split_level >= 0 /\ Len(path) > index
     THEN SubSeq(path, index + 1, Len(path)) ELSE path

SuiteAnchor(file, name) == [file |-> ToString(file), kind |-> "suite", name |-> name]

TestAnchor(file, name) == [file |-> ToString(file), kind |-> "test", name |-> name]

TagAnchor(tag) == [file |-> "report", kind |-> "tag", name |-> <<tag>>]

-----------------------------------------------------------------------------
(* Visiting: BaseTestSuite.serialize tells a serializer of all there is *)

RECURSIVE Events(_, _)
Events(suite, parents) ==
  LET path == Append(parents, suite.name)
      Sub(s) == Events(s, path)
  IN <<[event |-> "start_suite", path |-> path]>>
       \o Flattened(Map(Sub, suite.suites))
       \o Map(LAMBDA t : [event |-> "test", path |-> Append(path, t.name)], suite.tests)
       \o <<[event |-> "end_suite", path |-> path]>>

\* What serializers keep: the suite level, the number of file names given, the
\* file for split items, and the anchors and links that have been written.
NewSerializer ==
  [level |-> 0, given |-> 0, file |-> "log", anchors |-> {}, links |-> {}]

Visit(Handle(_, _), suite, parents) ==
  FoldLeft(Handle, NewSerializer, Events(suite, parents))

EndSuite(log) == [log EXCEPT !.level = @ - 1]

\* LogSerializer in the given file.
LogEvent(log, e, file, split_level) ==
  CASE e.event = "start_suite" ->
         [log EXCEPT !.level = @ + 1,
            !.anchors = @ \cup {SuiteAnchor(file, LongName(e.path, split_level, FALSE))}]
    [] e.event = "test" ->
         [log EXCEPT
            !.anchors = @ \cup {TestAnchor(file, LongName(e.path, split_level, TRUE))}]
    [] OTHER -> EndSuite(log)

\* _write_split_suite_name and _write_split_suite_details_link.
WriteSplitSuiteName(log, path) ==
  [log EXCEPT !.given = @ + 1,
              !.anchors = @ \cup {SuiteAnchor("log", path)},
              !.links = @ \cup {SuiteAnchor(log.given + 1, <<Last(path)>>)}]

\* SplitLogSerializer: suites of the split level are written without what
\* they have, and what is below them is not written.
SplitLogEvent(log, e, split_level) ==
  CASE e.event = "start_suite" /\ log.level < split_level ->
         LogEvent(log, e, "log", split_level)
    [] e.event = "start_suite" /\ log.level = split_level ->
         [WriteSplitSuiteName(log, e.path) EXCEPT !.level = @ + 1]
    [] e.event = "start_suite" -> [log EXCEPT !.level = @ + 1]
    [] e.event = "test" /\ log.level <= split_level ->
         LogEvent(log, e, "log", split_level)
    [] e.event = "end_suite" -> EndSuite(log)
    [] OTHER -> log

\* _before_after_or_on_split_border: on the border or after it.
AtOrAfterBorder(path, split_level) == Len(path) >= split_level + 1

\* SplitLogStatSerializer, for the rows of the statistics by suite.
SplitStatRow(log, path, split_level) ==
  IF ~AtOrAfterBorder(path, split_level)
  THEN [log EXCEPT !.links = @ \cup {SuiteAnchor("log", LongName(path, -1, FALSE))}]
  ELSE LET named == IF Len(path) = split_level + 1
                    THEN [log EXCEPT !.given = @ + 1, !.file = log.given + 1] ELSE log
       IN [named EXCEPT !.links = @ \cup
             {SuiteAnchor(named.file, LongName(path, split_level, FALSE))}]

\* LogStatSerializer, for the statistics at the top of the same file.
StatLinks(rows, file, split_level) ==
  {SuiteAnchor(file, LongName(path, split_level, FALSE)) : path \in Range(rows)}

\* _create_split_sub_log.
SplitSubLog(log, suite, parents, split_level) ==
  LET file == log.given + 1
      rows == SuiteRows(SuiteStatistics(suite, parents), -1, 1)
      sub == Visit(LAMBDA l, e : LogEvent(l, e, file, split_level), suite, parents)
  IN [log EXCEPT !.given = file, !.anchors = @ \cup sub.anchors,
                 !.links = @ \cup StatLinks(rows, file, split_level)]

\* _create_split_sub_logs.
RECURSIVE CreateSplitSubLogs(_, _, _, _)
CreateSplitSubLogs(log, suite, parents, split_level) ==
  IF Len(parents) = split_level THEN SplitSubLog(log, suite, parents, split_level)
  ELSE FoldLeft(LAMBDA l, s : CreateSplitSubLogs(l, s, Append(parents, suite.name), split_level),
                log, suite.suites)

\* serialize_log: a log in one file, or _serialize_split_log.
SerializeLog(suite, statistics, settings) ==
  LET split == settings.split
      rows == SuiteStatRows(statistics, settings)
      whole == Visit(LAMBDA l, e : LogEvent(l, e, "log", -1), suite, <<>>)
      stats == FoldLeft(LAMBDA l, path : SplitStatRow(l, path, split), NewSerializer, rows)
      index == Visit(LAMBDA l, e : SplitLogEvent(l, e, split), suite, <<>>)
      subs == CreateSplitSubLogs(NewSerializer, suite, <<>>, split)
  IN IF split > 0
     THEN [anchors |-> index.anchors \cup subs.anchors,
           links |-> stats.links \cup index.links \cup subs.links]
     ELSE [anchors |-> whole.anchors, links |-> StatLinks(rows, "log", -1)]

\* ReportSerializer: rows for suites and tests, linked to the log, if any.
ReportLink(report, e, file, name) ==
  LET is_test == e.event = "test"
      Anchor(f, n) == IF is_test THEN TestAnchor(f, n) ELSE SuiteAnchor(f, n)
  IN [report EXCEPT !.anchors = @ \cup {Anchor("report", e.path)},
                    !.links = @ \cup {Anchor(file, name)}]

\* The conditions of _set_suite_link and _set_test_link.
IsSplit(level, split_level) == split_level > 0 /\ level > split_level

\* ReportSerializer and SplitReportSerializer.
ReportEvent(report, e, split_level) ==
  LET started == IF e.event = "start_suite" THEN [report EXCEPT !.level = @ + 1]
                                            ELSE report
      named == IF e.event = "start_suite" /\ split_level > 0
                    /\ started.level = split_level + 1
               THEN [started EXCEPT !.given = @ + 1, !.file = report.given + 1]
               ELSE started
  IN CASE e.event = "end_suite" -> EndSuite(report)
       [] IsSplit(named.level, split_level) ->
            ReportLink(named, e, named.file,
                       LongName(e.path, split_level, e.event = "test"))
       [] OTHER -> ReportLink(named, e, "log", e.path)

\* serialize_report: the links to suites and tags are to the report itself.
SerializeReport(suite, statistics, settings) ==
  LET report == Visit(LAMBDA r, e : ReportEvent(r, e, settings.split), suite, <<>>)
      rows == Range(SuiteStatRows(statistics, settings))
      tags == {TagAnchor(t) : t \in DOMAIN statistics.tags}
  IN [anchors |-> report.anchors \cup tags,
      links |-> (IF settings.log = "NONE" THEN {} ELSE report.links)
                  \cup {SuiteAnchor("report", path) : path \in rows} \cup tags]

-----------------------------------------------------------------------------
(* The output file *)

TestNode(test) ==
  [name |-> test.name, tags |-> test.tags, elapsed |-> test.elapsed,
   status |-> test.status, message |-> test.message,
   kws |-> SelectSeq(<<test.setup>> \o test.keywords \o <<test.teardown>>,
                     LAMBDA kw : kw # NoKeyword)]

\* The element of a suite that serialize_output writes.
RECURSIVE SuiteNode(_)
SuiteNode(suite) ==
  [name |-> suite.name, timed |-> suite.timed, elapsed |-> suite.elapsed,
   status |-> suite.status, message |-> suite.message,
   kws |-> SelectSeq(<<suite.setup, suite.teardown>>, LAMBDA kw : kw # NoKeyword),
   suites |-> Map(SuiteNode, suite.suites), tests |-> Map(TestNode, suite.tests)]

=============================================================================
