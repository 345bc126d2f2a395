------------------------------- MODULE Results -------------------------------
(***************************************************************************)
(* The result model: suites and tests as they are read from output files   *)
(* (output/readers.py), selected, tagged and made critical                 *)
(* (common/model.py), and their statistics (common/statistics.py).         *)
(*                                                                         *)
(* A suite is a record with its name, its sub suites and tests in their    *)
(* order, its fixtures, its status and message, its cached statistics, and *)
(* its elapsed time, with `timed` telling whether its start and end times  *)
(* are known.  A message is the sequence of its parts.  Keywords have the  *)
(* levels of their messages and the keywords below them.  Tag patterns and *)
(* name patterns are tags and names, or "*", which matches everything.     *)
(***************************************************************************)
EXTENDS Integers, FiniteSets, SequencesExt

Matches(name, pattern) == pattern \in {name, "*"}

MatchesAny(name, patterns) == \E p \in patterns : Matches(name, p)

Map(Op(_), seq) == [i \in DOMAIN seq |-> Op(seq[i])]

NoKeyword == [type |-> "none", status |-> "NOT_RUN", levels |-> {}, kws |-> <<>>]

Flattened(seqs) == FoldLeft(LAMBDA all, s : all \o s, <<>>, seqs)

-----------------------------------------------------------------------------
(* Counting: Stat, and the statistics suites keep *)

Stat == [passed |-> 0, failed |-> 0]

AddStat(stat, other) ==
  [passed |-> stat.passed + other.passed, failed |-> stat.failed + other.failed]

AddTest(stat, test) ==
  IF test.status = "PASS" THEN [stat EXCEPT !.passed = @ + 1]
                          ELSE [stat EXCEPT !.failed = @ + 1]

FailAll(stat) == [passed |-> 0, failed |-> stat.failed + stat.passed]

StatusOf(stat) == IF stat.failed = 0 THEN "PASS" ELSE "FAIL"

SumOf(elapsed) == FoldLeft(LAMBDA s, x : s + x, 0, elapsed)

\* set_status and _set_stats with _add_test_to_stats and _add_suite_to_stats.
RECURSIVE SetStatus(_)
SetStatus(suite) ==
  LET suites == Map(SetStatus, suite.suites)
      critical ==
        FoldLeft(AddTest,
                 FoldLeft(LAMBDA stat, s : AddStat(stat, s.critical_stats), Stat, suites),
                 SelectSeq(suite.tests, LAMBDA t : t.critical))
      all ==
        FoldLeft(AddTest,
                 FoldLeft(LAMBDA stat, s : AddStat(stat, s.all_stats), Stat, suites),
                 suite.tests)
      elapsed == [i \in DOMAIN suites |-> suites[i].elapsed]
                   \o [i \in DOMAIN suite.tests |-> suite.tests[i].elapsed]
  IN [suite EXCEPT !.suites = suites,
                   !.critical_stats = critical, !.all_stats = all,
                   !.status = StatusOf(critical),
                   !.elapsed = IF suite.timed THEN @
                               ELSE SumOf(elapsed) + suite.fixtures]

\* _set_teardown_fail_msg: the message is what failed before it, and this.
SetTeardownFailMsg(item, message) == [item EXCEPT !.message = Append(@, message)]

ParentFailed == "Teardown of the parent suite failed."

FailTest(test) ==
  SetTeardownFailMsg([test EXCEPT !.status = "FAIL"], ParentFailed)

\* suite_teardown_failed; messages is empty for None.
RECURSIVE SuiteTeardownFailed(_, _)
SuiteTeardownFailed(suite, messages) ==
  LET critical == FailAll(suite.critical_stats)
      FailSub(s) == SuiteTeardownFailed(s, <<ParentFailed>>)
  IN [suite EXCEPT !.message = @ \o messages,
                   !.critical_stats = critical, !.all_stats = FailAll(@),
                   !.status = StatusOf(critical),
                   !.suites = Map(FailSub, @),
                   !.tests = Map(FailTest, @)]

-----------------------------------------------------------------------------
(* Tag rules *)

\* A rule is its parts between NOTs, a part the patterns between its ANDs.
\* The empty string is the part with the empty pattern only.
EmptyPart == <<"">>

ContainsTag(test, part) ==
  \A i \in DOMAIN part : \E tag \in test.tags : Matches(tag, part[i])

ContainsAnyTag(test, parts) == \E i \in DOMAIN parts : ContainsTag(test, parts[i])

\* _split_boolean_operators and _split_nots.
SplitBooleanOperators(rule) ==
  IF EmptyPart \in Range(rule) THEN [must |-> EmptyPart, mustnot |-> <<>>]
                               ELSE [must |-> Head(rule), mustnot |-> Tail(rule)]

MatchesTagRule(test, rule) ==
  LET split == SplitBooleanOperators(rule)
  IN ~ContainsAnyTag(test, split.mustnot) /\ ContainsTag(test, split.must)

MatchesAnyOfThe(test, rules) == \E rule \in rules : MatchesTagRule(test, rule)

IsIncluded(test, includes, excludes) ==
  /\ includes = {} \/ MatchesAnyOfThe(test, includes)
  /\ ~MatchesAnyOfThe(test, excludes)

\* _Critical.are_critical: non-critical tags win.
AreCritical(critical, tags) ==
  /\ ~\E tag \in tags : MatchesAny(tag, critical.nons)
  /\ \/ \E tag \in tags : MatchesAny(tag, critical.tags)
     \/ critical.tags = {}

NoCritical == [tags |-> {}, nons |-> {}]

-----------------------------------------------------------------------------
(* Reading output files *)

\* _MissingStatus and the validation of _BaseReader.
ReadStatusOf(node) == IF node.status = "missing" THEN "FAIL" ELSE node.status

ReadMessage(node) ==
  IF node.status = "missing" THEN <<"Could not find status.">> ELSE node.message

RankOf == [TRACE |-> 10, DEBUG |-> 20, INFO |-> 30, WARN |-> 40, NONE |-> 100]

\* Keyword.__init__ and _KeywordReader: the level is not given to the
\* keywords below this keyword, which use TRACE.
RECURSIVE ReadKeyword(_, _)
ReadKeyword(kw, log_level) ==
  [type |-> kw.type, status |-> kw.status,
   levels |-> {l \in kw.levels : RankOf[l] >= RankOf[log_level]},
   kws |-> [i \in DOMAIN kw.kws |-> ReadKeyword(kw.kws[i], "TRACE")]]

\* The keywords of _TestAndSuiteReader: setup, teardown and the rest.
Fixtures(node, log_level) ==
  LET kws == [i \in DOMAIN node.kws |-> ReadKeyword(node.kws[i], log_level)]
      setup == IF kws # <<>> /\ kws[1].type = "setup" THEN kws[1] ELSE NoKeyword
      later == IF setup = NoKeyword THEN kws ELSE Tail(kws)
      teardown == IF later # <<>> /\ Last(later).type = "teardown"
                  THEN Last(later) ELSE NoKeyword
  IN [setup |-> setup, teardown |-> teardown,
      kws |-> IF teardown = NoKeyword THEN later ELSE Front(later)]

\* TestCase.__init__.
ReadTest(node, critical, log_level) ==
  LET kws == Fixtures(node, log_level)
      tags == node.tags
  IN [name |-> node.name, tags |-> tags, elapsed |-> node.elapsed,
      status |-> ReadStatusOf(node), message |-> ReadMessage(node),
      critical |-> AreCritical(critical, tags),
      setup |-> kws.setup, teardown |-> kws.teardown, keywords |-> kws.kws]

\* Mutant: suite teardowns are looked at in all outputs.
FailsAnyway(generator, teardown) == teardown.status = "FAIL"

\* The last condition of TestSuite.__init__: only outputs of test runs have
\* tests whose status does not yet tell that a suite teardown failed.
TeardownFails(generator, teardown) ==
  generator = "robot" /\ teardown.status = "FAIL"

\* TestSuite.__init__ of readers.py.
RECURSIVE ReadSuite(_, _, _)
ReadSuite(node, generator, log_level) ==
  LET kws == Fixtures(node, log_level)
      ReadSub(s) == ReadSuite(s, generator, log_level)
      ReadOwn(t) == ReadTest(t, NoCritical, log_level)
      suite == SetStatus(
        [name |-> node.name, timed |-> node.timed, elapsed |-> node.elapsed,
         status |-> ReadStatusOf(node), message |-> ReadMessage(node),
         setup |-> kws.setup, teardown |-> kws.teardown,
         fixtures |-> Cardinality({kws.setup, kws.teardown} \ {NoKeyword}),
         suites |-> Map(ReadSub, node.suites), tests |-> Map(ReadOwn, node.tests),
         critical |-> NoCritical, critical_stats |-> Stat, all_stats |-> Stat])
  IN IF TeardownFails(generator, suite.teardown)
     THEN SuiteTeardownFailed(suite, <<>>) ELSE suite

\* CombinedTestSuite.add_suite.
AddSuite(combined, suite) ==
  LET critical == AddStat(combined.critical_stats, suite.critical_stats)
  IN [combined EXCEPT !.suites = Append(@, suite),
                      !.critical_stats = critical,
                      !.all_stats = AddStat(@, suite.all_stats),
                      !.status = StatusOf(critical),
                      !.elapsed = IF combined.timed THEN @ ELSE @ + suite.elapsed]

\* CombinedTestSuite.__init__ with --starttime and --endtime, given or not.
CombinedTestSuite(times) ==
  [name |-> "", timed |-> times # {},
   elapsed |-> IF times = {} THEN 0 ELSE CHOOSE t \in times : TRUE,
   status |-> "NOT_RUN", message |-> <<>>, setup |-> NoKeyword, teardown |-> NoKeyword,
   fixtures |-> 0, suites |-> <<>>, tests |-> <<>>,
   critical |-> NoCritical, critical_stats |-> Stat, all_stats |-> Stat]

\* process_outputs for outputs that can be read.
ProcessOutputs(outputs, settings) ==
  LET suites == [i \in DOMAIN outputs |->
                   ReadSuite(outputs[i].suite, outputs[i].generator, settings.log_level)]
  IN IF Len(outputs) = 1 THEN suites[1]
     ELSE FoldLeft(AddSuite, CombinedTestSuite(settings.times), suites)

ReadErrors(outputs) == Flattened([i \in DOMAIN outputs |-> outputs[i].errors])

-----------------------------------------------------------------------------
(* Setting options *)

RECURSIVE SetTags(_, _)
SetTags(suite, tags) ==
  LET Tag(t) == [t EXCEPT !.tags = @ \cup tags]
      Sub(s) == SetTags(s, tags)
  IN [suite EXCEPT !.tests = Map(Tag, @), !.suites = Map(Sub, @)]

\* Mutant: parts that have been matched stay matched.
StayMatched(name, pattern) ==
  IF Matches(name, Head(pattern.rest))
  THEN [parent |-> Append(pattern.parent, Head(pattern.rest)),
        rest |-> Tail(pattern.rest)]
  ELSE pattern

\* _filter_suite_name: the parts of a name matched so far and the rest of them.
\* The whole name has matched when there is no rest.
FilterSuiteName(name, pattern) ==
  IF Matches(name, Head(pattern.rest))
  THEN [parent |-> Append(pattern.parent, Head(pattern.rest)),
        rest |-> Tail(pattern.rest)]
  ELSE [parent |-> <<>>, rest |-> pattern.parent \o pattern.rest]

\* _filter_suite_names: once a name has matched, everything below is taken.
FilterSuiteNames(name, patterns) ==
  LET filtered == {FilterSuiteName(name, p) : p \in patterns}
  IN IF \E p \in filtered : p.rest = <<>> THEN {} ELSE filtered

HasTests(suite) == suite.suites # <<>> \/ suite.tests # <<>>

\* _filter_by_names of both classes: the times of suites are lost.
RECURSIVE FilterSuitesByNames(_, _, _)
FilterSuitesByNames(suite, patterns, names) ==
  LET left == FilterSuiteNames(suite.name, patterns)
      Sub(s) == FilterSuitesByNames(s, left, names)
  IN SetStatus(
       [suite EXCEPT
         !.timed = FALSE,
         !.suites = SelectSeq(Map(Sub, @), HasTests),
         !.tests = IF left # {} THEN <<>>
                   ELSE SelectSeq(@, LAMBDA t : names = {} \/ MatchesAny(t.name, names))])

FilterByNames(suite, settings) ==
  LET patterns == {[parent |-> <<>>, rest |-> name] : name \in settings.suites}
  IN IF patterns = {} /\ settings.tests = {} THEN suite
     ELSE FilterSuitesByNames(suite, patterns, settings.tests)

\* _filter_by_tags of both classes.
RECURSIVE FilterSuitesByTags(_, _, _)
FilterSuitesByTags(suite, includes, excludes) ==
  LET Sub(s) == FilterSuitesByTags(s, includes, excludes)
  IN SetStatus(
       [suite EXCEPT
         !.timed = FALSE,
         !.suites = SelectSeq(Map(Sub, @), HasTests),
         !.tests = SelectSeq(@, LAMBDA t : IsIncluded(t, includes, excludes))])

FilterByTags(suite, settings) ==
  IF settings.include = {} /\ settings.exclude = {} THEN suite
  ELSE FilterSuitesByTags(suite, settings.include, settings.exclude)

\* _set_critical_tags of both classes.
RECURSIVE SetCriticalIn(_, _)
SetCriticalIn(suite, critical) ==
  LET Sub(s) == SetCriticalIn(s, critical)
      Own(t) == [t EXCEPT !.critical = AreCritical(critical, t.tags)]
  IN SetStatus([suite EXCEPT !.critical = critical, !.suites = Map(Sub, @),
                             !.tests = Map(Own, @)])

SetCriticalTags(suite, settings) ==
  IF settings.critical = NoCritical THEN suite
  ELSE SetCriticalIn(suite, settings.critical)

\* Keyword.remove_data: the keyword stays, what is below it does not.
RemoveData(kw) == [kw EXCEPT !.levels = {}, !.kws = <<>>]

RemoveTestKeywords(test, how) ==
  IF how = "ALL" \/ (how = "PASSED" /\ test.status = "PASS")
  THEN [test EXCEPT !.keywords = Map(RemoveData, @), !.setup = RemoveData(@),
                    !.teardown = RemoveData(@)]
  ELSE test

RECURSIVE RemoveKeywords(_, _)
RemoveKeywords(suite, how) ==
  LET removed == how = "ALL" \/ (how = "PASSED" /\ suite.critical_stats.failed = 0)
      Sub(s) == RemoveKeywords(s, how)
      Own(t) == RemoveTestKeywords(t, how)
  IN [suite EXCEPT !.setup = IF removed THEN RemoveData(@) ELSE @,
                   !.teardown = IF removed THEN RemoveData(@) ELSE @,
                   !.suites = Map(Sub, @), !.tests = Map(Own, @)]

\* set_name: a combined suite has the names of the combined suites.
CombinedName == "Combined"

SetName(suite) ==
  IF suite.name = "" THEN [suite EXCEPT !.name = CombinedName] ELSE suite

\* set_options, for outputs that have tests after filtering.
SetOptions(suite, settings) ==
  LET tagged == SetTags(suite, settings.set_tag)
      filtered == FilterByTags(FilterByNames(tagged, settings), settings)
  IN RemoveKeywords(SetCriticalTags(SetName(filtered), settings), settings.remove_keywords)

\* filter raises DataError when either filter leaves nothing.
NothingLeft(suite, settings) ==
  LET named == FilterByNames(SetTags(suite, settings.set_tag), settings)
  IN \/ ~(settings.suites = {} /\ settings.tests = {}) /\ ~HasTests(named)
     \/ /\ ~(settings.include = {} /\ settings.exclude = {})
        /\ ~HasTests(FilterByTags(named, settings))

=============================================================================
