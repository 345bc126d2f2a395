--------------------------- MODULE TestConditions ---------------------------
(***************************************************************************)
(* Keywords that look at, or change, the tests that are run: those of      *)
(* BuiltIn that run a keyword in a teardown when tests have passed or      *)
(* failed, and Set Tags and Remove Tags, whose tags decide which tests are *)
(* critical. SuiteRun says which tests are run; here all of them are.      *)
(***************************************************************************)
EXTENDS Integers, Sequences, FiniteSets, SequencesExt

CONSTANTS TopSuite, SuitesOf, TestsOf, \* the suites, as in SuiteRun
          Tags,        \* that are set and removed
          WrittenTags, \* test -> the tags in its data
          TagValue,    \* tag with variables -> the tag it becomes
          Critical, NonCritical, \* tags of --critical and --noncritical
          MaxStatusKeywords, \* bound: keywords of these that are used
          NoTest
ASSUME ConditionsAssumption == MaxStatusKeywords \in Nat

VARIABLES path,      \* suites that are run, the innermost, whose namespace is current, last
          stage,    \* what the innermost does: "setup", "run", "test", "test teardown", "teardown"
          test,      \* the test of the namespace
          status,    \* of suites and tests
          tags, critical, \* of tests
          testTags,  \* @{TEST_TAGS} of the test
          timer,     \* timeout of the test: "none", "running", or "up" when its time is up
          keywordTimeouted, \* of the timeout of the test
          stats,     \* suite -> [all, critical], failed tests
          used, ran, \* how many keywords have been used, and what the last one did
          failed, late \* tests that have failed, and in which a timeout has occurred (history)
conditionVars == <<path, stage, test, status, tags, critical, testTags, timer, keywordTimeouted, stats, used, ran, failed, late>>

AllSuites == DOMAIN TestsOf
AllTests == DOMAIN WrittenTags
RECURSIVE TestsIn(_)
TestsIn(s) == Range(TestsOf[s]) \cup UNION {TestsIn(sub): sub \in Range(SuitesOf[s])}
CurrentItem == Last(path)
AreCritical(ts) == ts \cap NonCritical = {} /\ (ts \cap Critical # {} \/ Critical = {})
Items(s) == SuitesOf[s] \o TestsOf[s]
NextOf(s) == SelectInSeq(Items(s), LAMBDA x: status[x] = "NOT_RUN")

------------------------------------------------------------------------------
ConditionsInit ==
    /\ path = <<TopSuite>> /\ stage = "setup" /\ test = NoTest
    /\ status = [x \in AllSuites \cup AllTests |-> IF x = TopSuite THEN "RUNNING" ELSE "NOT_RUN"]
    /\ tags = WrittenTags /\ critical = [t \in AllTests |-> AreCritical(WrittenTags[t])]
    /\ testTags = {} /\ timer = "none" /\ keywordTimeouted = FALSE
    /\ stats = [s \in AllSuites |-> NoTest]
    /\ used = 0 /\ ran = NoTest /\ failed = {} /\ late = {}
SetupEnds ==
    /\ stage = "setup" /\ stage' = "run"
    /\ UNCHANGED <<path, test, status, tags, critical, testTags, timer, keywordTimeouted, stats, used, ran, failed, late>>
EnterSuite ==
    /\ stage = "run" /\ NextOf(CurrentItem) \in 1..Len(SuitesOf[CurrentItem])
    /\ LET sub == Items(CurrentItem)[NextOf(CurrentItem)]
       IN  path' = Append(path, sub) /\ status' = [status EXCEPT ![sub] = "RUNNING"]
    /\ stage' = "setup"
    /\ UNCHANGED <<test, tags, critical, testTags, timer, keywordTimeouted, stats, used, ran, failed, late>>
EnterTest == \* variables in the tags are replaced
    /\ stage = "run" /\ NextOf(CurrentItem) > Len(SuitesOf[CurrentItem])
    /\ LET t == Items(CurrentItem)[NextOf(CurrentItem)]
           replaced == {IF tag \in DOMAIN TagValue THEN TagValue[tag] ELSE tag: tag \in tags[t]}
       IN  /\ test' = t /\ status' = [status EXCEPT ![t] = "RUNNING"]
           /\ tags' = [tags EXCEPT ![t] = replaced] /\ testTags' = replaced
    /\ stage' = "test" /\ timer' \in {"none", "running"} /\ keywordTimeouted' = FALSE
    /\ UNCHANGED <<path, critical, stats, used, ran, failed, late>>
\* Time goes on, also in the teardown, in which no keyword is stopped for it.
TimeIsUp ==
    /\ timer = "running" /\ timer' = "up" /\ late' = late \cup {test}
    /\ UNCHANGED <<path, stage, test, status, tags, critical, testTags, keywordTimeouted, stats, used, ran, failed>>
\* The status is set before the teardown. A failure can be that of a timeout, of
\* the test or of a keyword.
BodyEnds(passes, timeout) ==
    /\ stage = "test" /\ (timeout => ~passes)
    /\ status' = [status EXCEPT ![test] = IF passes THEN "PASS" ELSE "FAIL"]
    /\ failed' = IF passes THEN failed ELSE failed \cup {test}
    /\ keywordTimeouted' = (keywordTimeouted \/ timeout)
    /\ late' = IF timeout THEN late \cup {test} ELSE late
    /\ stage' = "test teardown"
    /\ UNCHANGED <<path, test, tags, critical, testTags, timer, stats, used, ran>>
TestEndsAs(passes) ==
    /\ stage = "test teardown" /\ test' = NoTest
    /\ status' = [status EXCEPT ![test] = IF passes THEN @ ELSE "FAIL"]
    /\ failed' = IF passes THEN failed ELSE failed \cup {test}
    /\ stage' = "run" /\ testTags' = {} /\ timer' = "none"
    /\ UNCHANGED <<path, tags, critical, keywordTimeouted, stats, used, ran, late>>
\* The status is set again after the teardown.
TestEnds(passes) ==
    TestEndsAs(passes /\ timer # "up")
FailedTests(s) == {t \in TestsIn(s): status[t] # "PASS"}
\* Mutant: only the tests of the suite itself are counted.
CountOwn(s) ==
    [all |-> Cardinality(FailedTests(s) \cap Range(TestsOf[s])),
     critical |-> Cardinality({t \in FailedTests(s) \cap Range(TestsOf[s]): critical[t]})]
SetStats(s) == [all |-> Cardinality(FailedTests(s)), critical |-> Cardinality({t \in FailedTests(s): critical[t]})]
ReportStatus == \* also the statistics of the sub suites are calculated again
    /\ stage = "run" /\ NextOf(CurrentItem) = 0
    /\ stats' = [stats EXCEPT ![CurrentItem] = SetStats(CurrentItem)]
    /\ status' = [status EXCEPT ![CurrentItem] = IF SetStats(CurrentItem).critical = 0 THEN "PASS" ELSE "FAIL"]
    /\ stage' = "teardown"
    /\ UNCHANGED <<path, test, tags, critical, testTags, timer, keywordTimeouted, used, ran, failed, late>>
SuiteEnds(passes) == \* the tests of a suite whose teardown fails have failed
    /\ stage = "teardown" /\ Len(path) > 1
    /\ path' = Front(path) /\ stage' = "run"
    /\ status' = IF passes THEN status ELSE [x \in DOMAIN status |-> IF x \in TestsIn(CurrentItem) THEN "FAIL" ELSE status[x]]
    /\ failed' = IF passes THEN failed ELSE failed \cup TestsIn(CurrentItem)
    /\ UNCHANGED <<test, tags, critical, testTags, timer, keywordTimeouted, stats, used, ran, late>>

------------------------------------------------------------------------------
(***************************************************************************)
(* The keywords.                                                           *)
(***************************************************************************)
TestConditions == {"test failed", "test passed", "timeout occurred"}
SuiteConditions == {"all critical passed", "any critical failed", "all passed", "any failed"}
KeywordIsUsed == stage # "run" /\ used < MaxStatusKeywords /\ used' = used + 1
GetTestInTeardown == test # NoTest /\ status[test] # "RUNNING"
GetSuiteInTeardown == status[CurrentItem] # "RUNNING"
Holds(condition) ==
    CASE condition = "test failed" -> status[test] = "FAIL"
      [] condition = "test passed" -> status[test] = "PASS"
      [] condition = "timeout occurred" -> timer = "up" \/ keywordTimeouted
      [] condition = "all critical passed" -> stats[CurrentItem].critical = 0
      [] condition = "any critical failed" -> stats[CurrentItem].critical > 0
      [] condition = "all passed" -> stats[CurrentItem].all = 0
      [] condition = "any failed" -> stats[CurrentItem].all > 0
RunKeywordIf(condition) ==
    /\ KeywordIsUsed
    /\ LET allowed == IF condition \in TestConditions THEN GetTestInTeardown ELSE GetSuiteInTeardown
       IN  ran' = [condition |-> condition, outcome |-> IF ~allowed THEN "error" ELSE IF Holds(condition) THEN "run" ELSE "not run",
                   failed |-> failed, late |-> late, tags |-> tags, moment |-> stage, suite |-> CurrentItem, test |-> test]
    /\ UNCHANGED <<path, stage, test, status, tags, critical, testTags, timer, keywordTimeouted, stats, failed, late>>
SetCriticalTags(newTags) == \* of all tests in the suite
    [t \in AllTests |-> IF t \in TestsIn(CurrentItem) THEN AreCritical(newTags[t]) ELSE critical[t]]
ChangeTags(newTags) ==
    /\ KeywordIsUsed
    /\ tags' = newTags /\ critical' = SetCriticalTags(newTags)
    /\ testTags' = IF test # NoTest THEN newTags[test] ELSE testTags
    /\ UNCHANGED <<path, stage, test, status, timer, keywordTimeouted, stats, ran, failed, late>>
TagsError == test = NoTest /\ status[CurrentItem] # "RUNNING"
SetOrRemoveTags(change) == \* of the test, or of all in the suite, not in its teardown
    LET changed == IF test # NoTest THEN {test} ELSE TestsIn(CurrentItem)
    IN  ~TagsError /\ ChangeTags([t \in AllTests |-> IF t \in changed THEN change[tags[t]] ELSE tags[t]])
TagSets == SUBSET (Tags \cup UNION {WrittenTags[t]: t \in AllTests} \cup Range(TagValue))
SetTags(tag) == SetOrRemoveTags([ts \in TagSets |-> ts \cup {tag}])
RemoveTags(tag) == SetOrRemoveTags([ts \in TagSets |-> ts \ {tag}])

ConditionsNext ==
    \/ SetupEnds \/ EnterSuite \/ EnterTest \/ TimeIsUp \/ ReportStatus
    \/ \E passes, timeout \in BOOLEAN: BodyEnds(passes, timeout)
    \/ \E passes \in BOOLEAN: TestEnds(passes) \/ SuiteEnds(passes)
    \/ \E condition \in TestConditions \cup SuiteConditions: RunKeywordIf(condition)
    \/ \E tag \in Tags: SetTags(tag) \/ RemoveTags(tag)
ConditionsSpec == ConditionsInit /\ [][ConditionsNext]_conditionVars

------------------------------------------------------------------------------
\* A keyword is run in the teardown of a suite exactly when the tests of the
\* suite and of its sub suites, whatever their teardowns and their tags have
\* become by then, have passed or failed as its condition says, in the teardown
\* of a test when the test has so far, or a timeout has occurred so far, and not
\* elsewhere.
ConditionsTellTheTruth ==
    ran # NoTest =>
        LET fails == ran.failed \cap TestsIn(ran.suite)
            truth == CASE ran.condition = "test failed" -> ran.test \in fails
                       [] ran.condition = "test passed" -> ran.test \notin fails
                       [] ran.condition = "timeout occurred" -> ran.test \in ran.late
                       [] ran.condition = "all passed" -> fails = {}
                       [] ran.condition = "any failed" -> fails # {}
                       [] ran.condition = "all critical passed" -> \A t \in fails: ~AreCritical(ran.tags[t])
                       [] ran.condition = "any critical failed" -> \E t \in fails: AreCritical(ran.tags[t])
            place == IF ran.condition \in TestConditions THEN "test teardown" ELSE "teardown"
        IN  ran.outcome = IF ran.moment # place THEN "error" ELSE IF truth THEN "run" ELSE "not run"

\* A test in which a timeout occurs, be it in its teardown, does not pass: what
\* was run because of it belongs to a test that fails, though the test had
\* passed when the teardown began.
TimeoutsFail ==
    /\ \A t \in late \ {test}: status[t] = "FAIL"
    /\ ran # NoTest /\ ran.condition = "timeout occurred" /\ ran.outcome = "run" /\ ran.test # test =>
           status[ran.test] = "FAIL"

\* A test knows its tags, and is critical when they say so.
TagsAreKnown ==
    /\ test # NoTest => testTags = tags[test]
    /\ \A t \in AllTests: critical[t] = AreCritical(tags[t])

\* A test is critical also when a variable gives it the tag.
\* doc: src/robot/runner.py:95 "Tests having given tag are considered critical."
VariableTagsAreCritical ==
    \A t \in AllTests: critical[t] = AreCritical(tags[t])
=============================================================================
