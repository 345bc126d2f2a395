--------------------------- MODULE VariableScopes ---------------------------
(***************************************************************************)
(* The scopes of a variable: the stores a suite, its test and its user     *)
(* keywords have (running/namespace.py, _VariableScopes), the keywords     *)
(* that set variables in them (libraries/BuiltIn.py), the namespaces of    *)
(* the suites being run (running/__init__.py) and the variables about the  *)
(* previous test (running/context.py, running/model.py).                   *)
(*                                                                         *)
(* One variable is followed.  Its values are numbers in the order in which *)
(* they are first set.                                                     *)
(***************************************************************************)
EXTENDS Integers, Sequences, FiniteSets, SequencesExt

CONSTANTS
  Keywords,     \* the keywords used to set the variable
  MaxDepth,     \* bound: suites in each other
  MaxSuites,    \* bound: suites that are run
  MaxTests,     \* bound: tests that are run
  MaxKeywords,  \* bound: user keywords in each other
  MaxWrites     \* bound: values the variable is set to

SettingKeywords == {"assign", "test", "suite", "global", "file", "resource"}

ASSUME VariableAssumption ==
  /\ Keywords \subseteq SettingKeywords
  /\ {MaxDepth, MaxSuites, MaxTests, MaxKeywords, MaxWrites} \subseteq Nat

VARIABLES
  global,      \* the value in GLOBAL_VARIABLES
  globalPrev,  \* ${PREV_TEST_NAME} in GLOBAL_VARIABLES
  namespaces,  \* the namespaces of the suites being run, innermost last
  suites,      \* the number of suites started
  tests,       \* the number of tests started
  writes,      \* the number of values set
  log,         \* auxiliary: the assignments that are in force
  deferred,    \* auxiliary: the times of those that only what is run later sees
  forgotten    \* auxiliary: a suite of suites has ended since the last test

auxiliaryVars == <<log, deferred, forgotten>>
vars == <<global, globalPrev, namespaces, suites, tests, writes, auxiliaryVars>>

\* What a store without the variable has; also the test before the first one.
Undefined == 0

\* current: the variables of the innermost user keyword, the test or the suite.
\* _test keeps its store after the test.
Current(ns) ==
  IF ns.locals # <<>> THEN Last(ns.locals)
  ELSE IF ns.inTest THEN ns.test ELSE ns.suite

Depth == Len(namespaces)
Top == namespaces[Depth]
Running == namespaces # <<>>

UpdateTop(ns) == namespaces' = [namespaces EXCEPT ![Depth] = ns]

-----------------------------------------------------------------------------
(* Storing a value. *)

StoreLocally(ns, value) ==
  IF ns.locals # <<>> THEN [ns EXCEPT !.locals[Len(ns.locals)] = value]
  ELSE IF ns.inTest THEN [ns EXCEPT !.test = value]
  ELSE [ns EXCEPT !.suite = value]

\* Mutant: the callers of the user keyword do not get the value.
SetTestHere(ns, value) ==
  [StoreLocally(ns, value) EXCEPT !.test = IF ns.tested THEN value ELSE @]

\* set_test: the stores of the test, of the user keywords, of what the first of
\* them was called from, and the current one.
SetTest(ns, value) ==
  [ns EXCEPT !.test = IF ns.tested THEN value ELSE @,
             !.locals = [i \in DOMAIN @ |-> value],
             !.suite = IF ns.inTest THEN @ ELSE value]

SetSuite(ns, value) == [SetTest(ns, value) EXCEPT !.suite = value]

\* set_global, for ns in NAMESPACES
SetGlobal(value) == [d \in 1..Depth |-> SetSuite(namespaces[d], value)]

-----------------------------------------------------------------------------
(* The assignments that are in force.  One to a user keyword is until that *)
(* keyword ends, one to a test until the test ends, one to a suite until   *)
(* the suite ends.  Its time is the number of values set so far.           *)

Entry(scope, value) ==
  [scope |-> scope, depth |-> Depth, level |-> Len(Top.locals), value |-> value,
   time |-> writes']

InTest(e) == e.depth = Depth /\ e.scope \in {"local", "test"}
InSuite(e) == e.depth = Depth /\ e.scope # "global"
InUserKeyword(e) ==
  e.depth = Depth /\ e.scope = "local" /\ e.level = Len(Top.locals)

-----------------------------------------------------------------------------
(* Suites, tests and user keywords. *)

\* With or without a variable from the command line.
Init ==
  /\ globalPrev = Undefined
  /\ namespaces = <<>>
  /\ suites = 0 /\ tests = 0
  /\ deferred = {} /\ forgotten = FALSE
  /\ \/ /\ global = Undefined /\ writes = 0 /\ log = {}
     \/ /\ MaxWrites > 0
        /\ global = 1 /\ writes = 1
        /\ log = {[scope |-> "global", depth |-> 1, level |-> 0, value |-> 1, time |-> 1]}

\* The variables the suite is built with are updated with the global ones.
Namespace(value) ==
  [suite |-> value, test |-> Undefined, locals |-> <<>>, prev |-> globalPrev,
   phase |-> "setup", subs |-> FALSE, tested |-> FALSE, inTest |-> FALSE,
   imported |-> FALSE]

\* RunnableTestSuite._start_run: with variables of its own or without.
StartSuite ==
  /\ suites < MaxSuites /\ Depth < MaxDepth
  /\ IF Running THEN Top.phase # "teardown" /\ Top.locals = <<>> /\ ~Top.tested
     ELSE suites = 0
  /\ suites' = suites + 1
  /\ LET parents == IF Running
                    THEN [namespaces EXCEPT ![Depth] = [Top EXCEPT !.phase = "body", !.subs = TRUE]]
                    ELSE <<>>
     IN \/ /\ namespaces' = Append(parents, Namespace(global))
           /\ UNCHANGED <<writes, log>>
        \/ /\ global = Undefined /\ writes < MaxWrites
           /\ writes' = writes + 1
           /\ namespaces' = Append(parents, Namespace(writes'))
           /\ log' = log \cup {[scope |-> "suite", depth |-> Depth + 1, level |-> 0,
                                value |-> writes', time |-> writes']}
  /\ UNCHANGED <<global, globalPrev, tests, deferred, forgotten>>

\* A suite of a directory has the suites in it and no tests of its own.
MayStartTest(ns) == ~ns.inTest /\ ~ns.subs

StartTest ==
  /\ Running /\ tests < MaxTests
  /\ Top.phase # "teardown" /\ Top.locals = <<>> /\ MayStartTest(Top)
  /\ UpdateTop([Top EXCEPT !.phase = "body", !.test = Top.suite, !.tested = TRUE,
                           !.inTest = TRUE])
  /\ tests' = tests + 1
  /\ UNCHANGED <<global, globalPrev, suites, writes, auxiliaryVars>>

\* end_test, and set_prev_test_variables after it.
EndTest ==
  /\ Running /\ Top.inTest /\ Top.locals = <<>>
  /\ UpdateTop([Top EXCEPT !.inTest = FALSE, !.prev = tests])
  /\ log' = {e \in log : ~InTest(e)} /\ deferred' = {} /\ forgotten' = FALSE
  /\ UNCHANGED <<global, globalPrev, suites, tests, writes>>

StartTeardown ==
  /\ Running /\ Top.phase = "body" /\ Top.locals = <<>> /\ ~Top.inTest
  /\ UpdateTop([Top EXCEPT !.phase = "teardown"])
  /\ UNCHANGED <<global, globalPrev, suites, tests, writes, auxiliaryVars>>

\* copy_prev_test_vars_to_global
PrevAfter(ns) == ns.prev

\* RunnableTestSuite._end_run
EndSuite ==
  /\ Running /\ Top.phase = "teardown" /\ Top.locals = <<>>
  /\ globalPrev' = PrevAfter(Top)
  /\ namespaces' = Front(namespaces)
  /\ log' = {e \in log : ~InSuite(e)}
  /\ forgotten' = (forgotten \/ Top.subs)
  /\ UNCHANGED <<global, suites, tests, writes, deferred>>

\* start_uk: in a test, or in the setup or the teardown of a suite.
StartUserKeyword ==
  /\ Running /\ Len(Top.locals) < MaxKeywords
  /\ Top.inTest \/ Top.phase # "body"
  /\ UpdateTop([Top EXCEPT !.locals = Append(@, Current(Top))])
  /\ UNCHANGED <<global, globalPrev, suites, tests, writes, auxiliaryVars>>

\* end_uk
EndUserKeyword ==
  /\ Running /\ Top.locals # <<>>
  /\ UpdateTop([Top EXCEPT !.locals = Front(@)])
  /\ log' = {e \in log : ~InUserKeyword(e)}
  /\ deferred' = IF Len(Top.locals) = 1 /\ ~Top.inTest THEN {} ELSE deferred
  /\ UNCHANGED <<global, globalPrev, suites, tests, writes, forgotten>>

-----------------------------------------------------------------------------
(* The keywords that set the variable: to a new value or, for Set Test,    *)
(* Suite and Global Variable without a value, to the one it has.           *)

CanSet(keyword) == Running /\ keyword \in Keywords /\ writes < MaxWrites
RunsKeywords(ns) == ns.inTest \/ ns.locals # <<>> \/ ns.phase # "body"

NewOrCurrent(value) == value = writes' \/ (value = Current(Top) /\ value # Undefined)

\* A return value, only of a keyword used in a test or a user keyword.
Assign ==
  /\ CanSet("assign") /\ (Top.inTest \/ Top.locals # <<>>)
  /\ writes' = writes + 1
  /\ UpdateTop(StoreLocally(Top, writes'))
  /\ log' = log \cup {Entry("local", writes')}
  /\ UNCHANGED <<global, globalPrev, suites, tests, deferred, forgotten>>

\* Without a test it fails, that is without a test so far.
SetTestVariable ==
  /\ CanSet("test") /\ RunsKeywords(Top) /\ Top.tested
  /\ writes' = writes + 1
  /\ \E value \in 1..writes' :
       /\ NewOrCurrent(value)
       /\ UpdateTop(SetTest(Top, value))
       /\ log' = log \cup {Entry("test", value)}
  /\ UNCHANGED <<global, globalPrev, suites, tests, deferred, forgotten>>

SetSuiteVariable ==
  /\ CanSet("suite") /\ RunsKeywords(Top)
  /\ writes' = writes + 1
  /\ \E value \in 1..writes' :
       /\ NewOrCurrent(value)
       /\ UpdateTop(SetSuite(Top, value))
       /\ log' = log \cup {Entry("suite", value)}
  /\ UNCHANGED <<global, globalPrev, suites, tests, deferred, forgotten>>

SetGlobalVariable ==
  /\ CanSet("global") /\ RunsKeywords(Top)
  /\ writes' = writes + 1
  /\ \E value \in 1..writes' :
       /\ NewOrCurrent(value)
       /\ global' = value
       /\ namespaces' = SetGlobal(value)
       /\ log' = log \cup {Entry("global", value)}
  /\ UNCHANGED <<globalPrev, suites, tests, deferred, forgotten>>

\* set_from_file stores like set_suite, in the stores it writes to.
SetFromFile(ns, value) == SetSuite(ns, value)

ImportVariables ==
  /\ CanSet("file") /\ RunsKeywords(Top) /\ ~Top.imported
  /\ writes' = writes + 1
  /\ UpdateTop([SetFromFile(Top, writes') EXCEPT !.imported = TRUE])
  /\ log' = log \cup {Entry("suite", writes')}
  /\ UNCHANGED <<global, globalPrev, suites, tests, deferred, forgotten>>

\* set_from_variable_table: only the store of the suite, if it has none.
SetFromTable(ns, value) == [ns EXCEPT !.suite = IF @ = Undefined THEN value ELSE @]

ImportResource ==
  /\ CanSet("resource") /\ RunsKeywords(Top) /\ ~Top.imported
  /\ writes' = writes + 1
  /\ UpdateTop([SetFromTable(Top, writes') EXCEPT !.imported = TRUE])
  /\ log' = IF Top.suite # Undefined THEN log ELSE log \cup {Entry("suite", writes')}
  /\ deferred' = IF Top.suite = Undefined /\ (Top.inTest \/ Top.locals # <<>>)
                 THEN deferred \cup {writes'} ELSE deferred
  /\ UNCHANGED <<global, globalPrev, suites, tests, forgotten>>

Next ==
  \/ StartSuite \/ EndSuite \/ StartTest \/ EndTest \/ StartTeardown
  \/ StartUserKeyword \/ EndUserKeyword
  \/ Assign \/ SetTestVariable \/ SetSuiteVariable \/ SetGlobalVariable
  \/ ImportVariables \/ ImportResource

Spec == Init /\ [][Next]_vars

-----------------------------------------------------------------------------
(* Properties. *)

Values == 0..MaxWrites

NamespaceRecord ==
  [suite: Values, test: Values, locals: Seq(Values), prev: 0..MaxTests,
   phase: {"setup", "body", "teardown"}, subs: BOOLEAN, tested: BOOLEAN,
   inTest: BOOLEAN, imported: BOOLEAN]
EntryRecord ==
  [scope: {"local", "test", "suite", "global"}, depth: 1..(MaxDepth + 1),
   level: 0..MaxKeywords, value: 1..MaxWrites, time: 1..MaxWrites]

\* The stores hold values that were set, and the bounds are kept.
TypeOK ==
  /\ global \in Values /\ globalPrev \in 0..tests
  /\ suites \in 0..MaxSuites /\ tests \in 0..MaxTests /\ writes \in Values
  /\ namespaces \in Seq(NamespaceRecord) /\ Depth <= MaxDepth
  /\ \A d \in 1..Depth :
       /\ namespaces[d].prev <= tests
       /\ namespaces[d].inTest => namespaces[d].tested /\ ~namespaces[d].subs
       /\ Len(namespaces[d].locals) <= MaxKeywords
  /\ log \subseteq EntryRecord /\ deferred \subseteq 1..MaxWrites
  /\ forgotten \in BOOLEAN

\* Assignments of global scope and those of the suite being run, its test and
\* the user keywords in it.
Visible(e) == e.time \notin deferred /\ (e.scope = "global" \/ e.depth = Depth)

IsLatest(e, entries) == e \in entries /\ \A f \in entries : f.time <= e.time

Latest ==
  LET visible == {e \in log : Visible(e)}
  IN IF visible = {} THEN Undefined ELSE (CHOOSE e \in visible : IsLatest(e, visible)).value

\* Whichever keywords set the variable, with whichever scope, from however many
\* user keywords, in whichever of the nested suites: the value a keyword sees is
\* the one assigned last of those whose scope has not ended, and nothing
\* assigned in another suite (unless globally), test or user keyword is seen.
LatestWriteIsVisible == Running => Current(Top) = Latest

\* A test knows which test was run before it, also when that was in another
\* suite: ${PREV_TEST_NAME} goes by way of the global variables.  The end of a
\* suite of suites puts back what was known when it started.
PrevTestIsKnown == Running /\ Top.inTest /\ ~forgotten => Top.prev = tests - 1

\* What a run promises of the variables its keywords set.
VariablesAreKnown == TypeOK /\ LatestWriteIsVisible /\ PrevTestIsKnown

\* The user guide says ${PREV_TEST_NAME} is available everywhere: it is the name
\* of the previous test also in the setups and teardowns of suites.
PrevTestIsKnownEverywhere ==
  Running /\ ~Top.inTest => Top.prev = tests

\* Set Test Variable fails, as its error message says, when no test is started.
TestVariablesNeedATest ==
  Running => \A e \in log : e.scope = "test" /\ e.depth = Depth => Top.inTest

\* Variables of a resource file are available in the suite that imports it.
ImportedVariableIsAvailable ==
  Running /\ Top.imported => Current(Top) # Undefined
=============================================================================
