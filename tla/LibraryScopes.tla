--------------------------- MODULE LibraryScopes ---------------------------
(***************************************************************************)
(* Instances of test libraries: importing them, with and without a custom  *)
(* name (running/importer.py, running/namespace.py), creating and          *)
(* restoring their instances when suites and tests start and end           *)
(* (running/testlibraries.py), and which instance and which method a       *)
(* keyword uses (running/handlers.py).                                     *)
(*                                                                         *)
(* A library is imported once with given arguments; importing it with a    *)
(* custom name makes a shallow copy of the library object.  Suites are     *)
(* nested, and all their namespaces share the imported library objects.    *)
(* The libraries of a namespace are the values of a dictionary, whose      *)
(* hooks are called one after the other in any order.                      *)
(***************************************************************************)
EXTENDS Integers, Sequences, FiniteSets, SequencesExt

CONSTANTS
  Suites, Root,  \* the suites and the one all others are in
  SubSuites,     \* SubSuites[s]: the suites in s, in order
  TestCount,     \* TestCount[s]: the number of tests in s
  Libraries,     \* libraries with the arguments they are imported with
  Scope,         \* Scope[l]: how long an instance of l is used
  Dynamic,       \* libraries with the dynamic API
  Names,         \* custom names
  Imports,       \* Imports[s]: what s imports in its settings, see Import
  Runtime,       \* what the Import Library keyword may import
  Inverted       \* which handlers are called: FALSE x, TRUE failed_x

Scopes == {"TESTCASE", "TESTSUITE", "GLOBAL"}

\* The name of a library that is imported without a custom name.
NoName == 0

Import == [lib: Libraries, name: Names \cup {NoName}]

ASSUME LibraryAssumption ==
  /\ Root \in Suites
  /\ SubSuites \in [Suites -> Seq(Suites)]
  /\ TestCount \in [Suites -> Nat]
  /\ Scope \in [Libraries -> Scopes]
  /\ Dynamic \subseteq Libraries
  /\ NoName \notin Names
  /\ Imports \in [Suites -> Seq(Import)]
  /\ Runtime \subseteq Import
  /\ Inverted \subseteq BOOLEAN

VARIABLES
  running,   \* the suites being run, innermost last, with their namespaces
  todo,      \* the library objects whose hook is still to be called
  started,   \* the suites that have been started
  created,   \* the libraries in the importer's cache
  instance,  \* instance[o]: _libinst of the library object o
  cache,     \* cache[l]: the _instance_cache of l and of all copies of l
  bound,     \* bound[l]: the instance l had when its handlers were created
  swapped,   \* the copies whose x is the handler of failed_x
  count,     \* the number of instances created
  uses,      \* auxiliary: which instance ran keywords of what in which scope
  last       \* auxiliary: the last keyword: what it did and what was reported

libState == <<created, instance, cache, bound, swapped, count>>
vars == <<running, todo, started, libState, uses, last>>

NoInstance == 0

\* A library object: of a library itself or, with a name, of the copy made for
\* the namespace of a suite.
Objects == [lib: Libraries, name: Names, suite: Suites]
           \cup [lib: Libraries, name: {NoName}, suite: {Root}]

Object(i, s) ==
  [lib |-> i.lib, name |-> i.name, suite |-> IF i.name = NoName THEN Root ELSE s]

\* The name a namespace knows a library by; without a custom name it is its own.
NameOf(o) == IF o.name = NoName THEN <<o.lib>> ELSE <<o.name>>

Top == running[Len(running)]
InTest(frame) == frame.phase = "test"

-----------------------------------------------------------------------------
(* Library objects.  L is a record of the variables in libState. *)

LibState == [created |-> created, instance |-> instance, cache |-> cache,
             bound |-> bound, swapped |-> swapped, count |-> count]

SetLibState(L) ==
  /\ created' = L.created /\ instance' = L.instance /\ cache' = L.cache
  /\ bound' = L.bound /\ swapped' = L.swapped /\ count' = L.count

CachingStart(L, o) ==
  [L EXCEPT !.cache[o.lib] = Append(@, L.instance[o]),
            !.instance[o] = NoInstance]

\* Mutant: the remembered instance is dropped.
Forget(L, o) == [L EXCEPT !.instance[o] = NoInstance, !.cache[o.lib] = Front(@)]
RestoringEnd(L, o) ==
  [L EXCEPT !.instance[o] = Last(L.cache[o.lib]),
            !.cache[o.lib] = Front(@)]

\* init_scope_handling: which hooks do something depends on the scope.
StartSuiteHook(L, o) == IF Scope[o.lib] = "GLOBAL" THEN L ELSE CachingStart(L, o)
StartTestHook(L, o) == IF Scope[o.lib] = "TESTCASE" THEN CachingStart(L, o) ELSE L
EndSuiteHook(L, o) == IF Scope[o.lib] = "GLOBAL" THEN L ELSE RestoringEnd(L, o)
EndTestHook(L, o) == IF Scope[o.lib] = "TESTCASE" THEN RestoringEnd(L, o) ELSE L

\* create_handlers needs an instance, which only global libraries keep.
Created(L, l) ==
  IF l \in L.created THEN L
  ELSE [L EXCEPT !.created = @ \cup {l}, !.count = @ + 1, !.bound[l] = L.count + 1,
                 !.instance[[lib |-> l, name |-> NoName, suite |-> Root]] =
                    IF Scope[l] = "GLOBAL" THEN L.count + 1 ELSE NoInstance]

\* _copy_library: the handlers are stored by name, and failed_x has the name of
\* x, so that either of them may remain.
Copied(L, o, swap) ==
  IF o.name = NoName THEN L
  ELSE [L EXCEPT !.instance[o] =
                    IF Scope[o.lib] = "GLOBAL" THEN L.bound[o.lib] ELSE NoInstance,
                 !.swapped = IF swap THEN @ \cup {o} ELSE @ \ {o}]

Known(objects, o) == \E p \in objects : NameOf(p) = NameOf(o)

-----------------------------------------------------------------------------
(* The run of the suites *)

NoCall == [lib |-> NoName, inverted |-> FALSE, failed |-> FALSE, reported |-> FALSE]

Init ==
  /\ running = <<>> /\ todo = {} /\ started = {}
  /\ created = {} /\ swapped = {} /\ count = 0 /\ uses = {} /\ last = NoCall
  /\ instance = [o \in Objects |-> NoInstance]
  /\ cache = [l \in Libraries |-> <<>>]
  /\ bound = [l \in Libraries |-> NoInstance]

\* The suite of the innermost namespace goes on in another phase.
Proceed(frame) == running' = Append(Front(running), frame)
Enter(phase, pos) == Proceed([Top EXCEPT !.phase = phase, !.pos = pos])
In(phase) == running # <<>> /\ Top.phase = phase

\* Namespace._import_library of the innermost suite, which has come to pos.
ImportInto(i, pos) ==
  LET o == Object(i, Top.suite)
      C == Created(LibState, i.lib)
  IN IF Known(Top.libs, o)
     THEN SetLibState(C) /\ Proceed([Top EXCEPT !.pos = pos])
     ELSE /\ \E swap \in BOOLEAN :
               LET A == StartSuiteHook(Copied(C, o, swap), o)
               IN SetLibState(IF InTest(Top) THEN StartTestHook(A, o) ELSE A)
          /\ Proceed([Top EXCEPT !.pos = pos, !.libs = @ \cup {o}])

\* A suite starts with its namespace.
StartSuite(s) ==
  /\ s \notin started
  /\ IF running = <<>> THEN s = Root /\ started = {}
     ELSE /\ Top.phase = "suites" /\ Top.pos <= Len(SubSuites[Top.suite])
          /\ s = SubSuites[Top.suite][Top.pos]
  /\ running' = Append(IF running = <<>> THEN <<>>
                       ELSE Append(Front(running), [Top EXCEPT !.pos = @ + 1]),
                       [suite |-> s, phase |-> "imports", pos |-> 1, libs |-> {}])
  /\ started' = started \cup {s}
  /\ last' = NoCall /\ UNCHANGED <<todo, libState, uses>>

\* The namespace imports the libraries of the settings, one after the other.
ImportSetting ==
  /\ In("imports") /\ Top.pos <= Len(Imports[Top.suite])
  /\ ImportInto(Imports[Top.suite][Top.pos], Top.pos + 1)
  /\ last' = NoCall /\ UNCHANGED <<todo, started, uses>>

\* The imports, the suite setup, all sub suites or the hooks are over.
NextPhase ==
  /\ \/ In("imports") /\ Top.pos > Len(Imports[Top.suite]) /\ Enter("setup", 0)
     \/ In("setup") /\ Enter("suites", 1)
     \/ In("suites") /\ Top.pos > Len(SubSuites[Top.suite]) /\ Enter("tests", 1)
     \/ In("tests") /\ Top.pos > TestCount[Top.suite] /\ Enter("teardown", Top.pos)
     \/ In("starting") /\ todo = {} /\ Enter("test", Top.pos)
     \/ In("ending") /\ todo = {} /\ Enter("tests", Top.pos + 1)
  /\ last' = NoCall
  /\ UNCHANGED <<todo, started, libState, uses>>

\* A test starts or ends, or the suite does: all libraries are told.
StartTest == In("tests") /\ Top.pos <= TestCount[Top.suite] /\ Enter("starting", Top.pos)
EndTest == In("test") /\ Enter("ending", Top.pos)
EndSuite == In("teardown") /\ Enter("closing", Top.pos)
CallHooks ==
  /\ StartTest \/ EndTest \/ EndSuite
  /\ todo' = Top.libs
  /\ last' = NoCall /\ UNCHANGED <<started, libState, uses>>

Hook(o) ==
  /\ o \in todo /\ todo' = todo \ {o}
  /\ \/ In("starting") /\ SetLibState(StartTestHook(LibState, o))
     \/ In("ending") /\ SetLibState(EndTestHook(LibState, o))
     \/ In("closing") /\ SetLibState(EndSuiteHook(LibState, o))
  /\ last' = NoCall /\ UNCHANGED <<running, started, uses>>

LeaveSuite ==
  /\ In("closing") /\ todo = {}
  /\ running' = Front(running)
  /\ last' = NoCall /\ UNCHANGED <<todo, started, libState, uses>>

-----------------------------------------------------------------------------
(* Keywords *)

\* Keywords are run in the setup and teardown of suites, and in tests.
RunsKeywords(frame) == frame.phase \in {"setup", "test", "teardown"}

\* The scope an instance is meant for.
ScopeOf(o, frame) ==
  [suite |-> IF Scope[o.lib] = "GLOBAL" THEN Root ELSE frame.suite,
   test |-> IF Scope[o.lib] = "TESTCASE" /\ InTest(frame) THEN frame.pos ELSE 0]

\* get_instance
WithInstance(L, o) ==
  IF L.instance[o] # NoInstance THEN L
  ELSE [L EXCEPT !.count = @ + 1, !.instance[o] = L.count + 1]

\* _current_handler: handlers of global libraries are bound to the instance that
\* existed when they were created; those of dynamic libraries as well.
Target(L, o) ==
  IF Scope[o.lib] = "GLOBAL" \/ o.lib \in Dynamic THEN L.bound[o.lib]
  ELSE L.instance[o]

\* Whether the handler of x (or failed_x) inverts the result: when the method is
\* looked up by name, the one _func_inverter returned is not found.
Inverts(o, inverted) ==
  /\ Scope[o.lib] = "GLOBAL" \/ o.lib \in Dynamic
  /\ IF o.name = NoName THEN inverted ELSE o \in swapped

\* A keyword of o is run.  A copy has no failed_x.
RunKeyword(o) ==
  LET L == IF Scope[o.lib] = "GLOBAL" THEN LibState ELSE WithInstance(LibState, o)
  IN /\ running # <<>> /\ RunsKeywords(Top)
     /\ o \in Top.libs
     /\ SetLibState(L)
     /\ uses' = uses \cup {[lib |-> o.lib, name |-> o.name, scope |-> ScopeOf(o, Top),
                            instance |-> Target(L, o)]}
     /\ \E inverted \in Inverted, failed \in BOOLEAN :
          /\ inverted => o.name = NoName
          /\ last' = [lib |-> o.lib, inverted |-> inverted, failed |-> failed,
                      reported |-> (failed # Inverts(o, inverted))]
     /\ UNCHANGED <<running, todo, started>>

\* The Import Library keyword.
ImportLibrary(i) ==
  /\ running # <<>> /\ RunsKeywords(Top)
  /\ ImportInto(i, Top.pos)
  /\ last' = NoCall /\ UNCHANGED <<todo, started, uses>>

Over == running = <<>> /\ started # {} /\ UNCHANGED vars

Next ==
  \/ \E s \in Suites : StartSuite(s)
  \/ ImportSetting \/ NextPhase \/ CallHooks \/ LeaveSuite
  \/ \E o \in Objects : Hook(o) \/ RunKeyword(o)
  \/ \E i \in Runtime : ImportLibrary(i)
  \/ Over

Spec == Init /\ [][Next]_vars

-----------------------------------------------------------------------------
(* Properties *)

Phases == {"imports", "setup", "suites", "tests", "starting", "test", "ending",
           "teardown", "closing"}

\* The type invariant.
TypeOK ==
  /\ running \in Seq([suite: Suites, phase: Phases, pos: Nat, libs: SUBSET Objects])
  /\ todo \subseteq Objects /\ started \subseteq Suites
  /\ created = {l \in Libraries : bound[l] # NoInstance}
  /\ swapped \subseteq Objects
  /\ instance \in [Objects -> 0..count]
  /\ cache \in [Libraries -> Seq(0..count)]
  /\ bound \in [Libraries -> 0..count]
  /\ count \in Nat

\* The library objects that have been told of the beginning and not of the end of
\* the n-th suite, and of the test in it.
HeldBySuite(n) == IF running[n].phase = "closing" THEN todo ELSE running[n].libs
HeldByTest(n) ==
  IF running[n].phase = "starting" THEN running[n].libs \ todo
  ELSE IF InTest(running[n]) THEN running[n].libs
  ELSE IF running[n].phase = "ending" THEN todo ELSE {}

\* The scopes of l that are open: one for every suite that has imported it under
\* some name, and one for the test if instances are test case scoped.
SuiteScopes(l) == {x \in (DOMAIN running) \X Objects : x[2] \in HeldBySuite(x[1]) /\ x[2].lib = l}
TestScopes(l) == {x \in (DOMAIN running) \X Objects : x[2] \in HeldByTest(x[1]) /\ x[2].lib = l}
OpenScopes(l) ==
  (IF Scope[l] = "GLOBAL" THEN 0 ELSE Cardinality(SuiteScopes(l)))
  + (IF Scope[l] = "TESTCASE" THEN Cardinality(TestScopes(l)) ELSE 0)

\* Whatever is imported when, the start and end hooks of a library are called in
\* pairs: one instance is remembered for every scope that is open.
CacheMatchesScopes == \A l \in Libraries : Len(cache[l]) = OpenScopes(l)

\* CreatingTestLibraries.txt: all keywords of a library that are run in a test,
\* and all in the setup and teardown of a suite, use one instance; with a wider
\* scope all in a suite, or all in the whole run, do.
OneInstancePerScope ==
  \A u, v \in uses :
    (u.lib = v.lib /\ u.name = v.name /\ u.scope = v.scope) => u.instance = v.instance

\* CreatingTestLibraries.txt: "A new instance is created for every test case" or
\* test suite, so no two tests, or suites, share one.
NoInstanceInTwoScopes ==
  \A u, v \in uses : (u.lib = v.lib /\ u.scope # v.scope) => u.instance # v.instance

\* An instance that was put aside is never lost: when a suite's teardown begins
\* after its sub suites and tests, the instance its setup used is back.
TeardownHasSetupInstance ==
  (running # <<>> /\ Top.phase = "teardown") =>
    \A u \in uses, o \in Top.libs :
      (u.lib = o.lib /\ u.name = o.name /\ u.scope = ScopeOf(o, Top))
        => instance[o] = u.instance

\* What a run promises of the instances of libraries.
InstancesFollowScopes ==
  /\ TypeOK /\ CacheMatchesScopes
  /\ OneInstancePerScope /\ NoInstanceInTwoScopes /\ TeardownHasSetupInstance

\* A keyword fails if and only if its method raises an exception.
KeywordFailsWithMethod ==
  (last # NoCall /\ ~last.inverted) => (last.reported <=> last.failed)

\* testlibraries.py: "Create the 'intended failure' handler": failed_x passes if x
\* fails, and "Test was successful. It was supposed to fail." otherwise.
IntendedFailure ==
  (last # NoCall /\ last.inverted) => (last.reported <=> ~last.failed)
=============================================================================
