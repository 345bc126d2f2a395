----------------------------- MODULE MCLibraries ----------------------------
(***************************************************************************)
(* Instances of libraries and keywords of the standard libraries for TLC.  *)
(* The components share no state, so one of them runs in each behavior,    *)
(* while the others keep one of their initial states.                      *)
(***************************************************************************)
EXTENDS LibraryScopes, OperatingSystem, Collections, Connections, Times,
        TestConditions, Verifications, Paths, TLC

VARIABLE active    \* the component that runs

\* LibraryScopes: a suite with tests in a suite with a setup and a teardown.
\* The outer suite imports both libraries, the inner one perSuite with a custom
\* name; keywords may import perTest, too.
CONSTANTS outer, inner, perTest, perSuite, alias

NestedSuites == {outer, inner}
NestedSubSuites == [s \in NestedSuites |-> IF s = outer THEN <<inner>> ELSE <<>>]
TwoTests == [s \in NestedSuites |-> IF s = inner THEN 2 ELSE 0]
TwoLibraries == {perTest, perSuite}
TwoScopes == [l \in TwoLibraries |-> IF l = perTest THEN "TESTCASE" ELSE "TESTSUITE"]
Plain(l) == [lib |-> l, name |-> NoName]
NestedImports ==
  [s \in NestedSuites |->
     IF s = outer THEN <<Plain(perTest), Plain(perSuite)>>
     ELSE <<[lib |-> perSuite, name |-> alias]>>]
\* A library imported with and without a custom name, and one that is always used.
ImportedTwice == [s \in NestedSuites |-> <<Plain(perTest), [lib |-> perTest, name |-> alias]>>]
GlobalScopes == [l \in TwoLibraries |-> "GLOBAL"]
ImportAtRuntime == {Plain(perTest)}
Ordinary == {FALSE}

\* OperatingSystem: every tree two deep, in which files have different data.
MCWatched == {<<"b", "a">>}
MCTimeouts == {-1, 0, 2}
MCFirstFiles ==
    LET items(p) == {Dir, File(p)}
    IN  {With(f, <<>>, Dir): f \in
            UNION {{f \in [D -> {Dir} \cup {File(p): p \in D}]:
                       \A p \in D: /\ f[p] \in items(p)
                                   /\ Len(p) > 1 => ParentPath(p) \in D /\ f[ParentPath(p)].dir}
                   : D \in SUBSET {p \in Paths: Len(p) <= 2}}}

\* Connections: indexes, and an alias that is spelled like an index.
MCNames == {[alias |-> "2", number |-> 2], IntName(1), IntName(2)}

\* Times: moments around midnight, a leap day and the turn of a year, in zones
\* without summer time; and a zone with it.
MCDurations == {0, 1, -1, 999, 1000, 59999, 60000, 3599999, 86399999, 86400000, -90061001, 1000000000}
MCMoment(secs, millis) == [secs |-> secs, millis |-> millis]
MCMoments ==
    {MCMoment(1199145599, 999), MCMoment(1199145600, 0), MCMoment(1204243199, 500),
     MCMoment(1204286399, 1), MCMoment(1177654467, 0), MCMoment(1191247962, 268), MCMoment(1191247962, 999)}
MCZone(offset, dst) == [offset |-> offset, dst |-> dst, summer |-> 4..9]
MCZones == {MCZone(o, FALSE): o \in {0, 19800, -36000}}
MCSummerZones == {MCZone(7200, TRUE)}

\* TestConditions: a suite with a test and a sub suite with another, one of them
\* critical; and a test that gets the critical tag from a variable.
MCSubSuites == [s \in {"top", "sub"} |-> IF s = "top" THEN <<"sub">> ELSE <<>>]
MCTestsOf == [s \in {"top", "sub"} |-> IF s = "top" THEN <<"t1">> ELSE <<"t2">>]
MCWrittenTags == ("t1" :> {"a"}) @@ ("t2" :> {"b"})
MCVariableTags == ("t1" :> {"a"}) @@ ("t2" :> {"${v}"})
MCTagValue == "${v}" :> "a"

\* Of the initial states of a component that does not run only one is used.
LibrariesInit ==
    /\ active \in {"scopes", "files", "collections", "connections", "times",
                   "conditions", "verifications", "paths"}
    /\ active # "files" => fs = CHOOSE f \in FirstFiles: TRUE
    /\ active # "collections" => other = <<>> /\ dict2 = <<>>
    /\ active # "times" => /\ duration = CHOOSE d \in Durations: TRUE
                           /\ moment = CHOOSE m \in Moments: TRUE
                           /\ zone = CHOOSE z \in Zones: TRUE
    /\ active # "verifications" => /\ first = CHOOSE v \in Values: TRUE
                                   /\ second = first /\ message = FALSE /\ values = "True"
    /\ Init /\ FilesInit /\ CollectionsInit /\ ConnectionsInit /\ TimesInit
    /\ ConditionsInit /\ VerificationInit /\ PathsInit

Others(component) ==
    /\ UNCHANGED active
    /\ component # "scopes" => UNCHANGED vars
    /\ component # "files" => UNCHANGED fileVars
    /\ component # "collections" => UNCHANGED collectionVars
    /\ component # "connections" => UNCHANGED connectionVars
    /\ component # "times" => UNCHANGED timeVars
    /\ component # "conditions" => UNCHANGED conditionVars
    /\ component # "verifications" => UNCHANGED verificationVars
    /\ component # "paths" => UNCHANGED pathVars

LibrariesNext ==
    \/ active = "scopes" /\ Next /\ Others("scopes")
    \/ active = "files" /\ FilesNext /\ Others("files")
    \/ active = "collections" /\ CollectionsNext /\ Others("collections")
    \/ active = "connections" /\ ConnectionsNext /\ Others("connections")
    \/ active = "times" /\ TimesNext /\ Others("times")
    \/ active = "conditions" /\ ConditionsNext /\ Others("conditions")
    \/ active = "verifications" /\ VerificationNext /\ Others("verifications")
    \/ active = "paths" /\ PathsNext /\ Others("paths")

libraryVars ==
    <<active, vars, fileVars, collectionVars, connectionVars, timeVars,
      conditionVars, verificationVars, pathVars>>
LibrariesSpec == LibrariesInit /\ [][LibrariesNext]_libraryVars

\* What the keywords of the standard libraries promise: of files ...
FilesAreSafe == MovesKeepFiles /\ OthersAreSafe /\ WaitsAreHonest

\* ... of lists and dictionaries (of Telnet connections and processes they
\* promise ConnectionsAreKept, which holds whichever component runs) ...
CollectionsAgree == active = "collections" => IndexesAgree /\ DictionariesAgree

\* ... of the tests that have been run ...
TestsAreKnown == active = "conditions" => ConditionsTellTheTruth /\ TimeoutsFail /\ TagsAreKnown

\* ... and of values, times and paths: see the components.
ValuesTimesAndPathsHold ==
    /\ active = "verifications" => VerificationsAgree
    /\ active = "times" => TimesAreKept
    /\ active = "paths" => PathsLeadToTheSamePlace
=============================================================================
