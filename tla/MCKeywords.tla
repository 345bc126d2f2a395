----------------------------- MODULE MCKeywords -----------------------------
(***************************************************************************)
(* Keywords for TLC: how they are found, what they get as arguments and    *)
(* how they fail.  One of the three components runs in each behavior,      *)
(* while the others keep an initial state.                                 *)
(***************************************************************************)
EXTENDS KeywordRun, KeywordLookup, Arguments, TLC

VARIABLE active \* the component that runs

-----------------------------------------------------------------------------
(* KeywordRun: the loop program nests run keyword variants in a user       *)
(* keyword in a for loop; the variant program has one of every kind of run *)
(* keyword variant in a row; the nested program has a loop in a user       *)
(* keyword in a loop, and converts the failure of a user keyword.          *)

\* A node of the program: kind, steps, rounds.
N(k, s, r) == [kind |-> k, steps |-> s, rounds |-> r]

LoopProgram == <<
  N("body", <<2, 8>>, 1),
  N("for", <<3, 7>>, 2),
  N("user", <<4, 6>>, 1),
  N("ignore", <<5>>, 1),
  N("library", <<>>, 1),
  N("library", <<>>, 1),
  N("library", <<>>, 1),
  N("library", <<>>, 1)>>

VariantProgram == <<
  N("body", <<2, 4, 6, 8, 10>>, 1),
  N("expect", <<3>>, 1),
  N("library", <<>>, 1),
  N("wait", <<5>>, 1),
  N("library", <<>>, 1),
  N("repeat", <<7>>, 2),
  N("library", <<>>, 1),
  N("continue", <<9>>, 1),
  N("library", <<>>, 1),
  N("keywords", <<11, 13>>, 1),
  N("run", <<12>>, 1),
  N("library", <<>>, 1),
  N("library", <<>>, 1)>>

NestedProgram == <<
  N("body", <<2, 9>>, 1),
  N("for", <<3>>, 2),
  N("user", <<4, 7>>, 1),
  N("for", <<5>>, 2),
  N("continue", <<6>>, 1),
  N("library", <<>>, 1),
  N("continue", <<8>>, 1),
  N("user", <<10>>, 1),
  N("library", <<>>, 1),
  N("library", <<>>, 1)>>

\* A program whose nodes have numbers above k.
Shift(p, k) ==
  [i \in DOMAIN p |-> [p[i] EXCEPT !.steps = [j \in DOMAIN @ |-> @[j] + k]]]

Programs == LoopProgram \o Shift(VariantProgram, 8) \o Shift(NestedProgram, 21)

ProgramNodes == DOMAIN Programs
ProgramKind == [n \in ProgramNodes |-> Programs[n].kind]
ProgramSteps == [n \in ProgramNodes |-> Programs[n].steps]
ProgramRounds == [n \in ProgramNodes |-> Programs[n].rounds]
ProgramAssigning == {3, 5, 12, 20}

AllBodies == {1, 9, 22}
AllModes == Mode

-----------------------------------------------------------------------------
(* KeywordLookup: two resource files that import each other, one of them   *)
(* twice on the disk, an invalid one that is imported by another and by    *)
(* the suite, and keywords with the same names in files, external and      *)
(* standard libraries.                                                     *)

MCItem(t, n) == [type |-> t, name |-> n]
MCFiles ==
    (<<"suite", "r1">> :> [imports |-> <<MCItem("Resource", "r2"), MCItem("Library", "Missing"), MCItem("Resource", "r1")>>,
                           keywords |-> <<<<"a">>, <<"open", Argument>>>>])
    @@ (<<"suite", "r2">> :> [imports |-> <<MCItem("Resource", "r1"), MCItem("Library", "Ext")>>,
                              keywords |-> <<<<"a">>, <<"c">>, <<"c">>>>])
    @@ (<<"path", "r2">> :> [imports |-> <<>>, keywords |-> <<<<"b">>>>])
    @@ (<<"path", "r3">> :> [imports |-> <<MCItem("Resource", "bad"), MCItem("Resource", "r2")>>, keywords |-> <<<<"open", "b">>>>])
    @@ (<<"path", "bad">> :> [imports |-> <<MCItem("Library", "Other")>>, keywords |-> <<<<"a">>>>])
MCInvalidFiles == {<<"path", "bad">>}
MCSysPath == <<"path">>
MCLibraries ==
    {[name |-> "BuiltIn", original |-> "BuiltIn", keywords |-> {<<"a">>, <<"b">>}],
     [name |-> "DeprecatedBuiltIn", original |-> "DeprecatedBuiltIn", keywords |-> {<<"d">>}],
     [name |-> "Reserved", original |-> "Reserved", keywords |-> {}],
     [name |-> "Easter", original |-> "Easter", keywords |-> {<<"e">>}],
     [name |-> "Other", original |-> "BuiltIn", keywords |-> {<<"a">>, <<"b">>}],
     [name |-> "Ext", original |-> "Ext", keywords |-> {<<"a">>, <<"b">>, <<"d">>, <<"e">>, <<"given", "e">>}]}
MCItems == {MCItem("Resource", n): n \in {"r1", "r2", "r3", "bad", "Missing"}} \cup {MCItem("Library", n): n \in {"Ext", "Other", ""}}
MCSuiteImports == UNION {[1..n -> MCItems]: n \in 0..2}
MCSuiteKeywords == {<<>>, <<<<"a">>, <<"b">>, <<"b">>>>, <<<<Argument, "e">>, <<"open", Argument>>, <<Argument, "b">>>>}
MCWords == {<<"a">>, <<"b">>, <<"c">>, <<"d">>, <<"e">>, <<"given", "a">>, <<"given", "given", "b">>,
            <<"open", "b">>, <<"given", "open", "x">>, <<"given", "e">>}
MCNames ==
    {[owner |-> <<>>, words |-> w, underscored |-> FALSE, respelled |-> r]: w \in MCWords, r \in BOOLEAN}
    \cup {[owner |-> o, words |-> w, underscored |-> u, respelled |-> FALSE]:
              o \in {<<"Ext">>, <<"BuiltIn">>, <<"r2">>, <<"given", "Ext">>, <<"when", "r1">>}, u \in BOOLEAN,
              w \in {<<"a">>, <<"b">>, <<"c">>, <<"open", "b">>, <<"e">>}}
MCOrders == {<<"Other", "Ext">>, <<"Missing", "BuiltIn">>}

-----------------------------------------------------------------------------
(* Arguments: up to three, two of them with or without a default, given as *)
(* texts, by name and as list variables of no, one and two items.          *)

MCTokens ==
    {[kind |-> k, name |-> n]: k \in {"plain", "default"}, n \in {"a", "b"}}
    \cup {[kind |-> "list", name |-> "l"], [kind |-> "plain", name |-> "c"], [kind |-> "invalid", name |-> "i"]}
MCText(v) == [name |-> NoName, value |-> v]
MCByName(n) == [name |-> n, value |-> "v"]
MCWritten ==
    {MCText("1"), MCText("2"), MCByName("a"), MCByName("b"), MCByName("x")}
    \cup {[items |-> i]: i \in {<<>>, <<MCText("3")>>, <<MCByName("b"), MCText("4")>>}}
MCJavaMethods ==
    {{s}: s \in {<<"integer">>, <<"array">>, <<"integer", "array">>}}
    \cup {{<<"integer">>, <<"integer", "boolean">>}, {<<"integer">>, <<"String">>}, {<<"float">>, <<"integer">>, <<"float", "array">>}}
    \cup {{<<>>}}
MCJavaValues ==
    {[type |-> "text", as |-> a]: a \in {{"integer", "float"}, {"boolean"}, {}}}
    \cup {[type |-> "list"], [type |-> "object"]}

-----------------------------------------------------------------------------
KeywordsInit ==
    /\ active \in {"lookup", "arguments", "run"}
    /\ Init /\ (active # "run" => mode = (CHOOSE m \in Modes: TRUE) /\ visited = {1})
    /\ LookupInit /\ (active # "lookup" => userKeywords = <<>> /\ Len(pending) = 3)
    /\ ArgumentsInit /\ (active # "arguments" => declared = <<>> /\ javaMethod = {<<>>})

KeywordsNext ==
    \/ active = "run" /\ Next /\ UNCHANGED <<active, lookupVars, argVars>>
    \/ active = "lookup" /\ LookupNext /\ UNCHANGED <<active, vars, argVars>>
    \/ active = "arguments" /\ ArgumentsNext /\ UNCHANGED <<active, vars, lookupVars>>

KeywordsSpec ==
    /\ KeywordsInit /\ [][KeywordsNext]_<<active, vars, lookupVars, argVars>>
    /\ WF_lookupVars(active = "lookup" /\ HandleImport)

\* A keyword gets the same arguments whatever it is written in, and a dry run
\* accepts the arguments that a run accepts (running/arguments.py).
ArgumentsAgree ==
    active = "arguments" => PythonAndUserAgree /\ DryRunAgrees /\ JavaArgumentsFit

\* All imports of a suite are handled in the end, also when resource files import
\* each other (Namespace._handle_imports).
SuiteImportsEnd == active = "lookup" => ImportsEnd
=============================================================================
