------------------------------ MODULE MCResults ------------------------------
(***************************************************************************)
(* Results for TLC: outputs of small suites that Rebot processes with      *)
(* options given one or two at a time, templates with one name of          *)
(* functions and two variables, one given, and up to three small outputs   *)
(* that are compared.  One of the three runs in each behavior.             *)
(***************************************************************************)
EXTENDS Rebot, Templating, OutputDiffs

VARIABLE active \* the component that runs

-----------------------------------------------------------------------------
Kw(type, status) ==
  [type |-> type, status |-> status, levels |-> {"INFO", "TRACE"},
   kws |-> <<[type |-> "kw", status |-> status, levels |-> {"TRACE"}, kws |-> <<>>]>>]

Test(name, tags, status) ==
  [name |-> name, tags |-> tags, elapsed |-> 2, status |-> status,
   message |-> IF status = "PASS" THEN <<>> ELSE <<"failed">>,
   kws |-> <<Kw("setup", "PASS"), Kw("kw", status)>>]

Suite(name, suites, tests, teardown) ==
  [name |-> name, timed |-> TRUE, elapsed |-> 9, status |-> "PASS",
   message |-> IF teardown = "FAIL" THEN <<"Suite teardown failed">> ELSE <<>>,
   kws |-> IF teardown = "none" THEN <<>> ELSE <<Kw("teardown", teardown)>>,
   suites |-> suites, tests |-> tests]

File(top) ==
  [root |-> "robot", generator |-> "robot", suite |-> top, errors |-> <<top.name>>]

\* The two sub suites of A, and of B, with tests in every suite.
Deep(statuses, upper, lower) ==
  Suite("A",
    <<Suite("B", <<Suite("C", <<>>, <<Test("t", {"x"}, statuses[1])>>, "none")>>,
            <<Test("u", {"x", "y"}, statuses[2])>>, lower),
      Suite("D", <<Suite("B", <<>>, <<Test("t", {"y"}, "PASS")>>, "none")>>, <<>>, "PASS")>>,
    <<Test("v", {}, statuses[3])>>, upper)

Flat(status) == Suite("E", <<>>, <<Test("t", {"x"}, status)>>, "none")

Teardowns == {"none", "FAIL"}

\* Files that are not outputs: missing, not XML or something else.
Unreadable == [root |-> "other", generator |-> "robot", suite |-> Flat("PASS"), errors |-> <<>>]

MCOutputs ==
  {<<File(Deep(st, upper, lower))>> :
     st \in [1..3 -> {"PASS", "FAIL"}], upper \in Teardowns, lower \in Teardowns}
  \cup {<<File(Deep(<<"PASS", "missing", "PASS">>, "none", lower)), File(Flat(st))>> :
     lower \in Teardowns, st \in {"PASS", "FAIL"}}
  \cup {<<>>, <<Unreadable>>, <<File(Flat("PASS")), Unreadable>>, <<File(Flat("bad"))>>,
        <<File(Flat("FAIL"))>>}

Default ==
  [suites |-> {}, tests |-> {}, include |-> {}, exclude |-> {}, set_tag |-> {},
   critical |-> NoCritical, remove_keywords |-> "NONE", log_level |-> "TRACE",
   times |-> {}, split |-> -1, suite_stat_level |-> -1, log |-> "log",
   combine |-> <<>>, tag_include |-> {}, tag_exclude |-> {}]

Rules == {<< <<"x">> >>, << <<"x", "y">> >>, << <<"x">>, <<"y">> >>, << <<"">>, <<"y">> >>,
          << <<"y">>, <<"">> >>, << <<"*">>, <<"x">>, <<"s">> >>}

Names == {<<"B">>, <<"A", "B">>, <<"A", "B", "C">>, <<"D", "B">>, <<"B", "D">>, <<"*">>,
          <<"A", "*">>, <<"E">>}

Selections ==
  {[Default EXCEPT !.suites = s, !.tests = t] :
     s \in {{}} \cup {{n} : n \in Names} \cup {{<<"B">>, <<"E">>}, {<<"A", "D">>, <<"B", "C">>}},
     t \in {{}, {"t"}, {"u", "v"}}}
  \cup {[Default EXCEPT !.include = i, !.exclude = e, !.set_tag = t] :
     i \in {{}} \cup {{r} : r \in Rules}, e \in {{}} \cup {{r} : r \in Rules}, t \in {{}, {"s"}}}
  \cup {[Default EXCEPT !.suites = {n}, !.include = {r}] : n \in Names, r \in Rules}

Criticals == {NoCritical, [tags |-> {"x"}, nons |-> {}], [tags |-> {"x"}, nons |-> {"y"}]}

Views ==
  {[Default EXCEPT !.critical = c, !.remove_keywords = r, !.suites = s, !.times = t] :
     c \in Criticals, r \in {"ALL", "PASSED"}, s \in {{}, {<<"B">>}}, t \in {{}, {7}}}
  \cup {[Default EXCEPT !.split = l, !.suite_stat_level = n, !.log = o, !.suites = s] :
     l \in {1, 2, 3}, n \in {-1, 0, 1, 2}, o \in {"log", "NONE"}, s \in {{}, {<<"D">>}}}
  \cup {[Default EXCEPT !.combine = <<[rule |-> r, name |-> "all"], [rule |-> q, name |-> "both"]>>,
                        !.tag_include = i, !.tag_exclude = e] :
     r \in Rules, q \in {<< <<"x", "y">> >>}, i \in {{}, {"x"}}, e \in {{}, {"y"}}}

MCSettings == Selections \cup Views

\* A suite with a sub suite of the same name.
Doubled ==
  {<<File(Suite("A", <<Suite("A", <<Suite("B", <<>>, <<Test("t", {}, "PASS")>>, "none")>>,
                             <<>>, "none")>>, <<>>, "none"))>>}

DoubledSettings == {[Default EXCEPT !.suites = {<<"A", "B">>}]}

LevelSettings == {[Default EXCEPT !.log_level = "INFO"]}

TagNameSettings ==
  {[Default EXCEPT !.combine = <<[rule |-> << <<"x">>, <<"y">> >>, name |-> "x"]>>]}

-----------------------------------------------------------------------------
MCVariableTexts == {"${a}", "${b}"}
MCGiven == [t \in {"${a}"} |-> "1"]
MCLoopLine(n, v) == [kind |-> "for", name |-> n, values |-> v]
MCFunctionLine(p) == [kind |-> "function", name |-> "f", params |-> p]
MCCallLine(a) == [kind |-> "call", name |-> "f", args |-> a]
MCTemplateLines ==
    {[kind |-> "text", text |-> t]: t \in {"", "${a}", "${b}"}}
    \cup {MCLoopLine("${a}", <<"2", "1">>), MCLoopLine("${b}", <<"2", "1">>), MCLoopLine("${b}", <<>>)}
    \cup {[kind |-> "if", name |-> n, value |-> "1"]: n \in {"${a}", "${b}"}}
    \cup {[kind |-> "else"]} \cup {[kind |-> "end", of |-> k]: k \in Blocks}
    \cup {MCFunctionLine(p): p \in {<<"${a}">>, <<"${b}", "${a}">>}}
    \cup {MCCallLine(a): a \in {<<>>, <<"2">>, <<"${b}", "2">>}}
MCSwaps == {MCFunctionLine(<<"${b}", "${a}">>), MCCallLine(<<"2", "${b}">>), MCCallLine(<<"${a}", "${b}">>),
            [kind |-> "text", text |-> "${a}"], [kind |-> "end", of |-> "function"], [kind |-> "end", of |-> "for"],
            MCLoopLine("${b}", <<"2", "1">>)}

-----------------------------------------------------------------------------
\* Names that begin with each other, and one that ends in a number; paths of
\* files with one name, and one directory at the most in common.
MCDiffNames == {<<"a">>, <<"a", "b">>, <<"a", "_", "2">>}
MCDiffPaths == {<<"/", "a", "/", "b", "/", "o">>, <<"/", "a", "b", "/", "o">>, <<"/", "a", "/", "o">>}
MCItem(longname, status) == [longname |-> longname, status |-> status]
MCDiffSuite(status, suites, tests) ==
  [longname |-> <<"s">>, status |-> status, suites |-> suites, tests |-> tests]
\* A test written in two ways, missing, twice, and named as a sub suite.
MCDiffSuites ==
  {MCDiffSuite(st, <<>>, <<MCItem(<<"s", ".", "t">>, st)>>): st \in {"PASS", "FAIL"}}
  \cup {MCDiffSuite("PASS", <<>>, <<MCItem(<<"s", ".", "_", "T">>, "PASS")>>), MCDiffSuite("PASS", <<>>, <<>>),
        MCDiffSuite("FAIL", <<>>, <<MCItem(<<"s", ".", "t">>, "FAIL"), MCItem(<<"s", ".", "T">>, "PASS")>>),
        MCDiffSuite("FAIL", <<[MCDiffSuite("PASS", <<>>, <<>>) EXCEPT !.longname = <<"s", ".", "t">>]>>,
                    <<MCItem(<<"s", ".", "t">>, "FAIL")>>)}

-----------------------------------------------------------------------------
ResultsInit ==
  /\ active \in {"rebot", "template", "diff"}
  /\ RebotInit /\ (active # "rebot" => outputs = <<>> /\ settings = Default)
  /\ TemplateInit
  /\ DiffInit /\ (active # "diff" => named)
ResultsNext ==
  \/ active = "rebot" /\ RebotNext /\ UNCHANGED <<active, templateVars, diffVars>>
  \/ active = "template" /\ TemplateNext /\ UNCHANGED <<active, rebotVars, diffVars>>
  \/ active = "diff" /\ DiffNext /\ UNCHANGED <<active, rebotVars, templateVars>>
ResultsSpec == ResultsInit /\ [][ResultsNext]_<<active, rebotVars, templateVars, diffVars>>

\* What Rebot shows are the tests that were selected, with the statuses they have
\* in the outputs and with what explains their failures (RebotSettings, the result
\* model and its readers).
SelectedResultsAreRight == SelectedTestsAreLeft /\ CountsAgree /\ FailuresKeepTheirKeywords

\* The links of reports and statistics lead to what they show (the serializers), and
\* the report of robotdiff highlights what differs.
LogsAndStatisticsAreRight == LinksLead /\ CombinedTagsSelect /\ DifferencesAreShown

\* A template shows what its text says (Template and its namespace).
TemplateTextsAreFollowed == active = "template" => TemplatesAreFollowed
=============================================================================
