----------------------------- MODULE MCTestData -----------------------------
(***************************************************************************)
(* What is run and with what options, for TLC: the reader of HTML files,   *)
(* the populators, a directory and the command line, one of which does its *)
(* work in each behavior, while the others keep an initial state.          *)
(***************************************************************************)
EXTENDS Populators, HtmlReader, TestDataDirectories, CommandLine

VARIABLE active \* the component that works

------------------------------------------------------------------------------
(***************************************************************************)
(* Parsing: a few rows for each type of table, and a directory.            *)
(***************************************************************************)
MCOffered(type) ==
    CASE type = "null" -> {<<h>>: h \in DOMAIN TableTypes \cup {"* Unknown", UnnamedTable}}
                          \cup {<<"data", "data">>}
      [] type = "setting" -> {<<"Suite Setup", "data">>, <<"Library", "data", "#">>,
             <<"...", "data">>, <<"data">>, <<"#">>, <<"* Variable">>, <<"* Unknown">>}
      [] type = "variable" -> {<<"data", "data">>, <<"", "...", "data">>, <<"#", "data">>,
             <<"data", "", "#">>, <<"* Test Case">>, <<"* Setting">>}
      [] OTHER -> {<<"data">>, <<"data", "data">>, <<"\\", "data", "data">>, <<"", "...", "data">>,
             <<"#">>, <<"", "data", "#", "data">>, <<"", ": FOR", "data", "">>, <<"", "", "data">>,
             <<"", "", "...", "data">>,
             IF type = "testcase" THEN <<"", "[Tags]", "data">> ELSE <<"", "[Arguments]", "data">>}
             \cup IF type = "testcase" THEN {<<"* Keyword">>, <<UnnamedTable>>, <<"", "[Unknown]", "data">>} ELSE {}

MCParent(path) == CASE path \in {"sub", "init", "other", "_dir", "a"} -> "root"
                    [] path \in {"sub init", "b"} -> "sub"
                    [] path = "c" -> "_dir"

------------------------------------------------------------------------------
(***************************************************************************)
(* The command line: options of every kind, of which one has a name that   *)
(* begins the name of another, with values that have escapes, spaces and   *)
(* dashes.                                                                 *)
(***************************************************************************)
MCOption(id, long, short, value, multi) == [id |-> id, long |-> long, short |-> short, value |-> value, multi |-> multi]
MCUsage ==
    <<MCOption("name", <<"a", "b">>, {"N"}, TRUE, FALSE),
      MCOption("include", <<"a", "b", "a">>, {"i"}, TRUE, TRUE),
      MCOption("splitoutputs", <<"b", "a">>, {}, TRUE, FALSE),
      MCOption("timestampoutputs", <<"b", "b">>, {"T"}, FALSE, FALSE),
      MCOption("escape", <<"E", "b">>, {"E"}, TRUE, TRUE),
      MCOption("argumentfile", <<"f", "f">>, {"F"}, TRUE, TRUE),
      MCOption("listener", <<"l">>, {}, TRUE, TRUE),
      MCOption("tagstatlink", <<"g", "b">>, {}, TRUE, TRUE),
      MCOption("help", <<"h", "b">>, {"h", "?"}, FALSE, FALSE)>>
MCUsageArguments == <<TRUE>>
MCGiven(id, value) == [id |-> id, value |-> value]
MCChoices ==
    {MCGiven("name", <<"S", "_", Space, "x">>), MCGiven("name", <<"-", "N">>), MCGiven("include", <<"S", "AND", "D">>),
     MCGiven("include", <<"x">>), MCGiven("splitoutputs", <<"S">>), MCGiven("timestampoutputs", <<>>),
     MCGiven("escape", <<"star", ":", "S">>), MCGiven("escape", <<"dollar", ":", "D">>), MCGiven("help", <<>>),
     MCGiven("listener", <<"x", ":", "S">>), MCGiven("tagstatlink", <<"x", ":", "y", ":", "S">>)}
MCIntended ==
    UNION {[1..n -> MCChoices]: n \in 0..2}
    \cup [1..3 -> {MCGiven("name", <<"x", "S">>), MCGiven("escape", <<"star", ":", "S">>)}]
MCSources == {<<>>, <<<<"-">>, <<"-", "N">>, <<"S">>, <<"p", "?">>>>}
MCStyle(spelling, inFile) == [option |-> spelling, file |-> inFile]
MCStyles == {MCStyle("long", "short"), MCStyle("equals", "long"), MCStyle("short", "short"), MCStyle("attached", "long"),
             MCStyle("shortened", "short"), MCStyle("capital", "long")}
MCCapitalFiles == {MCStyle("long", "capital")}
MCEquals == {MCStyle("equals", "long")}
MCPaths == (<<"p", "?">>) :> <<<<"p", "1">>, <<"p", "2">>>>

------------------------------------------------------------------------------
IdleDirectory ==
    /\ include = [given |-> FALSE, matching |-> {}] /\ valid = {}
    /\ suites = NotRead /\ errors = {}
IdleCommandLine ==
    /\ intended = <<>> /\ sources = <<>> /\ line = <<>> /\ files = <<>>
    /\ parsing = "done" /\ options = <<>> /\ arguments = <<>> /\ outcome = "ok"
    /\ cliOpts = <<>> /\ made = <<>>

TestDataInit ==
    /\ active \in {"file", "html", "directory", "command line"}
    /\ Init /\ (active # "file" => fileType = "init file")
    /\ HtmlInit
    /\ IF active = "directory" THEN DirInit ELSE IdleDirectory
    /\ IF active = "command line" THEN CommandInit ELSE IdleCommandLine
TestDataNext ==
    \/ active = "file" /\ Next /\ UNCHANGED <<active, htmlVars, dirVars, commandVars>>
    \/ active = "html" /\ HtmlNext /\ UNCHANGED <<active, vars, dirVars, commandVars>>
    \/ active = "directory" /\ DirNext /\ UNCHANGED <<active, vars, htmlVars, commandVars>>
    \/ active = "command line" /\ CommandNext /\ UNCHANGED <<active, vars, htmlVars, dirVars>>
TestDataSpec == TestDataInit /\ [][TestDataNext]_<<active, vars, htmlVars, dirVars, commandVars>>

\* The layout of a file has no meaning: how long rows are continued, comments and
\* optional end tags change nothing, and nothing that is written is lost
\* (populators.py, tablepopulators.py and htmlreader.py).
TestDataIsReadAsWritten ==
    /\ active = "file" => LayoutHasNoMeaning /\ NothingIsLost
    /\ active = "html" => EndTagsAreOptional

\* The tests that are chosen are those that are run (FromDirectoryPopulator).
ChosenSuitesAreRun == active = "directory" => ChosenFilesAreRun

\* The same options are meant however they are given, and those of one run are
\* not seen by the next one (argumentparser.py and settings.py).
OptionsAreUnderstood == active = "command line" => SpellingsDoNotMatter /\ SettingsAreFresh
=============================================================================
