----------------------------- MODULE CommandLine -----------------------------
(***************************************************************************)
(* The command line: argument files, options in their different spellings, *)
(* escapes (utils/argumentparser.py), and the settings that are made of    *)
(* the options (conf/settings.py). Tokens of the command line, and lines   *)
(* of files without surrounding spaces, are sequences of characters, of    *)
(* which some stand for more than one. The values of options are sequences *)
(* of texts, <<>> when there is none.                                      *)
(***************************************************************************)
EXTENDS Integers, Sequences, SequencesExt, FiniteSetsExt, TLC

CONSTANTS Usage,          \* the options, in order: [id, long, short, value, multi]
          UsageArguments, \* whether the arguments of the usage end with "s", in order
          Intended,       \* the options given: sequences of [id, value]
          Sources,        \* the data sources given: sequences of texts
          Styles,         \* how options, and those for argument files, are spelled: [option, file]
          AnyLines,       \* whether lines of files can be options that have spaces
          FilePaths,          \* of files that exist: pattern -> those that match it
          MaxCalls        \* bound: runs in a process
ASSUME CommandLineAssumption == MaxCalls \in Nat

VARIABLES intended, sources, \* what the command line means (history)
          line,      \* the arguments, tokens
          files,     \* argument file -> its lines
          parsing,   \* "files", "options", "escapes", "checks" or "done"
          options, arguments, \* what has been parsed
          outcome,   \* "ok", or why the program ends: an exception
          cliOpts,   \* the class attribute _cli_opts: setting -> default
          made       \* settings made: [program, options, values, own]
commandVars == <<intended, sources, line, files, parsing, options, arguments, outcome, cliOpts, made>>

Space == " "
Undefined == <<>> \* None, an empty list, or an option that is not given
LowerCase(c) == CASE c = "A" -> "a" [] c = "B" -> "b" [] c = "F" -> "f" [] OTHER -> c
Lowered(t) == [i \in DOMAIN t |-> LowerCase(t[i])]
Begins(start, t) == IsPrefix(start, t)
Dashes == <<"-", "-">>
Position(c, t) == SelectInSeq(t, LAMBDA x: x = c)

------------------------------------------------------------------------------
(***************************************************************************)
(* ArgumentParser: what the usage says.                                    *)
(***************************************************************************)
OptionNames == {Usage[i].id: i \in DOMAIN Usage}
Row(id) == CHOOSE u \in Range(Usage): u.id = id
MultiOpts == {id \in OptionNames: Row(id).multi}
ToggleOpts == {id \in OptionNames: ~Row(id).value}
ShortOf(c) == {id \in OptionNames: c \in Row(id).short}
ArgLimits ==
    LET n == Len(UsageArguments) IN <<n, IF n > 0 /\ UsageArguments[n] THEN 99 ELSE n>> \* sys.maxint

------------------------------------------------------------------------------
(***************************************************************************)
(* Argument files: as long as an option for them is found it is replaced   *)
(* by what is in the file. Only the option as it is in the usage is found. *)
(***************************************************************************)
ArgfileOptions ==
    <<Dashes \o Row("argumentfile").long>> \o SetToSeq({<<"-", c>>: c \in Row("argumentfile").short})
ArgfileIndex(args) ==
    LET found == SelectSeq(ArgfileOptions, LAMBDA o: Position(o, args) > 0)
    IN  IF found = <<>> THEN 0 ELSE Position(found[1], args)
ArgsFromLine(text) ==
    IF text # <<>> /\ text[1] = "-" /\ Position(Space, text) > 0
    THEN <<SubSeq(text, 1, Position(Space, text) - 1), SubSeq(text, Position(Space, text) + 1, Len(text))>>
    ELSE IF text = <<>> \/ text[1] = "#" THEN <<>> ELSE <<text>>
ArgsFromFile(path) == FlattenSeq([i \in DOMAIN files[path] |-> ArgsFromLine(files[path][i])])

------------------------------------------------------------------------------
(***************************************************************************)
(* Options. getopt takes a long option in any form that is the beginning   *)
(* of one option only, short options after each other, and stops at the    *)
(* first argument that is no option.                                       *)
(***************************************************************************)
LowercaseLongOption(arg) ==
    IF ~Begins(Dashes, arg) THEN arg
    ELSE LET at == Position("=", arg)
         IN  IF at = 0 THEN Lowered(arg) ELSE Lowered(SubSeq(arg, 1, at)) \o SubSeq(arg, at + 1, Len(arg))
Candidates(name) == {id \in OptionNames: Begins(name, Lowered(Row(id).long))}
LongOf(name) ==
    LET exact == {id \in Candidates(name): Lowered(Row(id).long) = name}
    IN  IF exact # {} THEN exact ELSE Candidates(name)
Given(id, value) == <<[id |-> id, value |-> value]>>
LongOption(s, arg) ==
    LET at == Position("=", arg)
        name == IF at = 0 THEN SubSeq(arg, 3, Len(arg)) ELSE SubSeq(arg, 3, at - 1)
        found == LongOf(name)
        id == CHOOSE o \in found: TRUE
    IN  IF Cardinality(found) # 1 \/ (at > 0 /\ id \in ToggleOpts) THEN [s EXCEPT !.error = TRUE]
        ELSE IF at > 0 THEN [s EXCEPT !.opts = @ \o Given(id, SubSeq(arg, at + 1, Len(arg)))]
        ELSE IF id \in ToggleOpts THEN [s EXCEPT !.opts = @ \o Given(id, <<>>)]
        ELSE [s EXCEPT !.waits = {id}]
ShortOptions(s, arg) ==
    LET stops == {i \in 2..Len(arg): ShortOf(arg[i]) \cap ToggleOpts = {}}
        last == Min(stops \cup {Len(arg) + 1})
        toggles == [i \in 1..(last - 2) |-> [id |-> CHOOSE o \in ShortOf(arg[i + 1]): TRUE, value |-> <<>>]]
        id == CHOOSE o \in ShortOf(arg[last]): TRUE
        after == SubSeq(arg, last + 1, Len(arg))
    IN  IF last > Len(arg) THEN [s EXCEPT !.opts = @ \o toggles]
        ELSE IF ShortOf(arg[last]) = {} THEN [s EXCEPT !.error = TRUE]
        ELSE IF after # <<>> THEN [s EXCEPT !.opts = @ \o toggles \o Given(id, after)]
        ELSE [s EXCEPT !.opts = @ \o toggles, !.waits = {id}]
OneArgument(s, arg) ==
    CASE s.error -> s
      [] s.waits # {} -> [s EXCEPT !.opts = @ \o Given(CHOOSE o \in s.waits: TRUE, arg), !.waits = {}]
      [] s.ended -> [s EXCEPT !.rest = Append(@, arg)]
      [] arg = Dashes -> [s EXCEPT !.ended = TRUE]
      [] Begins(Dashes, arg) /\ arg # Dashes -> LongOption(s, arg)
      [] Begins(<<"-">>, arg) /\ ~Begins(Dashes, arg) /\ Len(arg) > 1 -> ShortOptions(s, arg)
      [] OTHER -> [s EXCEPT !.ended = TRUE, !.rest = Append(@, arg)]
Getopt(args) ==
    LET end == FoldLeft(OneArgument, [opts |-> <<>>, rest |-> <<>>, waits |-> {}, ended |-> FALSE, error |-> FALSE], args)
    IN  [end EXCEPT !.error = @ \/ end.waits # {}]
Processed(opts, o) ==
    [opts EXCEPT ![o.id] = CASE o.id \in MultiOpts -> Append(@, o.value)
                             [] o.id \in ToggleOpts -> IF @ = Undefined THEN <<TRUE>> ELSE Undefined
                             [] OTHER -> <<o.value>>]
InitOpts == [id \in OptionNames |-> Undefined]
ProcessOpts(opts) == FoldLeft(Processed, InitOpts, opts)
GlobArgs(args) == FlattenSeq([i \in DOMAIN args |-> IF args[i] \in DOMAIN FilePaths THEN FilePaths[args[i]] ELSE <<args[i]>>])

------------------------------------------------------------------------------
(***************************************************************************)
(* Escapes, one after another in an order of the dictionary, in everything *)
(* but the values of the option for them.                                  *)
(***************************************************************************)
Escapes == [star |-> "*", dollar |-> "$", space |-> Space]
ValidEscape(t) == Position(":", t) = 2 /\ t[1] \in DOMAIN Escapes
GetEscapes(strings) == \* what an escape is replaced with, set last
    [e \in {t[3]: t \in Range(strings)} |->
        Escapes[strings[SelectLastInSeq(strings, LAMBDA t: t[3] = e)][1]]]
Unescape(t, escapes, order) == FoldLeft(LAMBDA u, e: ReplaceAll(u, e, escapes[e]), t, order)
UnescapeOpts(opts, escapes, order) ==
    [id \in OptionNames |-> IF id = "escape" \/ id \in ToggleOpts THEN opts[id]
                      ELSE [i \in DOMAIN opts[id] |-> Unescape(opts[id][i], escapes, order)]]
\* Mutant: arguments are left as they are.
UnescapeNothing(args, escapes, order) == args
UnescapeArgs(args, escapes, order) == [i \in DOMAIN args |-> Unescape(args[i], escapes, order)]

------------------------------------------------------------------------------
(***************************************************************************)
(* Settings: a setting of every kind. A program adds its own ones to a     *)
(* dictionary of the class that all settings share.                        *)
(***************************************************************************)
TextArgument(name) == <<<<name>>>>
NONE == TextArgument("NONE")
BaseCliOpts ==
    [name |-> Undefined, include |-> Undefined, test |-> Undefined, tagstatlink |-> Undefined,
     log |-> TextArgument("log"), report |-> TextArgument("report"), summary |-> NONE, splitoutputs |-> TextArgument("-1"), timestampoutputs |-> Undefined]
ExtraCliOpts(program) ==
    IF program = "robot"
    THEN [output |-> TextArgument("output"), loglevel |-> TextArgument("INFO"), listener |-> Undefined, debugfile |-> NONE]
    ELSE [output |-> NONE, loglevel |-> TextArgument("TRACE"), removekeywords |-> NONE]
OptionalOutputs(program) == {"log", "report", "summary"} \cup (IF program = "robot" THEN {"debugfile"} ELSE {"output"})
Updated(opts, extra) == [id \in DOMAIN opts \cup DOMAIN extra |-> IF id \in DOMAIN extra THEN extra[id] ELSE opts[id]]
Numbers == {<<"-1">>, <<"0">>, <<"1">>}
Parts(t) == \* of a text, between its colons
    LET colons == {0, Len(t) + 1} \cup {i \in DOMAIN t: t[i] = ":"}
        at == SetToSortSeq(colons, <)
    IN  [i \in 1..(Len(at) - 1) |-> SubSeq(t, at[i] + 1, at[i + 1] - 1)]
SplitArgsFromName(t) ==
    IF t \in DOMAIN FilePaths THEN [name |-> t, args |-> <<>>] ELSE [name |-> Parts(t)[1], args |-> Tail(Parts(t))]
ProcessTagStatLink(value) == SelectSeq([i \in DOMAIN value |-> Parts(value[i])], LAMBDA parts: Len(parts) >= 3)
ProcessValue(program, id, value, default) ==
    CASE id = "name" -> <<ReplaceAll(value[1], "_", Space)>>
      [] id = "include" -> [i \in DOMAIN value |-> ReplaceAll(value[i], "AND", "&")]
      [] id \in OptionalOutputs(program) /\ value \in {NONE, TextArgument("none")} -> NONE
      [] id = "listener" -> [i \in DOMAIN value |-> SplitArgsFromName(value[i])]
      [] id = "tagstatlink" -> ProcessTagStatLink(value)
      [] id = "splitoutputs" -> IF value[1] \in Numbers THEN value ELSE default
      [] OTHER -> value
ProcessCliOpts(program, opts, defaults) ==
    [id \in DOMAIN defaults |->
        LET value == IF id \in DOMAIN opts /\ opts[id] # Undefined THEN opts[id] ELSE defaults[id]
        IN  IF value = Undefined THEN value ELSE ProcessValue(program, id, value, defaults[id])]
OutputFile(values, program, id) ==
    IF values[id] = NONE /\ id \in OptionalOutputs(program) THEN "NONE"
    ELSE [base |-> values[id][1][1], stamped |-> values["timestampoutputs"] # Undefined,
          extension |-> IF Len(values[id][1]) > 1 THEN Last(values[id][1])
                        ELSE CASE id = "output" -> ".xml" [] id = "debugfile" -> ".txt" [] OTHER -> ".html"]
IsRebotNeeded(values) == \E id \in {"log", "report", "summary"}: values[id] # NONE
RebotSettings(values) ==
    [id \in (DOMAIN values \ {"listener"}) \cup {"removekeywords"} |->
        CASE id \in {"include", "test", "name"} -> Undefined
          [] id \in {"output", "removekeywords"} -> NONE
          [] OTHER -> values[id]]

------------------------------------------------------------------------------
(***************************************************************************)
(* What the command line means, and how it is written: some of the options *)
(* can be in a file, and some of those in a file that is used in it.       *)
(***************************************************************************)
Values(id) ==
    LET chosen == SelectSeq(intended, LAMBDA o: o.id = id) IN [i \in DOMAIN chosen |-> chosen[i].value]
IntendedEscapes == GetEscapes(Values("escape"))
UnescapedValue(t) == [i \in DOMAIN t |-> IF t[i] \in DOMAIN IntendedEscapes THEN IntendedEscapes[t[i]] ELSE t[i]]
MeantValue(id) ==
    LET values == Values(id)
    IN  CASE id = "escape" \/ values = <<>> -> values
          [] id \in ToggleOpts -> IF Len(values) % 2 = 1 THEN <<TRUE>> ELSE Undefined
          [] id \in MultiOpts -> [i \in DOMAIN values |-> UnescapedValue(values[i])]
          [] OTHER -> <<UnescapedValue(Last(values))>>
MeantSources ==
    LET found == GlobArgs(sources) IN [i \in DOMAIN found |-> UnescapedValue(found[i])]

Upper(c) == CASE c = "a" -> "A" [] c = "b" -> "B" [] c = "f" -> "F" [] OTHER -> c
Shortened(long) ==
    LET n == Min({Len(long)} \cup {i \in 1..Len(long): Cardinality(Candidates(SubSeq(long, 1, i))) = 1}) IN SubSeq(long, 1, n)
Spelled(o, style) ==
    LET row == Row(o.id)
        name == CASE style \in {"short", "attached"} /\ row.short # {} -> <<"-", CHOOSE c \in row.short: TRUE>>
                  [] style = "shortened" -> Dashes \o Shortened(row.long)
                  [] style = "capital" -> Dashes \o [i \in DOMAIN row.long |-> Upper(row.long[i])]
                  [] OTHER -> Dashes \o row.long
    IN  CASE ~row.value -> <<name>>
          [] style = "equals" -> <<name \o <<"=">> \o o.value>>
          [] style = "attached" /\ row.short # {} -> <<name \o o.value>>
          [] OTHER -> <<name, o.value>>
Joined(tokens) == IF Len(tokens) = 1 THEN tokens[1] ELSE tokens[1] \o <<Space>> \o tokens[2]
ArgumentFile(path, style) == Spelled([id |-> "argumentfile", value |-> path], style)
Path1 == <<"1">>
Path2 == <<"2">>
\* Options i to j are in a file, of them k to l in another.
WrittenArguments(spelled, i, j, k, l, argfile) ==
    LET tokens(from, to) == FlattenSeq(SubSeq(spelled, from, to))
        lines(from, to) == [n \in 1..(to - from + 1) |-> Joined(spelled[from + n - 1])]
    IN  [line |-> IF i > j THEN tokens(1, Len(spelled)) \o sources
                  ELSE tokens(1, i - 1) \o ArgumentFile(Path1, argfile) \o tokens(j + 1, Len(spelled))
                       \o (IF j = Len(spelled) THEN <<>> ELSE sources),
         files |-> (Path1 :> (<<<<"#", Space, "x">>>>
                              \o (IF k > l THEN lines(i, j) ELSE lines(i, k - 1) \o <<Joined(ArgumentFile(Path2, argfile))>> \o lines(l + 1, j))
                              \o <<<<>>>> \o (IF j = Len(spelled) THEN sources ELSE <<>>)))
                   @@ (Path2 :> lines(k, l))]

------------------------------------------------------------------------------
CommandInit ==
    /\ intended \in Intended /\ sources \in Sources
    /\ \E style \in Styles, i \in 1..(Len(intended) + 1), j \in 0..Len(intended):
        \E k \in i..(j + 1), l \in (i - 1)..j:
            /\ i <= j \/ <<i, j>> = <<1, 0>>
            /\ k <= l \/ <<k, l>> = <<i, i - 1>>
            /\ LET spelled == [n \in DOMAIN intended |-> Spelled(intended[n], style.option)]
                   written == WrittenArguments(spelled, i, j, k, l, style.file)
               IN  /\ \E missing \in (IF k <= l THEN {{}, {Path2}} ELSE {{}}):
                         files = [path \in DOMAIN written.files \ missing |-> written.files[path]]
                   /\ AnyLines \/ \A n \in i..j: Position(Space, spelled[n][1]) = 0
                   /\ line = written.line
    /\ parsing = "files" /\ options = InitOpts /\ arguments = <<>> /\ outcome = "ok"
    /\ cliOpts = BaseCliOpts /\ made = <<>>

AddArgsFromFile == \* the file is read and its arguments replace the option
    LET index == ArgfileIndex(line)
    IN  /\ parsing = "files" /\ index > 0 /\ index < Len(line)
        /\ IF line[index + 1] \in DOMAIN files
           THEN /\ line' = SubSeq(line, 1, index - 1) \o ArgsFromFile(line[index + 1]) \o SubSeq(line, index + 2, Len(line))
                /\ UNCHANGED <<parsing, outcome>>
           ELSE /\ parsing' = "done" /\ outcome' = "UnboundLocalError" \* of the finally clause, and not caught
                /\ UNCHANGED line
    /\ UNCHANGED <<intended, sources, files, options, arguments, cliOpts, made>>
FilesAreAdded ==
    /\ parsing = "files" /\ ArgfileIndex(line) \in {0, Len(line)}
    /\ parsing' = "options"
    /\ UNCHANGED <<intended, sources, line, files, options, arguments, outcome, cliOpts, made>>
ParseArgs ==
    LET parsed == Getopt([i \in DOMAIN line |-> LowercaseLongOption(line[i])])
    IN  /\ parsing = "options"
        /\ IF parsed.error
           THEN parsing' = "done" /\ outcome' = "DataError" /\ UNCHANGED <<options, arguments>>
           ELSE parsing' = "escapes" /\ options' = ProcessOpts(parsed.opts) /\ arguments' = GlobArgs(parsed.rest) /\ UNCHANGED outcome
        /\ UNCHANGED <<intended, sources, line, files, cliOpts, made>>
UnescapeOptsAndArgs ==
    /\ parsing = "escapes"
    /\ IF \E t \in Range(options["escape"]): ~ValidEscape(t)
       THEN parsing' = "done" /\ outcome' = "DataError" /\ UNCHANGED <<options, arguments>>
       ELSE LET escapes == GetEscapes(options["escape"])
            IN  /\ \E order \in SetToSeqs(DOMAIN escapes):
                     /\ options' = UnescapeOpts(options, escapes, order)
                     /\ arguments' = UnescapeArgs(arguments, escapes, order)
                /\ parsing' = "checks" /\ UNCHANGED outcome
    /\ UNCHANGED <<intended, sources, line, files, cliOpts, made>>
CheckArgs ==
    /\ parsing = "checks" /\ parsing' = "done"
    /\ outcome' = IF options["help"] # Undefined THEN "Information"
                  ELSE IF ArgLimits[1] <= Len(arguments) /\ Len(arguments) <= ArgLimits[2] THEN "ok" ELSE "DataError"
    /\ UNCHANGED <<intended, sources, line, files, options, arguments, cliOpts, made>>
MakeSettings(program, opts) ==
    /\ cliOpts' = Updated(cliOpts, ExtraCliOpts(program))
    /\ made' = Append(made, [program |-> program, own |-> program, values |-> ProcessCliOpts(program, opts, cliOpts')])
Run == \* also again, from another program
    /\ parsing = "done" /\ outcome = "ok" /\ Len(made) < MaxCalls
    /\ \E program \in {"robot", "rebot"}: MakeSettings(program, options)
    /\ UNCHANGED <<intended, sources, line, files, parsing, options, arguments, outcome>>
RebotAfterRun == \* logs and reports of a run: RebotSettings are made, and their values replaced
    /\ made # <<>> /\ Last(made).own = "robot" /\ IsRebotNeeded(Last(made).values) /\ Len(made) < MaxCalls
    /\ cliOpts' = Updated(cliOpts, ExtraCliOpts("rebot"))
    /\ made' = Append(made, [program |-> "rebot", own |-> "run", values |-> RebotSettings(Last(made).values)])
    /\ UNCHANGED <<intended, sources, line, files, parsing, options, arguments, outcome>>
CommandNext ==
    \/ AddArgsFromFile \/ FilesAreAdded \/ ParseArgs \/ UnescapeOptsAndArgs \/ CheckArgs
    \/ Run \/ RebotAfterRun
CommandSpec == CommandInit /\ [][CommandNext]_commandVars

------------------------------------------------------------------------------
\* However the options are spelled, shortened or put into argument files that
\* use each other, the same options and data sources are parsed: the last
\* value, all values of an option with many, and escapes everywhere. A file that
\* is missing ends the program before anything is parsed.
SpellingsDoNotMatter ==
    parsing = "done" =>
      IF Path2 \notin DOMAIN files THEN outcome = "UnboundLocalError" /\ options = InitOpts /\ arguments = <<>>
      ELSE
        /\ outcome = IF MeantValue("help") # Undefined THEN "Information" ELSE IF sources = <<>> THEN "DataError" ELSE "ok"
        /\ options = [id \in OptionNames |-> MeantValue(id)]
        /\ arguments = MeantSources

\* The settings of a run are those its options alone give, whatever was run
\* before in the process, and the log of a run has the files of the run but
\* neither its selection of tests nor its name.
SettingsAreFresh ==
    \A i \in DOMAIN made:
        LET fresh(program) == ProcessCliOpts(program, options, Updated(BaseCliOpts, ExtraCliOpts(program)))
            values == made[i].values
        IN  IF made[i].own # "run" THEN \A id \in DOMAIN fresh(made[i].program): values[id] = fresh(made[i].program)[id]
            ELSE /\ \A id \in {"log", "report", "summary"}: OutputFile(values, "rebot", id) = OutputFile(fresh("robot"), "robot", id)
                 /\ \A id \in {"test", "include", "name"}: values[id] = Undefined

\* What a line of an argument file has is given as it is written there.
\* doc: src/robot/runner.py:249 "Contents do not need to be escaped".
LinesAreArguments == SpellingsDoNotMatter

\* The case of long options has no meaning.
\* doc: src/robot/runner.py:261 "Long option format is case-insensitive."
LongOptionsAreCaseInsensitive == SpellingsDoNotMatter
=============================================================================
