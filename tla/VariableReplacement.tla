------------------------- MODULE VariableReplacement ------------------------
(***************************************************************************)
(* Variables in texts (variables/variables.py): how they are found, nested *)
(* in each other and with indices, how they are looked up, replaced, and   *)
(* set from the variable table, and how keywords that run other keywords   *)
(* replace only the first of their arguments (running/namespace.py).       *)
(* Values are texts, lists of values and objects.                          *)
(***************************************************************************)
EXTENDS Texts

CONSTANTS Tables,     \* variable tables: sequences of [id, base, cells]
          Pieces,     \* of texts: [text, means]
          MaxPieces,  \* bound: pieces of a text
          MaxArgs,    \* bound: arguments of a keyword
          Conditions, \* arguments of Set Variable If: texts
          MaxConditions \* bound: of them
ASSUME ReplacementAssumption == MaxPieces \in Nat /\ MaxArgs \in Nat /\ MaxConditions \in Nat

VARIABLES scope,   \* <<"$" or "@", normalized name>> -> value
          rows,    \* the rows of the variable table
          table,   \* those of them that are not yet set
          rowValues, \* what those before had for a value, or that they failed (history)
          syntax,  \* rows that were reported as invalid
          pieces,  \* a text, in pieces
          args     \* arguments, texts
replacementVars == <<scope, rows, table, rowValues, syntax, pieces, args>>

Identifiers == {"$", "@"}
Digits == {"0", "1"}
NonWord == Identifiers \cup {"{", "}", "[", "]", ".", Backslash, "="}
Number(d) == IF d = "0" THEN 0 ELSE 1
IsText(value) == value.kind = "text"
TextValue(t) == [kind |-> "text", text |-> t]
ListValue(items) == [kind |-> "list", items |-> items]
Failure == [kind |-> "error"]
Unknown == <<"unknown">>
Upto1(t, n) == SubSeq(t, 1, n)
After1(t, n) == SubSeq(t, n + 1, Len(t))

------------------------------------------------------------------------------
(***************************************************************************)
(* VariableSplitter: the first variable of a text, from start to end.      *)
(***************************************************************************)
NotFound == [start |-> 0]
LastBrace(t) == Max({0} \cup {i \in DOMAIN t: t[i] = "}"})
Starts(t) == {i \in 1..(LastBrace(t) - 2): t[i] \in Identifiers /\ t[i + 1] = "{" /\ ~Escaped(t, i)}
InVariable(s, c, at, i) == \* the state after a character inside the braces
    CASE c = "}" /\ s.open = 1 -> [s EXCEPT !.open = 0, !.end = i, !.mode = IF at = "@" THEN "waiting" ELSE "stopped"]
      [] c = "}" /\ s.open > 1 -> [s EXCEPT !.open = @ - 1, !.end = i, !.mode = "variable"]
      [] c \in Identifiers -> [s EXCEPT !.end = i, !.mode = "internal"]
      [] OTHER -> [s EXCEPT !.end = i, !.mode = "variable"]
Stepped(s, c, at, i) ==
    CASE s.mode = "internal" /\ c = "{" -> [s EXCEPT !.open = @ + 1, !.end = i, !.mode = "variable", !.internal = TRUE]
      [] s.mode \in {"variable", "internal"} /\ ~(s.mode = "internal" /\ c = "{") -> InVariable(s, c, at, i)
      [] s.mode = "waiting" -> [s EXCEPT !.mode = IF c = "[" THEN "index" ELSE "stopped"]
      [] s.mode = "index" -> [s EXCEPT !.mode = IF c = "]" THEN "stopped" ELSE "index", !.index = IF c = "]" THEN i ELSE 0]
      [] OTHER -> s
Scanned(t, start) == \* the state of the splitter after the text
    LET states[i \in (start + 1)..Len(t)] ==
            IF i = start + 1 THEN [mode |-> "variable", open |-> 1, end |-> i, internal |-> FALSE, index |-> 0]
            ELSE LET s == Stepped(states[i - 1], t[i], t[start], i)
                 IN  IF s.mode \in {"variable", "internal"} /\ i > LastBrace(t) THEN [s EXCEPT !.mode = "stopped"] ELSE s
    IN  states[Len(t)]
Variable(t, start, last) ==
    [start |-> start, id |-> t[start], end |-> IF last.index > 0 THEN last.index ELSE last.end,
     base |-> SubSeq(t, start + 2, last.end - 1), internal |-> last.internal,
     index |-> IF last.index > 0 THEN SubSeq(t, last.end + 2, last.index - 1) ELSE Unknown]
SplitAt(t, start) == Variable(t, start, Scanned(t, start))
\* Mutant: every brace that closes closes the variable.
FlatSplit(t) ==
    IF Starts(t) = {} THEN NotFound
    ELSE LET start == Min(Starts(t))
             end == Min({i \in DOMAIN t: i > start /\ t[i] = "}"})
         IN  [start |-> start, id |-> t[start], end |-> end, base |-> SubSeq(t, start + 2, end - 1), internal |-> FALSE, index |-> Unknown]
Split(t) == IF Starts(t) = {} THEN NotFound ELSE SplitAt(t, Min(Starts(t)))

------------------------------------------------------------------------------
(***************************************************************************)
(* Variables: what is looked up by name, and replaced in texts.            *)
(***************************************************************************)
NormalName(base) == Normalize(base, {"_"}, TRUE, TRUE)
IsVar(base) == base # <<>> /\ Range(base) \cap {"{", "}"} = {}
Defined(id, base) == <<id, NormalName(base)>> \in DOMAIN scope
ExtensionAt(base) == {i \in 2..(Len(base) - 1): base[i] \in NonWord}
\* The variable itself, a number, an attribute of an object, or a list.
GetValue(id, base) ==
    LET split == Min(ExtensionAt(base))
    IN  CASE ~IsVar(base) -> Failure
          [] IsVar(base) /\ Defined(id, base) -> scope[<<id, NormalName(base)>>]
          [] IsVar(base) /\ ~Defined(id, base) /\ id = "$" ->
                CASE NormalName(base) # <<>> /\ Range(NormalName(base)) \subseteq Digits -> [kind |-> "number"]
                  [] Range(NormalName(base)) \ Digits # {} /\ ExtensionAt(base) # {} /\ Defined("$", Upto1(base, split - 1)) ->
                        IF base[split] = "." THEN [kind |-> "attribute"] ELSE Failure
                  [] Defined("@", base) -> scope[<<"@", NormalName(base)>>]
                  [] OTHER -> Failure
          [] OTHER -> Failure
Shown(value) == IF IsText(value) THEN value.text ELSE <<value.kind>>
GetVariable(split, base, index) ==
    IF split.index = Unknown THEN GetValue(split.id, base)
    ELSE IF Defined("@", base) /\ Len(index) = 1 /\ index[1] \in Digits /\ Number(index[1]) < Len(GetValue("@", base).items)
         THEN GetValue("@", base).items[Number(index[1]) + 1] ELSE Failure
\* The text with its variables replaced, or a failure.
Together(before, value, rest) ==
    IF value = Failure \/ rest = Failure THEN Failure ELSE TextValue(before \o Shown(value) \o rest.text)
ValueOf(split, base, index) ==
    IF IsText(base) /\ IsText(index) THEN GetVariable(split, base.text, index.text) ELSE Failure
ReplacedString ==
    LET replaced[t \in Seq(STRING)] ==
            LET split == Split(t)
                base == IF split.internal THEN replaced[split.base] ELSE TextValue(split.base)
                index == IF split.index = Unknown THEN TextValue(<<>>) ELSE replaced[split.index]
            IN  IF split = NotFound THEN TextValue(Unescape(t))
                ELSE Together(Unescape(Upto1(t, split.start - 1)), ValueOf(split, base, index), replaced[After1(t, split.end)])
    IN  replaced
ReplaceVariables(t) == ReplacedString[t]
ReplacedBase(split) == IF split.internal THEN ReplaceVariables(split.base) ELSE TextValue(split.base)
ReplacedIndex(split) == IF split.index = Unknown THEN TextValue(<<>>) ELSE ReplaceVariables(split.index)
Spans(t, split) == split # NotFound /\ split.start = 1 /\ split.end = Len(t)
IsWhole(t) == Spans(t, Split(t))
ReplaceWhole(t, split) == \* a text that is a variable is its value, of any type
    IF ~Spans(t, split) \/ split.base = <<>> THEN ReplaceVariables(t)
    ELSE ValueOf(split, ReplacedBase(split), ReplacedIndex(split))
ReplaceScalar(value) == IF IsText(value) THEN ReplaceWhole(value.text, Split(value.text)) ELSE value
\* A list variable is as many items as it has.
ItemsOf(list) == IF list = Failure THEN <<Failure>> ELSE list.items
ListNamed(base) == IF base = Failure THEN Failure ELSE GetValue("@", base.text)
IsListVariable(value) ==
    IsText(value) /\ IsWhole(value.text) /\ value.text[1] = "@" /\ Last(value.text) = "}"
ReplacedItem(value) ==
    IF IsListVariable(value) THEN ItemsOf(ListNamed(ReplacedBase(Split(value.text)))) ELSE <<ReplaceScalar(value)>>
ReplaceList(values) == FlattenSeq([i \in DOMAIN values |-> ReplacedItem(values[i])])

EscapeValue(value) == IF IsText(value) THEN TextValue(Escape(value.text)) ELSE value
\* Arguments are replaced one by one until there are n values; values that are
\* more than that are escaped, because they are replaced again.
Needed(n, values) == \* how many arguments that takes
    Min({Len(values)} \cup {m \in 0..Len(values): Len(ReplaceList(Upto1(values, m))) >= n})
EscapeAfter(n, processed) == [i \in DOMAIN processed |-> IF i > n THEN EscapeValue(processed[i]) ELSE processed[i]]
ReplaceBeginning(n, values, m) == EscapeAfter(n, ReplaceList(Upto1(values, m))) \o After1(values, m)
ReplaceFromBeginning(n, values) == ReplaceBeginning(n, values, Needed(n, values))

------------------------------------------------------------------------------
(***************************************************************************)
(* BuiltIn: the names of variables that are set and asked for, which are   *)
(* not replaced before, and the value that is chosen by conditions.        *)
(***************************************************************************)
IsVarText(t) == Len(t) > 3 /\ t[1] \in Identifiers /\ t[2] = "{" /\ Last(t) = "}" /\ IsVar(SubSeq(t, 3, Len(t) - 1))
Braced(id, base) == <<id, "{">> \o base \o <<"}">>
NameOf(t) == \* without the backslash, or with the braces that are left out
    CASE t[1] = Backslash -> Tail(t)
      [] t[1] \in Identifiers /\ t[2] # "{" -> Braced(t[1], Tail(t))
      [] OTHER -> t
IfVariable(value, t) == IF value # Failure /\ IsVarText(t) THEN TextValue(t) ELSE Failure
WithInternal(id, internal) == IfVariable(internal, Braced(id, Shown(internal)))
ReplacedName(name) ==
    IF IsVarText(name) THEN TextValue(name)
    ELSE WithInternal(name[1], ReplaceScalar(TextValue(SubSeq(name, 3, Len(name) - 1))))
UnescapeVariable(t) == IF Len(t) > 1 THEN ReplacedName(NameOf(t)) ELSE Failure
Preferred(value, t) == IF value = Failure THEN TextValue(t) ELSE value
NamedByValue(value, t) == \* the name may be the value of the variable
    IF value.kind = "text" /\ Len(value.text) > 1 THEN Preferred(UnescapeVariable(value.text), t) ELSE TextValue(t)
ResolvePossible(t) ==
    NamedByValue(IF IsVarText(t) THEN GetValue(t[1], SubSeq(t, 3, Len(t) - 1)) ELSE Failure, t)
GetVarName(t) == UnescapeVariable(ResolvePossible(t).text)

Nothing == [kind |-> "none"]
Evaluates(value) == IsText(value) => value.text \in {<<d>>: d \in Digits}
IsTrue(value) == IF IsText(value) THEN value.text = <<"1">> ELSE value.kind = "list" /\ value.items # <<>>
RECURSIVE Verified(_), SetVariableIf(_)
Expanded(list, others) == \* the items take the place of the variable
    IF list = Failure THEN <<Failure>>
    ELSE Verified([i \in DOMAIN list.items |-> EscapeValue(list.items[i])] \o others)
Verified(values) == \* list variables at the beginning are as many values as they have items
    IF values = <<>> \/ ~IsText(values[1]) \/ ~IsVarText(values[1].text) \/ values[1].text[1] = "$" THEN values
    ELSE Expanded(GetValue("@", SubSeq(values[1].text, 3, Len(values[1].text) - 1)), Tail(values))
Chosen(condition, first, second) == \* the arguments after the condition, and after the value that follows it
    CASE ~Evaluates(condition) \/ first = <<>> -> Failure
      [] IsTrue(condition) -> ReplaceScalar(first[1])
      [] ~IsTrue(condition) /\ Len(first) = 1 -> Nothing
      [] ~IsTrue(condition) /\ Len(first) > 1 /\ second = <<>> -> Failure
      [] ~IsTrue(condition) /\ Len(first) > 1 /\ Len(second) = 1 -> ReplaceScalar(second[1])
      [] OTHER -> SetVariableIf(second)
ChosenBy(condition, first) == Chosen(condition, first, Verified(Tail(first)))
ChosenFrom(values) == IF values = <<>> THEN Failure ELSE ChosenBy(values[1], Verified(Tail(values)))
SetVariableIf(given) == ChosenFrom(ReplaceFromBeginning(1, given))

------------------------------------------------------------------------------
(***************************************************************************)
(* The variable table: the first of the same name is the one that is set,  *)
(* and a row that cannot be set is reported.                               *)
(***************************************************************************)
SpacesUnescaped(cell) == \* a backslash around leading and trailing spaces
    LET front == IF EndsWith(cell, <<Space, Backslash>>) THEN Front(cell) ELSE cell
    IN  IF StartsWith(front, <<Backslash, Space>>) THEN Tail(front) ELSE front
ListOrFailure(values) == IF Failure \in Range(values) THEN Failure ELSE ListValue(values)
RowValue(row) ==
    LET cells == [i \in DOMAIN row.cells |-> TextValue(SpacesUnescaped(row.cells[i]))]
    IN  CASE ~IsVar(row.base) -> Failure
          [] IsVar(row.base) /\ row.id = "$" /\ Len(cells) = 1 -> ReplaceScalar(cells[1])
          [] OTHER -> ListOrFailure(ReplaceList(cells))
Sets(row, value) == scope' = With(scope, <<row.id, NormalName(row.base)>>, value)
SetRow(row, value) ==
    IF value = Failure THEN syntax' = Append(syntax, row) /\ scope' = scope
    ELSE syntax' = syntax /\ IF Defined(row.id, row.base) THEN scope' = scope ELSE Sets(row, value)
\* Mutant: the table ends with a row that fails.
SetUntilFailure ==
    /\ table # <<>> /\ table' = IF RowValue(Head(table)) = Failure THEN <<>> ELSE Tail(table)
    /\ rowValues' = Append(rowValues, RowValue(Head(table)))
    /\ SetRow(Head(table), RowValue(Head(table)))
    /\ UNCHANGED <<rows, pieces, args>>
SetFromVariableTable ==
    /\ table # <<>> /\ table' = Tail(table)
    /\ rowValues' = Append(rowValues, RowValue(Head(table)))
    /\ SetRow(Head(table), RowValue(Head(table)))
    /\ UNCHANGED <<rows, pieces, args>>
\* A text, or the arguments of a keyword, are looked at when the table is set.
CanRead == table = <<>> /\ pieces = <<>> /\ args = <<>>
ReadText(ps) ==
    /\ pieces' = ps
    /\ UNCHANGED <<scope, rows, table, rowValues, syntax, args>>
ReadArguments(values) ==
    /\ args' = values
    /\ UNCHANGED <<scope, rows, table, rowValues, syntax, pieces>>
SeqsOf(S, n) == UNION {[1..m -> S]: m \in 0..n}
ReplacementInit ==
    /\ scope = <<>> /\ rows \in Tables /\ table = rows /\ rowValues = <<>> /\ syntax = <<>>
    /\ pieces = <<>> /\ args = <<>>
ReplacementNext ==
    \/ SetFromVariableTable
    \/ CanRead /\ \E ps \in SeqsOf(Pieces, MaxPieces): ReadText(ps)
    \/ CanRead /\ \E values \in SeqsOf({TextValue(p.text): p \in Pieces}, MaxArgs)
         \cup SeqsOf({TextValue(t): t \in Conditions}, MaxConditions): ReadArguments(values)
ReplacementSpec == ReplacementInit /\ [][ReplacementNext]_replacementVars

------------------------------------------------------------------------------
PiecesText == FlattenSeq([i \in DOMAIN pieces |-> pieces[i].text])
\* What a piece stands for: itself, a scalar variable, or the scalar variable
\* that has the value of one as its name.
MeaningOf(means) ==
    CASE means.kind = "itself" -> TextValue(means.text)
      [] means.kind = "variable" -> GetValue("$", means.text)
      [] means.kind = "nested" /\ Defined("$", means.text) -> GetValue("$", GetValue("$", means.text).text)
      [] OTHER -> Failure
Meanings == [i \in DOMAIN pieces |-> MeaningOf(pieces[i].means)]

\* A text that was escaped is the text itself again when variables are
\* replaced in it, whatever halves of variables it has; and in a text of
\* variables, nested ones and escaped ones among other characters each is
\* replaced by its value, in which nothing is replaced or unescaped again.
VariablesAreReplaced ==
    /\ ReplaceVariables(Escape(PiecesText)) = TextValue(PiecesText)
    /\ (\A i \in DOMAIN pieces: pieces[i].means.kind # "part") =>
           ReplaceVariables(PiecesText) =
               IF Failure \in Range(Meanings) THEN Failure
               ELSE TextValue(FlattenSeq([i \in DOMAIN pieces |-> Shown(Meanings[i])]))

\* A keyword that is run by another keyword gets the values it would get by
\* itself: each argument is replaced once, by the one keyword or the other,
\* however many of them the items of a list variable are.
ReplacedOnce ==
    \A values \in {ReplaceList(args)}: Failure \notin Range(values) =>
        \A n \in 0..2: \A first \in {ReplaceFromBeginning(n, args)}:
            Upto1(first, Min({n, Len(first)})) \o ReplaceList(After1(first, n)) = values

\* A keyword that sets a variable, or asks whether there is one, means the
\* variable that its name is elsewhere, also when it has other variables in
\* it, written as ${name}, as \${name} and as $name; when its value looks like
\* a variable, at least as \${name}.
NamesMeanTheSame ==
    LET name == Braced("$", PiecesText)
    IN  IsWhole(name) /\ PiecesText # <<>> =>
            \A base \in {ReplacedBase(Split(name))}: base # Failure /\ IsVar(base.text) =>
                \A meant \in {TextValue(Braced("$", base.text))}:
                    /\ GetVarName(<<Backslash>> \o name) = meant
                    /\ GetVarName(<<"$">> \o PiecesText) = meant
                    /\ ~(Defined("$", base.text) /\ Split(Shown(GetValue("$", base.text))) # NotFound) => GetVarName(name) = meant

\* Set Variable If chooses from its arguments as if all were replaced first:
\* the value after the first condition that is true, or else the last one if
\* no condition is left for it; items of lists are arguments like all others
\* (except that an empty list in the place of the last one is an error).
ConditionsChoose ==
    \A values \in {ReplaceList(args)}:
        LET asked == {i \in 1..(Len(values) - 1): i % 2 = 1}
            true == {i \in asked: IsTrue(values[i])}
            chosen == CASE true # {} -> values[Min(true) + 1]
                        [] true = {} /\ Len(values) % 2 = 1 -> Last(values)
                        [] OTHER -> Nothing
        IN  Len(values) > 1 /\ Failure \notin Range(values) /\ ReplacedItem(Last(args)) # <<>> /\ (\A i \in asked: Evaluates(values[i])) =>
                SetVariableIf(args) = chosen

\* What a table sets is a function of its rows: every row is looked at, however
\* many before it have failed or were repetitions; the variables are those of the
\* rows that have a value, which may use the ones before them; each has the value
\* of the first such row of its name, in any spelling, also when a row of the same
\* name has failed before it; and the others are reported, in their order.
TableRowsAreSet ==
    LET key(i) == <<rows[i].id, NormalName(rows[i].base)>>
        valid == {i \in DOMAIN rowValues: rowValues[i] # Failure}
        failed == SelectSeq([i \in DOMAIN rowValues |-> i], LAMBDA i: i \notin valid)
    IN  /\ table = SubSeq(rows, Len(rowValues) + 1, Len(rows))
        /\ scope = [k \in {key(i): i \in valid} |-> rowValues[Min({i \in valid: key(i) = k})]]
        /\ syntax = [n \in DOMAIN failed |-> rows[failed[n]]]

\* A variable ends with the brace, or bracket, that closes it.
VariablesEndWithBraces ==
    LET split == Split(PiecesText)
    IN  split # NotFound => PiecesText[split.end] = IF split.index = Unknown THEN "}" ELSE "]"
=============================================================================
