----------------------------- MODULE Populators -----------------------------
(***************************************************************************)
(* How the rows of a test data file become tests, keywords, settings and   *)
(* variables: a chain of populators, one per table, one per test or user   *)
(* keyword in it, one per for loop and one per step or setting, each of    *)
(* which keeps a row back until the next row tells that it is complete.    *)
(*                                                                         *)
(* A cell is <<text, row, column>>, so that no two cells are the same.     *)
(***************************************************************************)
EXTENDS Integers, Sequences, FiniteSets, SequencesExt, FiniteSetsExt

CONSTANTS Offered(_), \* texts of the rows that may follow in a type of table
          MaxRows   \* bound: rows in the file

ASSUME MaxRowsAssumption == MaxRows \in Nat

VARIABLES fileType, \* who reads it: a suite, an import or a directory
          rows,    \* rows read, in which a row is a sequence of cells
          file,    \* the TestCaseFile, ResourceFile or TestDataDirectory
          table,   \* the current populator of the file
          process, \* whether a table has been found
          state    \* "reading", "ready" or "failed" (DataError)

vars == <<fileType, rows, file, table, process, state>>

Text(cell) == cell[1]
Texts(cells) == [i \in DOMAIN cells |-> Text(cells[i])]

TableTypes == [h \in {"* Setting", "* Metadata"} |-> "setting"]
              @@ [h \in {"* Variable"} |-> "variable"]
              @@ [h \in {"* Keyword", "* User Keyword"} |-> "keyword"]
              @@ [h \in {"* Test Case"} |-> "testcase"]
UnnamedTable == "*"
IsHeader(row) == row # <<>> /\ Text(row[1]) \in DOMAIN TableTypes \cup {"* Unknown", UnnamedTable}

TableSettings == {"Library"} \cup IF fileType = "resource file" THEN {} ELSE {"Suite Setup"}
ItemSettings(type) == IF type = "testcase" THEN {"[Setup]", "[Tags]"} ELSE {"[Arguments]"}
Replaced == {"[Arguments]"}  \* a new value replaces the old one

------------------------------------------------------------------------------
(***************************************************************************)
(* One row.                                                                *)
(***************************************************************************)
RECURSIVE Purged(_)
Purged(cells) == IF cells # <<>> /\ Text(Last(cells)) = "" THEN Purged(Front(cells)) ELSE cells

\* A cell with only a backslash is an empty cell that is not purged.
Unescaped(cells) == [i \in DOMAIN cells |-> IF Text(cells[i]) = "\\" THEN <<"", cells[i][2], cells[i][3]>>
                                            ELSE cells[i]]
DataRow(row) ==
    LET hash == {i \in DOMAIN row: Text(row[i]) = "#"}
        end == IF hash = {} THEN Len(row) ELSE Min(hash) - 1
    IN  [cells |-> Unescaped(Purged(SubSeq(row, 1, end))), comment |-> hash # {}]

IsEmpty(row) == row.cells = <<>> /\ ~row.comment
IsCommented(row) == row.cells = <<>> /\ row.comment
Head1(row) == IF row.cells = <<>> THEN "None" ELSE Text(row.cells[1])
IsIndented(row) == Head1(row) = ""
StartsForLoop(row) == Head1(row) = ": FOR"
StartsSetting(row) == Head1(row) \in {"[Setup]", "[Tags]", "[Arguments]", "[Unknown]"}

IsContinuing(row) ==
    \E i \in DOMAIN row.cells: /\ Text(row.cells[i]) = "..."
                               /\ \A j \in 1..(i - 1): Text(row.cells[j]) = ""

Data(row) ==
    IF IsContinuing(row)
    THEN LET i == CHOOSE i \in DOMAIN row.cells: /\ Text(row.cells[i]) = "..."
                                                 /\ \A j \in 1..(i - 1): Text(row.cells[j]) # "..."
         IN  SubSeq(row.cells, i + 1, Len(row.cells))
    ELSE row.cells

Dedent(row) == [row EXCEPT !.cells = IF @ = <<>> THEN @ ELSE Tail(@)]

------------------------------------------------------------------------------
(***************************************************************************)
(* What has been read: the settings, imports, variables, tests and         *)
(* keywords of the file. A step is a sequence of cells; a for loop has a   *)
(* declaration and steps. A populator is a record; in s its work so far    *)
(* and the file are passed together.                                       *)
(***************************************************************************)
NoFile == [tables |-> {}, setup |-> <<>>, imports |-> <<>>, variables |-> <<>>,
           items |-> <<>>, errors |-> 0]
Step(cells) == [for |-> FALSE, value |-> cells, body |-> <<>>]
ForLoop(cells) == [for |-> TRUE, value |-> cells, body |-> <<>>]

Null == [kind |-> "null"]
Property(target) == [kind |-> "property", target |-> target, value |-> <<>>]
StepOf(i) == Property(<<"step", i>>)
S(f, p) == [file |-> f, p |-> p]

\* The setter a property populator was given, called with all its cells.
Set(f, target, value) ==
    CASE target[1] = "Suite Setup" -> [f EXCEPT !.setup = @ \o value]
      [] target[1] = "Library" -> [f EXCEPT !.imports = Append(@, value)]
      [] target[1] = "variable" -> [f EXCEPT !.variables = Append(@, [name |-> target[2], value |-> value])]
      [] target[1] = "step" -> [f EXCEPT !.items[target[2]].steps = Append(@, Step(value))]
      [] target[1] = "loop" ->
            [f EXCEPT !.items[target[2]].steps[target[3]].body = Append(@, Step(value))]
      [] OTHER -> [f EXCEPT !.items[target[2]].settings[target[1]] =
                        IF target[1] \in Replaced THEN value ELSE @ \o value]

AddProperty(p, row) ==
    IF p.kind = "null" \/ IsCommented(row) THEN p
    ELSE [p EXCEPT !.value = @ \o Data(IF p.target[1] \in {"step", "loop"} THEN row ELSE Dedent(row))]
PopulateProperty(s) == IF s.p.kind = "null" THEN s.file ELSE Set(s.file, s.p.target, s.p.value)

\* For loops.
Loop(i) == [kind |-> "for", item |-> i, loop |-> 0, step |-> Null, declaration |-> <<>>]

CreateLoop(s) ==
    IF s.p.loop # 0 THEN s
    ELSE LET steps == Append(s.file.items[s.p.item].steps, ForLoop(s.p.declaration))
         IN  S([s.file EXCEPT !.items[s.p.item].steps = steps], [s.p EXCEPT !.loop = Len(steps)])

AddLoop(s, row) ==
    IF s.p.loop = 0 /\ (StartsForLoop(row) \/ IsContinuing(row))
    THEN [s EXCEPT !.p.declaration = @ \o Data(Dedent(row))]
    ELSE LET made == CreateLoop(s)
             target == <<"loop", made.p.item, made.p.loop>>
             next == IF IsContinuing(row) THEN made
                     ELSE S(PopulateProperty(S(made.file, made.p.step)),
                            [made.p EXCEPT !.step = Property(target)])
         IN  [next EXCEPT !.p.step = AddProperty(@, Dedent(row))]
PopulateLoop(s) == LET made == CreateLoop(s) IN PopulateProperty(S(made.file, made.p.step))

AddInner(s, row) == IF s.p.kind = "for" THEN AddLoop(s, row)
                    ELSE [s EXCEPT !.p = AddProperty(@, row)]
PopulateInner(s) == IF s.p.kind = "for" THEN PopulateLoop(s) ELSE PopulateProperty(s)

\* Tests and user keywords.
Item(type) == [kind |-> "item", type |-> type, item |-> 0, inner |-> Null, comments |-> <<>>]

CreateItem(s, row) ==
    IF s.p.item # 0 THEN s
    ELSE LET new == [type |-> s.p.type, name |-> row.cells[1], steps |-> <<>>,
                     settings |-> [n \in ItemSettings(s.p.type) |-> <<>>]]
         IN  S([s.file EXCEPT !.items = Append(@, new)],
               [s.p EXCEPT !.item = Len(s.file.items) + 1])

\* The number of comment rows as comment steps, which have no cells.
CommentSteps(s) ==
    S([s.file EXCEPT !.items[s.p.item].steps =
           @ \o [c \in DOMAIN s.p.comments |-> Step(<<>>)]],
      [s.p EXCEPT !.comments = <<>>])

ItemContinues(s, row) ==
    \/ IsContinuing(row) /\ s.p.inner # Null
    \/ s.p.inner.kind = "for" /\ IsIndented(row)

InnerFor(s, row) ==
    IF StartsSetting(row)
    THEN IF Head1(row) \in ItemSettings(s.p.type)
         THEN [s EXCEPT !.p.inner = Property(<<Head1(row), s.p.item>>)]
         ELSE [s EXCEPT !.p.inner = Null, !.file.errors = @ + 1]
    ELSE [s EXCEPT !.p.inner = IF StartsForLoop(row) THEN Loop(s.p.item) ELSE StepOf(s.p.item)]

AddToInner(s, row) == LET new == AddInner(S(s.file, s.p.inner), row)
                      IN  S(new.file, [s.p EXCEPT !.inner = new.p])

HandleDataRow(s, row) ==
    IF ItemContinues(s, row)
    THEN AddToInner([FoldLeft(AddToInner, s, s.p.comments) EXCEPT !.p.comments = <<>>], row)
    ELSE LET done == S(PopulateInner(S(s.file, s.p.inner)), s.p)
         IN  AddToInner(CommentSteps(InnerFor(done, row)), row)

AddItem(s, row) ==
    IF IsCommented(row) THEN [s EXCEPT !.p.comments = Append(@, row)]
    ELSE LET made == CreateItem(s, row)
         IN  IF IsEmpty(Dedent(row)) THEN made ELSE HandleDataRow(made, Dedent(row))
PopulateItem(s) == CommentSteps(S(PopulateInner(S(s.file, s.p.inner)), s.p)).file

AddTo(s, row) == CASE s.p.kind = "null" -> s
                   [] s.p.kind = "item" -> AddItem(s, row)
                   [] OTHER -> AddInner(s, row)
\* Mutant: the populator of a setting, variable or test is dropped.
PopulateNothing(s) == s.file
Populate(s) == IF s.p.kind = "item" THEN PopulateItem(s) ELSE PopulateInner(s)

------------------------------------------------------------------------------
(***************************************************************************)
(* Tables.                                                                 *)
(***************************************************************************)
NoTable == [type |-> "null"]
Table(type) == [type |-> type, current |-> Null, comments |-> <<>>]

TableContinues(t, row) ==
    IF t.type \in {"testcase", "keyword"}
    THEN (IsIndented(row) /\ t.current # Null) \/ IsCommented(row)
    ELSE IsContinuing(row) /\ t.current # Null

IsCacheableComment(t, row) ==
    IsCommented(row) /\ (t.type \in {"testcase", "keyword"} => t.current = Null)

PopulatorFor(t, row) ==
    CASE t.type = "setting" -> IF Head1(row) \in TableSettings
                               THEN Property(<<Head1(row)>>) ELSE Null
      [] t.type = "variable" -> Property(<<"variable", row.cells[1]>>)
      [] OTHER -> Item(t.type)

AddToTable(f, t, row) ==
    IF t.type = "null" THEN <<f, t>>
    ELSE IF IsCacheableComment(t, row) THEN <<f, [t EXCEPT !.comments = Append(@, row)]>>
    ELSE LET s == IF TableContinues(t, row) THEN S(f, t.current)
                  ELSE S(Populate(S(f, t.current)), PopulatorFor(t, row))
             bad == ~TableContinues(t, row) /\ s.p = Null
             new == AddTo(FoldLeft(AddTo, s, t.comments), row)
         IN  <<[new.file EXCEPT !.errors = IF bad THEN @ + 1 ELSE @],
               [t EXCEPT !.current = new.p, !.comments = <<>>]>>

PopulateTable(f, t) ==
    IF t.type = "null" THEN f ELSE Populate(FoldLeft(AddTo, S(f, t.current), t.comments))

------------------------------------------------------------------------------
(***************************************************************************)
(* The reader of TSV and plain text files.                                 *)
(***************************************************************************)
Init == /\ fileType \in {"test case file", "resource file", "init file"}
        /\ rows = <<>> /\ file = NoFile /\ table = NoTable
        /\ process = FALSE /\ state = "reading"

StartTable(row) ==
    LET type == TableTypes[Text(row[1])]
        allowed == type = "testcase" => fileType = "test case file"
    IN  /\ Text(row[1]) \in DOMAIN TableTypes
        /\ type = "testcase" => fileType # "resource file"
        /\ file' = [PopulateTable(file, table) EXCEPT
                        !.tables = IF allowed THEN @ \cup {type} ELSE @,
                        !.errors = IF allowed THEN @ ELSE @ + 1]
        /\ table' = IF allowed THEN Table(type) ELSE NoTable
        /\ process' = (process \/ allowed)
        /\ UNCHANGED state

StartUnknownTable(row) ==
    /\ Text(row[1]) = "* Unknown"
    /\ file' = PopulateTable(file, table)
    /\ table' = NoTable
    /\ UNCHANGED <<process, state>>

\* The name of the table is looked up in an empty row, or the table is not
\* allowed in a resource file: the whole file is given up.
FailToStartTable(row) ==
    /\ \/ Text(row[1]) = UnnamedTable
       \/ fileType = "resource file" /\ Text(row[1]) = "* Test Case"
    /\ state' = "failed"
    /\ file' = PopulateTable(file, table)
    /\ UNCHANGED <<table, process>>

Add(row) ==
    /\ LET new == IF process /\ ~IsEmpty(DataRow(row))
                  THEN AddToTable(file, table, DataRow(row)) ELSE <<file, table>>
       IN  file' = new[1] /\ table' = new[2]
    /\ UNCHANGED <<process, state>>

Read == /\ state = "reading" /\ Len(rows) < MaxRows
        /\ \E texts \in Offered(table.type):
               LET row == [c \in DOMAIN texts |-> <<texts[c], Len(rows) + 1, c>>]
               IN  /\ rows' = Append(rows, row)
                   /\ IF IsHeader(row)
                      THEN StartTable(row) \/ StartUnknownTable(row) \/ FailToStartTable(row)
                      ELSE Add(row)
        /\ UNCHANGED fileType

\* Only the file of a suite must have tests.
Eof == /\ state = "reading"
       /\ file' = PopulateTable(file, table)
       /\ state' = IF fileType = "test case file" /\ "testcase" \notin file.tables
                   THEN "failed" ELSE "ready"
       /\ UNCHANGED <<fileType, rows, table, process>>

Done == state # "reading" /\ UNCHANGED vars

Next == Read \/ Eof \/ Done
Spec == Init /\ [][Next]_vars

------------------------------------------------------------------------------
(***************************************************************************)
(* The same file without comments, and with every row that is continued    *)
(* written as one row.                                                     *)
(***************************************************************************)
Joins(type, before, row) ==
    /\ before # <<>> /\ ~IsHeader(Last(before))
    /\ IsContinuing(row)
    /\ type \in {"testcase", "keyword"} => IsIndented(row)

Plain(acc, row) ==
    LET data == DataRow(row)
    IN  IF IsHeader(row)
        THEN [lines |-> Append(acc.lines, row),
              type |-> IF Text(row[1]) \in DOMAIN TableTypes THEN TableTypes[Text(row[1])] ELSE "null"]
        ELSE IF data.cells = <<>> THEN acc
        ELSE IF Joins(acc.type, acc.lines, data)
        THEN [acc EXCEPT !.lines = Append(Front(@), Last(@) \o Data(data))]
        ELSE [acc EXCEPT !.lines = Append(@, data.cells)]
PlainRows == FoldLeft(Plain, [lines |-> <<>>, type |-> "null"], rows).lines

ReadRow(acc, row) ==
    IF IsHeader(row)
    THEN LET known == /\ Text(row[1]) \in DOMAIN TableTypes
                      /\ TableTypes[Text(row[1])] = "testcase" => fileType = "test case file"
         IN  <<PopulateTable(acc[1], acc[2]),
               IF known THEN Table(TableTypes[Text(row[1])]) ELSE NoTable>>
    ELSE AddToTable(acc[1], acc[2], DataRow(row))
PlainFile == LET end == FoldLeft(ReadRow, <<NoFile, NoTable>>, PlainRows)
             IN  PopulateTable(end[1], end[2])

\* What is run: steps without comment steps.
Steps(steps) == SelectSeq(steps, LAMBDA st: st.for \/ st.value # <<>>)
Meaning(f) ==
    <<f.setup, f.imports, f.variables,
      [i \in DOMAIN f.items |->
          [f.items[i] EXCEPT !.steps =
              LET own == Steps(@) IN [k \in DOMAIN own |-> [own[k] EXCEPT !.body = Steps(@)]]]]>>

\* A comment row in a for loop is followed by the rest of the row before it.
SplitInLoop ==
    LET data == [n \in DOMAIN rows |-> DataRow(rows[n])]
    IN  \E i, j, k \in DOMAIN rows:
            /\ i < j /\ j < k
            /\ \E c \in DOMAIN rows[i]: Text(rows[i][c]) = ": FOR"
            /\ \A m \in (i + 1)..(j - 1):
                   \/ data[m].cells = <<>> \/ IsContinuing(data[m]) \/ IsIndented(Dedent(data[m]))
            /\ \A m \in j..(k - 1): data[m].cells = <<>>
            /\ \E m \in j..(k - 1): IsCommented(data[m])
            /\ IsContinuing(data[k])

\* Comments and line breaks have no meaning: however the rows are split with
\* ellipses and wherever there are comments, the file has the tests, keywords,
\* settings, imports and variables of the plain rows, as long as no syntax
\* error is reported (tablepopulators.py, every populator that keeps rows).
LayoutHasNoMeaning ==
    state = "ready" /\ file.errors = 0 /\ ~SplitInLoop => Meaning(file) = Meaning(PlainFile)

\* The same with comments anywhere, as the user guide promises: "all data
\* ... after the hash" is ignored.
CommentsAreIgnored ==
    state = "ready" /\ file.errors = 0 => Meaning(file) = Meaning(PlainFile)

\* A table whose header is empty is a table that does not start with a table
\* name, which the user guide says is ignored: the file is given up only when
\* it has no test case table, or is a resource file that has one.
OtherTablesAreIgnored ==
    state = "failed" =>
        \/ fileType = "test case file" /\ "testcase" \notin file.tables
        \/ fileType = "resource file" /\ \E n \in DOMAIN rows: Text(rows[n][1]) = "* Test Case"

CellsIn(steps) == UNION {Range(steps[k].value) \cup
                         UNION {Range(steps[k].body[b].value): b \in DOMAIN steps[k].body}
                         : k \in DOMAIN steps}
FileCells == Range(file.setup) \cup UNION {Range(file.imports[i]): i \in DOMAIN file.imports}
    \cup UNION {{file.variables[i].name} \cup Range(file.variables[i].value): i \in DOMAIN file.variables}
    \cup UNION {{file.items[i].name} \cup CellsIn(file.items[i].steps)
                \cup UNION {Range(file.items[i].settings[n]): n \in DOMAIN file.items[i].settings}
                : i \in DOMAIN file.items}
IsData(cell) == Text(cell) = "data"
TableAt(n) == LET heads == {h \in 1..n: IsHeader(rows[h])}
              IN  IF heads = {} THEN "null"
                  ELSE LET h == CHOOSE h \in heads: \A o \in heads: o <= h
                       IN  IF Text(rows[h][1]) \in DOMAIN TableTypes
                           THEN TableTypes[Text(rows[h][1])] ELSE "null"
ReadCells == UNION {{c \in Range(DataRow(rows[n]).cells): IsData(c)} : n \in {n \in DOMAIN rows: TableAt(n) # "null" /\ ~IsHeader(rows[n])}}
\* Cells of a setting that was given again.
Replaces(n) == \E c \in DOMAIN rows[n]: Text(rows[n][c]) \in Replaced
Overwritten == {c \in ReadCells: \E m, n \in DOMAIN rows:
                    n <= c[2] /\ c[2] < m /\ Replaces(n) /\ Replaces(m)}

\* Every cell of the tables that are read is in the file, those kept back by
\* a populator when the table or the file ended included, and no cell that is
\* not: unless an error is reported nothing is lost but the arguments of a
\* keyword given a second time (populators.py, start_table and eof).
NothingIsLost ==
    state = "ready" /\ file.errors = 0 =>
        /\ ReadCells \ Overwritten \subseteq FileCells
        /\ {c \in FileCells: IsData(c)} \subseteq ReadCells
=============================================================================
