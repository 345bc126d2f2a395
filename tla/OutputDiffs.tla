---------------------------- MODULE OutputDiffs ----------------------------
(***************************************************************************)
(* The tool that compares outputs (tools/robotdiff/robotdiff.py).  Outputs *)
(* are added one by one, each to a column of its own; the report then has  *)
(* a row for each name of a suite or a test, with its status in each of    *)
(* the outputs, and highlights the rows in which statuses differ.          *)
(*                                                                         *)
(* Names and paths are sequences of characters.  The order of the rows,    *)
(* links to logs and the HTML are left out.                                *)
(***************************************************************************)
EXTENDS Naturals, Sequences, SequencesExt, FiniteSetsExt, TLC

CONSTANTS DiffNames,     \* names that can be given to outputs with --name
          DiffPaths,     \* paths of outputs, which are their names otherwise
          DiffSuites,    \* suites that outputs can hold
          MaxDiffInputs  \* bound on the outputs that are compared

VARIABLES named,           \* whether names were given: to all outputs or to none
          inputs,          \* the outputs that were added: name and suite
          column_names,    \* DiffRobotOutputs.column_names
          suites_and_tests \* the rows: name, and items with their columns

diffVars == <<named, inputs, column_names, suites_and_tests>>

DiffInit == named \in BOOLEAN /\ inputs = <<>> /\ column_names = <<>> /\ suites_and_tests = <<>>

\* A name that is used already gets the number of names that start with it.
NamesThatStartWith(name, columns) == {i \in DOMAIN columns: IsPrefix(name, columns[i])}
NumberedName(name, number) == name \o <<"_", ToString(number)>>
NewColumnName(columns, name) ==
    IF name \in Range(columns) THEN NumberedName(name, Cardinality(NamesThatStartWith(name, columns))) ELSE name

\* Names are shown with spaces for underscores, and are the same if they only
\* differ in spaces and case.
ShownName(longname) == [i \in DOMAIN longname |-> IF longname[i] = "_" THEN " " ELSE longname[i]]
Normalized(name) == LET visible == SelectSeq(name, LAMBDA c: c # " ")
                    IN  [i \in DOMAIN visible |-> IF visible[i] = "T" THEN "t" ELSE visible[i]]

\* _add_suite adds a suite, all in its sub suites, then its tests.
RECURSIVE Items(_)
Items(suite) == <<[longname |-> suite.longname, status |-> suite.status]>>
                \o FlattenSeq([i \in DOMAIN suite.suites |-> Items(suite.suites[i])]) \o suite.tests

AddToRows(rows, column, item) ==
    LET name == ShownName(item.longname)
        found == {i \in DOMAIN rows: Normalized(rows[i].name) = Normalized(name)}
        entry == [column |-> column, item |-> item]
    IN  IF found = {} THEN Append(rows, [name |-> name, entries |-> <<entry>>])
        ELSE [rows EXCEPT ![Max(found)].entries = Append(@, entry)]

AddOutput(name, suite) ==
    LET column == NewColumnName(column_names, name)
    IN  /\ Len(inputs) < MaxDiffInputs
        /\ inputs' = Append(inputs, [name |-> name, suite |-> suite])
        /\ column_names' = Append(column_names, column)
        /\ suites_and_tests' = FoldLeft(LAMBDA rows, item: AddToRows(rows, column, item), suites_and_tests, Items(suite))
        /\ UNCHANGED named

DiffNext == \E name \in (IF named THEN DiffNames ELSE DiffPaths), suite \in DiffSuites: AddOutput(name, suite)

\* The report: rows with their class and their statuses in the columns, in
\* which the first item that is found is shown.
RowStatus(row) == LET statuses == {row.entries[i].item.status: i \in DOMAIN row.entries}
                  IN  IF Cardinality(statuses) > 1 THEN "diff" ELSE CHOOSE s \in statuses: TRUE
Found(row, column) == {i \in DOMAIN row.entries: row.entries[i].column = column}
Cell(row, column) ==
    IF Found(row, column) = {} THEN "N/A" ELSE row.entries[Min(Found(row, column))].item.status
Rows == {[name |-> row.name, status |-> RowStatus(row),
          cells |-> [i \in DOMAIN column_names |-> Cell(row, column_names[i])]]: row \in Range(suites_and_tests)}

\* Headings are the names of the columns without the directories that all
\* have in common, wherever these are found in the name.
Directory(path) == SubSeq(path, 1, Max({0} \cup {i \in DOMAIN path: path[i] = "/"}))
CommonDirectory(columns) == Directory(LongestCommonPrefix({Directory(columns[i]): i \in DOMAIN columns}))
RECURSIVE Without(_, _)
Without(part, path) ==
    IF part = <<>> \/ path = <<>> THEN path
    ELSE IF IsPrefix(part, path) THEN Without(part, SubSeq(path, Len(part) + 1, Len(path)))
    ELSE <<Head(path)>> \o Without(part, Tail(path))
Headings == [i \in DOMAIN column_names |-> Without(CommonDirectory(column_names), column_names[i])]

-----------------------------------------------------------------------------
ItemsNamed(i, name) ==
    SelectSeq(Items(inputs[i].suite), LAMBDA item: Normalized(ShownName(item.longname)) = Normalized(name))

\* A suite or test whose status differs between two outputs is highlighted,
\* however its name is written in either of them, and nothing else is; and an
\* output that has it is shown with its status, one that has it not with none
\* (_add_to_dict, _get_row_status).  Names given to outputs must not end
\* in numbers themselves to be kept apart (_get_new_column_name).
DifferencesAreShown ==
    \A i \in DOMAIN inputs: \A item \in Range(Items(inputs[i].suite)):
        LET same(j) == ItemsNamed(j, ShownName(item.longname))
            all == UNION {{other.status: other \in Range(same(j))}: j \in DOMAIN inputs}
            kept == \A j, k \in DOMAIN inputs: \A n \in 1..MaxDiffInputs: inputs[j].name # NumberedName(inputs[k].name, n)
        IN  \E row \in Rows:
                /\ Normalized(row.name) = Normalized(ShownName(item.longname))
                /\ row.status = IF all = {item.status} THEN item.status ELSE "diff"
                /\ kept => row.cells = [j \in DOMAIN inputs |-> IF same(j) = <<>> THEN "N/A" ELSE same(j)[1].status]

\* robotdiff says that "Input files having same file name are distinguished by
\* adding as many parent directories to the names as is needed".
InputsAreDistinguished ==
    ~named => \A i, j \in DOMAIN inputs: inputs[i].name # inputs[j].name => Headings[i] # Headings[j]
=============================================================================
