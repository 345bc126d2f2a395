----------------------------- MODULE HtmlReader -----------------------------
(***************************************************************************)
(* The reader of HTML files, driven by the tags of the file. A row is      *)
(* handed on when it ends, and it ends with its own end tag, with the next *)
(* row or with the table: end tags may be left out.                        *)
(*                                                                         *)
(* Two readers read the same tables: one gets all the tags, the other one  *)
(* those that somebody wrote.                                              *)
(***************************************************************************)
EXTENDS Integers, Sequences

CONSTANT MaxTags   \* bound: tags and pieces of text in the file
ASSUME MaxTagsAssumption == MaxTags \in Nat

VARIABLES written, \* the reader of the file
          full,    \* the reader of the file with all tags
          within,  \* the elements that are open: table, row and cell
          tags     \* tags and texts so far

htmlVars == <<written, full, within, tags>>

None == <<"None">>
Reader == [state |-> "IGNORE", row |-> None, cell |-> None, started |-> <<>>, added |-> <<>>]

TdEnd(r) ==
    [r EXCEPT !.row = IF r.cell # None /\ r.state # "IGNORE" THEN Append(@, r.cell) ELSE @,
              !.cell = None]

\* A table whose first row has no cells, or is not the header of a table that
\* is known, is ignored; start_table is told the row, and its answer is that
\* of FromFilePopulator. It gives up a file whose header has no name.
Recognised(row) == row[1] = <<"Test Case">>

Ended(r, all) ==
    LET done == [all EXCEPT !.row = None]
    IN  CASE r.state = "INITIAL" ->
               IF all.row # <<>> /\ Recognised(all.row)
               THEN [done EXCEPT !.state = "PROCESS", !.started = Append(@, all.row)]
               ELSE [done EXCEPT !.state = "IGNORE"]
          [] r.state = "PROCESS" -> [done EXCEPT !.added = Append(@, all.row)]
          [] OTHER -> done

TrEnd(r) == IF r.row = None THEN r ELSE Ended(r, IF r.cell # None THEN TdEnd(r) ELSE r)

TrStart(r) == [TrEnd(r) EXCEPT !.row = <<>>]
TdStart(r) == LET ended == IF r.cell # None THEN TdEnd(r) ELSE r
                  inRow == IF ended.row = None THEN TrStart(ended) ELSE ended
              IN  [inRow EXCEPT !.cell = <<>>]
TableStart(r) == [r EXCEPT !.state = "INITIAL", !.row = None, !.cell = None]
TableEnd(r) == [(IF r.row # None THEN TrEnd(r) ELSE r) EXCEPT !.state = "IGNORE"]
HandleData(r, text) ==
    IF r.state = "IGNORE" \/ r.cell = None THEN r ELSE [r EXCEPT !.cell = Append(@, text)]

Both(Op(_)) == written' = Op(written) /\ full' = Op(full)
Either(Op(_)) == full' = Op(full) /\ written' \in {Op(written), written}

HtmlInit == written = Reader /\ full = Reader /\ within = "file" /\ tags = 0

StartTableTag == /\ within = "file" /\ Both(TableStart) /\ within' = "table"
EndTableTag == /\ within = "table" /\ Both(TableEnd) /\ within' = "file"
StartRowTag == /\ within = "table" /\ Both(TrStart) /\ within' = "row"
EndRowTag == /\ within = "row" /\ Either(TrEnd) /\ within' = "table"
StartCellTag == /\ within = "row" /\ Both(TdStart) /\ within' = "cell"
EndCellTag == /\ within = "cell" /\ Either(TdEnd) /\ within' = "row"
TextInCell(text) == LET Handle(r) == HandleData(r, text)
                    IN  within = "cell" /\ Both(Handle) /\ UNCHANGED within
TextOutside(text) == LET Handle(r) == HandleData(r, text)
                     IN  within = "file" /\ Both(Handle) /\ UNCHANGED within

HtmlNext ==
    \/ /\ tags < MaxTags /\ tags' = tags + 1
       /\ \/ StartTableTag \/ EndTableTag \/ StartRowTag \/ EndRowTag
          \/ StartCellTag \/ EndCellTag
          \/ \E text \in {"Test Case", "text"}: TextInCell(text) \/ TextOutside(text)
    \/ tags = MaxTags /\ UNCHANGED htmlVars

\* The end tags of cells and rows are optional: the same tables are started
\* and the same rows added whether they are there or not, and what is outside
\* the tables is not read (htmlreader.py, td_end and tr_end).
EndTagsAreOptional ==
    within = "file" => /\ written.started = full.started /\ written.added = full.added
                       /\ written.state = "IGNORE" /\ written.row = None
=============================================================================
