----------------------------- MODULE MCVariables ----------------------------
(***************************************************************************)
(* Texts and variables for TLC: texts of characters of every kind, keys of *)
(* which two are spellings of one, variables of every kind, of which one   *)
(* has the name of another as its value and one a text that looks like a   *)
(* variable, and the scopes of a variable in nested suites with tests.  In *)
(* each behavior one of the three components runs.                         *)
(***************************************************************************)
EXTENDS VariableReplacement, VariableScopes

VARIABLE active

MCCharacters == {"a", "A", Space, Newline, "*", Backslash, "n", "="}
MCKeys == {<<"a">>, <<"A", Space>>, <<"b">>}

MCRow(i, b, c) == [id |-> i, base |-> b, cells |-> c]
MCVariable == <<"$", "{", "a", "}">>
MCRows == <<MCRow("$", <<"b">>, <<<<"a">>>>),
            MCRow("$", <<"a">>, <<<<Backslash, "$", "{", "b", "}", Backslash, Backslash>>>>),
            MCRow("$", <<"A", Space>>, <<<<"b">>>>),
            MCRow("$", <<"a", "{">>, <<<<"b">>>>),
            MCRow("@", <<"b">>, <<<<"b">>, <<Backslash, Space, "a", Space, Backslash>>, MCVariable>>),
            MCRow("@", <<"n">>, <<>>),
            MCRow("@", <<"1">>, <<<<"0">>, <<Backslash, "@", "{", "n", "}">>>>)>>
MCConditions == {<<"0">>, <<"1">>, <<"@", "{", "1", "}">>, <<"@", "{", "n", "}">>, MCVariable}
\* The tables with which texts and arguments are read, and others in any order:
\* of a variable, one that uses it, one that uses another, and two of the same name
\* of which one may fail.
MCReadTables == {MCRows, Reverse(MCRows)}
MCOtherRows == <<MCRows[2], MCRows[3], MCRow("$", <<"b">>, <<<<"$", "{", "n", "}">>>>),
                 MCRow("$", <<"n">>, <<MCVariable>>), MCRow("$", <<"b">>, <<MCVariable>>)>>
MCTables == MCReadTables \cup {[i \in 1..5 |-> MCOtherRows[order[i]]]: order \in SetToSeqs(1..5)}

MCItself(t) == [kind |-> "itself", text |-> t]
MCPart(t) == [text |-> t, means |-> [kind |-> "part"]]
MCPieces ==
    {[text |-> <<"b">>, means |-> MCItself(<<"b">>)],
     [text |-> <<"$">>, means |-> MCItself(<<"$">>)],
     [text |-> <<Backslash, Backslash>>, means |-> MCItself(<<Backslash>>)],
     [text |-> <<Backslash, "$", "{", "b", "}">>, means |-> MCItself(<<"$", "{", "b", "}">>)],
     [text |-> MCVariable, means |-> [kind |-> "variable", text |-> <<"a">>]],
     [text |-> <<"$", "{", "$", "{", "b", "}", "}">>, means |-> [kind |-> "nested", text |-> <<"b">>]],
     [text |-> <<"$", "{", "b", ".", "a", "}">>, means |-> [kind |-> "variable", text |-> <<"b", ".", "a">>]],
     [text |-> <<"$", "{", "0", "}">>, means |-> [kind |-> "variable", text |-> <<"0">>]]}
    \cup {MCPart(t): t \in {<<"$", "{">>, <<"@", "{">>, <<"}">>, <<Backslash>>, <<"[", "1", "]">>, <<"@", "{", "b", "}">>,
                           <<"@", "{", "n", "}">>, <<"@", "{", "b", "}", "[", "1", "]">>}}

VariablesInit ==
    /\ active \in {"texts", "replacement", "scopes"}
    /\ active # "replacement" => rows = MCRows
    /\ active # "scopes" => global = Undefined
    /\ ReplacementInit /\ Init
    /\ IF active = "texts" THEN TextsInit
       ELSE text = <<>> /\ other = <<>> /\ data = <<>> /\ keys = <<>> /\ latest = <<>>
VariablesNext ==
    \/ active = "texts" /\ TextsNext /\ UNCHANGED <<active, replacementVars, vars>>
    \/ active = "replacement" /\ (table # <<>> \/ rows \in MCReadTables) /\ ReplacementNext /\ UNCHANGED <<active, textVars, vars>>
    \/ active = "scopes" /\ Next /\ UNCHANGED <<active, textVars, replacementVars>>
VariablesSpec == VariablesInit /\ [][VariablesNext]_<<active, textVars, replacementVars, vars>>

\* What the keywords and the utilities promise of texts.
TextsAgree ==
    active = "texts" =>
        /\ MatchingExtendsEquality /\ EscapingIsUndone /\ SearchesAgree
        /\ LinesAreWhole /\ SpellingsAreOneKey

\* What replacing variables promises of texts, arguments, names and conditions.
VariablesMeanTheirValues ==
    active = "replacement" =>
        VariablesAreReplaced /\ ReplacedOnce /\ NamesMeanTheSame /\ ConditionsChoose
=============================================================================
