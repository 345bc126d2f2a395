----------------------------- MODULE Templating -----------------------------
(***************************************************************************)
(* The template language of logs, reports and library documentation        *)
(* (serializing/templating.py).  A template is a sequence of lines: texts, *)
(* of which some are variables, and directives FOR, IF, ELSE, FUNCTION and *)
(* CALL; FOR, IF and FUNCTION reach to the first END of their kind.  A     *)
(* template is written line by line, then generated to an output, to which *)
(* each line is written as soon as it is processed.                        *)
(*                                                                         *)
(* INCLUDE and IMPORT read other files and are left out.  A line is a      *)
(* record, a text a string, and a text of several lines a sequence.        *)
(***************************************************************************)
EXTENDS Naturals, Sequences, SequencesExt, FiniteSetsExt

CONSTANTS TemplateLines,    \* the lines that templates are written of
          MaxTemplateLines, \* bound on the lines of a template
          VariableTexts,    \* the texts that are variables
          Given             \* the values of the variables given to generate

VARIABLES template,    \* the lines of the template
          open,        \* the kinds of blocks that are open at its end
          generating,  \* whether the template is being generated
          rest,        \* the lines that are still to be processed
          functions,   \* Template._functions: name to parameters and body
          shown,       \* what has been written to the output
          broken       \* whether generating has ended with an error

templateVars == <<template, open, generating, rest, functions, shown, broken>>

Blocks == {"for", "if", "function"}
NoFunctions == [n \in {} |-> n]
Error(fs) == [text |-> <<>>, functions |-> fs, ok |-> FALSE]
Shows(text, fs) == [text |-> text, functions |-> fs, ok |-> TRUE]

\* An empty line at the end of a text is not one of its lines.
SplitLines(ls) == IF ls # <<>> /\ Last(ls) = [kind |-> "text", text |-> ""] THEN Front(ls) ELSE ls

\* Only variables that the namespace has can be replaced.
Replaceable(ns, t) == t \in VariableTexts => t \in DOMAIN ns
Replaced(ns, t) == IF t \in VariableTexts THEN ns[t] ELSE t
HandleVariables(ns, t, fs) == IF Replaceable(ns, t) THEN Shows(<<Replaced(ns, t)>>, fs) ELSE Error(fs)

\* The lines of a block reach to the first END of its kind.
Ends(kind, ls) == {i \in DOMAIN ls: ls[i] = [kind |-> "end", of |-> kind]}
\* Mutant: a block reaches to the last END of its kind.
BlockToLastEnd(kind, ls) == SubSeq(ls, 1, Max(Ends(kind, ls)) - 1)
BlockLines(kind, ls) == SubSeq(ls, 1, Min(Ends(kind, ls)) - 1)
AfterBlock(kind, ls) == SubSeq(ls, Min(Ends(kind, ls)) + 1, Len(ls))

\* The last ELSE is the end of the block of IF, every ELSE is left out.
IfBlock(block) == SelectSeq(SubSeq(block, 1, Min({i \in DOMAIN block: block[i].kind = "else"} \cup {Len(block) + 1}) - 1),
                            LAMBDA l: l.kind # "else")
ElseBlock(block) == SelectSeq(SubSeq(block, Len(IfBlock(block)) + 1, Len(block)), LAMBDA l: l.kind # "else")

\* A new template has the functions it is given, unless there are none:
\* then the functions that it defines are its own.
Kept(fs, result) == IF fs = NoFunctions THEN [result EXCEPT !.functions = fs] ELSE result

RECURSIVE Process(_, _, _)

\* The block is processed for each value, with variables of its own.  What
\* is empty is left out.
HandleFor(line, block, ns, fs) ==
    FoldLeft(LAMBDA all, value:
        IF ~all.ok THEN all
        ELSE LET one == Kept(all.functions, Process(SplitLines(block), [t \in {line.name} |-> value] @@ ns, all.functions))
             IN  IF one.ok /\ one.text # <<"">> THEN [one EXCEPT !.text = all.text \o @]
                 ELSE [one EXCEPT !.text = IF one.ok THEN all.text ELSE <<>>],
        Shows(<<>>, fs), line.values)

\* An empty block of IF is followed by the one of ELSE whatever the condition.
HandleIf(line, block, ns, fs) ==
    LET chosen == IF Replaced(ns, line.name) = line.value /\ IfBlock(block) # <<>>
                  THEN IfBlock(block) ELSE ElseBlock(block)
    IN  IF Replaceable(ns, line.name) THEN Process(SplitLines(chosen), ns, fs) ELSE Error(fs)

\* The arguments are replaced one after the other in the namespace of the
\* call, in which those before are set already; there are as many as the
\* function has parameters or fewer, the others are left out.
HandleCall(line, ns, fs) ==
    IF line.name \notin DOMAIN fs THEN Error(fs)
    ELSE LET params == fs[line.name].params
             bound[i \in 0..Len(params)] ==
                 IF i = 0 \/ i > Len(line.args) THEN IF i = 0 THEN ns ELSE bound[i - 1]
                 ELSE IF "?" \in DOMAIN bound[i - 1] \/ ~Replaceable(bound[i - 1], line.args[i])
                      THEN [t \in {"?"} |-> ""]
                      ELSE [t \in {params[i]} |-> Replaced(bound[i - 1], line.args[i])] @@ bound[i - 1]
             space == bound[Len(params)]
         IN  IF "?" \in DOMAIN space THEN Error(fs)
             ELSE Process(SplitLines(fs[line.name].body), space, fs)

HandleFunction(line, block, fs) ==
    Shows(<<>>, [n \in {line.name} |-> [params |-> line.params, body |-> block]] @@ fs)

\* What the first line of ls, with the block that it begins, shows.  An ELSE
\* or END where none belongs is a text.
ProcessLine(ls, ns, fs) ==
    LET line == Head(ls)
        after == Tail(ls)
        kind == line.kind
    IN  CASE kind = "text" -> HandleVariables(ns, line.text, fs)
          [] kind = "call" -> HandleCall(line, ns, fs)
          [] kind \in Blocks /\ Ends(kind, after) = {} -> Error(fs)
          [] kind = "for" -> HandleFor(line, BlockLines(kind, after), ns, fs)
          [] kind = "if" -> HandleIf(line, BlockLines(kind, after), ns, fs)
          [] kind = "function" -> HandleFunction(line, BlockLines(kind, after), fs)
          [] OTHER -> Shows(<<kind>>, fs)
RestAfterLine(ls) ==
    IF Head(ls).kind \in Blocks THEN AfterBlock(Head(ls).kind, Tail(ls)) ELSE Tail(ls)

Process(ls, ns, fs) ==
    IF ls = <<>> THEN Shows(<<>>, fs)
    ELSE LET first == ProcessLine(ls, ns, fs)
         IN  IF ~first.ok THEN first
             ELSE LET others == Process(RestAfterLine(ls), ns, first.functions)
                  IN  IF others.ok THEN [others EXCEPT !.text = first.text \o @] ELSE others

TemplateInit == /\ template = <<>> /\ open = <<>> /\ generating = FALSE
                /\ rest = <<>> /\ functions = NoFunctions /\ shown = <<>> /\ broken = FALSE

\* A block is not inside another of its kind, a function not in a block, and
\* a call, of itself in the end, not in a function.
Write(line) ==
    /\ ~generating /\ Len(template) < MaxTemplateLines
    /\ line.kind \in Blocks => line.kind \notin Range(open)
    /\ line.kind = "function" => open = <<>>
    /\ line.kind = "call" => "function" \notin Range(open)
    /\ line.kind = "else" => open # <<>> /\ Last(open) = "if" /\ Last(template).kind # "if"
                             /\ \A i \in DOMAIN template: template[i].kind # "else"
    /\ line.kind = "end" => open # <<>> /\ Last(open) = line.of
    /\ template' = Append(template, line)
    /\ open' = CASE line.kind \in Blocks -> Append(open, line.kind)
                 [] line.kind = "end" -> Front(open)
                 [] OTHER -> open
    /\ UNCHANGED <<generating, rest, functions, shown, broken>>

Generate ==
    /\ ~generating /\ generating' = TRUE
    /\ rest' = SplitLines(template)
    /\ UNCHANGED <<template, open, functions, shown, broken>>

GenerateLine ==
    /\ generating /\ rest # <<>> /\ ~broken
    /\ LET result == ProcessLine(rest, Given, functions)
       IN  /\ broken' = ~result.ok
           /\ shown' = shown \o result.text
           /\ functions' = result.functions
           /\ rest' = IF result.ok THEN RestAfterLine(rest) ELSE rest
    /\ UNCHANGED <<template, open, generating>>

TemplateNext == (\E line \in TemplateLines: Write(line)) \/ Generate \/ GenerateLine
TemplateSpec == TemplateInit /\ [][TemplateNext]_templateVars

-----------------------------------------------------------------------------
\* The END of the block that begins at p, if there is one, in a template in
\* which blocks are inside each other.
Depth(p, q) == Cardinality({i \in p..q: template[i].kind \in Blocks}) - Cardinality({i \in p..q: template[i].kind = "end"})
EndOf(p) == Min({q \in p..Len(template): Depth(p, q) = 0} \cup {Len(template) + 1})
ElseOf(p) == Min({q \in p..EndOf(p): q < EndOf(p) /\ template[q].kind = "else"} \cup {EndOf(p)})

\* The texts that the lines from p to before q stand for, "?" for an error:
\* a loop for its lines with each value, a call for the lines of the last
\* function before it with the arguments as the call has them.
RECURSIVE Meaning(_, _, _)
Meaning(p, q, ns) ==
    IF p >= q THEN <<>>
    ELSE LET line == template[p]
             end == EndOf(p)
             value(t) == IF t \notin VariableTexts THEN t ELSE IF t \in DOMAIN ns THEN ns[t] ELSE "?"
             definitions == {d \in 1..p - 1: template[d].kind = "function" /\ template[d].name = line.name}
             this == CASE line.kind = "text" -> <<value(line.text)>>
                       [] line.kind = "for" -> FlattenSeq([i \in DOMAIN line.values |->
                              Meaning(p + 1, end, [t \in {line.name} |-> line.values[i]] @@ ns)])
                       [] line.kind = "if" -> CASE value(line.name) = "?" -> <<"?">>
                                                [] value(line.name) = line.value -> Meaning(p + 1, ElseOf(p), ns)
                                                [] OTHER -> Meaning(ElseOf(p) + 1, end, ns)
                       [] line.kind = "call" ->
                              IF definitions = {} \/ \E i \in DOMAIN line.args: value(line.args[i]) = "?" THEN <<"?">>
                              ELSE LET d == Max(definitions)
                                       bound == 1..Min({Len(line.args), Len(template[d].params)})
                                   IN  Meaning(d + 1, EndOf(d),
                                           [t \in {template[d].params[i]: i \in bound} |->
                                               value(line.args[Max({i \in bound: template[d].params[i] = t})])] @@ ns)
                       [] OTHER -> <<>>
         IN  IF line.kind \notin Blocks THEN this \o Meaning(p + 1, q, ns)
             ELSE IF end > Len(template) THEN <<"?">> ELSE this \o Meaning(end + 1, q, ns)

NotEmpty(texts) == SelectSeq(texts, LAMBDA t: t # "")

\* What has been written to the output at any moment is what the lines of
\* the template that were processed stand for, apart from empty lines, and
\* generating ends with an error exactly when a line has no meaning: a
\* variable or a function is not known, or a block does not end
\* (templating.py:61).
\* Left out by the lines that are written: blocks inside blocks of their
\* kind, functions in loops, empty blocks before ELSE.
TemplatesAreFollowed ==
    LET processed == Len(SplitLines(template)) - Len(rest)
        means == Meaning(1, processed + 1, Given)
    IN  generating =>
        /\ NotEmpty(shown) = NotEmpty(means) /\ ~Contains(means, "?")
        /\ broken => Contains(Meaning(1, Len(template) + 1, Given), "?")
=============================================================================
