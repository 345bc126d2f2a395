----------------------------- MODULE KeywordRun -----------------------------
(***************************************************************************)
(* Execution of the keywords of one test or fixture: Keywords.run,         *)
(* Keyword.run and ForLoop.run (running/keywords.py), user keywords        *)
(* (running/userkeyword.py), the run keyword variants of the BuiltIn       *)
(* library and the failures they raise, collect, convert and swallow       *)
(* (errors.py).                                                            *)
(*                                                                         *)
(* Programs are trees of nodes, one of which is run; the call stack is     *)
(* `stack`, and `raised` is what the call that has just returned leaves to *)
(* its caller.  What a library keyword does is left open: it passes or fails *)
(* in one of the ways HandlerExecutionFailed tells apart.                  *)
(***************************************************************************)
EXTENDS Integers, Sequences, FiniteSets, SequencesExt

CONSTANTS
  Nodes,       \* the keywords and for loops of the program
  Bodies,      \* the nodes that stand for the keywords of a test or fixture
  Kind,        \* Kind[n]: which class runs node n, see Kinds
  Steps,       \* Steps[n]: the nodes n runs, in order
  Rounds,      \* Rounds[n]: how often a loop or Repeat Keyword runs its steps
  Assigning,   \* the keywords whose return value is assigned to a variable
  Modes        \* the execution modes to consider, see Mode

\* Run keyword variants run one step, Run Keywords several.
RunKinds == {"run", "ignore", "continue", "expect", "wait", "repeat", "keywords"}
Kinds == {"body", "library", "user", "for"} \cup RunKinds

\* teardown: the test's or suite's status is set; templated: the test uses a
\* template (teardowns never do); dryRun: no library keyword is executed.
Mode == {m \in [teardown: BOOLEAN, templated: BOOLEAN, dryRun: BOOLEAN] :
           ~(m.teardown /\ m.templated)}

ASSUME ProgramAssumption ==
  /\ Bodies \subseteq Nodes /\ Kind \in [Nodes -> Kinds]
  /\ \A n \in Nodes : Kind[n] = "body" <=> n \in Bodies
  /\ Steps \in [Nodes -> Seq(Nodes)]
  /\ Rounds \in [Nodes -> Nat \ {0}]
  /\ \A n \in Nodes : (Kind[n] = "library") <=> (Steps[n] = <<>>)
  /\ \A n \in Nodes : (Kind[n] \in RunKinds \ {"keywords"}) => Len(Steps[n]) = 1
  /\ Assigning \subseteq {n \in Nodes : Kind[n] \notin {"body", "for"}}
  /\ Modes \subseteq Mode

VARIABLES
  mode,      \* the execution mode, fixed when the run starts
  stack,     \* the active calls, innermost last
  raised,    \* what the last call left to its caller
  \* auxiliary: what happened, for the properties
  visited,   \* the nodes whose run() was called
  kinds,     \* the kinds of failures library keywords and the framework raised
  cut        \* the nodes that failed before they ran their steps

vars == <<mode, stack, raised, visited, kinds, cut>>

-----------------------------------------------------------------------------
(* Failures *)

FailureKinds == {"fail", "timeout", "syntax", "exit", "exit_for_loop"}

\* A HandlerExecutionFailed, or the ExecutionFailed of a syntax error.
Failure == [kind: FailureKinds, cont: BOOLEAN]

Continuable == [kind |-> "fail", cont |-> TRUE]
Syntax == [kind |-> "syntax", cont |-> FALSE]

\* What a library keyword can fail with.  `cont` is only read when the failure
\* has no kind that rules it out.
LibraryFailures == {Continuable} \cup {[kind |-> k, cont |-> FALSE] : k \in FailureKinds}

\* An exception on its way to a caller: the failures get_errors() returns and
\* its own cont attribute.  HandlerExecutionFailed is its own failure ("one"),
\* ExecutionFailures has collected some ("several").
Exception == [how: {"one", "several"}, errs: (SUBSET Failure) \ {{}}, cont: BOOLEAN]

\* Nothing was raised, or nothing has returned yet.
Passed == [how |-> "passed", errs |-> {}, cont |-> FALSE]
Running == [how |-> "running", errs |-> {}, cont |-> FALSE]

Single(f) == [how |-> "one", errs |-> {f}, cont |-> f.cont]

\* ExecutionFailures
Several(F) == [how |-> "several", errs |-> F, cont |-> \A f \in F : f.cont]

DontContKinds == {"timeout", "syntax", "exit"}

DontCont(x) == \E f \in x.errs : f.kind \in DontContKinds

IsSyntax(x) == \E f \in x.errs : f.kind = "syntax"

\* Mutant: one Exit For Loop among other failures is enough.
SomeExitForLoop(x) == \E f \in x.errs : f.kind = "exit_for_loop"

IsExitForLoop(x) == \A f \in x.errs : f.kind = "exit_for_loop"

\* ExecutionFailed.can_continue
CanContinue(x, templated, dryRun) ==
  \/ dryRun
  \/ /\ DontCont(x) => mode.teardown /\ IsSyntax(x)
     /\ mode.teardown \/ templated \/ (x.cont /\ ~DontCont(x))

-----------------------------------------------------------------------------
(* Calls *)

\* A call of run(): `part` is "round" for one round of a for loop, otherwise
\* the kind of the node; `pos` is the step to run next and `round` the round.
\* `failed` and `onlyCont` are auxiliary: whether a keyword called from here
\* ended as FAIL, and whether all exceptions caught here could be continued.
Call(n, part) ==
  [node |-> n, part |-> part, pos |-> 1, round |-> 1, errs |-> {},
   failed |-> FALSE, onlyCont |-> TRUE]

Top == stack[Len(stack)]

SetTop(call) == stack' = Append(Front(stack), call)

\* A template applies to the test's rows and to the rows of its for loops.
Templated(call) ==
  /\ mode.templated
  /\ \/ call.node \in Bodies
     \/ Kind[call.node] = "for" /\ \E b \in Bodies : call.node \in Range(Steps[b])

\* The calls that run their steps with Keywords.run or, like Run Keywords, the
\* same way.  In dry run the handler of every run keyword variant does so.
Sequences == {"body", "user", "round", "keywords"}
             \cup (IF mode.dryRun THEN RunKinds ELSE {})

\* How often the steps are run; a dry run runs them once.
RoundsOf(call) ==
  IF call.part \in {"for", "repeat"} /\ ~mode.dryRun THEN Rounds[call.node] ELSE 1

Init ==
  /\ mode \in Modes
  /\ \E b \in Bodies : stack = <<Call(b, "body")>> /\ visited = {b}
  /\ raised = Running
  /\ kinds = {} /\ cut = {}

\* The innermost call goes on.
Active(parts) ==
  /\ stack # <<>>
  /\ raised = Running
  /\ Top.part \in parts

\* The innermost call returns x, an exception or Passed, without further ado.
Return(x) ==
  /\ stack' = Front(stack)
  /\ raised' = x

\* The status Keyword.run and ForLoop.run give to what returns x.
StatusFailed(x) == x # Passed /\ ~IsExitForLoop(x)

\* Keyword._end, when run() is about to leave x and the failures of the given
\* kinds were raised: the return value is assigned if the execution can continue,
\* and the assignment may itself fail, which replaces x.
EndKeyword(n, x, new) ==
  \/ Return(x) /\ kinds' = kinds \cup new
  \/ /\ n \in Assigning
     /\ x = Passed \/ CanContinue(x, FALSE, FALSE)
     /\ Return(Single(Syntax))
     /\ kinds' = kinds \cup new \cup {"syntax"}

-----------------------------------------------------------------------------
(* Running steps *)

\* The next step is called, by Keywords.run or by a run keyword variant.
StartStep ==
  /\ Active({"body", "user", "round"} \cup RunKinds)
  /\ Top.pos <= Len(Steps[Top.node])
  /\ LET n == Steps[Top.node][Top.pos]
     IN /\ stack' = Append(stack, Call(n, Kind[n]))
        /\ visited' = visited \cup {n}
  /\ UNCHANGED <<mode, raised, kinds, cut>>

\* A keyword or loop that fails before it runs its steps: wrong arguments, an
\* invalid for loop, an invalid return value of a user keyword without steps.
FailAtStart ==
  /\ Active({"user", "for"} \cup RunKinds)
  /\ Top = Call(Top.node, Top.part)
  /\ EndKeyword(Top.node, Single(Syntax), {"syntax"})
  /\ cut' = cut \cup {Top.node}
  /\ UNCHANGED <<mode, visited>>

\* A library keyword is executed; a dry run only checks its arguments.
RunLibraryKeyword ==
  /\ Active({"library"})
  /\ \/ EndKeyword(Top.node, Passed, {})
     \/ \E f \in IF mode.dryRun THEN {Syntax} ELSE LibraryFailures :
          EndKeyword(Top.node, Single(f), {f.kind})
  /\ UNCHANGED <<mode, visited, cut>>

\* What a call that has caught x remembers.
Caught(call, x, errs) ==
  [call EXCEPT !.pos = @ + 1, !.errs = errs,
               !.failed = @ \/ StatusFailed(x),
               !.onlyCont = @ /\ (x = Passed \/ (x.cont /\ ~DontCont(x)))]

\* A call has returned to the innermost one, which runs steps in sequence.
Returned(parts) ==
  /\ stack # <<>>
  /\ raised # Running
  /\ Top.part \in parts

\* Keywords.run and Run Keywords: a failure is collected, and the next step is
\* run if the execution can continue.
CollectFailure ==
  /\ Returned(Sequences)
  /\ LET errs == Top.errs \cup raised.errs
         goesOn == \/ raised = Passed
                   \/ CanContinue(raised, Templated(Top), mode.dryRun)
         call == Caught(Top, raised, errs)
     IN SetTop(IF goesOn THEN call
               ELSE [call EXCEPT !.pos = Len(Steps[Top.node]) + 1])
  /\ raised' = Running
  /\ UNCHANGED <<mode, visited, kinds, cut>>

\* The steps are done: the collected failures are raised together.
Outcome(errs) == IF errs = {} THEN Passed ELSE Several(errs)

StepsDone(parts) ==
  /\ Active(parts)
  /\ Top.pos > Len(Steps[Top.node])

\* The keywords of the test or fixture are done.
EndBody ==
  /\ StepsDone({"body"})
  /\ Return(Outcome(Top.errs))
  /\ UNCHANGED <<mode, visited, kinds, cut>>

\* A user keyword is done; replacing variables in its return value may fail.
EndUserKeyword ==
  /\ StepsDone({"user"})
  /\ \/ EndKeyword(Top.node, Outcome(Top.errs), {})
     \/ /\ Top.errs = {} /\ ~mode.dryRun
        /\ EndKeyword(Top.node, Single(Syntax), {"syntax"})
  /\ UNCHANGED <<mode, visited, cut>>

-----------------------------------------------------------------------------
(* For loops *)

\* _run_one_round starts.
StartRound ==
  /\ Active({"for"})
  /\ Top.round <= RoundsOf(Top)
  /\ stack' = Append(stack, Call(Top.node, "round"))
  /\ UNCHANGED <<mode, raised, visited, kinds, cut>>

EndRound ==
  /\ StepsDone({"round"})
  /\ Return(Outcome(Top.errs))
  /\ UNCHANGED <<mode, visited, kinds, cut>>

ExitsLoop(x) == x # Passed /\ IsExitForLoop(x)

\* ForLoop._run: Exit For Loop ends the loop, other failures are collected.
NextRound ==
  /\ Returned({"for"})
  /\ LET exits == ExitsLoop(raised)
         errs == Top.errs \cup (IF exits THEN {} ELSE raised.errs)
         goesOn == \/ raised = Passed
                   \/ ~exits /\ CanContinue(raised, Templated(Top), mode.dryRun)
         call == Caught(Top, raised, errs)
     IN SetTop([call EXCEPT !.round = IF goesOn THEN @ + 1 ELSE RoundsOf(Top) + 1])
  /\ raised' = Running
  /\ UNCHANGED <<mode, visited, kinds, cut>>

EndLoop ==
  /\ Active({"for"})
  /\ Top.round > RoundsOf(Top)
  /\ Return(Outcome(Top.errs))
  /\ UNCHANGED <<mode, visited, kinds, cut>>

-----------------------------------------------------------------------------
(* Run keyword variants *)

\* What Run Keyword And Continue On Failure makes of an exception.
Converted(x) ==
  IF DontCont(x) THEN x
  ELSE [x EXCEPT !.cont = TRUE,
                 !.errs = IF x.how = "one" THEN {[f EXCEPT !.cont = TRUE] : f \in x.errs}
                                      ELSE @]

PlainFailure == [kind |-> "fail", cont |-> FALSE]

\* Mutant: fatal failures are swallowed like others.
SwallowAll(part, x) ==
  CASE part = "ignore" -> {Passed}
    [] part = "continue" -> {Converted(x)}
    [] part = "expect" -> {Passed, Single(PlainFailure)}
    [] part = "wait" -> {Running, Single(PlainFailure)}
    [] OTHER -> {x}

\* What a variant may do with the exception x of its keyword: let it through,
\* swallow it, report that it was not the expected one, or run the keyword
\* again (Running).
Handled(part, x) ==
  CASE part = "ignore" -> IF DontCont(x) THEN {x} ELSE {Passed}
    [] part = "continue" -> {Converted(x)}
    [] part = "expect" -> IF DontCont(x) THEN {x} ELSE {Passed, Single(PlainFailure)}
    [] part = "wait" -> IF DontCont(x) THEN {x} ELSE {Running, Single(PlainFailure)}
    [] OTHER -> {x}

\* The kinds of failures an outcome of Handled adds.
NewKinds(x) == IF x = Single(PlainFailure) THEN {"fail"} ELSE {}

\* The keyword of a variant has failed.
VariantFailure ==
  /\ ~mode.dryRun
  /\ Returned(RunKinds \ {"keywords"})
  /\ raised # Passed
  /\ \E x \in Handled(Top.part, raised) :
       \/ /\ x # Running
          /\ EndKeyword(Top.node, x, NewKinds(x))
       \/ /\ x = Running
          /\ SetTop([Top EXCEPT !.failed = TRUE])
          /\ raised' = Running
          /\ UNCHANGED kinds
  /\ UNCHANGED <<mode, visited, cut>>

\* The keyword of a variant has passed.  Repeat Keyword goes on with the next
\* round, and Run Keyword And Expect Error fails.
VariantSuccess ==
  /\ ~mode.dryRun
  /\ Returned(RunKinds \ {"keywords"})
  /\ raised = Passed
  /\ \/ /\ Top.part = "expect"
        /\ EndKeyword(Top.node, Single(PlainFailure), {"fail"})
     \/ /\ Top.part # "expect" /\ Top.round >= RoundsOf(Top)
        /\ EndKeyword(Top.node, Passed, {})
     \/ /\ Top.round < RoundsOf(Top)
        /\ SetTop([Top EXCEPT !.round = @ + 1])
        /\ raised' = Running
        /\ UNCHANGED kinds
  /\ UNCHANGED <<mode, visited, cut>>

\* The condition of Run Keyword If does not hold, Repeat Keyword repeats zero
\* times.
SkipVariant ==
  /\ ~mode.dryRun
  /\ Active({"run", "repeat"})
  /\ Top = Call(Top.node, Top.part)
  /\ EndKeyword(Top.node, Passed, {})
  /\ cut' = cut \cup {Top.node}
  /\ UNCHANGED <<mode, visited>>

\* Run Keywords, or in dry run the Keywords of any variant, are done.
EndVariant ==
  /\ StepsDone(Sequences \cap RunKinds)
  /\ EndKeyword(Top.node, Outcome(Top.errs), {})
  /\ UNCHANGED <<mode, visited, cut>>

-----------------------------------------------------------------------------
Over == stack = <<>> /\ UNCHANGED vars

Next ==
  \/ StartStep \/ FailAtStart \/ RunLibraryKeyword \/ CollectFailure
  \/ EndBody \/ EndUserKeyword
  \/ StartRound \/ EndRound \/ NextRound \/ EndLoop
  \/ VariantFailure \/ VariantSuccess \/ SkipVariant \/ EndVariant
  \/ Over

Spec == Init /\ [][Next]_vars

-----------------------------------------------------------------------------
(* Properties *)

FatalKinds == {"timeout", "exit"}

\* The type invariant.
TypeOK ==
  /\ mode \in Mode
  /\ stack \in Seq([node: Nodes, part: Kinds \cup {"round"}, pos: Nat \ {0},
                    round: Nat \ {0}, errs: SUBSET Failure,
                    failed: BOOLEAN, onlyCont: BOOLEAN])
  /\ raised \in {Passed, Running} \cup Exception
  /\ visited \subseteq Nodes /\ cut \subseteq Nodes
  /\ kinds \subseteq FailureKinds

Returns == Len(stack') < Len(stack)
Calls == Len(stack') > Len(stack)

\* A test, user keyword, for loop or Run Keywords fails exactly when a keyword
\* in it failed or it failed itself: no failure is lost or invented on the way
\* up, though Exit For Loop ends calls with failures that do not count.
FailuresPropagate ==
  [][(Returns /\ Top.part \in {"body", "user", "for", "round", "keywords"}) =>
       (StatusFailed(raised') <=> Top.failed \/ raised' = Single(Syntax))]_vars

\* Outside teardowns and dry runs no keyword is started, on any level, once a
\* timeout, a fatal error or a syntax error has been raised: no run keyword
\* variant, for loop or template gets in between.
StopsAtOnce ==
  [][(~mode.teardown /\ ~mode.dryRun /\ kinds \cap DontContKinds # {}) => ~Calls]_vars

\* A fatal failure reaches the test or suite that must learn of it.  (In a
\* teardown a syntax error may go on and replace it.)
FatalFailuresReported ==
  (stack = <<>> /\ "syntax" \notin kinds) =>
    \A k \in FatalKinds \cap kinds : \E f \in raised.errs : f.kind = k

\* Every node was visited whose parent was visited and got to run its steps.
AllVisited ==
  \A n \in visited \ cut : Range(Steps[n]) \subseteq visited

\* A dry run visits every keyword, whatever failures it finds on the way.
DryRunVisitsAll == (stack = <<>> /\ mode.dryRun) => AllVisited

\* In a teardown all keywords on all levels are run, unless a timeout or a fatal
\* error stops it or Exit For Loop ends a loop.
TeardownRunsAll ==
  (stack = <<>> /\ mode.teardown /\ kinds \cap (FatalKinds \cup {"exit_for_loop"}) = {})
    => AllVisited

\* With a template all rows are run, and the rows of for loops as well, but for
\* failures that are never continued and Exit For Loop.
TemplateRunsAllRows ==
  (/\ stack = <<>> /\ mode.templated /\ cut = {}
   /\ kinds \cap (DontContKinds \cup {"exit_for_loop"}) = {})
    => \A b \in Bodies \cap visited :
         /\ Range(Steps[b]) \subseteq visited
         /\ \A n \in Range(Steps[b]) : Kind[n] = "for" => Range(Steps[n]) \subseteq visited

\* A for loop never passes on an exception that asks to exit a for loop: what
\* ends the inner loop does not end the outer one.
LoopAbsorbsExit ==
  [][(Returns /\ Top.part = "for" /\ raised' # Passed) => ~IsExitForLoop(raised')]_vars

\* BuiltIn.exit_for_loop: the message of Exit For Loop "is shown only if there
\* is no enclosing for loop", so it is not among the failures a loop raises.
ExitForLoopStaysInLoop ==
  [][(Returns /\ Top.part = "for" /\ raised' # Passed) =>
       \A f \in raised'.errs : f.kind # "exit_for_loop"]_vars

\* BuiltIn.exit_for_loop: "Immediately stops executing the enclosing for loop."
ExitForLoopIsImmediate ==
  [][(Calls /\ Top.part = "round") => \A f \in Top.errs : f.kind # "exit_for_loop"]_vars

\* Failures converted by Run Keyword And Continue On Failure "are handled by the
\* framework exactly the same way as continuable failures originating from
\* library keywords": a user keyword in which only continuable failures occurred
\* fails in a way that can be continued.
ConvertedStaysContinuable ==
  [][(Returns /\ Top.part = "user" /\ Top.onlyCont /\ raised' # Passed)
       => raised'.cont \/ raised' = Single(Syntax)]_vars

\* What is reported when a test or a teardown is over, and what has been run then.
ResultsAreComplete ==
  TypeOK /\ FatalFailuresReported /\ DryRunVisitsAll /\ TeardownRunsAll /\ TemplateRunsAllRows

\* How failures go up.
FailuresGoUp == FailuresPropagate /\ StopsAtOnce /\ LoopAbsorbsExit
=============================================================================
