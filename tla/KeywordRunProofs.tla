-------------------------- MODULE KeywordRunProofs --------------------------
(***************************************************************************)
(* Failures go up and stop what they are to stop, and what is to be run is *)
(* run, in every program of keywords and every execution mode.  Programs   *)
(* may have any size, keywords may be used in several places and may call  *)
(* themselves.                                                             *)
(***************************************************************************)
EXTENDS KeywordRun, SequenceTheorems, TLAPS

-----------------------------------------------------------------------------
(* The inductive invariant *)

\* The parts of calls that collect what fails in them in `errs` alone.
Collecting == {"body", "user", "for", "round", "keywords"}

\* Rounds run on top of their loop and only there, and a variant that is
\* executed does not go on to another step.
CallsOK ==
  \A i \in 1..Len(stack) :
    /\ IF stack[i].part = "round"
       THEN i > 1 /\ stack[i - 1].part = "for" /\ stack[i - 1].node = stack[i].node
       ELSE /\ stack[i].part = Kind[stack[i].node]
            /\ i > 1 => stack[i - 1].part # "for"
    /\ stack[i].part \in RunKinds \ {"keywords"} /\ ~mode.dryRun => stack[i].pos = 1

\* Every failure that is held somewhere was raised, and a dry run only has
\* errors of syntax.
KindsOK ==
  /\ \A f \in raised.errs : f.kind \in kinds
  /\ \A i \in 1..Len(stack) : \A f \in stack[i].errs : f.kind \in kinds
  /\ mode.dryRun => kinds \subseteq {"syntax"}

\* Whether these failures are more than Exit For Loop.
Fails(errs) == \E f \in errs : f.kind # "exit_for_loop"

\* A call that collects failures failed exactly when what it collected says so,
\* and a loop has collected nothing that asks to exit a loop alone.
FailedOK ==
  \A i \in 1..Len(stack) :
    /\ stack[i].part \in Collecting => (stack[i].failed <=> Fails(stack[i].errs))
    /\ stack[i].part = "for" /\ stack[i].errs # {} => Fails(stack[i].errs)

\* A failure that ends everything was raised.  A teardown goes on after errors
\* of syntax, and what they were merged with.
Stopping ==
  /\ ~mode.dryRun
  /\ IF mode.teardown THEN "syntax" \notin kinds /\ kinds \cap FatalKinds # {}
                      ELSE kinds \cap DontContKinds # {}

\* These failures are of all the kinds that end everything and were raised.
Carry(errs) == \A k \in kinds \cap DontContKinds : \E f \in errs : f.kind = k

\* The call has no step to run any more.
Done(call) ==
  /\ call.part # "library"
  /\ IF call.part = "for" THEN call.round > RoundsOf(call)
                          ELSE call.pos > Len(Steps[call.node])

\* What ends everything is on its way up, and the innermost call is not to run
\* anything any more.
StopOK ==
  Stopping => IF raised = Running THEN stack # <<>> /\ Done(Top) /\ Carry(Top.errs)
                                  ELSE Carry(raised.errs)

\* The nodes that use the template.
TemplateNodes ==
  Bodies \cup {n \in Nodes : Kind[n] = "for" /\ \E b \in Bodies : n \in Range(Steps[b])}

\* Nothing that was raised keeps n from running all its steps.
Thorough(n) ==
  \/ mode.dryRun
  \/ mode.teardown /\ kinds \cap (FatalKinds \cup {"exit_for_loop"}) = {}
  \/ /\ mode.templated /\ n \in TemplateNodes
     /\ kinds \cap (DontContKinds \cup {"exit_for_loop"}) = {}

\* The i-th call has called the step it is at, which may have returned.
Called(i) == i < Len(stack) \/ raised # Running

\* The steps the i-th call has passed, and the one it has called, were visited;
\* so were all of a loop after its first round.
StepsVisited(i) ==
  IF stack[i].part = "for"
  THEN (stack[i].round > 1 \/ (i = Len(stack) /\ raised # Running))
         => Range(Steps[stack[i].node]) \subseteq visited
  ELSE \A j \in 1..Len(Steps[stack[i].node]) :
         (j < stack[i].pos \/ (j = stack[i].pos /\ Called(i)))
           => Steps[stack[i].node][j] \in visited

VisitedOK ==
  /\ \A i \in 1..Len(stack) : Thorough(stack[i].node) => StepsVisited(i)
  /\ \A n \in visited \ cut :
       Thorough(n) => \/ Range(Steps[n]) \subseteq visited
                      \/ \E i \in 1..Len(stack) : stack[i].node = n

KeywordBookkeeping ==
  TypeOK /\ CallsOK /\ KindsOK /\ FailedOK /\ StopOK /\ VisitedOK

-----------------------------------------------------------------------------
(* The steps of the stack: every action is one of the three *)

CallRecord == [node : Nodes, part : Kinds \cup {"round"}, pos : Nat \ {0},
               round : Nat \ {0}, errs : SUBSET Failure,
               failed : BOOLEAN, onlyCont : BOOLEAN]

\* The innermost call calls n: a step of its own, or a loop its next round.
PushStep(n, part) ==
  /\ stack # <<>> /\ raised = Running /\ raised' = Running
  /\ stack' = Append(stack, Call(n, part))
  /\ UNCHANGED <<mode, kinds, cut>>
  /\ n \in Nodes
  /\ ~Stopping
  /\ \/ /\ part = "round" /\ Top.part = "for" /\ n = Top.node
        /\ visited' = visited
     \/ /\ part = Kind[n] /\ Top.part \notin {"for", "library"}
        /\ Top.pos \in 1..Len(Steps[Top.node]) /\ n = Steps[Top.node][Top.pos]
        /\ visited' = visited \cup {n}

\* The innermost call goes on with what the call it made has left.
ChangeStep(call) ==
  /\ stack # <<>> /\ raised # Running /\ raised' = Running
  /\ SetTop(call)
  /\ UNCHANGED <<mode, visited, kinds, cut>>
  /\ call \in CallRecord /\ call.node = Top.node /\ call.part = Top.part
  /\ \A f \in call.errs : f.kind \in kinds
  /\ call.part \in RunKinds \ {"keywords"} /\ ~mode.dryRun => call.pos = Top.pos
  /\ call.part \in Collecting => (call.failed <=> Fails(call.errs))
  /\ call.part = "for" /\ call.errs # {} => Fails(call.errs)
  /\ Stopping => Done(call) /\ Carry(call.errs)
  /\ Thorough(call.node) /\ call.part # "for" => call.pos <= Top.pos + 1

\* The innermost call returns x, after failures of the kinds `new`.
PopStep(x, new) ==
  /\ stack # <<>>
  /\ Return(x)
  /\ kinds' = kinds \cup new
  /\ UNCHANGED <<mode, visited>>
  /\ cut \subseteq cut' /\ cut' \subseteq Nodes
  /\ x \in {Passed} \cup Exception
  /\ new \subseteq FailureKinds /\ (mode.dryRun => new \subseteq {"syntax"})
  /\ \A f \in x.errs : f.kind \in kinds \cup new
  /\ \A k \in new \cap DontContKinds : \E f \in x.errs : f.kind = k
  /\ Stopping => Carry(x.errs)
  /\ Thorough(Top.node) => Range(Steps[Top.node]) \subseteq visited
                              \/ (Top.part # "round" /\ Top.node \in cut')
  /\ Top.part \in Collecting =>
       (StatusFailed(x) <=> Top.failed \/ x = Single(Syntax))
  /\ Top.part = "for" /\ x # Passed => ~IsExitForLoop(x)

-----------------------------------------------------------------------------
(* Sequences *)

\* Without its last element, and with another one in its place.
LEMMA FrontFacts ==
  ASSUME NEW S, NEW seq \in Seq(S), seq # <<>>
  PROVE  /\ Len(seq) \in Nat \ {0} /\ seq[Len(seq)] \in S
         /\ Front(seq) \in Seq(S) /\ Len(Front(seq)) = Len(seq) - 1
         /\ \A i \in 1..Len(seq) - 1 : Front(seq)[i] = seq[i]
<1>1. Len(seq) \in Nat /\ Len(seq) # 0
  BY LenProperties, EmptySeq
<1>2. \A i \in 1..Len(seq) : seq[i] \in S
  BY ElementOfSeq
<1>3. /\ SubSeq(seq, 1, Len(seq) - 1) \in Seq(S)
      /\ Len(SubSeq(seq, 1, Len(seq) - 1)) = Len(seq) - 1
      /\ \A i \in 1..Len(seq) - 1 : SubSeq(seq, 1, Len(seq) - 1)[i] = seq[i]
  <2>1. \A i \in 1..Len(seq) - 1 : seq[i] \in S
    BY <1>1, <1>2
  <2>2. 1 \in Int /\ Len(seq) - 1 \in Int
    BY <1>1
  <2> DEFINE m == Len(seq) - 1
  <2>3. /\ SubSeq(seq, 1, m) \in Seq(S)
        /\ Len(SubSeq(seq, 1, m)) = IF 1 <= m THEN m - 1 + 1 ELSE 0
        /\ \A i \in 1..m - 1 + 1 : SubSeq(seq, 1, m)[i] = seq[1 + i - 1]
    BY <2>1, <2>2, SubSeqProperties
  <2>a. m \in Nat
    BY <1>1
  <2> HIDE DEF m
  <2>4. m \in Nat /\ m - 1 + 1 = m /\ (IF 1 <= m THEN m - 1 + 1 ELSE 0) = m
    BY <2>a
  <2>5. \A i \in 1..m : 1 + i - 1 = i
    BY <2>4
  <2>6. \A i \in 1..m : SubSeq(seq, 1, m)[i] = seq[i]
    BY <2>3, <2>4, <2>5
  <2> QED BY <2>3, <2>4, <2>6 DEF m
<1> QED BY <1>1, <1>2, <1>3 DEF Front

LEMMA ReplaceLast ==
  ASSUME NEW S, NEW seq \in Seq(S), seq # <<>>, NEW e \in S
  PROVE  LET new == Append(Front(seq), e)
         IN  /\ new \in Seq(S) /\ Len(new) = Len(seq) /\ new[Len(seq)] = e
             /\ \A i \in 1..Len(seq) - 1 : new[i] = seq[i]
<1>1. /\ Len(seq) \in Nat \ {0} /\ Front(seq) \in Seq(S) /\ Len(Front(seq)) = Len(seq) - 1
      /\ \A i \in 1..Len(seq) - 1 : Front(seq)[i] = seq[i]
  BY FrontFacts
<1>2. /\ Append(Front(seq), e) \in Seq(S)
      /\ Len(Append(Front(seq), e)) = Len(Front(seq)) + 1
      /\ \A i \in 1..Len(Front(seq)) : Append(Front(seq), e)[i] = Front(seq)[i]
      /\ Append(Front(seq), e)[Len(Front(seq)) + 1] = e
  BY <1>1, AppendProperties
<1> QED BY <1>1, <1>2

LEMMA AppendFacts ==
  ASSUME NEW S, NEW seq \in Seq(S), NEW e \in S
  PROVE  /\ Append(seq, e) \in Seq(S) /\ Len(Append(seq, e)) = Len(seq) + 1
         /\ Append(seq, e)[Len(seq) + 1] = e /\ Len(seq) \in Nat
         /\ \A i \in 1..Len(seq) : Append(seq, e)[i] = seq[i]
BY AppendProperties, LenProperties

-----------------------------------------------------------------------------
(* Calls and failures *)

LEMMA StackFacts ==
  ASSUME TypeOK
  PROVE  /\ stack \in Seq(CallRecord) /\ Len(stack) \in Nat
         /\ stack # <<>> <=> Len(stack) # 0
         /\ \A i \in 1..Len(stack) : stack[i] \in CallRecord
         /\ stack # <<>> => Top \in CallRecord /\ Len(stack) \in 1..Len(stack)
<1>1. stack \in Seq(CallRecord)
  BY DEF TypeOK, CallRecord
<1>2. Len(stack) \in Nat /\ (stack # <<>> <=> Len(stack) # 0)
  BY <1>1, LenProperties, EmptySeq
<1>3. \A i \in 1..Len(stack) : stack[i] \in CallRecord
  BY <1>1, ElementOfSeq
<1> QED BY <1>1, <1>2, <1>3 DEF Top

LEMMA ProgramFacts ==
  ASSUME NEW n \in Nodes
  PROVE  /\ Kind[n] \in Kinds /\ Steps[n] \in Seq(Nodes) /\ Rounds[n] \in Nat \ {0}
         /\ Len(Steps[n]) \in Nat
         /\ Range(Steps[n]) \subseteq Nodes
         /\ \A j \in 1..Len(Steps[n]) : Steps[n][j] \in Range(Steps[n])
         /\ \A m \in Range(Steps[n]) : \E j \in 1..Len(Steps[n]) : m = Steps[n][j]
<1>1. Kind[n] \in Kinds /\ Steps[n] \in Seq(Nodes) /\ Rounds[n] \in Nat \ {0}
  BY ProgramAssumption
<1>2. Len(Steps[n]) \in Nat /\ DOMAIN Steps[n] = 1..Len(Steps[n])
  BY <1>1, LenProperties
<1>3. \A j \in 1..Len(Steps[n]) : Steps[n][j] \in Nodes
  BY <1>1, ElementOfSeq
<1> QED BY <1>1, <1>2, <1>3 DEF Range

LEMMA AllSteps ==
  ASSUME NEW n \in Nodes, NEW S, \A j \in 1..Len(Steps[n]) : Steps[n][j] \in S
  PROVE  Range(Steps[n]) \subseteq S
<1>1. \A m \in Range(Steps[n]) : \E j \in 1..Len(Steps[n]) : m = Steps[n][j]
  BY ProgramFacts
<1> QED BY <1>1

LEMMA NewCall ==
  ASSUME NEW n \in Nodes, NEW part \in Kinds \cup {"round"}
  PROVE  /\ Call(n, part) \in CallRecord
         /\ Call(n, part).node = n /\ Call(n, part).part = part /\ Call(n, part).pos = 1
         /\ Call(n, part).round = 1 /\ Call(n, part).errs = {}
         /\ Call(n, part).failed = FALSE /\ Call(n, part).onlyCont = TRUE
BY DEF Call, CallRecord

LEMMA ExceptionFacts ==
  /\ Passed # Running /\ Passed \notin Exception /\ Running \notin Exception
  /\ \A f \in Failure : Single(f) \in Exception /\ Single(f).errs = {f} /\ Single(f).how = "one"
  /\ \A F \in SUBSET Failure : F # {} =>
       Several(F) \in Exception /\ Several(F).errs = F /\ Several(F).how = "several"
  /\ \A x \in Exception : x.errs # {} /\ x.errs \subseteq Failure /\ x.cont \in BOOLEAN
  /\ Passed.errs = {} /\ Running.errs = {}
  /\ Syntax \in Failure /\ PlainFailure \in Failure /\ Continuable \in Failure
  /\ Syntax.kind = "syntax" /\ PlainFailure.kind = "fail" /\ Continuable.kind = "fail"
  /\ \A f \in Failure : f.kind \in FailureKinds
<1>1. /\ Syntax \in Failure /\ PlainFailure \in Failure /\ Continuable \in Failure
      /\ Syntax.kind = "syntax" /\ PlainFailure.kind = "fail" /\ Continuable.kind = "fail"
  BY DEF Syntax, PlainFailure, Continuable, Failure, FailureKinds
<1>2. /\ Passed # Running /\ Passed \notin Exception /\ Running \notin Exception
      /\ Passed.errs = {} /\ Running.errs = {}
  BY DEF Passed, Running, Exception
<1>3. \A f \in Failure : Single(f) \in Exception /\ Single(f).errs = {f} /\ Single(f).how = "one"
  BY DEF Single, Exception, Failure
<1>4. \A F \in SUBSET Failure : F # {} =>
       Several(F) \in Exception /\ Several(F).errs = F /\ Several(F).how = "several"
  BY DEF Several, Exception
<1>5. \A x \in Exception : x.errs # {} /\ x.errs \subseteq Failure /\ x.cont \in BOOLEAN
  BY DEF Exception
<1>6. \A f \in Failure : f.kind \in FailureKinds
  BY DEF Failure
<1> QED BY <1>1, <1>2, <1>3, <1>4, <1>5, <1>6

-----------------------------------------------------------------------------
(* Calls keep the invariant *)

LEMMA PushFacts ==
  ASSUME KeywordBookkeeping, NEW n, NEW part, PushStep(n, part)
  PROVE  /\ Len(stack) \in Nat \ {0} /\ part \in Kinds \cup {"round"}
         /\ stack' \in Seq(CallRecord) /\ Len(stack') = Len(stack) + 1
         /\ stack'[Len(stack) + 1] = Call(n, part)
         /\ \A i \in 1..Len(stack) : stack'[i] = stack[i] /\ stack[i] \in CallRecord
         /\ visited \subseteq visited' /\ visited' \subseteq Nodes
         /\ Top = stack[Len(stack)] /\ Top \in CallRecord
<1>1. TypeOK /\ stack # <<>> /\ n \in Nodes /\ stack' = Append(stack, Call(n, part))
  BY DEF KeywordBookkeeping, PushStep
<1>2. part \in Kinds \cup {"round"}
  BY <1>1, ProgramFacts DEF PushStep
<1>3. Call(n, part) \in CallRecord
  BY <1>1, <1>2, NewCall
<1>4. visited \subseteq visited' /\ visited' \subseteq Nodes
  BY <1>1 DEF PushStep, TypeOK
<1> QED BY <1>1, <1>2, <1>3, <1>4, StackFacts, AppendFacts DEF Top

LEMMA PushKeepsCalls ==
  ASSUME KeywordBookkeeping, NEW n, NEW part, PushStep(n, part)
  PROVE  TypeOK' /\ CallsOK'
<1>1. /\ Len(stack) \in Nat \ {0} /\ part \in Kinds \cup {"round"}
      /\ stack' \in Seq(CallRecord) /\ Len(stack') = Len(stack) + 1
      /\ stack'[Len(stack) + 1] = Call(n, part)
      /\ \A i \in 1..Len(stack) : stack'[i] = stack[i] /\ stack[i] \in CallRecord
      /\ visited \subseteq visited' /\ visited' \subseteq Nodes
      /\ Top = stack[Len(stack)] /\ Top \in CallRecord
  BY PushFacts
<1>2. TypeOK'
  BY <1>1 DEF TypeOK, PushStep, KeywordBookkeeping, CallRecord
<1>3. ASSUME NEW i \in 1..Len(stack')
      PROVE  /\ IF stack'[i].part = "round"
                THEN i > 1 /\ stack'[i - 1].part = "for" /\ stack'[i - 1].node = stack'[i].node
                ELSE /\ stack'[i].part = Kind[stack'[i].node]
                     /\ i > 1 => stack'[i - 1].part # "for"
             /\ stack'[i].part \in RunKinds \ {"keywords"} /\ ~mode'.dryRun => stack'[i].pos = 1
  <2>1. CASE i \in 1..Len(stack)
    <3>1. stack'[i] = stack[i] /\ (i > 1 => stack'[i - 1] = stack[i - 1]) /\ mode' = mode
      BY <1>1, <2>1 DEF PushStep
    <3>2. CallsOK
      BY DEF KeywordBookkeeping
    <3> QED BY <2>1, <3>1, <3>2 DEF CallsOK
  <2>2. CASE i = Len(stack) + 1
    <3>1. /\ i > 1 /\ i - 1 = Len(stack) /\ stack'[i - 1] = Top /\ stack'[i] = Call(n, part)
          /\ n \in Nodes
      BY <1>1, <2>2 DEF PushStep
    <3>a. /\ Call(n, part).node = n /\ Call(n, part).part = part
          /\ Call(n, part).pos = 1
      BY DEF Call
    <3>2. stack'[i].node = n /\ stack'[i].part = part /\ stack'[i].pos = 1
      BY <3>1, <3>a
    <3>3. \/ part = "round" /\ Top.part = "for" /\ n = Top.node
          \/ part = Kind[n] /\ Top.part \notin {"for", "library"}
      BY DEF PushStep
    <3>4. "round" \notin Kinds
      BY DEF Kinds, RunKinds
    <3> QED BY <3>1, <3>2, <3>3, <3>4, ProgramFacts
  <2> QED BY <1>1, <2>1, <2>2
<1> QED BY <1>2, <1>3 DEF CallsOK

LEMMA PushKeepsFailures ==
  ASSUME KeywordBookkeeping, NEW n, NEW part, PushStep(n, part)
  PROVE  KindsOK' /\ FailedOK' /\ StopOK'
<1>1. /\ Len(stack) \in Nat \ {0} /\ part \in Kinds \cup {"round"}
      /\ Len(stack') = Len(stack) + 1
      /\ stack'[Len(stack) + 1] = Call(n, part)
      /\ \A i \in 1..Len(stack) : stack'[i] = stack[i]
  BY PushFacts
<1>2. n \in Nodes /\ mode' = mode /\ kinds' = kinds /\ raised' = raised /\ ~Stopping
  BY DEF PushStep
<1>3. Call(n, part).errs = {} /\ Call(n, part).failed = FALSE
  BY <1>1, <1>2, NewCall
<1>4. KindsOK'
  BY <1>1, <1>2, <1>3 DEF KindsOK, KeywordBookkeeping
<1>5. FailedOK'
  <2>1. FailedOK
    BY DEF KeywordBookkeeping
  <2>2. ASSUME NEW i \in 1..Len(stack')
        PROVE  /\ stack'[i].part \in Collecting => (stack'[i].failed <=> Fails(stack'[i].errs))
               /\ stack'[i].part = "for" /\ stack'[i].errs # {} => Fails(stack'[i].errs)
    <3>1. CASE i \in 1..Len(stack)
      BY <1>1, <2>1, <3>1 DEF FailedOK
    <3>2. CASE i = Len(stack) + 1
      BY <1>1, <1>3, <3>2 DEF Fails
    <3> QED BY <1>1, <3>1, <3>2
  <2> QED BY <2>2 DEF FailedOK, Fails
<1>6. StopOK'
  BY <1>2 DEF StopOK, Stopping
<1> QED BY <1>4, <1>5, <1>6

LEMMA PushKeepsVisited ==
  ASSUME KeywordBookkeeping, NEW n, NEW part, PushStep(n, part)
  PROVE  VisitedOK'
<1> DEFINE L == Len(stack)
<1>1. /\ L \in Nat \ {0} /\ part \in Kinds \cup {"round"}
      /\ Len(stack') = L + 1
      /\ stack'[L + 1] = Call(n, part)
      /\ \A i \in 1..L : stack'[i] = stack[i] /\ stack[i] \in CallRecord
      /\ visited \subseteq visited' /\ Top = stack[L] /\ Top \in CallRecord
  BY PushFacts
<1>2. n \in Nodes /\ raised' = Running /\ raised = Running /\ UNCHANGED <<mode, kinds, cut>>
  BY DEF PushStep
<1>3. \A m : Thorough(m)' = Thorough(m)
  BY <1>2 DEF Thorough
<1>4. VisitedOK /\ TypeOK
  BY DEF KeywordBookkeeping
<1> HIDE DEF L
<1>5. ASSUME NEW i \in 1..L + 1, Thorough(stack[i].node)'
      PROVE  StepsVisited(i)'
  <2>1. CASE i \in 1..L
    <3>a. stack'[i] = stack[i] /\ Thorough(stack[i].node)
      BY <1>1, <1>3, <1>5, <2>1
    <3>1. StepsVisited(i) /\ stack'[i] = stack[i]
      BY <1>4, <3>a, <2>1 DEF VisitedOK, L
    <3>2. CASE stack[i].part = "for"
      <4>1. (i = Len(stack') /\ raised' # Running) = FALSE
        BY <1>2
      <4> QED BY <1>1, <3>1, <3>2, <4>1 DEF StepsVisited
    <3>3. CASE stack[i].part # "for"
      <4> SUFFICES ASSUME NEW j \in 1..Len(Steps[stack[i].node]), j <= stack[i].pos
                   PROVE  Steps[stack[i].node][j] \in visited'
        <5>1. stack[i].pos \in Nat
          BY <1>1, <2>1 DEF CallRecord
        <5>2. Len(Steps[stack[i].node]) \in Nat
          BY <1>1, <2>1, ProgramFacts DEF CallRecord
        <5> QED BY <3>1, <3>3, <5>1, <5>2 DEF StepsVisited
      <4>1. j < stack[i].pos \/ j = stack[i].pos
        BY <1>1, <2>1, ProgramFacts DEF CallRecord
      <4>2. CASE j < stack[i].pos \/ (j = stack[i].pos /\ i < L)
        BY <1>1, <3>1, <3>3, <4>2 DEF StepsVisited, Called, L
      <4>3. CASE j = stack[i].pos /\ i = L
        BY <1>1, <1>2, <3>3, <4>3 DEF PushStep
      <4> QED BY <1>1, <2>1, <4>1, <4>2, <4>3
    <3> QED BY <3>2, <3>3
  <2>2. CASE i = L + 1
    <3>a. Call(n, part).pos = 1 /\ Call(n, part).round = 1
      BY DEF Call
    <3>1. /\ stack'[i] = Call(n, part) /\ stack'[i].pos = 1 /\ stack'[i].round = 1
          /\ i = Len(stack')
      BY <1>1, <2>2, <3>a
    <3>2. ~Called(i)'
      BY <1>1, <1>2, <3>1 DEF Called
    <3>3. Len(Steps[n]) \in Nat /\ \A j \in 1..Len(Steps[n]) : ~(j < 1)
      BY <1>2, ProgramFacts
    <3>4. Call(n, part).node = n
      BY <1>1, <1>2, NewCall
    <3> QED BY <1>2, <3>1, <3>2, <3>3, <3>4 DEF StepsVisited
  <2> QED BY <1>1, <2>1, <2>2
<1>6. ASSUME NEW m \in visited' \ cut', Thorough(m)'
      PROVE  \/ Range(Steps[m]) \subseteq visited'
             \/ \E i \in 1..L + 1 : stack'[i].node = m
  <2>1. CASE m \in visited
    <3>1. \/ Range(Steps[m]) \subseteq visited
          \/ \E i \in 1..L : stack[i].node = m
      BY <1>2, <1>3, <1>4, <1>6, <2>1 DEF VisitedOK, L
    <3> QED BY <1>1, <3>1
  <2>2. CASE m \notin visited
    <3>1. m = n
      BY <2>2 DEF PushStep
    <3>a. Call(n, part).node = n
      BY DEF Call
    <3>2. stack'[L + 1].node = n
      BY <1>1, <3>a
    <3> QED BY <1>1, <3>1, <3>2
  <2> QED BY <2>1, <2>2
<1>7. 1..Len(stack') = 1..L + 1
  BY <1>1
<1>8. \A i \in 1..Len(stack') : Thorough(stack[i].node)' => StepsVisited(i)'
  BY <1>5, <1>7
<1>9. \A m \in visited' \ cut' :
        Thorough(m)' => \/ Range(Steps[m]) \subseteq visited'
                        \/ \E i \in 1..Len(stack') : stack'[i].node = m
  BY <1>6, <1>7
<1> QED BY <1>8, <1>9 DEF VisitedOK

-----------------------------------------------------------------------------
(* Going on after a call keeps the invariant *)

LEMMA ChangeFacts ==
  ASSUME KeywordBookkeeping, NEW call, ChangeStep(call)
  PROVE  /\ Len(stack) \in Nat \ {0}
         /\ stack' \in Seq(CallRecord) /\ Len(stack') = Len(stack)
         /\ stack'[Len(stack)] = call /\ Top' = call
         /\ \A i \in 1..Len(stack) - 1 : stack'[i] = stack[i]
         /\ \A i \in 1..Len(stack) : stack[i] \in CallRecord
         /\ Top = stack[Len(stack)] /\ Top \in CallRecord
<1>1. TypeOK /\ stack # <<>> /\ call \in CallRecord /\ stack' = Append(Front(stack), call)
  BY DEF KeywordBookkeeping, ChangeStep, SetTop
<1>2. /\ Len(stack) \in Nat \ {0} /\ stack \in Seq(CallRecord)
      /\ \A i \in 1..Len(stack) : stack[i] \in CallRecord
      /\ Top = stack[Len(stack)] /\ Top \in CallRecord
  BY <1>1, StackFacts DEF Top
<1>3. /\ stack' \in Seq(CallRecord) /\ Len(stack') = Len(stack) /\ stack'[Len(stack)] = call
      /\ \A i \in 1..Len(stack) - 1 : stack'[i] = stack[i]
  BY <1>1, <1>2, ReplaceLast
<1> QED BY <1>2, <1>3 DEF Top

LEMMA ChangeKeepsCalls ==
  ASSUME KeywordBookkeeping, NEW call, ChangeStep(call)
  PROVE  TypeOK' /\ CallsOK'
<1> DEFINE L == Len(stack)
<1>1. /\ L \in Nat \ {0} /\ stack' \in Seq(CallRecord) /\ Len(stack') = L
      /\ stack'[L] = call /\ Top = stack[L]
      /\ \A i \in 1..L - 1 : stack'[i] = stack[i]
  BY ChangeFacts
<1>2. TypeOK' /\ mode' = mode
  BY <1>1, ExceptionFacts DEF TypeOK, ChangeStep, KeywordBookkeeping, CallRecord
<1>3. CallsOK /\ call.node = stack[L].node /\ call.part = stack[L].part
  BY <1>1 DEF ChangeStep, KeywordBookkeeping
<1>4. call.part \in RunKinds \ {"keywords"} /\ ~mode.dryRun => call.pos = stack[L].pos
  BY <1>1 DEF ChangeStep
<1> HIDE DEF L
<1>5. ASSUME NEW i \in 1..L
      PROVE  /\ IF stack'[i].part = "round"
                THEN i > 1 /\ stack'[i - 1].part = "for" /\ stack'[i - 1].node = stack'[i].node
                ELSE /\ stack'[i].part = Kind[stack'[i].node]
                     /\ i > 1 => stack'[i - 1].part # "for"
             /\ stack'[i].part \in RunKinds \ {"keywords"} /\ ~mode'.dryRun => stack'[i].pos = 1
  <2>1. /\ IF stack[i].part = "round"
           THEN i > 1 /\ stack[i - 1].part = "for" /\ stack[i - 1].node = stack[i].node
           ELSE /\ stack[i].part = Kind[stack[i].node]
                /\ i > 1 => stack[i - 1].part # "for"
        /\ stack[i].part \in RunKinds \ {"keywords"} /\ ~mode.dryRun => stack[i].pos = 1
    BY <1>1, <1>3 DEF CallsOK, L
  <2>2. i > 1 => i - 1 \in 1..L - 1 /\ stack'[i - 1] = stack[i - 1]
    BY <1>1
  <2>3. stack'[i].part = stack[i].part /\ stack'[i].node = stack[i].node
    <3>1. CASE i = L
      BY <1>1, <1>3, <3>1
    <3>2. CASE i # L
      BY <1>1, <3>2
    <3> QED BY <3>1, <3>2
  <2>4. stack[i].part \in RunKinds \ {"keywords"} /\ ~mode.dryRun => stack'[i].pos = stack[i].pos
    <3>1. CASE i = L
      BY <1>1, <1>3, <1>4, <3>1
    <3>2. CASE i # L
      BY <1>1, <3>2
    <3> QED BY <3>1, <3>2
  <2> QED BY <1>2, <2>1, <2>2, <2>3, <2>4
<1> QED BY <1>1, <1>2, <1>5 DEF CallsOK

LEMMA ChangeKeepsFailures ==
  ASSUME KeywordBookkeeping, NEW call, ChangeStep(call)
  PROVE  KindsOK' /\ FailedOK' /\ StopOK'
<1> DEFINE L == Len(stack)
<1>1. /\ L \in Nat \ {0} /\ Len(stack') = L /\ stack'[L] = call /\ Top' = call
      /\ \A i \in 1..L - 1 : stack'[i] = stack[i]
  BY ChangeFacts
<1>2. /\ mode' = mode /\ kinds' = kinds /\ raised' = Running
      /\ \A f \in call.errs : f.kind \in kinds
      /\ call.part \in Collecting => (call.failed <=> Fails(call.errs))
      /\ call.part = "for" /\ call.errs # {} => Fails(call.errs)
      /\ Stopping => Done(call) /\ Carry(call.errs)
  BY DEF ChangeStep
<1>3. KindsOK /\ FailedOK
  BY DEF KeywordBookkeeping
<1> HIDE DEF L
<1>4. \A i \in 1..L : i # L => i \in 1..L - 1
  BY <1>1
<1>5. KindsOK'
  <2>1. \A f \in Running.errs : f.kind \in kinds
    BY ExceptionFacts
  <2>2. ASSUME NEW i \in 1..L PROVE \A f \in stack'[i].errs : f.kind \in kinds
    BY <1>1, <1>2, <1>3, <1>4 DEF KindsOK, L
  <2> QED BY <1>1, <1>2, <1>3, <2>1, <2>2 DEF KindsOK
<1>6. FailedOK'
  <2>2. ASSUME NEW i \in 1..L
        PROVE  /\ stack'[i].part \in Collecting => (stack'[i].failed <=> Fails(stack'[i].errs))
               /\ stack'[i].part = "for" /\ stack'[i].errs # {} => Fails(stack'[i].errs)
    <3>1. CASE i = L
      BY <1>1, <1>2, <3>1
    <3>2. CASE i # L
      BY <1>1, <1>3, <1>4, <3>2 DEF FailedOK, L
    <3> QED BY <3>1, <3>2
  <2> QED BY <1>1, <2>2 DEF FailedOK, Fails
<1>7. StopOK'
  <2>1. Stopping' = Stopping /\ stack' # <<>>
    <3>1. Len(<<>>) = 0
      BY EmptySeq
    <3>2. stack' # <<>>
      BY <1>1, <3>1
    <3> QED BY <1>2, <3>2 DEF Stopping
  <2>2. Done(call)' = Done(call)
    BY <1>2 DEF Done, RoundsOf
  <2>3. Done(Top)' = Done(call) /\ Carry(Top.errs)' = Carry(call.errs)
    BY <1>1, <1>2, <2>2 DEF Done, RoundsOf, Carry
  <2> QED BY <1>2, <2>1, <2>3 DEF StopOK
<1> QED BY <1>5, <1>6, <1>7

LEMMA ChangeKeepsVisited ==
  ASSUME KeywordBookkeeping, NEW call, ChangeStep(call)
  PROVE  VisitedOK'
<1> DEFINE L == Len(stack)
<1>1. /\ L \in Nat \ {0} /\ Len(stack') = L /\ stack'[L] = call
      /\ \A i \in 1..L - 1 : stack'[i] = stack[i]
      /\ \A i \in 1..L : stack[i] \in CallRecord
  BY ChangeFacts
<1>2. /\ raised' = Running /\ raised # Running /\ UNCHANGED <<mode, visited, kinds, cut>>
      /\ call \in CallRecord /\ call.node = stack[L].node /\ call.part = stack[L].part
      /\ Thorough(call.node) /\ call.part # "for" => call.pos <= stack[L].pos + 1
  BY DEF ChangeStep, Top
<1>3. \A m : Thorough(m)' = Thorough(m)
  BY <1>2 DEF Thorough
<1>4. VisitedOK /\ TypeOK
  BY DEF KeywordBookkeeping
<1> HIDE DEF L
<1>5. \A i \in 1..L : stack'[i].node = stack[i].node
  <2>1. \A i \in 1..L : i # L => i \in 1..L - 1
    BY <1>1
  <2> QED BY <1>1, <1>2, <2>1
<1>6. ASSUME NEW i \in 1..L, Thorough(stack[i].node)'
      PROVE  StepsVisited(i)'
  <2>1. Thorough(stack[i].node) /\ StepsVisited(i)
    <3>1. Thorough(stack[i].node)
      BY <1>3, <1>5, <1>6
    <3> QED BY <1>4, <3>1 DEF VisitedOK, L
  <2>2. CASE i = L /\ call.part = "for"
    <3>1. Range(Steps[stack[L].node]) \subseteq visited
      BY <1>2, <2>1, <2>2 DEF StepsVisited, L
    <3> QED BY <1>1, <1>2, <2>2, <3>1 DEF StepsVisited
  <2>3. CASE i = L /\ call.part # "for"
    <3>1. \A j \in 1..Len(Steps[call.node]) : j <= stack[L].pos => Steps[call.node][j] \in visited
      <4>1. stack[L].pos \in Nat /\ Len(Steps[call.node]) \in Nat
        BY <1>1, <1>2, ProgramFacts DEF CallRecord
      <4>2. \A j \in 1..Len(Steps[call.node]) :
              j <= stack[L].pos => j < stack[L].pos \/ j = stack[L].pos
        BY <4>1
      <4> QED BY <1>2, <2>1, <2>3, <4>2 DEF StepsVisited, Called
    <3>2. call.pos <= stack[L].pos + 1 /\ call.pos \in Nat /\ stack[L].pos \in Nat
      BY <1>1, <1>2, <2>1, <2>3 DEF CallRecord
    <3>3. ~Called(i)'
      BY <1>1, <1>2, <2>3 DEF Called
    <3>4. \A j \in 1..Len(Steps[call.node]) : j < call.pos => j <= stack[L].pos
      <4>1. Len(Steps[call.node]) \in Nat
        BY <1>1, <1>2, ProgramFacts DEF CallRecord
      <4> QED BY <3>2, <4>1
    <3> QED BY <1>1, <1>2, <2>3, <3>1, <3>3, <3>4 DEF StepsVisited
  <2>4. CASE i # L
    <3>1. stack'[i] = stack[i] /\ i < Len(stack) /\ i < Len(stack')
      BY <1>1, <2>4 DEF L
    <3>2. i # Len(stack) /\ i # Len(stack')
      BY <1>1, <2>4 DEF L
    <3>3. Called(i) /\ Called(i)'
      BY <3>1 DEF Called
    <3> QED BY <1>2, <2>1, <3>1, <3>2, <3>3 DEF StepsVisited
  <2> QED BY <2>2, <2>3, <2>4
<1>7. \A m \in visited' \ cut' :
        Thorough(m)' => \/ Range(Steps[m]) \subseteq visited'
                        \/ \E i \in 1..L : stack'[i].node = m
  BY <1>2, <1>3, <1>4, <1>5 DEF VisitedOK, L
<1> QED BY <1>1, <1>6, <1>7 DEF VisitedOK

-----------------------------------------------------------------------------
(* Returns keep the invariant *)

LEMMA PopFacts ==
  ASSUME KeywordBookkeeping, NEW x, NEW new, PopStep(x, new)
  PROVE  /\ Len(stack) \in Nat \ {0}
         /\ stack' \in Seq(CallRecord) /\ Len(stack') = Len(stack) - 1
         /\ \A i \in 1..Len(stack) - 1 : stack'[i] = stack[i]
         /\ \A i \in 1..Len(stack) : stack[i] \in CallRecord
         /\ Top = stack[Len(stack)] /\ Top \in CallRecord
         /\ raised' = x /\ x # Running
<1>1. TypeOK /\ stack # <<>> /\ stack' = Front(stack) /\ raised' = x /\ x \in {Passed} \cup Exception
  BY DEF KeywordBookkeeping, PopStep, Return
<1>2. stack \in Seq(CallRecord) /\ Len(stack) \in Nat \ {0}
      /\ \A i \in 1..Len(stack) : stack[i] \in CallRecord
      /\ Top = stack[Len(stack)] /\ Top \in CallRecord
  BY <1>1, StackFacts DEF Top
<1>3. x # Running
  BY <1>1, ExceptionFacts
<1> QED BY <1>1, <1>2, <1>3, FrontFacts

LEMMA PopKeepsCalls ==
  ASSUME KeywordBookkeeping, NEW x, NEW new, PopStep(x, new)
  PROVE  TypeOK' /\ CallsOK'
<1> DEFINE L == Len(stack)
<1>1. /\ L \in Nat \ {0} /\ stack' \in Seq(CallRecord) /\ Len(stack') = L - 1
      /\ \A i \in 1..L - 1 : stack'[i] = stack[i]
      /\ raised' = x /\ x # Running
  BY PopFacts
<1>2. TypeOK' /\ mode' = mode
  BY <1>1 DEF TypeOK, PopStep, KeywordBookkeeping, CallRecord
<1>3. CallsOK
  BY DEF KeywordBookkeeping
<1> HIDE DEF L
<1>4. \A i \in 1..L - 1 : /\ i \in 1..L /\ stack'[i] = stack[i]
                          /\ i > 1 => stack'[i - 1] = stack[i - 1]
  BY <1>1
<1>5. ASSUME NEW i \in 1..L - 1
      PROVE  /\ IF stack'[i].part = "round"
                THEN i > 1 /\ stack'[i - 1].part = "for" /\ stack'[i - 1].node = stack'[i].node
                ELSE /\ stack'[i].part = Kind[stack'[i].node]
                     /\ i > 1 => stack'[i - 1].part # "for"
             /\ stack'[i].part \in RunKinds \ {"keywords"} /\ ~mode'.dryRun => stack'[i].pos = 1
  BY <1>2, <1>3, <1>4 DEF CallsOK, L
<1> QED BY <1>1, <1>2, <1>5 DEF CallsOK

LEMMA PopKeepsFailures ==
  ASSUME KeywordBookkeeping, NEW x, NEW new, PopStep(x, new)
  PROVE  KindsOK' /\ FailedOK' /\ StopOK'
<1> DEFINE L == Len(stack)
<1>1. /\ L \in Nat \ {0} /\ Len(stack') = L - 1
      /\ \A i \in 1..L - 1 : stack'[i] = stack[i]
      /\ raised' = x /\ x # Running
  BY PopFacts
<1>2. /\ mode' = mode /\ kinds' = kinds \cup new
      /\ mode.dryRun => new \subseteq {"syntax"}
      /\ \A f \in x.errs : f.kind \in kinds \cup new
      /\ \A k \in new \cap DontContKinds : \E f \in x.errs : f.kind = k
      /\ Stopping => Carry(x.errs)
  BY DEF PopStep
<1>3. KindsOK /\ FailedOK
  BY DEF KeywordBookkeeping
<1> HIDE DEF L
<1>4. \A i \in 1..L - 1 : i \in 1..L /\ stack'[i] = stack[i]
  BY <1>1
<1>5. KindsOK'
  BY <1>1, <1>2, <1>3, <1>4 DEF KindsOK, L
<1>6. FailedOK'
  BY <1>1, <1>3, <1>4 DEF FailedOK, Fails, L
<1>7. StopOK'
  <2>1. SUFFICES ASSUME Stopping', NEW k \in kinds' \cap DontContKinds
                 PROVE  \E f \in x.errs : f.kind = k
    BY <1>1 DEF StopOK, Carry
  <2>2. CASE k \in new
    BY <1>2, <2>1, <2>2
  <2>3. CASE k \notin new
    <3>1. k \in kinds \cap DontContKinds
      BY <1>2, <2>1, <2>3
    <3>2. FatalKinds \subseteq DontContKinds /\ (k # "syntax" => k \in FatalKinds)
      BY <3>1 DEF FatalKinds, DontContKinds
    <3>3. Stopping
      BY <1>2, <2>1, <3>1, <3>2 DEF Stopping
    <3> QED BY <1>2, <3>1, <3>3 DEF Carry
  <2> QED BY <2>2, <2>3
<1> QED BY <1>5, <1>6, <1>7

LEMMA PopKeepsVisited ==
  ASSUME KeywordBookkeeping, NEW x, NEW new, PopStep(x, new)
  PROVE  VisitedOK'
<1> DEFINE L == Len(stack)
<1>1. /\ L \in Nat \ {0} /\ Len(stack') = L - 1
      /\ \A i \in 1..L - 1 : stack'[i] = stack[i]
      /\ \A i \in 1..L : stack[i] \in CallRecord
      /\ raised' = x /\ x # Running /\ Top = stack[L]
  BY PopFacts
<1>2. /\ mode' = mode /\ visited' = visited /\ kinds \subseteq kinds' /\ cut \subseteq cut'
      /\ Thorough(Top.node) => Range(Steps[Top.node]) \subseteq visited
                                \/ (Top.part # "round" /\ Top.node \in cut')
  BY DEF PopStep
<1>3. \A m : Thorough(m)' => Thorough(m)
  BY <1>2 DEF Thorough
<1>4. VisitedOK /\ TypeOK /\ CallsOK
  BY DEF KeywordBookkeeping
<1> HIDE DEF L
<1>5. \A i \in 1..L - 1 : i \in 1..L /\ stack'[i] = stack[i] /\ i < L
  BY <1>1
<1>6. ASSUME NEW i \in 1..L - 1, Thorough(stack[i].node)'
      PROVE  StepsVisited(i)'
  <2>1. stack'[i] = stack[i] /\ i < Len(stack) /\ i # Len(stack)
    BY <1>1, <1>5 DEF L
  <2>2. Thorough(stack[i].node)
    BY <1>3, <1>6, <2>1
  <2>3. StepsVisited(i)
    BY <1>4, <1>5, <2>2 DEF VisitedOK, L
  <2>4. Called(i)
    BY <2>1 DEF Called
  <2>5. CASE stack[i].part # "for"
    BY <1>2, <2>1, <2>3, <2>4, <2>5 DEF StepsVisited
  <2>6. CASE stack[i].part = "for" /\ i # L - 1
    BY <1>1, <1>2, <2>1, <2>3, <2>6 DEF StepsVisited
  <2>7. CASE stack[i].part = "for" /\ i = L - 1
    <3>1. L \in 1..L /\ L > 1 /\ L - 1 = i
      BY <1>1, <2>7
    <3>2. /\ IF stack[L].part = "round"
             THEN L > 1 /\ stack[L - 1].part = "for" /\ stack[L - 1].node = stack[L].node
             ELSE L > 1 => stack[L - 1].part # "for"
      BY <1>4, <3>1 DEF CallsOK, L
    <3>3. stack[L].part = "round" /\ stack[L].node = stack[i].node
      BY <2>7, <3>1, <3>2
    <3>4. Range(Steps[stack[i].node]) \subseteq visited
      BY <1>1, <1>2, <2>2, <3>3
    <3> QED BY <1>2, <2>1, <2>7, <3>4 DEF StepsVisited
  <2> QED BY <2>5, <2>6, <2>7
<1>7. ASSUME NEW m \in visited' \ cut', Thorough(m)'
      PROVE  \/ Range(Steps[m]) \subseteq visited'
             \/ \E i \in 1..L - 1 : stack'[i].node = m
  <2>1. \/ Range(Steps[m]) \subseteq visited
        \/ \E i \in 1..L : stack[i].node = m
    BY <1>2, <1>3, <1>4, <1>7 DEF VisitedOK, L
  <2>2. CASE Range(Steps[m]) \subseteq visited
    BY <1>2, <2>2
  <2>3. ASSUME NEW i \in 1..L, stack[i].node = m, i # L
        PROVE  \E j \in 1..L - 1 : stack'[j].node = m
    BY <1>1, <2>3
  <2>4. CASE stack[L].node = m /\ Range(Steps[m]) \subseteq visited
    BY <1>2, <2>4
  <2>5. CASE stack[L].node = m /\ ~(Range(Steps[m]) \subseteq visited)
    BY <1>1, <1>2, <1>3, <1>7, <2>5
  <2> QED BY <2>1, <2>2, <2>3, <2>4, <2>5
<1>8. 1..Len(stack') = 1..L - 1
  BY <1>1
<1>9. \A i \in 1..Len(stack') : Thorough(stack[i].node)' => StepsVisited(i)'
  BY <1>6, <1>8
<1>10. \A m \in visited' \ cut' :
         Thorough(m)' => \/ Range(Steps[m]) \subseteq visited'
                         \/ \E i \in 1..Len(stack') : stack'[i].node = m
  BY <1>7, <1>8
<1> QED BY <1>9, <1>10 DEF VisitedOK

-----------------------------------------------------------------------------
(* What the actions have in common *)

LEMMA TopFacts ==
  ASSUME KeywordBookkeeping, stack # <<>>
  PROVE  /\ Top \in CallRecord /\ Top.node \in Nodes /\ Top.errs \subseteq Failure
         /\ Top.part # "round" => Top.part = Kind[Top.node]
         /\ Top.part \in RunKinds \ {"keywords"} /\ ~mode.dryRun => Top.pos = 1
         /\ \A f \in Top.errs : f.kind \in kinds
         /\ Top.part \in Collecting => (Top.failed <=> Fails(Top.errs))
         /\ Top.part = "for" /\ Top.errs # {} => Fails(Top.errs)
<1>1. Top \in CallRecord /\ Len(stack) \in 1..Len(stack) /\ Top = stack[Len(stack)]
  BY StackFacts DEF KeywordBookkeeping, Top
<1>2. Top.node \in Nodes /\ Top.errs \subseteq Failure
  BY <1>1 DEF CallRecord
<1> QED BY <1>1, <1>2 DEF KeywordBookkeeping, CallsOK, KindsOK, FailedOK

LEMMA TopVisited ==
  ASSUME KeywordBookkeeping, stack # <<>>, Thorough(Top.node)
  PROVE  /\ Top.part = "for" /\ (Top.round > 1 \/ raised # Running)
              => Range(Steps[Top.node]) \subseteq visited
         /\ Top.part # "for" =>
              \A j \in 1..Len(Steps[Top.node]) :
                (j < Top.pos \/ (j = Top.pos /\ raised # Running))
                  => Steps[Top.node][j] \in visited
<1>1. Len(stack) \in 1..Len(stack) /\ Top = stack[Len(stack)]
  BY StackFacts DEF KeywordBookkeeping, Top
<1>2. StepsVisited(Len(stack))
  BY <1>1 DEF KeywordBookkeeping, VisitedOK
<1> QED BY <1>1, <1>2 DEF StepsVisited, Called

LEMMA FailsFacts ==
  /\ \A x \in {Passed} \cup Exception : StatusFailed(x) <=> Fails(x.errs)
  /\ \A x \in Exception : ~IsExitForLoop(x) <=> Fails(x.errs)
  /\ \A E, F : Fails(E \cup F) <=> Fails(E) \/ Fails(F)
  /\ StatusFailed(Single(Syntax)) /\ ~IsExitForLoop(Single(Syntax))
<1>1. \A x \in Exception : x # Passed /\ (~IsExitForLoop(x) <=> Fails(x.errs))
  BY ExceptionFacts DEF IsExitForLoop, Fails
<1>2. ~StatusFailed(Passed) /\ ~Fails(Passed.errs)
  BY ExceptionFacts DEF StatusFailed, Fails
<1>3. Single(Syntax) \in Exception /\ Fails(Single(Syntax).errs)
  BY ExceptionFacts DEF Fails
<1> QED BY <1>1, <1>2, <1>3 DEF StatusFailed, Fails

\* What ends everything cannot be continued from anywhere.
LEMMA StopsHere ==
  ASSUME Stopping, NEW x, Carry(x.errs), \A f \in x.errs : f.kind \in kinds
  PROVE  /\ ~mode.dryRun /\ x.errs # {} /\ DontCont(x) /\ ~IsExitForLoop(x) /\ x # Passed
         /\ \A t : ~CanContinue(x, t, FALSE) /\ ~CanContinue(x, t, mode.dryRun)
<1>1. FatalKinds \subseteq DontContKinds /\ "exit_for_loop" \notin DontContKinds
  BY DEF FatalKinds, DontContKinds
<1>2. PICK k \in kinds \cap DontContKinds : TRUE
  BY <1>1 DEF Stopping
<1>3. PICK f \in x.errs : f.kind = k
  BY DEF Carry
<1>4. x.errs # {} /\ DontCont(x) /\ ~IsExitForLoop(x) /\ x # Passed /\ ~mode.dryRun
  BY <1>1, <1>2, <1>3, ExceptionFacts DEF DontCont, IsExitForLoop, Stopping
<1>5. mode.teardown => ~IsSyntax(x)
  BY DEF Stopping, IsSyntax
<1> QED BY <1>4, <1>5 DEF CanContinue

\* A node that runs all its steps goes on after every failure.
LEMMA ThoroughGoesOn ==
  ASSUME KeywordBookkeeping, stack # <<>>, Thorough(Top.node), raised # Running
  PROVE  /\ raised = Passed \/ CanContinue(raised, Templated(Top), mode.dryRun)
<1>1. \A f \in raised.errs : f.kind \in kinds
  BY DEF KeywordBookkeeping, KindsOK
<1>2. CASE mode.dryRun
  BY <1>2 DEF CanContinue
<1>3. CASE mode.teardown /\ kinds \cap (FatalKinds \cup {"exit_for_loop"}) = {}
  <2>1. DontCont(raised) => IsSyntax(raised)
    BY <1>1, <1>3 DEF DontCont, IsSyntax, DontContKinds, FatalKinds
  <2> QED BY <1>3, <2>1 DEF CanContinue
<1>4. CASE /\ mode.templated /\ Top.node \in TemplateNodes
           /\ kinds \cap (DontContKinds \cup {"exit_for_loop"}) = {}
  <2>1. ~DontCont(raised)
    BY <1>1, <1>4 DEF DontCont
  <2>2. Templated(Top)
    BY <1>4 DEF Templated, TemplateNodes
  <2> QED BY <2>1, <2>2 DEF CanContinue
<1> QED BY <1>2, <1>3, <1>4 DEF Thorough

\* A call that has run all its rows.
LEMMA RowsDone ==
  ASSUME KeywordBookkeeping, stack # <<>>, raised = Running,
         Top.part \notin {"for", "library"}, Top.pos > Len(Steps[Top.node])
  PROVE  LET x == Outcome(Top.errs)
         IN  /\ x \in {Passed} \cup Exception /\ x.errs = Top.errs
             /\ \A f \in x.errs : f.kind \in kinds
             /\ Stopping => Carry(x.errs)
             /\ Thorough(Top.node) => Range(Steps[Top.node]) \subseteq visited
             /\ Top.part \in Collecting => (StatusFailed(x) <=> Top.failed)
             /\ x # Single(Syntax)
<1> DEFINE x == Outcome(Top.errs)
<1>1. /\ Top \in CallRecord /\ Top.node \in Nodes /\ Top.errs \subseteq Failure
      /\ \A f \in Top.errs : f.kind \in kinds
      /\ Top.part \in Collecting => (Top.failed <=> Fails(Top.errs))
  BY TopFacts
<1>2. x \in {Passed} \cup Exception /\ x.errs = Top.errs /\ x # Single(Syntax)
  <2>1. CASE Top.errs = {}
    BY <2>1, ExceptionFacts DEF Outcome
  <2>2. CASE Top.errs # {}
    BY <1>1, <2>2, ExceptionFacts DEF Outcome
  <2> QED BY <2>1, <2>2
<1>3. Stopping => Carry(Top.errs)
  BY DEF KeywordBookkeeping, StopOK
<1>4. ASSUME Thorough(Top.node) PROVE Range(Steps[Top.node]) \subseteq visited
  <2>1. Len(Steps[Top.node]) \in Nat /\ Top.pos \in Nat
    BY <1>1, ProgramFacts DEF CallRecord
  <2>2. \A j \in 1..Len(Steps[Top.node]) : j < Top.pos
    BY <2>1
  <2>3. \A j \in 1..Len(Steps[Top.node]) : Steps[Top.node][j] \in visited
    BY <1>4, <2>2, TopVisited
  <2> QED BY <1>1, <2>3, AllSteps
<1>5. StatusFailed(x) <=> Fails(Top.errs)
  BY <1>2, FailsFacts
<1> QED BY <1>1, <1>2, <1>3, <1>4, <1>5

LEMMA EndKeywordPops ==
  ASSUME KeywordBookkeeping, stack # <<>>, NEW x, NEW new, EndKeyword(Top.node, x, new),
         UNCHANGED <<mode, visited>>, cut \subseteq cut', cut' \subseteq Nodes,
         x \in {Passed} \cup Exception,
         new \subseteq FailureKinds, mode.dryRun => new \subseteq {"syntax"},
         \A f \in x.errs : f.kind \in kinds \cup new,
         new \cap DontContKinds # {} => \E f \in Failure : x = Single(f) /\ new = {f.kind},
         Stopping => Carry(x.errs) /\ \A f \in x.errs : f.kind \in kinds,
         Thorough(Top.node) => Range(Steps[Top.node]) \subseteq visited
                                 \/ (Top.part # "round" /\ Top.node \in cut'),
         Top.part \in Collecting => (StatusFailed(x) <=> Top.failed \/ x = Single(Syntax)),
         Top.part = "for" /\ x # Passed => ~IsExitForLoop(x)
  PROVE  \E y, nw : PopStep(y, nw)
<1>1. CASE Return(x) /\ kinds' = kinds \cup new
  <2>1. \A k \in new \cap DontContKinds : \E f \in x.errs : f.kind = k
    BY ExceptionFacts
  <2>2. PopStep(x, new)
    BY <1>1, <2>1 DEF PopStep
  <2> QED BY <2>2
<1>2. CASE /\ x = Passed \/ CanContinue(x, FALSE, FALSE)
           /\ Return(Single(Syntax)) /\ kinds' = kinds \cup new \cup {"syntax"}
  <2> DEFINE y == Single(Syntax) nw == new \cup {"syntax"}
  <2>1. ~Stopping
    BY <1>2, StopsHere
  <2>2. y \in Exception /\ y.errs = {Syntax} /\ Syntax.kind = "syntax"
    BY ExceptionFacts
  <2>3. nw \subseteq FailureKinds /\ (mode.dryRun => nw \subseteq {"syntax"})
    BY DEF FailureKinds
  <2>4. new \cap DontContKinds \subseteq {"syntax"}
    <3>1. SUFFICES ASSUME NEW f \in Failure, x = Single(f), f.kind \in DontContKinds
                   PROVE  f.kind = "syntax"
      OBVIOUS
    <3>2. x # Passed /\ x.errs = {f}
      BY <3>1, ExceptionFacts
    <3>3. DontCont(x)
      BY <3>1, <3>2 DEF DontCont
    <3>4. IsSyntax(x)
      BY <1>2, <3>2, <3>3 DEF CanContinue
    <3> QED BY <3>2, <3>4 DEF IsSyntax
  <2>5. \A k \in nw \cap DontContKinds : \E f \in y.errs : f.kind = k
    BY <2>2, <2>4
  <2>6. \A f \in y.errs : f.kind \in kinds \cup nw
    BY <2>2
  <2>7. StatusFailed(y) /\ ~IsExitForLoop(y)
    BY FailsFacts
  <2>8. kinds' = kinds \cup nw /\ Return(y)
    BY <1>2
  <2>9. PopStep(y, nw)
    BY <2>1, <2>2, <2>3, <2>5, <2>6, <2>7, <2>8 DEF PopStep
  <2> QED BY <2>9
<1> QED BY <1>1, <1>2 DEF EndKeyword

-----------------------------------------------------------------------------
(* Each action is one of the three steps *)

LEMMA CallSteps ==
  ASSUME KeywordBookkeeping, StartStep \/ StartRound
  PROVE  \E n, part : PushStep(n, part)
<1>1. stack # <<>> /\ raised = Running /\ raised' = Running /\ UNCHANGED <<mode, kinds, cut>>
  BY DEF StartStep, StartRound, Active
<1>2. Top \in CallRecord /\ Top.node \in Nodes
  BY <1>1, TopFacts
<1>3. Stopping => Done(Top)
  BY <1>1 DEF KeywordBookkeeping, StopOK
<1>4. CASE StartStep
  <2> DEFINE n == Steps[Top.node][Top.pos]
  <2>1. /\ Top.part \in {"body", "user", "round"} \cup RunKinds
        /\ Top.pos <= Len(Steps[Top.node])
        /\ stack' = Append(stack, Call(n, Kind[n])) /\ visited' = visited \cup {n}
    BY <1>4 DEF StartStep, Active
  <2>2. Top.part \notin {"for", "library"}
    BY <2>1 DEF RunKinds
  <2>3. Top.pos \in Nat \ {0} /\ Len(Steps[Top.node]) \in Nat
    BY <1>2, ProgramFacts DEF CallRecord
  <2>4. Top.pos \in 1..Len(Steps[Top.node])
    BY <2>1, <2>3
  <2>5. n \in Nodes
    <3>1. n \in Range(Steps[Top.node])
      BY <1>2, <2>4, ProgramFacts
    <3> QED BY <1>2, <3>1, ProgramFacts
  <2>6. ~Stopping
    BY <1>3, <2>1, <2>2, <2>3 DEF Done
  <2>7. PushStep(n, Kind[n])
    BY <1>1, <2>1, <2>2, <2>4, <2>5, <2>6 DEF PushStep
  <2> QED BY <2>7
<1>5. CASE StartRound
  <2>1. /\ Top.part = "for" /\ Top.round <= RoundsOf(Top) /\ visited' = visited
        /\ stack' = Append(stack, Call(Top.node, "round"))
    BY <1>5 DEF StartRound, Active
  <2>2. Top.round \in Nat /\ RoundsOf(Top) \in Nat
    BY <1>2, ProgramFacts DEF CallRecord, RoundsOf
  <2>3. ~Stopping
    BY <1>3, <2>1, <2>2 DEF Done
  <2>4. PushStep(Top.node, "round")
    BY <1>1, <1>2, <2>1, <2>3 DEF PushStep
  <2> QED BY <2>4
<1> QED BY <1>4, <1>5

\* What a call that goes on has been left.
LEMMA RaisedFacts ==
  ASSUME KeywordBookkeeping, raised # Running
  PROVE  /\ raised \in {Passed} \cup Exception /\ raised.errs \subseteq Failure
         /\ \A f \in raised.errs : f.kind \in kinds
         /\ Stopping => Carry(raised.errs)
         /\ StatusFailed(raised) <=> Fails(raised.errs)
<1>1. raised \in {Passed} \cup Exception
  BY DEF KeywordBookkeeping, TypeOK
<1> QED BY <1>1, ExceptionFacts, FailsFacts DEF KeywordBookkeeping, KindsOK, StopOK

LEMMA CollectFailureChanges ==
  ASSUME KeywordBookkeeping, CollectFailure
  PROVE  \E call : ChangeStep(call)
<1> DEFINE errs == Top.errs \cup raised.errs
           goesOn == \/ raised = Passed
                     \/ CanContinue(raised, Templated(Top), mode.dryRun)
           caught == Caught(Top, raised, errs)
           call == IF goesOn THEN caught ELSE [caught EXCEPT !.pos = Len(Steps[Top.node]) + 1]
<1>1. /\ stack # <<>> /\ raised # Running /\ raised' = Running /\ SetTop(call)
      /\ UNCHANGED <<mode, visited, kinds, cut>>
  BY DEF CollectFailure, Returned
<1>2. /\ Top.part \notin {"for", "library"}
      /\ Top.part \in RunKinds \ {"keywords"} => mode.dryRun
  BY DEF CollectFailure, Returned, Sequences, RunKinds
<1>3. /\ Top \in CallRecord /\ Top.node \in Nodes /\ Top.errs \subseteq Failure
      /\ \A f \in Top.errs : f.kind \in kinds
      /\ Top.part \in Collecting => (Top.failed <=> Fails(Top.errs))
  BY <1>1, TopFacts
<1>4. /\ raised.errs \subseteq Failure
      /\ \A f \in raised.errs : f.kind \in kinds
      /\ Stopping => Carry(raised.errs)
      /\ StatusFailed(raised) <=> Fails(raised.errs)
  BY <1>1, RaisedFacts
<1>5. /\ Top.pos \in Nat \ {0} /\ Top.pos + 1 \in Nat \ {0} /\ Len(Steps[Top.node]) \in Nat
      /\ Len(Steps[Top.node]) + 1 \in Nat \ {0}
  BY <1>3, ProgramFacts DEF CallRecord
<1>6. /\ call \in CallRecord /\ call.node = Top.node /\ call.part = Top.part
      /\ call.errs = errs /\ (call.failed <=> Top.failed \/ StatusFailed(raised))
      /\ call.pos = IF goesOn THEN Top.pos + 1 ELSE Len(Steps[Top.node]) + 1
  <2> DEFINE F == Top.failed \/ StatusFailed(raised)
             C == Top.onlyCont /\ (raised = Passed \/ (raised.cont /\ ~DontCont(raised)))
  <2>1. caught = [Top EXCEPT !.pos = Top.pos + 1, !.errs = errs, !.failed = F, !.onlyCont = C]
    BY DEF Caught
  <2>2. F \in BOOLEAN /\ C \in BOOLEAN
    OBVIOUS
  <2>3. errs \in SUBSET Failure
    BY <1>3, <1>4
  <2> HIDE DEF F, C, errs
  <2>4. /\ caught \in CallRecord /\ caught.node = Top.node /\ caught.part = Top.part
        /\ caught.errs = errs /\ caught.failed = F /\ caught.pos = Top.pos + 1
    BY <1>3, <1>5, <2>1, <2>2, <2>3 DEF CallRecord
  <2> HIDE DEF caught, goesOn
  <2>5. CASE goesOn
    BY <2>4, <2>5 DEF F
  <2>6. CASE ~goesOn
    <3>1. /\ call = [caught EXCEPT !.pos = Len(Steps[Top.node]) + 1]
      BY <2>6
    <3>2. /\ call \in CallRecord /\ call.node = caught.node /\ call.part = caught.part
          /\ call.errs = caught.errs /\ call.failed = caught.failed
          /\ call.pos = Len(Steps[Top.node]) + 1
      BY <1>5, <2>4, <3>1 DEF CallRecord
    <3> QED BY <2>4, <2>6, <3>2 DEF F
  <2> QED BY <2>5, <2>6
<1>7. \A f \in errs : f.kind \in kinds
  BY <1>3, <1>4
<1>8. call.part \in Collecting => (call.failed <=> Fails(call.errs))
  <2>1. Fails(errs) <=> Fails(Top.errs) \/ Fails(raised.errs)
    BY FailsFacts
  <2> HIDE DEF call, errs
  <2> QED BY <1>3, <1>4, <1>6, <2>1
<1>9. Stopping => Done(call) /\ Carry(call.errs)
  <2> SUFFICES ASSUME Stopping PROVE Done(call) /\ Carry(call.errs)
    OBVIOUS
  <2>1. Carry(raised.errs) /\ ~goesOn
    BY <1>4, StopsHere
  <2>2. call.pos > Len(Steps[call.node])
    BY <1>5, <1>6, <2>1
  <2> QED BY <1>2, <1>6, <2>1, <2>2 DEF Done, Carry
<1>10. Thorough(call.node) => call.pos <= Top.pos + 1
  <2> SUFFICES ASSUME Thorough(Top.node) PROVE call.pos <= Top.pos + 1
    BY <1>6
  <2>1. goesOn
    BY <1>1, ThoroughGoesOn
  <2> QED BY <1>5, <1>6, <2>1
<1> HIDE DEF call
<1>11. ChangeStep(call)
  BY <1>1, <1>2, <1>6, <1>7, <1>8, <1>9, <1>10 DEF ChangeStep
<1> QED BY <1>11

LEMMA NextRoundChanges ==
  ASSUME KeywordBookkeeping, NextRound
  PROVE  \E call : ChangeStep(call)
<1> DEFINE exits == ExitsLoop(raised)
           errs == Top.errs \cup (IF exits THEN {} ELSE raised.errs)
           goesOn == \/ raised = Passed
                     \/ ~exits /\ CanContinue(raised, Templated(Top), mode.dryRun)
           caught == Caught(Top, raised, errs)
           call == [caught EXCEPT !.round = IF goesOn THEN @ + 1 ELSE RoundsOf(Top) + 1]
<1>1. /\ stack # <<>> /\ raised # Running /\ raised' = Running /\ SetTop(call)
      /\ UNCHANGED <<mode, visited, kinds, cut>> /\ Top.part = "for"
  BY DEF NextRound, Returned
<1>2. /\ Top \in CallRecord /\ Top.node \in Nodes /\ Top.errs \subseteq Failure
      /\ \A f \in Top.errs : f.kind \in kinds
      /\ Top.failed <=> Fails(Top.errs)
      /\ Top.errs # {} => Fails(Top.errs)
  BY <1>1, TopFacts DEF Collecting
<1>3. /\ raised \in {Passed} \cup Exception /\ raised.errs \subseteq Failure
      /\ \A f \in raised.errs : f.kind \in kinds
      /\ Stopping => Carry(raised.errs)
      /\ StatusFailed(raised) <=> Fails(raised.errs)
  BY <1>1, RaisedFacts
<1>4. /\ Top.pos + 1 \in Nat \ {0} /\ Top.round + 1 \in Nat \ {0}
      /\ RoundsOf(Top) + 1 \in Nat \ {0} /\ RoundsOf(Top) \in Nat
  BY <1>2, ProgramFacts DEF CallRecord, RoundsOf
<1>5. /\ call \in CallRecord /\ call.node = Top.node /\ call.part = Top.part
      /\ call.errs = errs /\ (call.failed <=> Top.failed \/ StatusFailed(raised))
      /\ call.round = IF goesOn THEN Top.round + 1 ELSE RoundsOf(Top) + 1
  <2> DEFINE F == Top.failed \/ StatusFailed(raised)
             C == Top.onlyCont /\ (raised = Passed \/ (raised.cont /\ ~DontCont(raised)))
             R == IF goesOn THEN caught.round + 1 ELSE RoundsOf(Top) + 1
  <2>1. caught = [Top EXCEPT !.pos = Top.pos + 1, !.errs = errs, !.failed = F, !.onlyCont = C]
    BY DEF Caught
  <2>2. F \in BOOLEAN /\ C \in BOOLEAN
    OBVIOUS
  <2>3. errs \in SUBSET Failure
    BY <1>2, <1>3
  <2>4. call = [caught EXCEPT !.round = R]
    OBVIOUS
  <2> HIDE DEF F, C, errs, call
  <2>5. /\ caught \in CallRecord /\ caught.node = Top.node /\ caught.part = Top.part
        /\ caught.errs = errs /\ caught.failed = F /\ caught.round = Top.round
    BY <1>2, <1>4, <2>1, <2>2, <2>3 DEF CallRecord
  <2>6. R \in Nat \ {0} /\ R = IF goesOn THEN Top.round + 1 ELSE RoundsOf(Top) + 1
    BY <1>4, <2>5
  <2> HIDE DEF caught, goesOn, R
  <2>7. /\ call \in CallRecord /\ call.node = caught.node /\ call.part = caught.part
        /\ call.errs = caught.errs /\ call.failed = caught.failed /\ call.round = R
    BY <2>4, <2>5, <2>6 DEF CallRecord
  <2> QED BY <2>5, <2>6, <2>7 DEF F
<1>6. \A f \in errs : f.kind \in kinds
  BY <1>2, <1>3
<1>7. /\ exits <=> raised # Passed /\ ~Fails(raised.errs)
      /\ raised # Passed => raised.errs # {}
  BY <1>3, FailsFacts, ExceptionFacts DEF ExitsLoop
<1>8. (call.failed <=> Fails(call.errs)) /\ (call.errs # {} => Fails(call.errs))
  <2>1. CASE exits
    <3>1. errs = Top.errs /\ ~Fails(raised.errs)
      BY <1>7, <2>1
    <3> HIDE DEF call, errs, exits
    <3> QED BY <1>2, <1>3, <1>5, <3>1
  <2>2. CASE ~exits
    <3>1. errs = Top.errs \cup raised.errs
      BY <2>2
    <3>2. Fails(errs) <=> Fails(Top.errs) \/ Fails(raised.errs)
      BY <3>1, FailsFacts
    <3>3. raised.errs # {} => Fails(raised.errs)
      <4>1. Passed.errs = {}
        BY ExceptionFacts
      <4> QED BY <1>7, <2>2, <4>1
    <3>4. errs # {} => Top.errs # {} \/ raised.errs # {}
      BY <3>1
    <3> HIDE DEF call, errs, exits
    <3> QED BY <1>2, <1>3, <1>5, <3>2, <3>3, <3>4
  <2> QED BY <2>1, <2>2
<1>9. Stopping => Done(call) /\ Carry(call.errs)
  <2> SUFFICES ASSUME Stopping PROVE Done(call) /\ Carry(call.errs)
    OBVIOUS
  <2>1. Carry(raised.errs) /\ ~goesOn /\ ~exits
    BY <1>3, StopsHere DEF ExitsLoop
  <2>2. errs = Top.errs \cup raised.errs /\ call.round = RoundsOf(Top) + 1
    BY <1>5, <2>1
  <2>3. RoundsOf(call) = RoundsOf(Top)
    BY <1>5 DEF RoundsOf
  <2>4. call.round > RoundsOf(call)
    BY <1>4, <2>2, <2>3
  <2> QED BY <1>1, <1>5, <2>1, <2>2, <2>4 DEF Done, Carry
<1> HIDE DEF call
<1>10. call.part = "for" /\ "for" \notin RunKinds
  BY <1>1, <1>5 DEF RunKinds
<1>11. ChangeStep(call)
  BY <1>1, <1>5, <1>6, <1>8, <1>9, <1>10 DEF ChangeStep
<1> QED BY <1>11

LEMMA RowsEnd ==
  ASSUME KeywordBookkeeping, EndBody \/ EndRound \/ EndLoop
  PROVE  \E x, new : PopStep(x, new)
<1> DEFINE x == Outcome(Top.errs)
<1>1. /\ stack # <<>> /\ raised = Running /\ Return(x) /\ UNCHANGED <<mode, visited, kinds, cut>>
  BY DEF EndBody, EndRound, EndLoop, StepsDone, Active
<1>2. cut' \subseteq Nodes
  BY <1>1 DEF KeywordBookkeeping, TypeOK
<1>3. /\ x \in {Passed} \cup Exception /\ \A f \in x.errs : f.kind \in kinds
      /\ Stopping => Carry(x.errs)
      /\ Thorough(Top.node) => Range(Steps[Top.node]) \subseteq visited
      /\ Top.part \in Collecting => (StatusFailed(x) <=> Top.failed)
      /\ x # Single(Syntax)
      /\ Top.part = "for" /\ x # Passed => ~IsExitForLoop(x)
  <2>1. CASE EndBody \/ EndRound
    <3>1. Top.part \notin {"for", "library"} /\ Top.pos > Len(Steps[Top.node])
      BY <2>1 DEF EndBody, EndRound, StepsDone, Active
    <3> QED BY <1>1, <3>1, RowsDone
  <2>2. CASE EndLoop
    <3>1. Top.part = "for" /\ Top.round > RoundsOf(Top)
      BY <2>2 DEF EndLoop, Active
    <3>2. /\ Top \in CallRecord /\ Top.node \in Nodes /\ Top.errs \subseteq Failure
          /\ \A f \in Top.errs : f.kind \in kinds
          /\ Top.failed <=> Fails(Top.errs)
          /\ Top.errs # {} => Fails(Top.errs)
      BY <1>1, <3>1, TopFacts DEF Collecting
    <3>3. x \in {Passed} \cup Exception /\ x.errs = Top.errs /\ x # Single(Syntax)
      <4>1. CASE Top.errs = {}
        BY <4>1, ExceptionFacts DEF Outcome
      <4>2. CASE Top.errs # {}
        BY <3>2, <4>2, ExceptionFacts DEF Outcome
      <4> QED BY <4>1, <4>2
    <3>4. Stopping => Carry(Top.errs)
      BY <1>1 DEF KeywordBookkeeping, StopOK
    <3>5. Thorough(Top.node) => Range(Steps[Top.node]) \subseteq visited
      <4>1. Top.round \in Nat /\ RoundsOf(Top) \in Nat \ {0}
        BY <3>2, ProgramFacts DEF CallRecord, RoundsOf
      <4>2. Top.round > 1
        BY <3>1, <4>1
      <4> QED BY <1>1, <3>1, <4>2, TopVisited
    <3>6. StatusFailed(x) <=> Fails(Top.errs)
      BY <3>3, FailsFacts
    <3>7. x # Passed => ~IsExitForLoop(x)
      <4>1. x # Passed => Top.errs # {}
        BY DEF Outcome
      <4> QED BY <3>2, <3>3, <4>1, FailsFacts
    <3> QED BY <3>2, <3>3, <3>4, <3>5, <3>6, <3>7
  <2> QED BY <2>1, <2>2
<1> HIDE DEF x
<1>4. PopStep(x, {})
  BY <1>1, <1>2, <1>3 DEF PopStep
<1> QED BY <1>4

LEMMA FailAtStartPops ==
  ASSUME KeywordBookkeeping, FailAtStart
  PROVE  \E x, new : PopStep(x, new)
<1> DEFINE x == Single(Syntax)
<1>1. /\ stack # <<>> /\ raised = Running /\ UNCHANGED <<mode, visited>>
      /\ Top.part \in {"user", "for"} \cup RunKinds /\ Top = Call(Top.node, Top.part)
      /\ EndKeyword(Top.node, x, {"syntax"}) /\ cut' = cut \cup {Top.node}
  BY DEF FailAtStart, Active
<1>2. Top.node \in Nodes /\ cut' \subseteq Nodes
  BY <1>1, TopFacts DEF KeywordBookkeeping, TypeOK
<1>3. x \in Exception /\ x.errs = {Syntax} /\ Syntax.kind = "syntax" /\ Syntax \in Failure
  BY ExceptionFacts
<1>4. ~Stopping
  <2>1. Top.errs = {}
    BY <1>1 DEF Call
  <2> QED BY <1>1, <2>1, StopsHere DEF KeywordBookkeeping, StopOK
<1>5. StatusFailed(x) /\ ~IsExitForLoop(x)
  BY FailsFacts
<1>6. "syntax" \in FailureKinds /\ Top.part # "round"
  BY <1>1 DEF FailureKinds, RunKinds
<1>7. \E f \in Failure : x = Single(f) /\ {"syntax"} = {f.kind}
  BY <1>3
<1>8. \A f \in x.errs : f.kind \in kinds \cup {"syntax"}
  BY <1>3
<1> HIDE DEF x
<1>9. x = Single(Syntax)
  BY DEF x
<1> QED BY <1>1, <1>2, <1>3, <1>4, <1>5, <1>6, <1>7, <1>8, <1>9, EndKeywordPops

LEMMA LibraryKeywordPops ==
  ASSUME KeywordBookkeeping, RunLibraryKeyword
  PROVE  \E x, new : PopStep(x, new)
<1>1. /\ stack # <<>> /\ raised = Running /\ UNCHANGED <<mode, visited, cut>>
      /\ Top.part = "library"
  BY DEF RunLibraryKeyword, Active
<1>2. cut' \subseteq Nodes /\ cut \subseteq cut'
  BY <1>1 DEF KeywordBookkeeping, TypeOK
<1>3. ~Stopping /\ Top.part \notin Collecting
  BY <1>1 DEF KeywordBookkeeping, StopOK, Done, Collecting
<1>4. Range(Steps[Top.node]) \subseteq visited
  <2>1. Top.node \in Nodes /\ Kind[Top.node] = "library"
    BY <1>1, TopFacts
  <2>2. Steps[Top.node] = <<>>
    BY <2>1, ProgramAssumption
  <2>3. Len(Steps[Top.node]) = 0
    BY <2>2, EmptySeq
  <2>4. \A j \in 1..Len(Steps[Top.node]) : Steps[Top.node][j] \in visited
    BY <2>3
  <2> QED BY <2>1, <2>4, AllSteps
<1>5. \/ EndKeyword(Top.node, Passed, {})
      \/ \E f \in Failure : /\ EndKeyword(Top.node, Single(f), {f.kind})
                            /\ mode.dryRun => f.kind = "syntax"
  <2>1. Continuable \in Failure /\ Syntax \in Failure /\ Syntax.kind = "syntax"
    BY ExceptionFacts
  <2>2. {[kind |-> k, cont |-> FALSE] : k \in FailureKinds} \subseteq Failure
    <3>1. \A k \in FailureKinds : [kind |-> k, cont |-> FALSE] \in Failure
      BY DEF Failure
    <3> QED BY <3>1
  <2>3. LibraryFailures \subseteq Failure
    BY <2>1, <2>2 DEF LibraryFailures
  <2> QED BY <2>1, <2>3 DEF RunLibraryKeyword
<1>6. CASE EndKeyword(Top.node, Passed, {})
  <2>1. Passed.errs = {}
    BY ExceptionFacts
  <2> QED BY <1>1, <1>2, <1>3, <1>4, <1>6, <2>1, EndKeywordPops
<1>7. ASSUME NEW f \in Failure, EndKeyword(Top.node, Single(f), {f.kind}),
             mode.dryRun => f.kind = "syntax"
      PROVE  \E x, new : PopStep(x, new)
  <2> DEFINE x == Single(f) new == {f.kind}
  <2>1. /\ x \in Exception /\ x.errs = {f} /\ f.kind \in FailureKinds
    BY ExceptionFacts
  <2>2. /\ new \subseteq FailureKinds /\ (mode.dryRun => new \subseteq {"syntax"})
        /\ \A e \in x.errs : e.kind \in kinds \cup new
        /\ \E e \in Failure : x = Single(e) /\ new = {e.kind}
    BY <1>7, <2>1
  <2>3. EndKeyword(Top.node, x, new)
    BY <1>7
  <2> HIDE DEF x, new
  <2> QED BY <1>1, <1>2, <1>3, <1>4, <2>1, <2>2, <2>3, EndKeywordPops
<1> QED BY <1>5, <1>6, <1>7

LEMMA UserKeywordPops ==
  ASSUME KeywordBookkeeping, EndUserKeyword \/ EndVariant
  PROVE  \E x, new : PopStep(x, new)
<1> DEFINE x == Outcome(Top.errs)
<1>1. /\ stack # <<>> /\ raised = Running /\ UNCHANGED <<mode, visited, cut>>
      /\ Top.pos > Len(Steps[Top.node])
      /\ Top.part \in {"user"} \cup RunKinds
  BY DEF EndUserKeyword, EndVariant, StepsDone, Active
<1>2. cut' \subseteq Nodes /\ cut \subseteq cut'
  BY <1>1 DEF KeywordBookkeeping, TypeOK
<1>3. Top.part \notin {"for", "library"}
  BY <1>1 DEF RunKinds
<1>4. /\ x \in {Passed} \cup Exception /\ x.errs = Top.errs
      /\ \A f \in x.errs : f.kind \in kinds
      /\ Stopping => Carry(x.errs)
      /\ Thorough(Top.node) => Range(Steps[Top.node]) \subseteq visited
      /\ Top.part \in Collecting => (StatusFailed(x) <=> Top.failed)
      /\ x # Single(Syntax)
  BY <1>1, <1>3, RowsDone
<1>5. \/ EndKeyword(Top.node, x, {})
      \/ /\ Top.errs = {}
         /\ EndKeyword(Top.node, Single(Syntax), {"syntax"})
  BY DEF EndUserKeyword, EndVariant
<1>6. CASE EndKeyword(Top.node, x, {})
  <2> HIDE DEF x
  <2> QED BY <1>1, <1>2, <1>3, <1>4, <1>6, EndKeywordPops
<1>7. CASE Top.errs = {} /\ EndKeyword(Top.node, Single(Syntax), {"syntax"})
  <2> DEFINE y == Single(Syntax)
  <2>1. y \in Exception /\ y.errs = {Syntax} /\ Syntax.kind = "syntax" /\ Syntax \in Failure
    BY ExceptionFacts
  <2>2. ~Stopping
    BY <1>1, <1>7, StopsHere DEF KeywordBookkeeping, StopOK
  <2>3. StatusFailed(y) /\ "syntax" \in FailureKinds
    BY FailsFacts DEF FailureKinds
  <2>4. \E f \in Failure : y = Single(f) /\ {"syntax"} = {f.kind}
    BY <2>1
  <2>5. \A f \in y.errs : f.kind \in kinds \cup {"syntax"}
    BY <2>1
  <2>6. y = Single(Syntax) /\ EndKeyword(Top.node, y, {"syntax"})
    BY <1>7
  <2> HIDE DEF y
  <2> QED BY <1>1, <1>2, <1>3, <1>4, <2>1, <2>2, <2>3, <2>4, <2>5, <2>6, EndKeywordPops
<1> QED BY <1>5, <1>6, <1>7

\* The outcomes of the keyword of a variant.
LEMMA HandledFacts ==
  ASSUME NEW x \in Exception, NEW part, NEW y \in Handled(part, x)
  PROVE  /\ y \in {Passed, Running} \cup Exception
         /\ y = Running => part = "wait"
         /\ \A f \in y.errs : f.kind \in {e.kind : e \in x.errs} \cup NewKinds(y)
         /\ DontCont(x) => y = x
<1>1. /\ Single(PlainFailure) \in Exception /\ Single(PlainFailure).errs = {PlainFailure}
      /\ PlainFailure.kind = "fail" /\ Passed.errs = {} /\ Running.errs = {}
      /\ Passed # Running /\ Passed \notin Exception /\ Running \notin Exception
  BY ExceptionFacts
<1>2. Passed \in {Passed, Running} \cup Exception
      /\ \A f \in Passed.errs : f.kind \in {e.kind : e \in x.errs} \cup NewKinds(y)
  BY <1>1
<1>3. /\ Converted(x) \in Exception
      /\ \A f \in Converted(x).errs : f.kind \in {e.kind : e \in x.errs}
      /\ DontCont(x) => Converted(x) = x
  <2>1. CASE DontCont(x)
    BY <2>1 DEF Converted
  <2>2. CASE ~DontCont(x)
    <3> DEFINE E == IF x.how = "one" THEN {[f EXCEPT !.cont = TRUE] : f \in x.errs} ELSE x.errs
    <3>1. Converted(x) = [x EXCEPT !.cont = TRUE, !.errs = E]
      BY <2>2 DEF Converted
    <3>2. x.errs \in (SUBSET Failure) \ {{}}
      BY DEF Exception
    <3>3. E \in (SUBSET Failure) \ {{}} /\ \A f \in E : f.kind \in {e.kind : e \in x.errs}
      <4>1. CASE x.how = "one"
        <5>1. \A f \in x.errs : /\ [f EXCEPT !.cont = TRUE] \in Failure
                                /\ [f EXCEPT !.cont = TRUE].kind = f.kind
          BY <3>2 DEF Failure
        <5>2. E = {[f EXCEPT !.cont = TRUE] : f \in x.errs}
          BY <4>1
        <5> HIDE DEF E
        <5>3. PICK e \in x.errs : TRUE
          BY <3>2
        <5>4. [e EXCEPT !.cont = TRUE] \in E
          BY <5>2
        <5>5. E \subseteq Failure
          BY <5>1, <5>2
        <5>6. \A f \in E : f.kind \in {d.kind : d \in x.errs}
          BY <5>1, <5>2
        <5> QED BY <5>4, <5>5, <5>6
      <4>2. CASE x.how # "one"
        BY <3>2, <4>2
      <4> QED BY <4>1, <4>2
    <3> HIDE DEF E
    <3>4. Converted(x) \in Exception /\ Converted(x).errs = E
      BY <3>1, <3>3 DEF Exception
    <3> QED BY <2>2, <3>3, <3>4
  <2> QED BY <2>1, <2>2
<1>4. CASE part = "ignore"
  BY <1>1, <1>4 DEF Handled
<1>5. CASE part = "continue"
  BY <1>1, <1>3, <1>5 DEF Handled
<1>6. CASE part = "expect"
  BY <1>1, <1>6 DEF Handled, NewKinds
<1>7. CASE part = "wait"
  BY <1>1, <1>7 DEF Handled, NewKinds
<1>8. CASE part \notin {"ignore", "continue", "expect", "wait"}
  BY <1>1, <1>8 DEF Handled
<1> QED BY <1>4, <1>5, <1>6, <1>7, <1>8

\* A variant that is executed has one step.
LEMMA VariantFacts ==
  ASSUME KeywordBookkeeping, stack # <<>>, ~mode.dryRun, Top.part \in RunKinds \ {"keywords"}
  PROVE  /\ Top.part \notin Collecting \cup {"for", "round", "library"}
         /\ Top.pos = 1
         /\ raised # Running /\ Thorough(Top.node) => Range(Steps[Top.node]) \subseteq visited
<1>1. Top.part \notin Collecting \cup {"for", "round", "library"}
  BY DEF RunKinds, Collecting
<1>2. Top.pos = 1 /\ Top.node \in Nodes /\ Kind[Top.node] = Top.part
  BY <1>1, TopFacts
<1>3. Len(Steps[Top.node]) = 1
  BY <1>2, ProgramAssumption
<1>4. ASSUME raised # Running, Thorough(Top.node)
      PROVE  Range(Steps[Top.node]) \subseteq visited
  <2>1. \A j \in 1..Len(Steps[Top.node]) : j = Top.pos
    BY <1>2, <1>3
  <2>2. \A j \in 1..Len(Steps[Top.node]) : Steps[Top.node][j] \in visited
    BY <1>1, <1>4, <2>1, TopVisited
  <2> QED BY <1>2, <2>2, AllSteps
<1> QED BY <1>1, <1>2, <1>4

LEMMA VariantFailureSteps ==
  ASSUME KeywordBookkeeping, VariantFailure
  PROVE  (\E y, new : PopStep(y, new)) \/ \E call : ChangeStep(call)
<1>1. /\ stack # <<>> /\ raised # Running /\ ~mode.dryRun /\ raised # Passed
      /\ Top.part \in RunKinds \ {"keywords"} /\ UNCHANGED <<mode, visited, cut>>
  BY DEF VariantFailure, Returned
<1>2. /\ raised \in Exception
      /\ \A f \in raised.errs : f.kind \in kinds
      /\ Stopping => Carry(raised.errs)
  BY <1>1, RaisedFacts
<1>3. /\ Top.part \notin Collecting \cup {"for", "round", "library"}
      /\ Thorough(Top.node) => Range(Steps[Top.node]) \subseteq visited
  BY <1>1, VariantFacts
<1>4. PICK x \in Handled(Top.part, raised) :
        \/ x # Running /\ EndKeyword(Top.node, x, NewKinds(x))
        \/ /\ x = Running /\ SetTop([Top EXCEPT !.failed = TRUE])
           /\ raised' = Running /\ UNCHANGED kinds
  BY DEF VariantFailure
<1>5. /\ x \in {Passed, Running} \cup Exception
      /\ \A f \in x.errs : f.kind \in {e.kind : e \in raised.errs} \cup NewKinds(x)
      /\ DontCont(raised) => x = raised
  BY <1>2, <1>4, HandledFacts
<1>6. Stopping => x = raised
  BY <1>2, <1>5, StopsHere
<1>7. CASE x # Running /\ EndKeyword(Top.node, x, NewKinds(x))
  <2>1. NewKinds(x) \subseteq {"fail"} /\ "fail" \in FailureKinds /\ "fail" \notin DontContKinds
    BY DEF NewKinds, FailureKinds, DontContKinds
  <2>2. cut' \subseteq Nodes /\ cut \subseteq cut'
    BY <1>1 DEF KeywordBookkeeping, TypeOK
  <2>3. \A f \in x.errs : f.kind \in kinds \cup NewKinds(x)
    BY <1>2, <1>5
  <2>4. NewKinds(x) \cap DontContKinds = {} /\ NewKinds(x) \subseteq FailureKinds
    BY <2>1
  <2>5. x \in {Passed} \cup Exception
    BY <1>5, <1>7
  <2>6. Stopping => Carry(x.errs) /\ \A f \in x.errs : f.kind \in kinds
    BY <1>2, <1>6
  <2> QED BY <1>1, <1>3, <1>7, <2>2, <2>3, <2>4, <2>5, <2>6, EndKeywordPops
<1>8. CASE /\ x = Running /\ SetTop([Top EXCEPT !.failed = TRUE])
           /\ raised' = Running /\ UNCHANGED kinds
  <2> DEFINE call == [Top EXCEPT !.failed = TRUE]
  <2>1. Top \in CallRecord /\ \A f \in Top.errs : f.kind \in kinds
    BY <1>1, TopFacts
  <2>2. /\ call \in CallRecord /\ call.node = Top.node /\ call.part = Top.part
        /\ call.errs = Top.errs /\ call.pos = Top.pos
    BY <2>1 DEF CallRecord
  <2>3. Top.pos <= Top.pos + 1
    BY <2>1 DEF CallRecord
  <2>4. ~Stopping
    BY <1>1, <1>6, <1>8
  <2>5. SetTop(call)
    BY <1>8
  <2> HIDE DEF call
  <2>6. ChangeStep(call)
    BY <1>1, <1>3, <1>8, <2>1, <2>2, <2>3, <2>4, <2>5 DEF ChangeStep
  <2> QED BY <2>6
<1> QED BY <1>4, <1>7, <1>8

LEMMA VariantSuccessSteps ==
  ASSUME KeywordBookkeeping, VariantSuccess
  PROVE  (\E y, new : PopStep(y, new)) \/ \E call : ChangeStep(call)
<1>1. /\ stack # <<>> /\ raised # Running /\ ~mode.dryRun /\ raised = Passed
      /\ Top.part \in RunKinds \ {"keywords"} /\ UNCHANGED <<mode, visited, cut>>
  BY DEF VariantSuccess, Returned
<1>2. ~Stopping
  BY <1>1, StopsHere, RaisedFacts
<1>3. /\ Top.part \notin Collecting \cup {"for", "round", "library"}
      /\ Thorough(Top.node) => Range(Steps[Top.node]) \subseteq visited
  BY <1>1, VariantFacts
<1>4. cut' \subseteq Nodes /\ cut \subseteq cut'
  BY <1>1 DEF KeywordBookkeeping, TypeOK
<1>5. CASE EndKeyword(Top.node, Single(PlainFailure), {"fail"})
  <2> DEFINE x == Single(PlainFailure)
  <2>1. x \in Exception /\ x.errs = {PlainFailure} /\ PlainFailure.kind = "fail"
    BY ExceptionFacts
  <2>2. "fail" \in FailureKinds /\ {"fail"} \cap DontContKinds = {}
    BY DEF FailureKinds, DontContKinds
  <2>3. \A f \in x.errs : f.kind \in kinds \cup {"fail"}
    BY <2>1
  <2>4. EndKeyword(Top.node, x, {"fail"})
    BY <1>5
  <2> HIDE DEF x
  <2> QED BY <1>1, <1>2, <1>3, <1>4, <2>1, <2>2, <2>3, <2>4, EndKeywordPops
<1>6. CASE EndKeyword(Top.node, Passed, {})
  <2>1. Passed.errs = {}
    BY ExceptionFacts
  <2> QED BY <1>1, <1>2, <1>3, <1>4, <1>6, <2>1, EndKeywordPops
<1>7. CASE /\ SetTop([Top EXCEPT !.round = @ + 1])
           /\ raised' = Running /\ UNCHANGED kinds
  <2> DEFINE call == [Top EXCEPT !.round = Top.round + 1]
  <2>1. Top \in CallRecord /\ \A f \in Top.errs : f.kind \in kinds
    BY <1>1, TopFacts
  <2>2. Top.round + 1 \in Nat \ {0} /\ Top.pos <= Top.pos + 1
    BY <2>1 DEF CallRecord
  <2>3. /\ call \in CallRecord /\ call.node = Top.node /\ call.part = Top.part
        /\ call.errs = Top.errs /\ call.pos = Top.pos
    BY <2>1, <2>2 DEF CallRecord
  <2>5. SetTop(call)
    BY <1>7
  <2> HIDE DEF call
  <2>6. ChangeStep(call)
    BY <1>1, <1>2, <1>3, <1>7, <2>1, <2>2, <2>3, <2>5 DEF ChangeStep
  <2> QED BY <2>6
<1> QED BY <1>5, <1>6, <1>7 DEF VariantSuccess

LEMMA SkipVariantPops ==
  ASSUME KeywordBookkeeping, SkipVariant
  PROVE  \E x, new : PopStep(x, new)
<1>1. /\ stack # <<>> /\ raised = Running /\ UNCHANGED <<mode, visited>>
      /\ Top.part \in {"run", "repeat"} /\ Top = Call(Top.node, Top.part)
      /\ EndKeyword(Top.node, Passed, {}) /\ cut' = cut \cup {Top.node}
  BY DEF SkipVariant, Active
<1>2. Top.node \in Nodes /\ cut' \subseteq Nodes
  BY <1>1, TopFacts DEF KeywordBookkeeping, TypeOK
<1>3. ~Stopping
  <2>1. Top.errs = {}
    BY <1>1 DEF Call
  <2> QED BY <1>1, <2>1, StopsHere DEF KeywordBookkeeping, StopOK
<1>4. Top.part \notin Collecting \cup {"for", "round"}
  BY <1>1 DEF Collecting
<1>5. Passed.errs = {}
  BY ExceptionFacts
<1> QED BY <1>1, <1>2, <1>3, <1>4, <1>5, EndKeywordPops

-----------------------------------------------------------------------------
(* The theorems *)

LEMMA StepKinds ==
  ASSUME KeywordBookkeeping, Next
  PROVE  \/ \E n, part : PushStep(n, part)
         \/ \E call : ChangeStep(call)
         \/ \E x, new : PopStep(x, new)
         \/ UNCHANGED vars
BY CallSteps, CollectFailureChanges, NextRoundChanges, RowsEnd, FailAtStartPops,
   LibraryKeywordPops, UserKeywordPops, VariantFailureSteps, VariantSuccessSteps,
   SkipVariantPops
   DEF Next, Over

LEMMA BooksAtStart == Init => KeywordBookkeeping
<1> SUFFICES ASSUME Init PROVE KeywordBookkeeping
  OBVIOUS
<1>1. PICK b \in Bodies : stack = <<Call(b, "body")>> /\ visited = {b}
  BY DEF Init
<1>2. mode \in Modes /\ raised = Running /\ kinds = {} /\ cut = {}
  BY DEF Init
<1>3. b \in Nodes /\ Kind[b] = "body" /\ Modes \subseteq Mode
  BY ProgramAssumption
<1>4. /\ Call(b, "body") \in CallRecord /\ Call(b, "body").node = b
      /\ Call(b, "body").part = "body" /\ Call(b, "body").pos = 1
      /\ Call(b, "body").errs = {} /\ Call(b, "body").failed = FALSE
  <2>1. "body" \in Kinds \cup {"round"}
    BY DEF Kinds
  <2>2. Call(b, "body") \in CallRecord
    BY <1>3, <2>1, NewCall
  <2> QED BY <2>2 DEF Call
<1>5. stack \in Seq(CallRecord) /\ Len(stack) = 1 /\ stack[1] = Call(b, "body")
  BY <1>1, <1>4
<1>6. 1..Len(stack) = {1}
  BY <1>5
<1>7. TypeOK
  BY <1>1, <1>2, <1>3, <1>5 DEF TypeOK, CallRecord
<1>8. CallsOK
  <2>1. "body" \notin RunKinds /\ "body" # "round"
    BY DEF RunKinds
  <2> QED BY <1>3, <1>4, <1>5, <1>6, <2>1 DEF CallsOK
<1>9. KindsOK
  BY <1>2, <1>4, <1>5, <1>6, ExceptionFacts DEF KindsOK
<1>10. FailedOK
  BY <1>4, <1>5, <1>6 DEF FailedOK, Fails
<1>11. StopOK
  BY <1>2 DEF StopOK, Stopping
<1>12. VisitedOK
  <2>1. ~Called(1)
    BY <1>2, <1>5 DEF Called
  <2>2. Len(Steps[b]) \in Nat /\ \A j \in 1..Len(Steps[b]) : ~(j < 1)
    BY <1>3, ProgramFacts
  <2>3. StepsVisited(1)
    BY <1>4, <1>5, <2>1, <2>2 DEF StepsVisited
  <2> QED BY <1>1, <1>4, <1>5, <1>6, <2>3 DEF VisitedOK
<1> QED BY <1>7, <1>8, <1>9, <1>10, <1>11, <1>12 DEF KeywordBookkeeping

LEMMA BooksAreKept ==
  ASSUME KeywordBookkeeping, [Next]_vars
  PROVE  KeywordBookkeeping'
<1>1. ASSUME NEW n, NEW part, PushStep(n, part) PROVE KeywordBookkeeping'
  BY <1>1, PushKeepsCalls, PushKeepsFailures, PushKeepsVisited DEF KeywordBookkeeping
<1>2. ASSUME NEW call, ChangeStep(call) PROVE KeywordBookkeeping'
  BY <1>2, ChangeKeepsCalls, ChangeKeepsFailures, ChangeKeepsVisited DEF KeywordBookkeeping
<1>3. ASSUME NEW x, NEW new, PopStep(x, new) PROVE KeywordBookkeeping'
  BY <1>3, PopKeepsCalls, PopKeepsFailures, PopKeepsVisited DEF KeywordBookkeeping
<1>4. ASSUME UNCHANGED vars PROVE KeywordBookkeeping'
  <2>1. TypeOK' /\ CallsOK' /\ KindsOK' /\ FailedOK'
    BY <1>4 DEF vars, KeywordBookkeeping, TypeOK, CallsOK, KindsOK, FailedOK, Fails
  <2>2. StopOK'
    BY <1>4 DEF vars, KeywordBookkeeping, StopOK, Stopping, Done, Carry, Top, RoundsOf
  <2>3. VisitedOK'
    BY <1>4 DEF vars, KeywordBookkeeping, VisitedOK, Thorough, StepsVisited, Called
  <2> QED BY <2>1, <2>2, <2>3 DEF KeywordBookkeeping
<1> QED BY <1>1, <1>2, <1>3, <1>4, StepKinds

\* What the code keeps about calls, failures and what was run belongs together
\* in every state, for every program and every mode: the invariant behind the
\* theorems below (Keywords.run, ForLoop.run and the run keyword variants).
THEOREM KeywordBookkeepingHolds == Spec => []KeywordBookkeeping
<1>1. Init => KeywordBookkeeping
  BY BooksAtStart
<1>2. KeywordBookkeeping /\ [Next]_vars => KeywordBookkeeping'
  BY BooksAreKept
<1> QED BY <1>1, <1>2, PTL DEF Spec

LEMMA BooksAreComplete == KeywordBookkeeping => ResultsAreComplete
<1> SUFFICES ASSUME KeywordBookkeeping PROVE ResultsAreComplete
  OBVIOUS
<1>1. TypeOK /\ KindsOK /\ StopOK /\ VisitedOK /\ mode \in Mode
  BY DEF KeywordBookkeeping, TypeOK
<1>2. ASSUME stack = <<>>, NEW n \in visited \ cut, Thorough(n)
      PROVE  Range(Steps[n]) \subseteq visited
  <2>1. 1..Len(stack) = {}
    BY <1>2, EmptySeq
  <2> QED BY <1>1, <1>2, <2>1 DEF VisitedOK
<1>3. FatalFailuresReported
  <2>1. SUFFICES ASSUME stack = <<>>, "syntax" \notin kinds, NEW k \in FatalKinds \cap kinds
                 PROVE  \E f \in raised.errs : f.kind = k
    BY DEF FatalFailuresReported
  <2>2. k \in kinds \cap DontContKinds /\ k # "syntax"
    BY <2>1 DEF FatalKinds, DontContKinds
  <2>3. ~mode.dryRun
    BY <1>1, <2>1, <2>2 DEF KindsOK
  <2>4. Stopping
    BY <2>1, <2>2, <2>3 DEF Stopping
  <2> QED BY <1>1, <2>1, <2>2, <2>4 DEF StopOK, Carry
<1>4. DryRunVisitsAll
  BY <1>2 DEF DryRunVisitsAll, AllVisited, Thorough
<1>5. TeardownRunsAll
  BY <1>2 DEF TeardownRunsAll, AllVisited, Thorough
<1>6. TemplateRunsAllRows
  <2>1. SUFFICES ASSUME stack = <<>>, mode.templated, cut = {},
                        kinds \cap (DontContKinds \cup {"exit_for_loop"}) = {},
                        NEW b \in Bodies \cap visited
                 PROVE  /\ Range(Steps[b]) \subseteq visited
                        /\ \A n \in Range(Steps[b]) :
                             Kind[n] = "for" => Range(Steps[n]) \subseteq visited
    BY DEF TemplateRunsAllRows
  <2>2. b \in Nodes
    BY ProgramAssumption
  <2>3. Range(Steps[b]) \subseteq visited
    BY <1>2, <2>1 DEF Thorough, TemplateNodes
  <2>4. ASSUME NEW n \in Range(Steps[b]), Kind[n] = "for"
        PROVE  Range(Steps[n]) \subseteq visited
    <3>1. n \in Nodes
      BY <2>2, ProgramFacts
    <3>2. Thorough(n)
      BY <2>1, <2>4, <3>1 DEF Thorough, TemplateNodes
    <3> QED BY <1>2, <2>1, <2>3, <3>2
  <2> QED BY <2>3, <2>4
<1> QED BY <1>1, <1>3, <1>4, <1>5, <1>6 DEF ResultsAreComplete

\* When the keywords of a test or fixture are over, a timeout or fatal error is
\* among what is reported, and everything was run that a dry run, a teardown or
\* a template is to run (Keywords.run, ExecutionFailed.can_continue).
THEOREM ResultsAreCompleteHolds == Spec => []ResultsAreComplete
BY KeywordBookkeepingHolds, BooksAreComplete, PTL

\* On every level calls fail exactly when a keyword in them did, nothing is
\* called after what ends the execution, and loops keep the exits that are asked
\* of them to themselves (Keywords.run, ForLoop._run, errors.py).
THEOREM FailuresGoUpHolds == Spec => FailuresGoUp
<1> DEFINE Propagates ==
             (Returns /\ Top.part \in {"body", "user", "for", "round", "keywords"}) =>
               (StatusFailed(raised') <=> Top.failed \/ raised' = Single(Syntax))
           Stops ==
             (~mode.teardown /\ ~mode.dryRun /\ kinds \cap DontContKinds # {}) => ~Calls
           Absorbs ==
             (Returns /\ Top.part = "for" /\ raised' # Passed) => ~IsExitForLoop(raised')
<1>1. ASSUME KeywordBookkeeping, [Next]_vars
      PROVE  [Propagates /\ Stops /\ Absorbs]_vars
  <2>1. ASSUME NEW n, NEW part, PushStep(n, part) PROVE Propagates /\ Stops /\ Absorbs
    <3>1. Len(stack) \in Nat /\ Len(stack') = Len(stack) + 1
      BY <1>1, <2>1, PushFacts
    <3>2. ~Returns
      BY <3>1 DEF Returns
    <3>3. ~Stopping
      BY <2>1 DEF PushStep
    <3> QED BY <3>2, <3>3 DEF Stopping
  <2>2. ASSUME NEW call, ChangeStep(call) PROVE Propagates /\ Stops /\ Absorbs
    <3>1. Len(stack) \in Nat /\ Len(stack') = Len(stack)
      BY <1>1, <2>2, ChangeFacts
    <3> QED BY <3>1 DEF Returns, Calls
  <2>3. ASSUME NEW x, NEW new, PopStep(x, new) PROVE Propagates /\ Stops /\ Absorbs
    <3>1. Len(stack) \in Nat /\ Len(stack') = Len(stack) - 1 /\ raised' = x
      BY <1>1, <2>3, PopFacts
    <3>2. ~Calls
      BY <3>1 DEF Calls
    <3> QED BY <2>3, <3>1, <3>2 DEF PopStep, Collecting
  <2> QED BY <1>1, <2>1, <2>2, <2>3, StepKinds
<1>2. [][Propagates /\ Stops /\ Absorbs]_vars => FailuresGoUp
  <2>1. [Propagates /\ Stops /\ Absorbs]_vars => [Propagates]_vars /\ [Stops]_vars /\ [Absorbs]_vars
    OBVIOUS
  <2> HIDE DEF Propagates, Stops, Absorbs
  <2>2. [][Propagates /\ Stops /\ Absorbs]_vars
          => [][Propagates]_vars /\ [][Stops]_vars /\ [][Absorbs]_vars
    BY <2>1, PTL
  <2> QED BY <2>2 DEF Propagates, Stops, Absorbs, FailuresGoUp, FailuresPropagate, StopsAtOnce, LoopAbsorbsExit
<1> QED BY <1>1, <1>2, KeywordBookkeepingHolds, PTL DEF Spec

=============================================================================
