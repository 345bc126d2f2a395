--------------------------- MODULE KeywordThreads ---------------------------
(***************************************************************************)
(* Stopping keywords: test and user keyword timeouts (running/timeouts.py, *)
(* running/handlers.py), the threads in which keywords with a timeout are  *)
(* run (utils/robotthread.py, utils/stoppablethread.py), and the signals   *)
(* that end the execution (running/signalhandler.py).                      *)
(*                                                                         *)
(* The main thread runs the keywords of one test and of its teardown: any  *)
(* nesting of user keywords and library keywords.  A library keyword runs  *)
(* in the main thread if no timeout is active, and otherwise in a thread   *)
(* the main thread waits for.  Any keyword may take any time, or hang.     *)
(***************************************************************************)
EXTENDS Integers, Sequences, FiniteSets, SequencesExt, FiniteSetsExt

CONSTANTS
  Handlers,     \* user keywords
  Secs,         \* Secs[h]: timeout of h in seconds, or NoTimeout
  TestSecs,     \* timeout of the test, or NoTimeout
  \* Bounds
  MaxTime,      \* the clock stops here
  MaxDepth,     \* calls inside each other
  MaxThreads,   \* threads started
  MaxSignals    \* signals received

NoTimeout == -1

\* A timeout that cannot be parsed is 0: it is active and has no time left.
ASSUME ThreadAssumption ==
  /\ Secs \in [Handlers -> Nat \cup {NoTimeout}]
  /\ TestSecs \in Nat \cup {NoTimeout}
  /\ MaxTime \in Nat \ {0} /\ {MaxDepth, MaxThreads, MaxSignals} \subseteq Nat

VARIABLES
  nests,           \* whether library keywords run other keywords
  recurs,          \* whether user keywords use themselves
  now,             \* the time
  phase,           \* "test": its status is RUNNING, "teardown", "over" or "killed"
  failed,          \* whether the test has failed
  calls,           \* the calls being executed, innermost last
  startTime,       \* startTime[h]: when the timeout object of h was started
  threads,         \* the state of each thread that was started
  runningKeyword,  \* _running_keyword of the signal monitor
  signals          \* _signal_count of the signal monitor

vars == <<nests, recurs, now, phase, failed, calls, startTime, threads, runningKeyword, signals>>

-----------------------------------------------------------------------------
(* Timeouts *)

Inactive == 0

\* The test's timeout is started once, when the clock is at 1.
TestStart == 1

\* The calls of user keywords among the first n calls.
UserCalls(n) == {i \in 1..n : calls[i].type = "user"}

TestRunning == phase = "test"

\* Mutant: the test's timeout is taken into account in its teardown, too.
DeadlinesInTeardown ==
  {startTime[calls[i].handler] + Secs[calls[i].handler] :
     i \in {j \in UserCalls(Len(calls)) : startTime[calls[j].handler] # Inactive}}
  \cup (IF TestSecs # NoTimeout THEN {TestStart + TestSecs} ELSE {})

\* When the active timeouts of the test, if it is running, and of the user
\* keywords expire.
Deadlines ==
  {startTime[calls[i].handler] + Secs[calls[i].handler] :
     i \in {j \in UserCalls(Len(calls)) : startTime[calls[j].handler] # Inactive}}
  \cup (IF TestRunning /\ TestSecs # NoTimeout THEN {TestStart + TestSecs} ELSE {})

-----------------------------------------------------------------------------
(* Calls *)

Top == calls[Len(calls)]
InLibraryKeyword == calls # <<>> /\ Top.type = "library"

\* A library keyword in the main thread has no thread of its own.
NoThread == 0

UserCall(h) == [type |-> "user", handler |-> h, begun |-> now]
LibraryCall(t, d) == [type |-> "library", thread |-> t, deadline |-> d]

Forever == MaxTime + 1

\* Where a keyword can be called: by the test or its teardown, by a user keyword,
\* or by a library keyword in the main thread.  Run keyword variants are never in
\* a thread (handlers.py:254) and need no call of their own here.  A keyword that
\* is not registered as one, has a timeout, and runs others would run them in its
\* thread: that is left out, as such a thread, once left, still unwinds the user
\* keywords of the main thread's namespace.
MayCall ==
  /\ phase \in {"test", "teardown"}
  /\ Len(calls) < MaxDepth
  /\ InLibraryKeyword => nests /\ Top.thread = NoThread

Alive(t) == threads[t] # "ended"
NewThread == Len(threads) + 1

Init ==
  /\ nests \in BOOLEAN /\ recurs \in BOOLEAN
  /\ now = TestStart
  /\ phase = "test" /\ failed = FALSE
  /\ calls = <<>>
  /\ startTime = [h \in Handlers |-> Inactive]
  /\ threads = <<>>
  /\ runningKeyword = FALSE /\ signals = 0

\* The test's keywords end, and its teardown begins; or the teardown ends.
Ended(p) == IF p = "test" THEN "teardown" ELSE "over"

\* An exception leaves the innermost call.  It ends the test or its teardown, or
\* something on the way catches it: run keyword variants catch ordinary failures
\* only, but library keywords that run other keywords may catch anything.
Unwind(catchable) ==
  \E n \in 0..(Len(calls) - 1) :
    /\ n > 0 => catchable \/ calls[n].type = "library"
    /\ calls' = SubSeq(calls, 1, n)
    /\ \/ n = 0 /\ phase' = Ended(phase)
       \/ (n > 0 \/ catchable) /\ phase' = phase
    /\ failed' = (failed \/ n = 0)

StopRunningKeyword == runningKeyword' = FALSE

\* An exception raised where a keyword was to be started.
RaiseHere ==
  \/ Unwind(FALSE)
  \/ /\ calls = <<>>
     /\ phase' = Ended(phase) /\ failed' = TRUE
     /\ UNCHANGED calls
  \/ InLibraryKeyword /\ UNCHANGED <<calls, phase, failed>>

-----------------------------------------------------------------------------
(* User keywords *)

\* init_keyword makes a new timeout for the handler, which all calls of the user
\* keyword share, and _execute starts it.
StartUserKeyword(h) ==
  /\ MayCall
  /\ recurs \/ \A i \in UserCalls(Len(calls)) : calls[i].handler # h
  /\ startTime' = [startTime EXCEPT ![h] = IF Secs[h] # NoTimeout THEN now ELSE Inactive]
  /\ calls' = Append(calls, UserCall(h))
  /\ UNCHANGED <<nests, recurs, now, phase, failed, threads, runningKeyword, signals>>

EndUserKeyword ==
  /\ calls # <<>> /\ Top.type = "user"
  /\ calls' = Front(calls)
  /\ UNCHANGED <<nests, recurs, now, phase, failed, startTime, threads, runningKeyword, signals>>

-----------------------------------------------------------------------------
(* Library keywords *)

\* start_running_keyword
Stopped == signals > 0 /\ TestRunning

\* Keyword execution has been stopped by a signal, or no time is left.
RefuseKeyword ==
  /\ MayCall
  /\ Stopped \/ \E d \in Deadlines : d <= now
  /\ RaiseHere
  /\ StopRunningKeyword
  /\ UNCHANGED <<nests, recurs, now, startTime, threads, signals>>

\* The timeout with the least time left.
LeastDeadline(D) == Min(D)

StartKeyword ==
  /\ MayCall
  /\ ~Stopped
  /\ \A d \in Deadlines : now < d /\ d <= MaxTime
  /\ IF Deadlines = {}
     THEN /\ calls' = Append(calls, LibraryCall(NoThread, Forever))
          /\ UNCHANGED threads
     ELSE /\ NewThread <= MaxThreads
          /\ calls' = Append(calls, LibraryCall(NewThread, LeastDeadline(Deadlines)))
          /\ threads' = Append(threads, "running")
  /\ runningKeyword' = TRUE
  /\ UNCHANGED <<nests, recurs, now, phase, failed, startTime, signals>>

\* The state of the thread that ran the innermost keyword becomes s.
LeaveThread(s) ==
  threads' = IF Top.thread = NoThread THEN threads ELSE [threads EXCEPT ![Top.thread] = s]

\* The keyword passes or fails; in a thread, that is noticed even if the timeout
\* has just expired.
EndKeyword ==
  /\ InLibraryKeyword
  /\ \/ calls' = Front(calls) /\ UNCHANGED <<phase, failed>>
     \/ Unwind(TRUE)
  /\ LeaveThread("ended")
  /\ StopRunningKeyword
  /\ UNCHANGED <<nests, recurs, now, startTime, signals>>

\* stop_thread sets a flag, at which the thread ends when it next runs a line of
\* Python code.
ToldToStop == "stopping"

\* The timeout expires; the keyword may end before its thread is stopped.
TimeoutExpires ==
  /\ InLibraryKeyword /\ Top.deadline <= now
  /\ Unwind(FALSE)
  /\ \E s \in {ToldToStop, "ended"} : LeaveThread(s)
  /\ StopRunningKeyword
  /\ UNCHANGED <<nests, recurs, now, startTime, signals>>

\* A keyword that nobody waits for any more ends in its thread.
AbandonedThreadEnds(t) ==
  /\ Alive(t)
  /\ ~(InLibraryKeyword /\ Top.thread = t)
  /\ threads' = [threads EXCEPT ![t] = "ended"]
  /\ UNCHANGED <<nests, recurs, now, phase, failed, calls, startTime, runningKeyword, signals>>

-----------------------------------------------------------------------------
(* The test, signals and time *)

\* The test's keywords are done, or the teardown is: a test that has passed fails
\* if its timeout has expired by then.
EndPhase ==
  /\ calls = <<>>
  /\ phase \in {"test", "teardown"}
  /\ phase' = Ended(phase)
  /\ failed' = \/ failed
               \/ phase = "teardown" /\ TestSecs # NoTimeout /\ TestStart + TestSecs <= now
  /\ UNCHANGED <<nests, recurs, now, calls, startTime, threads, runningKeyword, signals>>

FlagAfterSignal == runningKeyword

\* Every library keyword that an exception leaves clears the flag.
FlagAfterUnwinding ==
  runningKeyword /\ \A i \in (Len(calls') + 1)..Len(calls) : calls[i].type = "user"

\* The first signal raises an exception in the main thread if a keyword is being
\* run.  A keyword in the main thread may swallow it; when the main thread waits
\* for a keyword, the wait ends.
FirstSignal ==
  /\ signals = 0 /\ MaxSignals >= 1
  /\ phase \in {"test", "teardown"}
  /\ signals' = 1
  /\ IF runningKeyword
     THEN \/ /\ InLibraryKeyword /\ Top.thread = NoThread
             /\ runningKeyword' = FlagAfterSignal
             /\ UNCHANGED <<phase, failed, calls>>
          \/ Unwind(FALSE) /\ runningKeyword' = FlagAfterUnwinding
     ELSE UNCHANGED <<phase, failed, calls, runningKeyword>>
  /\ UNCHANGED <<nests, recurs, now, startTime, threads>>

\* The second one ends the process.
SecondSignal ==
  /\ signals = 1 /\ MaxSignals >= 2
  /\ phase \in {"test", "teardown"}
  /\ signals' = 2
  /\ phase' = "killed" /\ calls' = <<>>
  /\ threads' = [t \in DOMAIN threads |-> "ended"]
  /\ runningKeyword' = FALSE
  /\ UNCHANGED <<nests, recurs, now, failed, startTime>>

Tick ==
  /\ phase \in {"test", "teardown"}
  /\ now < MaxTime
  /\ now' = now + 1
  /\ UNCHANGED <<nests, recurs, phase, failed, calls, startTime, threads, runningKeyword, signals>>

Over == phase \in {"over", "killed"} /\ UNCHANGED vars

Next ==
  \/ \E h \in Handlers : StartUserKeyword(h)
  \/ EndUserKeyword
  \/ RefuseKeyword \/ StartKeyword \/ EndKeyword \/ TimeoutExpires
  \/ \E t \in DOMAIN threads : AbandonedThreadEnds(t)
  \/ EndPhase
  \/ FirstSignal \/ SecondSignal
  \/ Tick
  \/ Over

\* Time passes, and a wait whose timeout has expired ends.  Keywords need not end.
Spec == Init /\ [][Next]_vars /\ WF_vars(Tick) /\ WF_vars(TimeoutExpires)

-----------------------------------------------------------------------------
(* Properties *)

Calls == [type: {"user"}, handler: Handlers, begun: 1..MaxTime]
         \cup [type: {"library"}, thread: 0..MaxThreads, deadline: 1..Forever]

\* The type invariant.
TypeOK ==
  /\ {nests, recurs} \subseteq BOOLEAN /\ now \in 1..MaxTime
  /\ phase \in {"test", "teardown", "over", "killed"}
  /\ failed \in BOOLEAN
  /\ calls \in Seq(Calls) /\ Len(calls) <= MaxDepth
  /\ startTime \in [Handlers -> 0..MaxTime]
  /\ threads \in Seq({"running", "stopping", "ended"}) /\ Len(threads) <= MaxThreads
  /\ runningKeyword \in BOOLEAN /\ (runningKeyword => calls # <<>>)
  /\ signals \in 0..2

\* When the timeouts of the calls around call i expire, each counted from the
\* beginning of its own call.
CallDeadlines(i) ==
  {calls[j].begun + Secs[calls[j].handler] :
     j \in {k \in UserCalls(i - 1) : Secs[calls[k].handler] # NoTimeout}}
  \cup (IF phase = "test" /\ TestSecs # NoTimeout THEN {TestStart + TestSecs} ELSE {})

\* Whether d is when a library keyword is to be left that is run while the timeouts
\* around it expire at the times D: the least of them, and never if there are none.
\* All calls of a user keyword share its timeout, so that one that uses itself gets
\* more time than that (userkeyword.py:117), but never less, and never forever.
IsGiven(d, D) ==
  /\ d >= Min(D \cup {Forever})
  /\ d < Forever <=> D # {}
  /\ ~recurs => d = Min(D \cup {Forever})

\* AdvancedFeatures.txt: "If the total time of the whole keyword is longer than the
\* timeout value, the currently executed keyword is stopped", and of several
\* timeouts "the active timeout is the one with the least time left": that is how
\* long the main thread waits for a library keyword.  In a teardown only user
\* keyword timeouts count.
LeastTimeLeftIsUsed ==
  \A i \in DOMAIN calls :
    calls[i].type = "library" => IsGiven(calls[i].deadline, CallDeadlines(i))

\* TestExecution.txt: with Python "the execution is stopped immediately" by a
\* signal, so the monitor knows that a library keyword is being run, in whatever
\* user keywords, teardowns and after whatever timeouts.  A keyword in the main
\* thread that runs others is an exception: the first of them clears the flag.
SignalReachesKeyword ==
  phase # "killed" /\ InLibraryKeyword /\ (nests => Top.thread # NoThread) => runningKeyword

\* The keywords that nobody waits for, but that were not told to stop either.
LeftRunning ==
  {t \in DOMAIN threads : threads[t] = "running" /\ ~(InLibraryKeyword /\ Top.thread = t)}

\* A timeout leaves no keyword running that goes on as if nothing had happened; a
\* signal leaves the one that was run when it came, and no other: not in the
\* teardown that follows, and whatever times out there.
AbandonedKeywordsAreStopped ==
  /\ signals = 0 => LeftRunning = {}
  /\ \A t, u \in LeftRunning : t = u

\* A keyword with a timeout does not hang: the main thread waits until its
\* deadline at most, whatever the keyword does.
HangingKeywordsAreLeft ==
  \A t \in 1..MaxThreads :
    (InLibraryKeyword /\ Top.thread = t) ~> ~(InLibraryKeyword /\ Top.thread = t)

\* A library keyword is given the least time left, threads that are left are told
\* to stop, all but the one a signal finds, and a signal reaches the keyword that
\* is run.
KeywordsAreUnderControl ==
  TypeOK /\ LeastTimeLeftIsUsed /\ AbandonedKeywordsAreStopped /\ SignalReachesKeyword

=============================================================================
