----------------------------- MODULE TestResults -----------------------------
(***************************************************************************)
(* What a test run promises about the verdicts of its tests, whatever the  *)
(* suites, fixtures and run modes are: every test gets one verdict, in the *)
(* execution order and one test at a time; nothing passes once the         *)
(* execution is being stopped; a given verdict changes only when a suite   *)
(* teardown fails, and then to FAIL, for all the tests of the suite        *)
(* together.  SuiteRun implements this specification.                      *)
(***************************************************************************)
CONSTANTS
  Tests,
  Before,    \* pairs of tests: the first must be decided when the second starts
  Groups     \* the sets of tests a failing suite teardown fails

VARIABLES verdict, stopped

resultsVars == <<verdict, stopped>>

Decided(t) == verdict[t] \in {"PASS", "FAIL"}

Running(t) == verdict[t] = "RUNNING"

Init ==
  /\ verdict = [t \in Tests |-> "NOT_RUN"]
  /\ stopped = FALSE

Start(t) ==
  /\ verdict[t] = "NOT_RUN"
  /\ \A u \in Tests : ~Running(u) /\ (<<u, t>> \in Before => Decided(u))
  /\ verdict' = [verdict EXCEPT ![t] = "RUNNING"]
  /\ UNCHANGED stopped

\* Only a running test stops the execution.
Stop ==
  /\ \E t \in Tests : Running(t)
  /\ stopped' = TRUE
  /\ UNCHANGED verdict

Pass(t) ==
  /\ Running(t) /\ ~stopped
  /\ verdict' = [verdict EXCEPT ![t] = "PASS"]
  /\ UNCHANGED stopped

Fail(t) ==
  /\ Running(t)
  /\ verdict' = [verdict EXCEPT ![t] = "FAIL"]
  /\ UNCHANGED stopped

\* A suite teardown fails: its tests have all been decided.
FailGroup(G) ==
  /\ \A t \in Tests : ~Running(t)
  /\ \A t \in G : Decided(t)
  /\ verdict' = [t \in Tests |-> IF t \in G THEN "FAIL" ELSE verdict[t]]
  /\ UNCHANGED stopped

Next ==
  \/ Stop
  \/ \E t \in Tests : Start(t) \/ Pass(t) \/ Fail(t)
  \/ \E G \in Groups : FailGroup(G)

\* Started tests are decided and the next one is started.
Fairness ==
  \A t \in Tests : WF_resultsVars(Start(t)) /\ WF_resultsVars(Pass(t) \/ Fail(t))

\* What may happen, and that it goes on.
SafeSpec == Init /\ [][Next]_resultsVars
Spec == SafeSpec /\ Fairness

=============================================================================
