----------------------------- MODULE MCSuiteRun -----------------------------
(***************************************************************************)
(* A suite tree for TLC: a suite with a sub suite, so that errors are      *)
(* saved and restored more than once, and a second suite after it, so that *)
(* what happens in one suite can affect the next.                          *)
(***************************************************************************)
EXTENDS SuiteRun

CONSTANTS root, first, inner, second, t1, t2, t3, noTest

TreeSuites == {root, first, inner, second}
TreeTests == {t1, t2, t3}
TreeSubSuites ==
  [s \in TreeSuites |-> IF s = root THEN <<first, second>>
                        ELSE IF s = first THEN <<inner>> ELSE <<>>]
TreeTestsOf ==
  [s \in TreeSuites |-> IF s = inner THEN <<t1>>
                        ELSE IF s = first THEN <<t2>>
                        ELSE IF s = second THEN <<t3>> ELSE <<>>]
TreeCritical == {t1, t3}

\* One of the two options at a time.
OneOption == {m \in Mode : m.exitOnFailure # m.skipTeardownOnExit}
ExitOnFailureMode == {m \in Mode : m.exitOnFailure /\ ~m.skipTeardownOnExit}
DefaultMode == {m \in Mode : ~m.exitOnFailure /\ ~m.skipTeardownOnExit}

=============================================================================
