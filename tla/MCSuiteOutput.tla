---------------------------- MODULE MCSuiteOutput ----------------------------
(***************************************************************************)
(* A tree for TLC in which outputs are split right below the root: a suite *)
(* with a sub suite of its own, both in one file, and then a second file.  *)
(***************************************************************************)
EXTENDS SuiteOutput

CONSTANTS root, first, inner, second, t1, t2, t3, noTest, globalScope

TreeSuites == {root, first, inner, second}
TreeTests == {t1, t2, t3}
TreeSubSuites ==
  [s \in TreeSuites |-> IF s = root THEN <<first, second>>
                        ELSE IF s = first THEN <<inner>> ELSE <<>>]
TreeTestsOf ==
  [s \in TreeSuites |-> IF s = inner THEN <<t1>>
                        ELSE IF s = first THEN <<t2>>
                        ELSE IF s = second THEN <<t3>> ELSE <<>>]
NotCritical == {}
DefaultMode == {m \in Mode : ~m.exitOnFailure /\ ~m.skipTeardownOnExit}

=============================================================================
