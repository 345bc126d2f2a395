CONSTANTS
  root = root
  first = first
  inner = inner
  second = second
  t1 = t1
  t2 = t2
  t3 = t3
  noTest = noTest
  globalScope = globalScope
  NoTest <- noTest
  GlobalScope <- globalScope
  Root <- root
  Suites <- TreeSuites
  Tests <- TreeTests
  SubSuites <- TreeSubSuites
  TestsOf <- TreeTestsOf
  Critical <- NotCritical
  RunModes <- DefaultMode
  SplitLevel = 1
  WithLog = TRUE
SPECIFICATION OutputSpec
INVARIANTS OutputsAreRight
