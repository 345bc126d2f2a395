CONSTANTS
  root = root
  first = first
  inner = inner
  second = second
  t1 = t1
  t2 = t2
  t3 = t3
  noTest = noTest
  NoTest <- noTest
  Root <- root
  Suites <- TreeSuites
  Tests <- TreeTests
  SubSuites <- TreeSubSuites
  TestsOf <- TreeTestsOf
  Critical <- TreeCritical
  RunModes <- DefaultMode
SPECIFICATION Spec
PROPERTIES FatalErrorStopsRun
