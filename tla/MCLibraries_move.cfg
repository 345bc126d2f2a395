CONSTANTS
    outer = outer
    inner = inner
    perTest = perTest
    perSuite = perSuite
    alias = alias
    Suites <- NestedSuites
    Root = outer
    SubSuites <- NestedSubSuites
    TestCount <- TwoTests
    Libraries <- TwoLibraries
    Scope <- TwoScopes
    Dynamic = {}
    Names = {alias}
    Imports <- NestedImports
    Runtime <- ImportAtRuntime
    Inverted <- Ordinary
    FileNames = {"a", "b"}
    MaxPathDepth = 3
    MaxFileKeywords = 1
    MaxChanges = 2
    FirstFiles <- MCFirstFiles
    Watched <- MCWatched
    Timeouts <- MCTimeouts
    ItemValues = {0, 1}
    MaxLength = 3
    Commands = {"c", "d"}
    ConnectionNames <- MCNames
    MaxConnections = 2
    MaxConnectionKeywords = 2
    MaxTries = 2
    NoTime = None
    Durations <- MCDurations
    Moments <- MCMoments
    Zones <- MCZones
    TwoDigits = TRUE
    NoTest = None
    TopSuite = "top"
    SuitesOf <- MCSubSuites
    TestsOf <- MCTestsOf
    Tags = {"a", "n"}
    WrittenTags <- MCWrittenTags
    TagValue <- MCTagValue
    Critical = {"a"}
    NonCritical = {"n"}
    MaxStatusKeywords = 2
    Unit = 10000000
    PathCharacters = {"/", ".", "a"}
    MaxPath = 5
    MaxPart = 3
SPECIFICATION LibrariesSpec
CHECK_DEADLOCK FALSE
PROPERTIES
    DirectoriesGoToDestination
