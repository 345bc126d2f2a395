CONSTANTS
    timed = timed
    plain = plain
    Handlers <- TwoHandlers
    Secs <- TwoSecs
    TestSecs = 3
    MaxTime = 5
    MaxDepth = 3
    MaxThreads = 2
    MaxSignals = 2
    FileNames = {"a", "b"}
    MaxPathDepth = 3
    MaxFileKeywords = 1
    MaxChanges = 2
    FirstFiles <- MCFirstFiles
    Watched <- MCWatched
    Timeouts <- MCTimeouts
    Commands = {"c"}
    ConnectionNames <- MCNames
    MaxConnections = 1
    MaxConnectionKeywords = 2
    MaxTries = 2
    KeywordsOf <- MCKeywordsOf
    RemoteImports <- MCImports
    Shipping = TRUE
    RemoteValues <- MCValues
    Converted <- HandleArgument
    Returned <- HandleReturnValue
    Sendable <- CanBeSent
    Attempts = 2
    MaxImports = 1
    MaxCalls = 2
    MaxBreaks = 1
    MaxStarts = 2
    Nothing = None
SPECIFICATION WaitingSpec
CHECK_DEADLOCK FALSE
INVARIANTS
    
    AnswersAreTrue
PROPERTIES
    WaitingEnds
