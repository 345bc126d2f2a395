CONSTANTS
    Nodes <- ProgramNodes
    Bodies <- AllBodies
    Kind <- ProgramKind
    Steps <- ProgramSteps
    Rounds <- ProgramRounds
    Assigning <- ProgramAssigning
    Modes <- AllModes
    ImportedFiles <- MCFiles
    InvalidFiles <- MCInvalidFiles
    SysPath <- MCSysPath
    Libraries <- MCLibraries
    SuiteImports <- MCSuiteImports
    SuiteKeywords <- MCSuiteKeywords
    Names <- MCNames
    Orders <- MCOrders
    Tokens <- MCTokens
    MaxTokens = 3
    Written <- MCWritten
    MaxWritten = 3
    JavaMethods <- MCJavaMethods
    JavaValues <- MCJavaValues
SPECIFICATION KeywordsSpec
CHECK_DEADLOCK FALSE
INVARIANTS
    ResultsAreComplete
    KeywordsAreFound
    ArgumentsAgree
PROPERTIES
    FailuresGoUp
    SuiteImportsEnd
