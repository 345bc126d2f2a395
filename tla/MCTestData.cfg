CONSTANTS
    Offered <- MCOffered
    MaxRows = 5
    MaxTags = 12
    Root = "root"
    Parent <- MCParent
    Directories = {"root", "sub", "_dir"}
    Files = {"a", "b", "c", "init", "other", "sub init"}
    InitFiles = {"init", "other", "sub init"}
    Prefixed = {"_dir"}
    Usage <- MCUsage
    UsageArguments <- MCUsageArguments
    Intended <- MCIntended
    Sources <- MCSources
    Styles <- MCStyles
    AnyLines = FALSE
    FilePaths <- MCPaths
    MaxCalls = 2
SPECIFICATION TestDataSpec
CHECK_DEADLOCK FALSE
INVARIANTS
    TestDataIsReadAsWritten
    ChosenSuitesAreRun
    OptionsAreUnderstood
