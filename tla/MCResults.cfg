CONSTANTS
    None = None
    Outputs <- MCOutputs
    Settings <- MCSettings
    TemplateLines <- MCTemplateLines
    MaxTemplateLines = 5
    VariableTexts <- MCVariableTexts
    Given <- MCGiven
    DiffNames <- MCDiffNames
    DiffPaths <- MCDiffPaths
    DiffSuites <- MCDiffSuites
    MaxDiffInputs = 3
SPECIFICATION ResultsSpec
CHECK_DEADLOCK FALSE
INVARIANTS
    SelectedResultsAreRight
    RebotTwiceIsRebotOnce
    LogsAndStatisticsAreRight
    TemplateTextsAreFollowed
