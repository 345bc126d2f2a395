CONSTANTS
    Characters <- MCCharacters
    MaxText = 3
    MaxOther = 2
    Keys <- MCKeys
    PlainUpdates = FALSE
    Tables <- MCTables
    Pieces <- MCPieces
    MaxPieces = 3
    MaxArgs = 2
    Conditions <- MCConditions
    MaxConditions = 4
    Keywords = {"assign", "test", "suite", "global", "file", "resource"}
    MaxDepth = 3
    MaxSuites = 4
    MaxTests = 2
    MaxKeywords = 1
    MaxWrites = 3
SPECIFICATION VariablesSpec
CHECK_DEADLOCK FALSE
INVARIANTS
    VariablesAreKnown
    TextsAgree
    VariablesMeanTheirValues
    TableRowsAreSet
