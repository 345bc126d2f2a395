CONSTANTS
    Listeners <- MCListeners
    Version <- MCVersion
    Broken = {"broken"}
    SplitOutputs = TRUE
    MaxNesting = 2
    MaxFailures = 2
SPECIFICATION Spec
INVARIANTS LoggersAreTold
