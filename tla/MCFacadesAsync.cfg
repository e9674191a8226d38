SPECIFICATION CompatSpec
CONSTANTS
    Scenarios <- MCScenarios
CHECK_DEADLOCK FALSE
INVARIANT
    AsyncAsSync
