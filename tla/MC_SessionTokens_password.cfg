SPECIFICATION Spec
CONSTANTS
    Commands = {"password"}
    MaxCalls = 1
    MaxTokens = 3
    MaxRoster = 1
    MaxLosses = 0
    MaxCrashes = 0
INVARIANTS Refreshable
CHECK_DEADLOCK FALSE
