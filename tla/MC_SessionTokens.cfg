\* The user may leave it at that: a state without successors is no deadlock.
SPECIFICATION OfferedSpec
CONSTANTS
    Commands = {"approve", "disable", "enable", "password", "signin", "signout"}
    MaxCalls = 3
    MaxTokens = 3
    MaxRoster = 3
    MaxLosses = 1
    MaxCrashes = 1
INVARIANTS TokensSound
PROPERTIES SessionNeverBack StopEnds
CHECK_DEADLOCK FALSE
