\* Two devices that both write; one restores an old file, the other faults,
\* and they may hold different vault keys.
SPECIFICATION Spec
CONSTANTS
    a = a
    b = b
    Devices = {a, b}
    Keys = {k1, k2}
    ChunkRows = 1
    MaxPush = 2
    PullLimit = 2
    GroupSizes = {1}
    WriteBudget <- EachOne
    RestoreBudget <- AOne
    FaultBudget <- BOne
INVARIANTS
    PulledOrQuarantined
