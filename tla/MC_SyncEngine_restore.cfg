\* One device whose database file is restored once, with two faults: every
\* order of capture, push, late request, crash and restore.
SPECIFICATION FairSpec
CONSTANTS
    a = a
    b = b
    Devices = {a}
    Keys = {k1}
    ChunkRows = 1
    MaxPush = 2
    PullLimit = 2
    GroupSizes = {1, 2}
    WriteBudget <- ATwo
    RestoreBudget <- AOne
    FaultBudget <- ATwo
INVARIANTS
    NoSilentLoss
    AckedIsStored
PROPERTIES
    LogSpec
    Converges
