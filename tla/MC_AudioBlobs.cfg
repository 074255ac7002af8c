SPECIFICATION LaneSpec
CONSTANTS
    Handlers = {h1, h2}
    Parts = {p1, p2}
    Hashes = {x1, x2, x3}
    None = None
    MaxAttempts = 4
    MaxFaults = 2
    MaxGiveUps = 1
    MaxSweeps = 4
    MaxShared = 2
CHECK_DEADLOCK FALSE
INVARIANT BlobsSound
PROPERTY LaneSettles
