SPECIFICATION TrafficSpec
CONSTANTS
    Handlers = {h1, h2, h3}
    Clients = {d1, d2}
    NoClient = NoClient
    ClientSeqs = {1, 2}
    c1 = c1
    c2 = c2
    c3 = c3
    Ciphertexts = {c1, c2, c3}
    LevelOf <- TwoLevels
    MaxBatch = 2
    MaxLimit = 1
    Quota = 2
    MaxRequests = 3
    MaxChanges = 1
    MaxRaces = 3
SYMMETRY Symmetry
CHECK_DEADLOCK FALSE
INVARIANTS LogComplete FloorSound LocksSound
PROPERTY LogSpec
