\* Users may stop at any point: a state without successors is no deadlock.
SPECIFICATION AccountSpec
CONSTANTS
  Devices = {d1, d2, d3}
  First = d1
  NoDevice = none
  MaxCommands = 3
  MaxLost = 1
  MaxAttempts = 2
  Writers = {"ui", "drain"}
  Ui = "ui"
  Epochs = {0, 1}
  MaxWrites = 3
  MaxStoreFaults = 2
  MaxDeaths = 1
  Parts = {p1, p2}
  Cap = 1
  MaxSubmits = 3
  MaxPokes = 2
  Recordings = {r1, r2}
  MaxStarts = 2
  MaxBusy = 1
  MaxRetries = 1
  Replicas = {x1, x2}
  NoteIds = {1, 2}
  TagIds = {1, 2}
  MaxClock = 2
  MaxEdits = 2
  MaxMishaps = 1
  Seeds = {"s1", "s2"}
  Seals = {"a", "b", "c"}
  SealSize <- SizeOf
  SealLevel <- LevelOf
  Generations = {1, 2}
  Quota = 5
  NoSeal = "none"
  MaxPublishes = 3
  MaxHeadErrors = 1
INVARIANTS RosterSound StoreSound AudioLanesSound SnapshotsSound RepairsSound
CHECK_DEADLOCK FALSE
