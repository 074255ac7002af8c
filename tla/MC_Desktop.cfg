SPECIFICATION DesktopSpec
CONSTANTS
  Seed = {s1, o1}
  Orphans = {o1}
  Inserts = {i1}
  Tenants = {ta, tb}
  NoTenant = nt
  MaxFaults = 2
  MaxCrashes = 1
  MaxUpgrades = 1
  List <- MCList
  Base <- MCBase
  SyncTables = {"sessions", "chat", "shares"}
  SessionsTable = "sessions"
  OutOfBand <- MCOutOfBand
  MaxErrors = 2
  MaxStarts = 3
  Sessions = {a, b}
  MaxParts = 2
  MaxBoots = 2
  Me = me
  Peer = peer
  NoOwner = none
  Keys = {k1, k2}
  ChangesetRows = 2
  MaxArrivals = 3
  MaxFailures = 1
  MaxRestarts = 1
  Peers = {p1}
  Levels <- OutboxLevels
  MaxDelay = 2
  MaxPeerMoves = 2
  MaxOutages = 2
  MaxLists = 1
INVARIANTS CutoverSafe MigrationsLand RecoverySound StashKept GateSound
PROPERTIES ServedAgain StashDelivered RaiseDelivered
CHECK_DEADLOCK FALSE
