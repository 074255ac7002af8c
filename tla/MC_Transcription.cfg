\* Sessions end and the lane is shut down: a state without successors is no
\* deadlock.
SPECIFICATION TranscriptionSpec
CONSTANTS
  MaxRuns = 3
  MaxChanges = 1
  MaxLoopCrashes = 1
  Origins = {"mic", "backfill"}
  Producers = {"session"}
  MaxJobs = 2
  MaxToggles = 2
  MaxCrashes = 1
  MaxRespawnFailures = 1
INVARIANTS LanesSound
PROPERTIES SlotsFenced SlotsSettle JobsAnswered
CHECK_DEADLOCK FALSE
