\* Recordings end: a state without successors is no deadlock.
SPECIFICATION LiveSpec
CONSTANTS
  MaxPos = 4
  Capacity = 5
  MaxChunk = 2
  MinChunk = 1
  PreRoll = 1
  MaxWindows = 1
  MaxSwaps = 1
  Inputs = {i1, i2}
  Outputs = {o1}
  Name <- OwnName
  NoDevice = none
  MaxTries = 3
  MaxShifts = 2
  MaxCalls = 2
  RingCapacity = 3
  MaxSamples = 8
  MaxBurst = 4
  MicRate = 2
  SysRate = 3
  DrainCapacity = 12
  MaxFrames = 8
  MaxWrite = 2
  FrameLen = 2
  SilenceFrames = 2
  ChunkFrames = 5
  PreRollLen = 3
  PauseFrames = 2
  Quantum = 7
  MinPiece = 2
  MinJob = 2
  MaxTotal = 14
  Bundles = {"int8", "sortformer"}
  Files = {"a", "b"}
  Diarizer = "sortformer"
  Calls = {1, 2}
  MaxOps = 4
  MaxKills = 1
INVARIANTS TranscriptSound CaptureSound AudioReadOnce EnginesSound
CHECK_DEADLOCK FALSE
