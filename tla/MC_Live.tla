------------------------------- MODULE MC_Live -------------------------------
(* From the microphone to the transcript, in parts that are explored each    *)
(* from its own states: the ring under its two threads, the drain of two     *)
(* rings, the capture's streams, the live chunks, the backfill and the       *)
(* engines with their model files.                                           *)
EXTENDS LiveChunks, CaptureStreams, RingBuffer, MixedDrain, Backfill, EngineModels

VARIABLE part
liveVars == <<part, chunkVars, captureVars, ringVars, drainVars, backfillVars, modelVars>>

(* The live chunks in four scopes: a session by itself, one beside a         *)
(* dictation, one whose ring is replaced, and a replaced ring beside a       *)
(* dictation.  Beside a dictation the speech begins with the ring and ends   *)
(* anywhere, and a stop comes when all but two frames are written.           *)
ChunkScopes == {"session", "dictated", "replaced", "both"}
OneUtterance == loud' \in {Span(0, n) : n \in 0..written'}
InScope ==
  \/ part = "session" /\ dictation'.at = "none" /\ gen' = 0
  \/ part = "dictated" /\ gen' = 0 /\ written' < MaxPos /\ OneUtterance
       /\ (dead' => written' < MaxPos - 1) /\ stopAt' \in {None, MaxPos - 1}
  \/ part = "replaced" /\ dictation'.at = "none" /\ written' < MaxPos /\ ~dead'
  \/ part = "both" /\ written' < MaxPos - 1 /\ OneUtterance
       /\ (dead' => gen' = 0) /\ stopAt' = None

LiveInit ==
  /\ part \in ChunkScopes \cup {"capture", "ring", "drain", "backfill", "engine"}
  /\ ChunkInit /\ CaptureInit /\ RingInit /\ DrainInit /\ BackfillInit /\ ModelsInit
  /\ part \notin {"session", "replaced"} => written = 0
  /\ part # "capture" => capture = "idle" /\ default = CHOOSE f \in [Labels -> Inputs \cup Outputs] :
                                                          f["mic"] \in Inputs /\ f["system"] \in Outputs
  /\ part # "backfill" => total = 1
  /\ part # "engine" => \A b \in Bundles : onDisk[b] = {}

LiveNext ==
  \/ /\ part \in ChunkScopes /\ ChunkNext /\ InScope
     /\ UNCHANGED <<part, captureVars, ringVars, drainVars, backfillVars, modelVars>>
  \/ /\ part = "capture" /\ CaptureNext
     /\ UNCHANGED <<part, chunkVars, ringVars, drainVars, backfillVars, modelVars>>
  \/ /\ part = "ring" /\ RingNext
     /\ UNCHANGED <<part, chunkVars, captureVars, drainVars, backfillVars, modelVars>>
  \/ /\ part = "drain" /\ DrainNext
     /\ UNCHANGED <<part, chunkVars, captureVars, ringVars, backfillVars, modelVars>>
  \/ /\ part = "backfill" /\ BackfillNext
     /\ UNCHANGED <<part, chunkVars, captureVars, ringVars, drainVars, modelVars>>
  \/ /\ part = "engine" /\ ModelsNext
     /\ UNCHANGED <<part, chunkVars, captureVars, ringVars, drainVars, backfillVars>>

LiveSpec == LiveInit /\ [][LiveNext]_liveVars

OwnName == [i \in Inputs |-> i]

(* Between a callback and a transcription job: snapshot_range under a        *)
(* concurrent write has the sample it names, or a newer one where the writer *)
(* lapped it; extract_since on two rings of different rates passes no frame  *)
(* twice; and the cuts of the backfill put every spoken frame in one job.    *)
AudioReadOnce == RingTypeOK /\ DrainTypeOK /\ SnapshotSound /\ DrainedOnce /\ BackfillExact
==============================================================================
