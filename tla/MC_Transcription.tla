--------------------------- MODULE MC_Transcription ---------------------------
(* The commands that start and stop live transcription and the lane that     *)
(* serves it, in two parts that are explored each from its own states: the   *)
(* runtime slots, and the scheduler with the sidecar's client.               *)
EXTENDS LiveSlots, Transcriber

VARIABLE part
transcriptionVars == <<part, slotVars, laneVars>>

TranscriptionInit == part \in {"slots", "lane"} /\ SlotInit /\ LaneInit

SlotsStep(A) == part = "slots" /\ A /\ UNCHANGED <<part, laneVars>>
LaneStep(A)  == part = "lane" /\ A /\ UNCHANGED <<part, slotVars>>

TranscriptionNext == SlotsStep(SlotNext) \/ LaneStep(LaneNext)

(* The fairness of each part, of its own steps.                              *)
TranscriptionSpec ==
  /\ TranscriptionInit /\ [][TranscriptionNext]_transcriptionVars
  /\ \A r \in Runs : /\ WF_transcriptionVars(SlotsStep(StartStep(r)))
                     /\ WF_transcriptionVars(SlotsStep(LoopStep(r)))
  /\ \A k \in Kinds : WF_transcriptionVars(SlotsStep(RevertSlot(k)))
  /\ WF_transcriptionVars(LaneStep(WorkerStep)) /\ WF_transcriptionVars(LaneStep(StopStep))
  /\ WF_transcriptionVars(LaneStep(DropWorker))
===============================================================================
