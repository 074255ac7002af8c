----------------------------- MODULE UploadQueue -----------------------------
(***************************************************************************)
(* The desktop's durable audio upload queue: recordings are saved and      *)
(* queued by two separate writes, the uploader thread re-arms what a crash *)
(* or a failure left (spawn_audio_uploader), walks the library for parts   *)
(* that were never queued (backfill_walk) and uploads one part at a time   *)
(* (drain_one).  Every write may fail on a busy database and the           *)
(* application may die between any two.                                    *)
(***************************************************************************)
EXTENDS Naturals, FiniteSets

CONSTANTS Recordings,
          MaxStarts,            \* starts of the uploader
          MaxBusy,              \* reads and writes that fail after their retries
          MaxRetries            \* manual retries
ASSUME UploadAssumption == {MaxStarts, MaxBusy, MaxRetries} \subseteq Nat

VARIABLES library,    \* [Recordings -> "none" | "kept" | "fileless" | "deleted"]: the part's row and its file
          entries,    \* [Recordings -> state of its queue row, or "absent"]
          urgent,     \* parts queued at normal priority
          relayHas,   \* parts whose blob the relay has
          uploader,   \* [at, part, list, skipped], and seen: history - the parts there at the start
          walkMark,   \* WALK_DONE_KEY is set
          temps,      \* seal temps in the directory
          uploadUsed
uploadVars == <<library, entries, urgent, relayHas, uploader, walkMark, temps, uploadUsed>>

NoPart  == "none"
Down    == [at |-> "down", part |-> NoPart, list |-> {}, skipped |-> 0, seen |-> {}]
InFlight(p) == entries[p] \in {"sealing", "uploading"}

UploadInit ==
  /\ library = [p \in Recordings |-> "none"] /\ entries = [p \in Recordings |-> "absent"]
  /\ urgent = {} /\ relayHas = {} /\ uploader = Down /\ walkMark = FALSE /\ temps = 0
  /\ uploadUsed = [start |-> 0, busy |-> 0, retry |-> 0]

Draw(what, bound) == uploadUsed[what] < bound /\ uploadUsed' = [uploadUsed EXCEPT ![what] = @ + 1]
BusyWrite == Draw("busy", MaxBusy)

------------------------------------------------------------------------------
(* The application: a finished recording's row and file, then - a command    *)
(* of its own, which a crash or a busy database may keep from happening -    *)
(* its place in the queue.  Rows and files go when the user deletes.         *)
SavePart(p) ==
  /\ library[p] = "none" /\ library' = [library EXCEPT ![p] = "kept"]
  /\ UNCHANGED <<entries, urgent, relayHas, uploader, walkMark, temps, uploadUsed>>
Enqueued(p) == entries' = [entries EXCEPT ![p] = IF @ = "absent" THEN "pending" ELSE @]   \* INSERT OR IGNORE
EnqueueOnSave(p) ==
  /\ library[p] \in {"kept", "fileless"} /\ entries[p] = "absent"
  /\ Enqueued(p) /\ urgent' = urgent \cup {p}
  /\ UNCHANGED <<library, relayHas, uploader, walkMark, temps, uploadUsed>>
DeletePart(p) ==
  /\ library[p] \in {"kept", "fileless"} /\ (\E s \in {"deleted", "fileless"} \ {library[p]} : library' = [library EXCEPT ![p] = s])
  /\ UNCHANGED <<entries, urgent, relayHas, uploader, walkMark, temps, uploadUsed>>
(* audio_retry_failed_uploads, retry_failed. *)
Rearmed(states) == entries' = [p \in Recordings |-> IF entries[p] \in states THEN "pending" ELSE entries[p]]
RetryFailed ==
  /\ Draw("retry", MaxRetries) /\ Rearmed({"failed"})
  /\ UNCHANGED <<library, urgent, relayHas, uploader, walkMark, temps>>

------------------------------------------------------------------------------
(* The uploader starts: orphaned temps go, in-flight and failed entries       *)
(* become pending - or stay as they are when the database is busy.            *)
StartUploader ==
  /\ uploader.at = "down" /\ Draw("start", MaxStarts) /\ temps' = 0
  /\ uploader' = [Down EXCEPT !.at = "rearm", !.seen = {p \in Recordings : library[p] = "kept"}]
  /\ UNCHANGED <<library, entries, urgent, relayHas, walkMark>>
RearmFails ==
  /\ uploader.at = "rearm" /\ BusyWrite /\ uploader' = [uploader EXCEPT !.at = "walk"]
  /\ \/ UNCHANGED entries \/ Rearmed({"failed"}) \/ Rearmed({"sealing", "uploading"})
  /\ UNCHANGED <<library, urgent, relayHas, walkMark, temps>>
Rearm ==
  /\ uploader.at = "rearm" /\ Rearmed({"sealing", "uploading", "failed"})
  /\ uploader' = [uploader EXCEPT !.at = "walk"]
  /\ UNCHANGED <<library, urgent, relayHas, walkMark, temps, uploadUsed>>

(* backfill_walk reads the list of parts first - on every start, whatever      *)
(* the mark says - then looks at one after another.                            *)
(* Mutant: a library that was walked once is not walked again. *)
WalkListOnce == IF walkMark THEN {} ELSE {p \in Recordings : library[p] \in {"kept", "fileless"}}
WalkList     == {p \in Recordings : library[p] \in {"kept", "fileless"}}
WalkBegin ==
  /\ uploader.at = "walk" /\ uploader' = [uploader EXCEPT !.at = "walking", !.list = WalkList]
  /\ UNCHANGED <<library, entries, urgent, relayHas, walkMark, temps, uploadUsed>>
WalkPart(p) ==
  /\ uploader.at = "walking" /\ p \in uploader.list
  /\ \/ library[p] # "kept" /\ UNCHANGED <<entries, uploadUsed>> /\ uploader' = [uploader EXCEPT !.list = @ \ {p}]
     \/ library[p] = "kept" /\ Enqueued(p) /\ UNCHANGED uploadUsed /\ uploader' = [uploader EXCEPT !.list = @ \ {p}]
     \/ /\ library[p] = "kept" /\ BusyWrite /\ UNCHANGED entries
        /\ uploader' = [uploader EXCEPT !.list = @ \ {p}, !.skipped = @ + 1]
  /\ UNCHANGED <<library, urgent, relayHas, walkMark, temps>>
WalkEnd ==
  /\ uploader.at = "walking" /\ uploader.list = {}
  /\ uploader' = [uploader EXCEPT !.at = "drain"]
  /\ walkMark' \in IF uploader.skipped = 0 THEN {TRUE, walkMark} ELSE {walkMark}
  /\ UNCHANGED <<library, entries, urgent, relayHas, temps, uploadUsed>>
(* The queue's table or one of the two lists - the sessions' parts, then the  *)
(* dictations' - cannot be read: the rest is stepped over, which the uploader *)
(* logs before it goes on to the queue.                                       *)
WalkFails ==
  /\ uploader.at \in {"walk", "walking"} /\ BusyWrite
  /\ uploader' = [uploader EXCEPT !.at = "drain", !.list = {}, !.skipped = @ + 1]
  /\ UNCHANGED <<library, entries, urgent, relayHas, walkMark, temps>>

------------------------------------------------------------------------------
(* drain_one.                                                              *)

(* The first pending entry by priority; of a deleted part it is dropped. *)
NextReady(p) == entries[p] = "pending" /\ (p \in urgent \/ ~\E q \in urgent : entries[q] = "pending")
TakePart(p) ==
  /\ uploader.at = "drain" /\ NextReady(p)
  /\ IF library[p] = "deleted"
       THEN entries' = [entries EXCEPT ![p] = "absent"] /\ urgent' = urgent \ {p} /\ UNCHANGED <<uploader, temps>>
       ELSE /\ entries' = [entries EXCEPT ![p] = "sealing"] /\ temps' = temps + 1
            /\ uploader' = [uploader EXCEPT !.at = "seal", !.part = p] /\ UNCHANGED urgent
  /\ UNCHANGED <<library, relayHas, walkMark, uploadUsed>>

UploaderBack == uploader' = [uploader EXCEPT !.at = "drain", !.part = NoPart]
FailPart ==
  /\ uploader.at \in {"seal", "upload"} /\ UploaderBack /\ temps' = temps - 1
  /\ entries' = [entries EXCEPT ![uploader.part] = "failed"]
  /\ UNCHANGED <<library, urgent, relayHas, walkMark, uploadUsed>>
SealPart ==
  /\ uploader.at = "seal" /\ library[uploader.part] = "kept"
  /\ entries' = [entries EXCEPT ![uploader.part] = "uploading"] /\ uploader' = [uploader EXCEPT !.at = "upload"]
  /\ UNCHANGED <<library, urgent, relayHas, walkMark, temps, uploadUsed>>
PutPart ==
  /\ uploader.at = "upload" /\ relayHas' = relayHas \cup {uploader.part}
  /\ uploader' = [uploader EXCEPT !.at = "record"]
  /\ UNCHANGED <<library, entries, urgent, walkMark, temps, uploadUsed>>
RecordDone ==
  /\ uploader.at = "record" /\ UploaderBack /\ temps' = temps - 1
  /\ entries' = [entries EXCEPT ![uploader.part] = "done"]
  /\ UNCHANGED <<library, urgent, relayHas, walkMark, uploadUsed>>
(* Recording the failure, or the success, fails: the cycle ends, the entry    *)
(* keeps the state it had.                                                    *)
BookkeepingFails ==
  /\ uploader.at \in {"seal", "upload", "record"} /\ BusyWrite /\ UploaderBack /\ temps' = temps - 1
  /\ UNCHANGED <<library, entries, urgent, relayHas, walkMark>>

(* The thread is stopped between parts; the application is killed anywhere. *)
StopUploader ==
  /\ uploader.at \in {"rearm", "walk", "drain"} /\ uploader' = Down
  /\ UNCHANGED <<library, entries, urgent, relayHas, walkMark, temps, uploadUsed>>
Kill ==
  /\ uploader.at # "down" /\ uploader' = Down
  /\ UNCHANGED <<library, entries, urgent, relayHas, walkMark, temps, uploadUsed>>

UploadNext ==
  \/ \E p \in Recordings : SavePart(p) \/ EnqueueOnSave(p) \/ DeletePart(p) \/ WalkPart(p) \/ TakePart(p)
  \/ RetryFailed \/ StartUploader \/ Rearm \/ RearmFails \/ WalkBegin \/ WalkEnd \/ WalkFails
  \/ SealPart \/ PutPart \/ RecordDone \/ FailPart \/ BookkeepingFails \/ StopUploader \/ Kill
UploadSpec == UploadInit /\ [][UploadNext]_uploadVars

------------------------------------------------------------------------------
UploadTypeOK ==
  /\ uploader.at \in {"down", "rearm", "walk", "walking", "drain", "seal", "upload", "record"}
  /\ (uploader.part # NoPart => uploader.part \in Recordings) /\ temps \in Nat

(* Once a start has walked the library and stepped over nothing, every part    *)
(* that was there when the application came up is queued, whatever crash or    *)
(* failed write had kept it out before.                                        *)
Walked == uploader.at \in {"drain", "seal", "upload", "record"} /\ uploader.skipped = 0
NoneForgotten == Walked => \A p \in uploader.seen : library[p] = "kept" => entries[p] # "absent"

(* What the queue calls done the relay has, through re-arming, repeats and      *)
(* crashes between the upload and its record.                                   *)
DoneUploaded == \A p \in Recordings : entries[p] = "done" => p \in relayHas

(* "back off and retry next cycle": an entry in flight is the one the uploader  *)
(* is working on.                                                               *)
InFlightOwned == Walked => \A p \in Recordings : InFlight(p) => uploader.part = p
==============================================================================
