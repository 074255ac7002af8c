------------------------------ MODULE AudioFetch ------------------------------
(***************************************************************************)
(* Fetching audio parts on demand: the single-flight registry of the sync  *)
(* crate (audio.rs) as the desktop uses it (sync.rs).  The player's        *)
(* commands run one at a time on the main thread; each admitted part has a *)
(* task, first its starter, then a download thread, which runs beside them *)
(* and calls back into the registry when it ends.  Slots are objects: a    *)
(* task keeps the slot it found, the registry may hold another by then.    *)
(***************************************************************************)
EXTENDS Naturals, Sequences, SequencesExt, FiniteSets

CONSTANTS Parts, Cap,         \* audio parts, and downloads at once
          MaxSubmits, MaxPokes \* bounds on fetches and on cancels, releases and clears
ASSUME FetchAssumption == Cap \in Nat \ {0} /\ MaxSubmits \in Nat /\ MaxPokes \in Nat

Tasks == 1..MaxSubmits
None  == 0

VARIABLES holds,       \* slots: the slot of each part, or None
          slots,       \* FetchSlot by number: [queued, outcome, cancel]
          fifo,        \* queue of [task, part, high]
          running,     \* permits taken
          tasks,       \* each task: [at, part, slot, result]
          onDisk,      \* parts in the fetch cache
          player,      \* the command on the main thread: [at, part, high, task]
          fetchUsed    \* [submit, poke]
fetchVars == <<holds, slots, fifo, running, tasks, onDisk, player, fetchUsed>>

NoSlot   == [queued |-> FALSE, outcome |-> "none", cancel |-> FALSE]
NoTask   == [at |-> "new", part |-> "none", slot |-> None, result |-> "none"]
NoPlayer == [at |-> "idle", part |-> "none", high |-> FALSE, task |-> None]

FetchInit ==
  /\ holds = [p \in Parts |-> None] /\ slots = [s \in Tasks |-> NoSlot]
  /\ fifo = <<>> /\ running = 0 /\ tasks = [t \in Tasks |-> NoTask]
  /\ onDisk = {} /\ player = NoPlayer /\ fetchUsed = [submit |-> 0, poke |-> 0]

(* retain: a part has one entry at most. *)
Places(q, p)  == {i \in 1..Len(q) : q[i].part = p}
Without(q, p) == IF Places(q, p) = {} THEN q ELSE RemoveAt(q, CHOOSE i \in Places(q, p) : TRUE)

(* high entries are a prefix, in their own order. *)
HighEnd == Cardinality({i \in 1..Len(fifo) : fifo[i].high})
Enqueue(q, e, at) == IF e.high THEN InsertAt(q, at + 1, e) ELSE Append(q, e)

------------------------------------------------------------------------------
(* The registry's operations.                                              *)

(* remove: the slot and a queued entry; a running task keeps its permit. *)
Removed(p) == holds' = [holds EXCEPT ![p] = None] /\ fifo' = Without(fifo, p)

(* task_finished: the permit passes to the front of the queue, whose       *)
(* starter then runs on this thread.                                       *)
(* Mutant: nothing queued is started. *)
TaskFinishedIdle(t, slots1) ==
  running' = running - 1 /\ slots' = slots1 /\ tasks' = [tasks EXCEPT ![t].at = "over"] /\ UNCHANGED fifo
TaskFinished(t, slots1) ==
  IF fifo = <<>>
    THEN /\ running' = running - 1 /\ slots' = slots1 /\ UNCHANGED fifo
         /\ tasks' = [tasks EXCEPT ![t].at = "over"]
    ELSE LET q == Head(fifo)
             s == holds[q.part]
         IN /\ fifo' = Tail(fifo) /\ UNCHANGED running
            /\ slots' = IF s = None THEN slots1 ELSE [slots1 EXCEPT ![s].queued = FALSE]
            /\ tasks' = [tasks EXCEPT ![t].at = "over", ![q.task].at = "start"]

------------------------------------------------------------------------------
(* The player's commands.                                                  *)

(* audio_prepare_part: a cached file is served at once ... *)
Prepare(p, high) ==
  /\ player.at = "idle" /\ p \notin onDisk /\ fetchUsed.submit < MaxSubmits
  /\ player' = [at |-> "look", part |-> p, high |-> high, task |-> None]
  /\ UNCHANGED <<holds, slots, fifo, running, tasks, onDisk, fetchUsed>>

(* ... an existing slot is promoted if asked, and reported; a retryable     *)
(* terminal is cleared by the report (slot_to_dto) ...                      *)
Retryable(outcome) == outcome \in {"absent", "nospace", "cancelled", "retry"}
Promoted(p) ==
  LET here == {i \in 1..Len(fifo) : fifo[i].part = p /\ ~fifo[i].high}
  IN IF ~player.high \/ here = {} THEN fifo
     ELSE LET i == CHOOSE k \in here : TRUE
          IN Enqueue(RemoveAt(fifo, i), [fifo[i] EXCEPT !.high = TRUE], HighEnd)
Look ==
  LET p == player.part
  IN /\ player.at = "look" /\ holds[p] # None /\ player' = NoPlayer
     /\ IF Retryable(slots[holds[p]].outcome) THEN Removed(p)
        ELSE fifo' = Promoted(p) /\ UNCHANGED holds
     /\ UNCHANGED <<slots, running, tasks, onDisk, fetchUsed>>

(* ... and a part without one is submitted: started at once or queued.      *)
Submit ==
  LET p == player.part
      t == fetchUsed.submit + 1
  IN /\ player.at = "look" /\ holds[p] = None
     /\ fetchUsed' = [fetchUsed EXCEPT !.submit = t]
     /\ holds' = [holds EXCEPT ![p] = t]
     /\ IF running < Cap
          THEN /\ running' = running + 1 /\ UNCHANGED <<fifo, slots>>
               /\ tasks' = [tasks EXCEPT ![t] = [NoTask EXCEPT !.at = "start", !.part = p]]
               /\ player' = [player EXCEPT !.at = "starting", !.task = t]
          ELSE /\ fifo' = Enqueue(fifo, [task |-> t, part |-> p, high |-> player.high], HighEnd)
               /\ slots' = [slots EXCEPT ![t].queued = TRUE]
               /\ tasks' = [tasks EXCEPT ![t] = [NoTask EXCEPT !.at = "queued", !.part = p]]
               /\ player' = NoPlayer /\ UNCHANGED running
     /\ UNCHANGED onDisk

Poke == player.at = "idle" /\ fetchUsed.poke < MaxPokes /\ fetchUsed' = [fetchUsed EXCEPT !.poke = @ + 1]

(* cancel_if_queued finds the part waiting; cache_clear skips parts in use. *)
Waits(p)     == \E i \in 1..Len(fifo) : fifo[i].part = p
Clearable(p) == p \in onDisk /\ holds[p] = None

(* audio_cancel_part, audio_release_part, audio_cache_clear for one file. *)
(* Mutant: cancel leaves the queued entry. *)
CancelQueued(p) ==
  /\ Poke /\ holds[p] # None /\ holds' = [holds EXCEPT ![p] = None]
  /\ slots' = [slots EXCEPT ![holds[p]].cancel = TRUE]
  /\ UNCHANGED <<fifo, running, tasks, onDisk, player>>
Cancel(p) ==
  /\ Poke /\ holds[p] # None /\ Removed(p)
  /\ slots' = [slots EXCEPT ![holds[p]].cancel = TRUE]
  /\ UNCHANGED <<running, tasks, onDisk, player>>
Release(p) ==
  /\ Poke /\ Waits(p) /\ Removed(p)
  /\ UNCHANGED <<slots, running, tasks, onDisk, player>>
ClearCached(p) ==
  /\ Poke /\ Clearable(p) /\ onDisk' = onDisk \ {p}
  /\ UNCHANGED <<holds, slots, fifo, running, tasks, player>>

------------------------------------------------------------------------------
(* Tasks.                                                                  *)

Started(t) == player' = IF player.task = t THEN NoPlayer ELSE player

(* The starter: a part without a slot any more gives the permit back; the   *)
(* thread takes whatever slot the part has by now; a thread that cannot be  *)
(* spawned leaves its error on it.                                          *)
(* Mutant: a thread that cannot be spawned leaves no error. *)
StartSilent(t) ==
  tasks[t].at = "start" /\ Started(t) /\ TaskFinished(t, slots) /\ UNCHANGED <<holds, onDisk, fetchUsed>>
Start(t) ==
  LET s == holds[tasks[t].part]
  IN /\ tasks[t].at = "start" /\ Started(t)
     /\ \/ s = None /\ TaskFinished(t, slots)
        \/ /\ s # None /\ tasks' = [tasks EXCEPT ![t].at = "work", ![t].slot = s]
           /\ UNCHANGED <<slots, fifo, running>>
        \/ s # None /\ TaskFinished(t, [slots EXCEPT ![s].outcome = "retry"])
     /\ UNCHANGED <<holds, onDisk, fetchUsed>>

(* fetch_blob_to_cache: served by the cache, refused, cancelled, or fetched, *)
(* verified and renamed into place.                                          *)
Results(t) == {"absent", "nospace", "retry", "tampered"} \cup (IF slots[tasks[t].slot].cancel THEN {"cancelled"} ELSE {})
Download(t) ==
  /\ tasks[t].at = "work"
  /\ \/ \E r \in Results(t) : /\ tasks[t].part \notin onDisk /\ UNCHANGED onDisk
                              /\ tasks' = [tasks EXCEPT ![t].at = "finish", ![t].result = r]
     \/ /\ onDisk' = onDisk \cup {tasks[t].part}
        /\ tasks' = [tasks EXCEPT ![t].at = "finish", ![t].result = "fetched"]
  /\ UNCHANGED <<holds, slots, fifo, running, player, fetchUsed>>

(* finish on the task's slot; after a fetch the part's slot is removed -     *)
(* whichever slot that is - and the permit is released.                      *)
Finish(t) ==
  /\ tasks[t].at = "finish"
  /\ slots' = [slots EXCEPT ![tasks[t].slot].outcome = tasks[t].result]
  /\ tasks' = [tasks EXCEPT ![t].at = IF tasks[t].result = "fetched" THEN "remove" ELSE "release"]
  /\ UNCHANGED <<holds, fifo, running, onDisk, player, fetchUsed>>
Settle(t) ==
  /\ tasks[t].at = "remove" /\ Removed(tasks[t].part)
  /\ tasks' = [tasks EXCEPT ![t].at = "release"]
  /\ UNCHANGED <<slots, running, onDisk, player, fetchUsed>>
EndTask(t) ==
  /\ tasks[t].at = "release" /\ TaskFinished(t, slots)
  /\ UNCHANGED <<holds, onDisk, player, fetchUsed>>

FetchNext == \/ Look \/ Submit
             \/ \E p \in Parts : \/ Cancel(p) \/ Release(p) \/ ClearCached(p)
                                 \/ \E high \in BOOLEAN : Prepare(p, high)
             \/ \E t \in Tasks : Start(t) \/ Download(t) \/ Finish(t) \/ Settle(t) \/ EndTask(t)
FetchSpec == FetchInit /\ [][FetchNext]_fetchVars

------------------------------------------------------------------------------
LiveTask == {t \in Tasks : tasks[t].at \in {"start", "work", "finish", "remove", "release"}}

FetchTypeOK ==
  /\ holds \in [Parts -> Tasks \cup {None}] /\ onDisk \subseteq Parts /\ running \in Nat
  /\ \A i \in 1..Len(fifo) : fifo[i].part \in Parts /\ fifo[i].task \in Tasks

(* "at most `cap` downloads RUNNING process-wide": the permits are exactly   *)
(* the live tasks, never more than Cap, and no entry waits while one is free. *)
PermitsExact == running = Cardinality(LiveTask) /\ running <= Cap /\ (fifo # <<>> => running = Cap)

(* A part the player is told is queued or being fetched has a task that will *)
(* answer: waiting in the queue, about to start, or downloading into that    *)
(* very slot.                                                                *)
PendingServed ==
  \A p \in Parts : holds[p] # None /\ slots[holds[p]].outcome = "none" =>
    \/ Waits(p)
    \/ \E t \in LiveTask : tasks[t].part = p /\ (tasks[t].at = "start" \/ tasks[t].slot = holds[p])

(* "never starts after removal": what is queued is a part the registry holds. *)
QueuedHeld == \A i \in 1..Len(fifo) : holds[fifo[i].part] # None

(* "single-flight": one download of a part that nobody cancelled at a time.  *)
SingleFlight == \A t, u \in LiveTask : tasks[t].at = "work" /\ tasks[u].at = "work" /\ tasks[t].part = tasks[u].part
                     /\ ~slots[tasks[t].slot].cancel /\ ~slots[tasks[u].slot].cancel => t = u

(* The registry: permits are neither lost nor doubled, whoever waits is      *)
(* served, and a queued part is held.                                        *)
FetchSound == FetchTypeOK /\ PermitsExact /\ PendingServed /\ QueuedHeld
==============================================================================
