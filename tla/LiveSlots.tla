------------------------------- MODULE LiveSlots -------------------------------
(* Who may run a live transcription, who owns the microphone and who may     *)
(* rebind a stream: start_live_transcription, stop_live_transcription, the   *)
(* finalizer of the spawned loop, preflight, and the device broker with its  *)
(* routing decision.  A run is one call of the start command, from its       *)
(* reservation of a slot to the end of the loop it spawned.  A restart may   *)
(* replace the ring buffer, which makes every position read from the old one *)
(* meaningless; LiveChunks has the positions, here only the right to restart *)
(* matters.                                                                  *)
EXTENDS Naturals, FiniteSets

CONSTANTS MaxRuns,     \* bound on calls of the start command
          MaxChanges,  \* bound on changes of the system's default device
          MaxLoopCrashes   \* bound on loops that end without a stop

ASSUME LiveSlotsAssumption == {MaxRuns, MaxChanges, MaxLoopCrashes} \subseteq Nat

VARIABLES slot,        \* the runtime slot of each kind
          run,         \* where each run is, and its kind
          reverting,   \* kinds whose revert task is spawned and has not run
          inbox,       \* the session whose sender is published
          intents,     \* runs with a restart intent in their channel
          present,     \* LiveSessionPresent
          window,      \* the run whose microphone window is open
          broker,      \* where the broker is in its handling of one event
          raced,       \* a late step of a dead run hit a younger one
          changes, crashes
slotVars == <<slot, run, reverting, inbox, intents, present, window, broker, raced, changes, crashes>>

Runs     == 1..MaxRuns
NoRun    == 0
Kinds    == {"session", "dictation"}
Starting == {"preflight", "setup", "publish", "lookup", "install"}
Looping  == {"live", "flush"}
Points   == Starting \cup Looping
              \cup {"unused", "dropRevert", "dropMic", "close", "vacate", "unmark", "over"}

At(r, p) == run' = [run EXCEPT ![r] = [kind |-> IF p = "over" THEN "session" ELSE @.kind, at |-> p]]
(* A session's loop has positions in the ring from set-up to its last flush. *)
LiveSessions == {r \in Runs : run[r].kind = "session" /\ run[r].at \in Looping}
Spawning     == {r \in Runs : run[r].kind = "session" /\ run[r].at = "install"} \cup LiveSessions

SlotInit ==
  /\ slot = [k \in Kinds |-> "idle"]
  /\ run = [r \in Runs |-> [kind |-> "session", at |-> "unused"]]
  /\ reverting = {} /\ inbox = NoRun /\ intents = {} /\ present = FALSE
  /\ window = NoRun
  /\ broker = "idle" /\ raced = FALSE
  /\ changes = 0 /\ crashes = 0

------------------------------------------------------------------------------
(* start_live_transcription                                                  *)

(* Mutant: the session start clears the windows without asking for the      *)
(* dictation's slot.                                                         *)
ReserveClears(r, k) ==
  /\ run[r].at = "unused" /\ \A q \in 1..(r - 1) : run[q].at # "unused"
  /\ slot[k] = "idle"
  /\ slot' = [slot EXCEPT ![k] = "starting"]
  /\ window' = IF k = "dictation" THEN r ELSE NoRun
  /\ run' = [run EXCEPT ![r] =
       [kind |-> k,
        at |-> IF k = "dictation" /\ slot["session"] # "idle" THEN "setup" ELSE "preflight"]]
  /\ UNCHANGED <<reverting, inbox, intents, present, broker, raced,
                 changes, crashes>>
(* The reservation, under the lock: a slot that is not idle refuses the      *)
(* call.  A session clears the windows a dead dictation left when no         *)
(* dictation has a slot; a dictation opens its window and, beside a session, *)
(* skips preflight.                                                          *)
Reserve(r, k) ==
  /\ run[r].at = "unused" /\ \A q \in 1..(r - 1) : run[q].at # "unused"
  /\ slot[k] = "idle"
  /\ slot' = [slot EXCEPT ![k] = "starting"]
  /\ window' = CASE k = "dictation" -> r
                 [] k = "session" /\ slot["dictation"] = "idle" -> NoRun
                 [] OTHER -> window
  /\ run' = [run EXCEPT ![r] =
       [kind |-> k,
        at |-> IF k = "dictation" /\ slot["session"] # "idle" THEN "setup" ELSE "preflight"]]
  /\ UNCHANGED <<reverting, inbox, intents, present, broker, raced,
                 changes, crashes>>

(* preflight_stream_health: a stalled or failed stream is restarted with its *)
(* binding kept, in a new ring when the format changed; a microphone that    *)
(* cannot be restarted fails the call.                                       *)
PreflightRun(r) ==
  /\ run[r].at = "preflight"
  /\ At(r, "setup")
  /\ UNCHANGED <<slot, reverting, inbox, intents, present, window, broker,
                 raced, changes, crashes>>

(* The session file and its flush positions, read from the current ring.     *)
Setup(r) ==
  /\ run[r].at = "setup"
  /\ At(r, "publish")
  /\ UNCHANGED <<slot, reverting, inbox, intents, present, window, broker,
                 raced, changes, crashes>>

(* Only a session publishes the sender of its restart channel.               *)
PublishInbox(r) ==
  /\ run[r].at = "publish" /\ At(r, "lookup")
  /\ inbox' = IF run[r].kind = "session" THEN r ELSE inbox
  /\ UNCHANGED <<slot, reverting, intents, present, window, broker,
                 raced, changes, crashes>>

(* The scheduler is looked up, and LiveSessionPresent is set before the loop *)
(* is spawned.                                                               *)
MarkPresent(r) ==
  /\ run[r].at = "lookup" /\ At(r, "install")
  /\ present' = (present \/ run[r].kind = "session")
  /\ UNCHANGED <<slot, reverting, inbox, intents, window, broker,
                 raced, changes, crashes>>

(* Mutant: the loop may end before Running is installed, and is then         *)
(* overwritten.                                                              *)
InstallLate(r) ==
  /\ run[r].at = "install"
  /\ \E p \in {"live", "over"} : At(r, p)
  /\ slot' = [slot EXCEPT ![run[r].kind] = "running"]
  /\ UNCHANGED <<reverting, inbox, intents, present, window, broker,
                 raced, changes, crashes>>
(* The loop is spawned and Running installed under one lock, so that the     *)
(* loop's finalizer cannot come between the two.                             *)
Install(r) ==
  /\ run[r].at = "install" /\ At(r, "live")
  /\ slot' = [slot EXCEPT ![run[r].kind] = "running"]
  /\ UNCHANGED <<reverting, inbox, intents, present, window, broker,
                 raced, changes, crashes>>

(* A set-up step fails.  The two guards are dropped one after the other: the *)
(* slot's guard spawns the task that will revert it, then the microphone's   *)
(* guard clears the open window.                                             *)
FailStart(r) ==
  /\ run[r].at \in {"preflight", "setup", "lookup"} /\ At(r, "dropRevert")
  /\ UNCHANGED <<slot, reverting, inbox, intents, present, window, broker, raced, changes, crashes>>

(* Mutant: a failed start leaves its slot reserved. *)
DropRevertGuardDisarmed(r) ==
  /\ run[r].at = "dropRevert" /\ At(r, "dropMic")
  /\ UNCHANGED <<slot, reverting, inbox, intents, present, window, broker, raced, changes, crashes>>
DropRevertGuard(r) ==
  /\ run[r].at = "dropRevert" /\ At(r, "dropMic")
  /\ reverting' = reverting \cup {run[r].kind}
  /\ UNCHANGED <<slot, inbox, intents, present, window, broker,
                 raced, changes, crashes>>

DropMicGuard(r) ==
  /\ run[r].at = "dropMic" /\ At(r, "over")
  /\ window' = IF run[r].kind = "dictation" THEN NoRun ELSE window
  /\ raced' = (raced \/ (run[r].kind = "dictation" /\ window \notin {r, NoRun}))
  /\ UNCHANGED <<slot, reverting, inbox, intents, present, broker,
                 changes, crashes>>

RevertSlot(k) ==
  /\ k \in reverting /\ reverting' = reverting \ {k}
  /\ slot' = IF slot[k] = "starting" THEN [slot EXCEPT ![k] = "idle"] ELSE slot
  /\ UNCHANGED <<run, inbox, intents, present, window, broker,
                 raced, changes, crashes>>

------------------------------------------------------------------------------
(* stop_live_transcription and the end of a loop                             *)

(* The stop of a session takes the sender out of the inbox before it looks   *)
(* at the slot, so it does so even when it then refuses to stop.             *)
Stop(k) ==
  /\ inbox' = IF k = "session" THEN NoRun ELSE inbox
  /\ slot' = IF slot[k] = "running" THEN [slot EXCEPT ![k] = "stopping"] ELSE slot
  /\ UNCHANGED <<run, reverting, intents, present, window, broker,
                 raced, changes, crashes>>

(* The loop sees the request at one of its checks and flushes what the stop  *)
(* positions bound.                                                          *)
LoopStops(r) ==
  /\ run[r].at = "live" /\ slot[run[r].kind] = "stopping" /\ At(r, "flush")
  /\ intents' = intents \ {r}
  /\ UNCHANGED <<slot, reverting, inbox, present, window, broker,
                 raced, changes, crashes>>

FlushEnds(r) ==
  /\ run[r].at = "flush" /\ At(r, "close")
  /\ UNCHANGED <<slot, reverting, inbox, intents, present, window, broker, raced, changes, crashes>>

(* A loop that fails to start its detector, loses the sidecar, gives up on a *)
(* mixed capture or panics goes straight to its finalizer.                   *)
LoopDies(r) ==
  /\ run[r].at = "live" /\ crashes < MaxLoopCrashes /\ crashes' = crashes + 1
  /\ At(r, "close") /\ intents' = intents \ {r}
  /\ UNCHANGED <<slot, reverting, inbox, present, window, broker,
                 raced, changes>>

CloseWindow(r) ==
  /\ run[r].at = "close" /\ At(r, "vacate")
  /\ window' = IF run[r].kind = "dictation" THEN NoRun ELSE window
  /\ raced' = (raced \/ (run[r].kind = "dictation" /\ window \notin {r, NoRun}))
  /\ UNCHANGED <<slot, reverting, inbox, intents, present, broker,
                 changes, crashes>>

(* Dropping the runtime drops its microphone guard under the same lock.      *)
VacateSlot(r) ==
  /\ run[r].at = "vacate" /\ At(r, "unmark")
  /\ slot' = [slot EXCEPT ![run[r].kind] = "idle"]
  /\ window' = IF run[r].kind = "dictation" THEN NoRun ELSE window
  /\ UNCHANGED <<reverting, inbox, intents, present, broker, raced,
                 changes, crashes>>

ClearPresent(r) ==
  /\ run[r].at = "unmark" /\ At(r, "over")
  /\ present' = (present /\ run[r].kind # "session")
  /\ raced' = (raced \/ (run[r].kind = "session" /\ Spawning # {}))
  /\ UNCHANGED <<slot, reverting, inbox, intents, window, broker,
                 changes, crashes>>

------------------------------------------------------------------------------
(* Restarts                                                                  *)

(* The loop takes an intent: it follows the default device and, when the     *)
(* ring was replaced, moves its own positions to the new one.                *)
LoopRestarts(r) ==
  /\ run[r].at = "live" /\ r \in intents /\ intents' = intents \ {r}
  /\ UNCHANGED <<slot, run, reverting, inbox, present, window, broker, raced, changes,
                 crashes>>

DefaultChanges ==
  /\ broker = "idle" /\ changes < MaxChanges /\ changes' = changes + 1
  /\ broker' = "debounce"
  /\ UNCHANGED <<slot, run, reverting, inbox, intents, present, window, raced, crashes>>

(* The end of the debounce window.  An explicit microphone that is alive     *)
(* ends the matter; otherwise the broker waits for the target to be alive.   *)
FlushEvents ==
  /\ broker = "debounce"
  /\ broker' \in {"idle", "send"}
  /\ UNCHANGED <<slot, run, reverting, inbox, intents, present, window, raced, changes, crashes>>

(* try_send_intent: it fails when no sender is published or its receiver is  *)
(* gone.                                                                     *)
TrySendIntent ==
  /\ broker = "send"
  /\ IF inbox # NoRun /\ run[inbox].at \in Starting \cup {"live"}
       THEN intents' = intents \cup {inbox} /\ broker' = "idle"
       ELSE broker' = "decide" /\ UNCHANGED intents
  /\ UNCHANGED <<slot, run, reverting, inbox, present, window, raced, changes, crashes>>

(* Mutant: an empty inbox alone means that no loop is there. *)
DecideRoutingByInbox ==
  /\ broker = "decide"
  /\ broker' \in {"direct", "idle"}
  /\ UNCHANGED <<slot, run, reverting, inbox, intents, present, window, raced, changes, crashes>>
DecideRouting ==
  /\ broker = "decide"
  /\ broker' \in IF present THEN {"idle"} ELSE {"direct", "idle"}
  /\ UNCHANGED <<slot, run, reverting, inbox, intents, present, window, raced, changes, crashes>>

DirectRestart ==
  /\ broker = "direct" /\ broker' = "idle"
  /\ UNCHANGED <<slot, run, reverting, inbox, intents, present, window, raced,
                 changes, crashes>>

------------------------------------------------------------------------------
StartStep(r) ==
  \/ PreflightRun(r) \/ Setup(r) \/ PublishInbox(r) \/ MarkPresent(r) \/ Install(r) \/ DropRevertGuard(r) \/ DropMicGuard(r)
LoopStep(r) ==
  LoopStops(r) \/ FlushEnds(r) \/ CloseWindow(r) \/ VacateSlot(r) \/ ClearPresent(r)
    \/ LoopRestarts(r)
BrokerStep == FlushEvents \/ TrySendIntent \/ DecideRouting \/ DirectRestart

SlotNext ==
  \/ \E r \in Runs : StartStep(r) \/ LoopStep(r) \/ FailStart(r) \/ LoopDies(r)
                     \/ \E k \in Kinds : Reserve(r, k)
  \/ \E k \in Kinds : Stop(k) \/ RevertSlot(k)
  \/ DefaultChanges \/ BrokerStep

(* Started commands, spawned tasks and loops run to their next step.         *)
SlotSpec ==
  /\ SlotInit /\ [][SlotNext]_slotVars
  /\ \A r \in Runs : WF_slotVars(StartStep(r)) /\ WF_slotVars(LoopStep(r))
  /\ \A k \in Kinds : WF_slotVars(RevertSlot(k))

------------------------------------------------------------------------------
SlotTypeOK ==
  /\ slot \in [Kinds -> {"idle", "starting", "running", "stopping"}]
  /\ run \in [Runs -> [kind : Kinds, at : Points]]
  /\ reverting \subseteq Kinds /\ inbox \in Runs \cup {NoRun} /\ intents \subseteq Runs
  /\ {present, raced} \subseteq BOOLEAN /\ window \in Runs \cup {NoRun}
  /\ broker \in {"idle", "debounce", "send", "decide", "direct"}

(* A dictation that runs has its window of the microphone open, whatever     *)
(* sessions and failed starts do around it, so the session beside it never   *)
(* takes the words it is dictated (MicOwnershipGuard, clear_for_session).    *)
(* It fails only when the guard of an earlier, failed start is dropped after *)
(* the slot was handed on, which `raced' records.                            *)
DictationFenced ==
  raced \/ \A r \in Runs :
    run[r].kind = "dictation" /\ run[r].at \in Starting \cup Looping => window = r

(* When the broker decides to restart a stream itself, no session's loop,    *)
(* running or in its final flush, has positions in the ring (decide_routing  *)
(* and the life of LiveSessionPresent).                                      *)
TeardownGuarded ==
  [][broker = "decide" /\ broker' = "direct" => raced \/ LiveSessions = {}]_slotVars

(* A slot that is being started or stopped is idle or running again: no      *)
(* failure of a start, no stop and no early end of the loop leaves a slot    *)
(* that refuses every later start.                                           *)
SlotsSettle ==
  \A k \in Kinds : slot[k] \in {"starting", "stopping"} ~> slot[k] \in {"idle", "running"}

(* A session that is running can be reached by the broker: its sender is in  *)
(* the inbox until it is told to stop.  The code breaks this: a stop that    *)
(* comes while the session starts is refused, but takes the sender first.    *)
InboxWhileRunning ==
  \A r \in Runs :
    run[r].kind = "session" /\ run[r].at = "live" /\ slot["session"] = "running"
      => inbox = r

(* The broker restarts a stream itself only while no session's loop has      *)
(* positions in its ring.  The code does not keep this: the decision is made *)
(* on a flag that a starting session may set before the restart happens.     *)
RestartSafe == [][broker = "direct" /\ broker' = "idle" => LiveSessions = {}]_slotVars

(* A session, a dictation and the broker beside each other: a dictation      *)
(* keeps its window of the microphone, and the broker never decides to tear  *)
(* down a stream in which a session's loop has positions.                    *)
SlotsFenced == [](SlotTypeOK /\ DictationFenced) /\ TeardownGuarded
================================================================================
