------------------------------ MODULE DrainLanes ------------------------------
(* The four threads spawn_drain starts (drain, audio uploader, SSE           *)
(* subscriber, write-kick debouncer), the process-wide cells they share with *)
(* the generation before them, and the commands that replace or stop them.   *)
(* sync_enable spawns the new generation before it stops the old one, so two *)
(* generations run side by side.  The front end's busy flags let one command *)
(* run at a time.                                                            *)
EXTENDS Naturals, FiniteSets

CONSTANTS MaxSpawns,              \* generations of lanes
          MaxWork,                \* local writes and changesets of peers
          MaxLaneFaults           \* failed starts and cycles, expired sessions, outages
ASSUME LanesAssumption == {MaxSpawns, MaxWork, MaxLaneFaults} \subseteq Nat

Gens == 1..MaxSpawns

VARIABLES handle,     \* SyncRuntimeState: the installed generation, or 0
          spawned, command, joined,
          stop,       \* the shutdown flags of a generation
          drainer, kick, \* where each thread is
          errs,       \* consecutive_errors of a drain, 1 standing for more too
          wake,       \* the one permit of drain_wake
          gate,       \* FirstCycleGate.done
          ownKick, kickGen, armed, deadline,   \* the debouncers' stamps and KickChannel
          wmPub,      \* pull_watermark_pub, 0 for unknown or nothing
          health,     \* DRAIN_HEALTH and the generation that published it
          unpushed, tip, merged, online, laneUsed
cells    == <<wake, gate, armed, deadline, kickGen, wmPub, health>>
threads  == <<drainer, kick, errs, ownKick>>
commands == <<handle, spawned, command, joined, stop>>
world    == <<unpushed, tip, merged, online, laneUsed>>
laneVars == <<commands, threads, cells, world>>

Quiet == [is |-> "ok", by |-> 0]

LanesInit ==
  /\ handle = 0 /\ spawned = 0 /\ command = "none" /\ joined = 0
  /\ stop = [g \in Gens |-> FALSE]
  /\ drainer = [g \in Gens |-> "off"] /\ kick = drainer
  /\ errs = [g \in Gens |-> 0] /\ ownKick = errs
  /\ wake = FALSE /\ gate = FALSE /\ armed = FALSE /\ deadline = FALSE /\ kickGen = 0
  /\ wmPub = 0 /\ health = Quiet
  /\ unpushed = FALSE /\ tip = 0 /\ merged = 0 /\ online = TRUE
  /\ laneUsed = [work |-> 0, fault |-> 0]

------------------------------------------------------------------------------
(* The commands. *)
(* spawn_drain: the published state and the gate are reset, the lanes start. *)
SpawnLanes ==
  LET g == spawned + 1
  IN /\ command = "none" /\ spawned < MaxSpawns /\ spawned' = g /\ command' = "install"
     /\ health' = Quiet /\ gate' = FALSE
     /\ drainer' = [drainer EXCEPT ![g] = "start"] /\ kick' = [kick EXCEPT ![g] = "new"]
     /\ UNCHANGED <<handle, joined, stop, errs, ownKick, wake, armed, deadline, kickGen, wmPub, world>>

(* DrainHandle::stop up to its joins. *)
RaiseStop(g) == stop' = [stop EXCEPT ![g] = TRUE] /\ wake' = TRUE /\ joined' = g

(* sync_enable installs the new handle and stops the previous one. *)
Install ==
  /\ command = "install" /\ handle' = spawned
  /\ IF handle = 0 THEN command' = "none" /\ UNCHANGED <<stop, wake, joined>>
                   ELSE command' = "join" /\ RaiseStop(handle)
  /\ UNCHANGED <<spawned, threads, gate, armed, deadline, kickGen, wmPub, health, world>>

(* Mutant: the published state is cleared before the lanes have ended. *)
TurnOffEarly ==
  /\ command = "none" /\ handle # 0 /\ handle' = 0 /\ command' = "join" /\ RaiseStop(handle)
  /\ health' = Quiet
  /\ UNCHANGED <<spawned, threads, gate, armed, deadline, kickGen, wmPub, world>>
(* sync_disable and sync_sign_out take the handle and stop it. *)
TurnOff ==
  /\ command = "none" /\ handle # 0 /\ handle' = 0 /\ command' = "off" /\ RaiseStop(handle)
  /\ UNCHANGED <<spawned, threads, gate, armed, deadline, kickGen, wmPub, health, world>>

(* The joins are over; switching off then clears what the lanes published. *)
Joined ==
  /\ command \in {"join", "off"}
  /\ {drainer[joined], kick[joined]} = {"exit"}
  /\ command' = "none" /\ joined' = 0 /\ health' = IF command = "off" THEN Quiet ELSE health
  /\ UNCHANGED <<handle, spawned, stop, threads, wake, gate, armed, deadline, kickGen, wmPub, world>>

------------------------------------------------------------------------------
(* The drain thread of generation g. *)
DrainGoes(g, to) == drainer' = [drainer EXCEPT ![g] = to]
Fault == laneUsed.fault < MaxLaneFaults /\ laneUsed' = [laneUsed EXCEPT !.fault = @ + 1]
Publish(g, h) == health' = IF h = health.is THEN health
                           ELSE IF h = "ok" THEN Quiet ELSE [is |-> h, by |-> g]

(* Opening and preparing the database, the stale token, the first tip. *)
DrainStarts(g) ==
  /\ drainer[g] = "start" /\ DrainGoes(g, "top") /\ wmPub' = merged
  /\ IF online THEN UNCHANGED health ELSE Publish(g, "unreachable")
  /\ UNCHANGED <<commands, kick, errs, ownKick, wake, gate, armed, deadline, kickGen, world>>
(* The early returns: they do not open the first-cycle gate. *)
StartFails(g) ==
  /\ drainer[g] = "start" /\ Fault /\ DrainGoes(g, "exit")
  /\ \E h \in {health.is, "expired"} : Publish(g, h)
  /\ UNCHANGED <<commands, kick, errs, ownKick, wake, gate, armed, deadline,
                 kickGen, wmPub, unpushed, tip, merged, online>>

(* The loop's stop check; the exit opens the gate. *)
DrainTop(g) ==
  /\ drainer[g] = "top"
  /\ IF stop[g] THEN DrainGoes(g, "exit") /\ gate' = TRUE ELSE DrainGoes(g, "cycle") /\ UNCHANGED gate
  /\ UNCHANGED <<commands, kick, errs, ownKick, wake, armed, deadline, kickGen,
                 wmPub, health, world>>

(* fail_surface_step: the second error in a row is shown. *)
Failed(g, h) ==
  /\ errs' = [errs EXCEPT ![g] = 1]
  /\ IF errs[g] >= 1 THEN Publish(g, h) ELSE UNCHANGED health

(* A cycle that failed locally or whose token could not be refreshed sleeps  *)
(* the whole interval.                                                       *)
CycleFails(g) ==
  /\ drainer[g] = "cycle" /\ Fault /\ Failed(g, "failing") /\ DrainGoes(g, "sleep")
  /\ UNCHANGED <<commands, kick, ownKick, wake, gate, armed, deadline, kickGen,
                 wmPub, unpushed, tip, merged, online>>
(* The refresh token was rejected: the thread ends. *)
SessionExpires(g) ==
  /\ drainer[g] = "cycle" /\ Fault /\ Publish(g, "expired") /\ gate' = TRUE /\ DrainGoes(g, "exit")
  /\ UNCHANGED <<commands, kick, errs, ownKick, wake, armed, deadline, kickGen,
                 wmPub, unpushed, tip, merged, online>>
(* drain_once: everything queued is pushed and everything new pulled. *)
Cycle(g) ==
  /\ drainer[g] = "cycle"
  /\ IF online THEN unpushed' = FALSE /\ merged' = tip /\ DrainGoes(g, "clean")
               ELSE UNCHANGED <<unpushed, merged>> /\ DrainGoes(g, "cut")
  /\ UNCHANGED <<commands, kick, errs, ownKick, cells, tip, online, laneUsed>>
(* The end of a cycle: health, watermark, gate. *)
Report(g) ==
  /\ drainer[g] \in {"clean", "cut"} /\ DrainGoes(g, "idle") /\ wmPub' = merged /\ gate' = TRUE
  /\ IF drainer[g] = "clean" THEN errs' = [errs EXCEPT ![g] = 0] /\ Publish(g, "ok")
                           ELSE Failed(g, "unreachable")
  /\ UNCHANGED <<commands, kick, ownKick, wake, armed, deadline, kickGen, world>>

(* The idle wait: whichever waiter the permit reaches, or the interval. *)
(* Mutant: only a wake ends the idle wait. *)
IdleEndsOnWake(g) ==
  /\ \/ drainer[g] = "idle" /\ wake /\ wake' = FALSE
     \/ drainer[g] = "sleep" /\ UNCHANGED wake
  /\ DrainGoes(g, "top")
  /\ UNCHANGED <<commands, kick, errs, ownKick, gate, armed, deadline, kickGen,
                 wmPub, health, world>>
WaitEnds(g) ==
  /\ \/ drainer[g] = "idle" /\ wake /\ wake' = FALSE
     \/ drainer[g] \in {"idle", "sleep"} /\ UNCHANGED wake
  /\ DrainGoes(g, "top")
  /\ UNCHANGED <<commands, kick, errs, ownKick, gate, armed, deadline, kickGen,
                 wmPub, health, world>>

------------------------------------------------------------------------------
(* The write-kick debouncer. *)
KickGoes(g, to) == kick' = [kick EXCEPT ![g] = to]
kickRest == <<commands, drainer, errs, gate, wmPub, health, world>>
KickStarts(g) ==
  /\ kick[g] = "new" /\ KickGoes(g, "live")
  /\ deadline' = FALSE /\ armed' = TRUE /\ kickGen' = kickGen + 1
  /\ ownKick' = [ownKick EXCEPT ![g] = kickGen + 1] /\ UNCHANGED <<kickRest, wake>>
KickFires(g) ==
  /\ kick[g] = "live" /\ ~stop[g] /\ deadline /\ deadline' = FALSE /\ wake' = TRUE
  /\ UNCHANGED <<kickRest, kick, ownKick, armed, kickGen>>
(* Mutant: every debouncer disarms as it ends. *)
KickExitsDisarming(g) ==
  /\ kick[g] = "live" /\ stop[g] /\ KickGoes(g, "exit") /\ armed' = FALSE
  /\ UNCHANGED <<kickRest, ownKick, wake, deadline, kickGen>>
(* Only the debouncer with the last stamp disarms. *)
KickExits(g) ==
  /\ kick[g] = "live" /\ stop[g] /\ KickGoes(g, "exit")
  /\ armed' = IF kickGen = ownKick[g] THEN FALSE ELSE armed
  /\ UNCHANGED <<kickRest, ownKick, wake, deadline, kickGen>>

Work == laneUsed.work < MaxWork /\ laneUsed' = [laneUsed EXCEPT !.work = @ + 1]
(* note_local_write, after a write of the app committed. *)
LocalWrite ==
  /\ Work /\ unpushed' = TRUE /\ deadline' = (deadline \/ armed)
  /\ UNCHANGED <<commands, threads, wake, gate, armed, kickGen, wmPub, health, tip, merged, online>>

(* spawn_sse_subscriber: a lane that has not been stopped listens. *)
Subscribed == \E g \in Gens : drainer[g] # "off" /\ ~stop[g]
(* on_sse_wake: only a number past the published watermark wakes the drain. *)
OnSseWake(seq) == wake \/ (Subscribed /\ seq > wmPub)
(* stream_wakeups: the number arrives, or is lost with a lagging channel, a  *)
(* broken connection or a garbled line.                                      *)
StreamWakeups(seq) == {wake, OnSseWake(seq)}
(* A peer's push is stored and announced by the relay's SseHub. *)
PeerPush ==
  /\ Work /\ tip' = tip + 1 /\ wake' \in StreamWakeups(tip')
  /\ UNCHANGED <<commands, threads, gate, armed, deadline, kickGen, wmPub, health, unpushed,
                 merged, online>>

(* wait_for_first_drain_cycle: the uploader of g reads the gate open (when   *)
(* its budget or a stop ends the wait it goes on as well).  The lane itself  *)
(* is in AudioBlobs; it polls its stop flag and keeps no cell others read.   *)
UploaderGoes(g) == drainer[g] # "off" /\ ~stop[g] /\ gate

Outage == /\ online /\ Fault /\ online' = FALSE
          /\ UNCHANGED <<commands, threads, cells, unpushed, tip, merged>>
Restored == /\ ~online /\ online' = TRUE
            /\ UNCHANGED <<commands, threads, cells, unpushed, tip, merged, laneUsed>>

DrainStep(g) == DrainStarts(g) \/ DrainTop(g) \/ Cycle(g) \/ Report(g) \/ WaitEnds(g)
LaneStep(g) == KickStarts(g) \/ KickFires(g) \/ KickExits(g)
LanesNext ==
  \/ SpawnLanes \/ Install \/ TurnOff \/ Joined \/ LocalWrite \/ PeerPush \/ Outage \/ Restored
  \/ \E g \in Gens : \/ DrainStep(g) \/ LaneStep(g)
                     \/ StartFails(g) \/ CycleFails(g) \/ SessionExpires(g)
LanesFairness ==
  /\ \A g \in Gens : /\ WF_laneVars(DrainStep(g)) /\ WF_laneVars(KickStarts(g))
                     /\ WF_laneVars(KickExits(g))
  /\ WF_laneVars(Install) /\ WF_laneVars(Joined)
LanesSpec == LanesInit /\ [][LanesNext]_laneVars /\ LanesFairness

------------------------------------------------------------------------------
LanesTypeOK ==
  /\ handle \in 0..MaxSpawns /\ spawned \in 0..MaxSpawns /\ joined \in 0..MaxSpawns
  /\ command \in {"none", "install", "join", "off"} /\ merged \in 0..tip /\ kickGen \in 0..MaxSpawns

(* The debouncer that claimed last is not disarmed by another's exit. *)
KickOwned == \A g \in Gens : kick[g] = "live" /\ ownKick[g] = kickGen => armed

(* The installed debouncer, once running, is armed.  The code does not keep  *)
(* this when the old thread first runs after the new one has claimed.        *)
KickHeard == command = "none" /\ handle # 0 /\ kick[handle] = "live" => armed

(* Switched off, the status shows nothing of the lanes that ended. *)
StatusCleared == handle = 0 /\ command = "none" => health = Quiet

(* A status poll never shows what a stopped drain published.  The code does  *)
(* not keep this: the old drain may publish after the new one's reset.       *)
StatusOwned == command = "none" => health.by \in {0, handle}

(* An uploader that read an open gate has seen its own drain's first cycle.  *)
(* The code does not keep this: the old drain's exit opens the gate.         *)
GateOwned == \A g \in Gens : UploaderGoes(g) => drainer[g] # "start"

(* Every stop ends, whoever took the permit it left for the old drain. *)
StopsEnd == command \in {"join", "off"} ~> command = "none"

(* A write or a peer's changeset is synced while a drain runs and the relay  *)
(* answers, also when the wake-up was lost or taken by the other generation. *)
Settles ==
  (unpushed \/ merged < tip) ~>
    \/ ~unpushed /\ merged = tip
    \/ handle = 0 \/ ~online \/ drainer[handle] = "exit"

(* Of what two generations of lanes share: the debouncer that claimed last   *)
(* is armed for as long as it runs (KickChannel's stamps), and once a switch *)
(* off has joined its lanes with none installed in their place the status    *)
(* shows nothing of them.  More does not hold: KickHeard, StatusOwned and    *)
(* GateOwned below name what an older generation still does to the cells of  *)
(* an installed one.                                                         *)
LanesClean == LanesTypeOK /\ KickOwned /\ StatusCleared

(* Commands and work both come to an end across a change of generation.      *)
LanesLive == StopsEnd /\ Settles
================================================================================
