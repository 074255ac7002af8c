------------------------------ MODULE Transcriber ------------------------------
(***************************************************************************)
(* The transcription lane: producers submit jobs to the scheduler, whose   *)
(* one worker sends them to the sidecar process through the client, whose  *)
(* reader task routes answers back by request id.  Requests time out, the  *)
(* sidecar may crash or its pipe break, the worker respawns it once per    *)
(* job, and shutdown_client ends the lane while producers still submit.    *)
(***************************************************************************)
EXTENDS Naturals, Sequences, FiniteSets

CONSTANTS Origins,                 \* lanes the producers use
          Producers,               \* what sets a busy bit (a session sets mic and system together)
          MaxJobs,                 \* jobs submitted
          MaxToggles,              \* busy changes
          MaxCrashes, MaxRespawnFailures
ASSUME LaneAssumption == {MaxJobs, MaxToggles, MaxCrashes, MaxRespawnFailures} \subseteq Nat /\ Origins \subseteq {"flush", "dictation", "mic", "system", "backfill"}

Jobs      == 1..MaxJobs
Lanes     == {"flush", "dictation", "mic", "system", "backfill"}

VARIABLES jobs,        \* each job: [lane, answer]; answer "none" until its oneshot resolves
          lanes,       \* SchedulerQueues: a sequence of jobs per lane
          lastLive,    \* last_live_source
          busy,        \* busy_bits
          life,        \* SchedulerState
          shutdown,    \* the shutdown flag
          permit,      \* the Notify's stored permit
          worker,      \* [at, job, id, retry]
          sidecar,     \* the process and its pipes: [proc, reader, stdin, stdout]
          pending,     \* ids with a waiter
          got,         \* what the worker's waiter received: [kind, job]
          nextId,
          stopper,     \* where shutdown_client is
          laneUsed
laneVars == <<jobs, lanes, lastLive, busy, life, shutdown, permit, worker, sidecar,
              pending, got, nextId, stopper, laneUsed>>
queueVars == <<jobs, lanes, lastLive>>
lifeVars  == <<life, shutdown, stopper>>
pipeVars  == <<sidecar, pending, got, nextId>>

Idle   == [at |-> "pick", job |-> 0, id |-> 0, retry |-> FALSE]
Silent == [kind |-> "none", job |-> 0]
Fresh  == [proc |-> "loading", reader |-> "up", stdin |-> <<>>, stdout |-> <<>>]

LaneInit ==
  /\ jobs = [j \in Jobs |-> [lane |-> "none", answer |-> "none"]]
  /\ lanes = [l \in Lanes |-> <<>>] /\ lastLive = "none" /\ busy = {}
  /\ life = "running" /\ shutdown = FALSE /\ stopper = "idle" /\ permit = FALSE
  /\ worker = Idle /\ pending = {} /\ got = Silent /\ nextId = 1
  /\ sidecar = [Fresh EXCEPT !.proc = "up"]                         \* spawn_loaded returned
  /\ laneUsed = [job |-> 0, toggle |-> 0, crash |-> 0, respawn |-> 0]

Spend(what, bound) == laneUsed[what] < bound /\ laneUsed' = [laneUsed EXCEPT ![what] = @ + 1]

------------------------------------------------------------------------------
(* Producers.                                                              *)

(* submit: the state is checked and the job pushed under the queue lock, then *)
(* the worker is notified; a permit is kept for a worker that is not waiting. *)
(* Mutant: the state is not checked. *)
SubmitUnchecked(l) ==
  /\ Spend("job", MaxJobs)
  /\ LET j == laneUsed.job + 1
     IN /\ lanes' = [lanes EXCEPT ![l] = Append(@, j)] /\ permit' = TRUE
        /\ jobs' = [jobs EXCEPT ![j] = [lane |-> l, answer |-> "none"]]
  /\ UNCHANGED <<lastLive, busy, lifeVars, worker, pipeVars>>
Submit(l) ==
  /\ Spend("job", MaxJobs)
  /\ LET j == laneUsed.job + 1
     IN IF life = "running"
          THEN /\ lanes' = [lanes EXCEPT ![l] = Append(@, j)] /\ permit' = TRUE
               /\ jobs' = [jobs EXCEPT ![j] = [lane |-> l, answer |-> "none"]]
          ELSE /\ jobs' = [jobs EXCEPT ![j] = [lane |-> l, answer |-> "refused"]]
               /\ UNCHANGED <<lanes, permit>>
  /\ UNCHANGED <<lastLive, busy, lifeVars, worker, pipeVars>>

(* set_busy, which notifies only when the whole mask changes to or from 0.   *)
(* Mutant: it notifies when work starts, not when it ends. *)
SetBusyDeaf(p) ==
  /\ Spend("toggle", MaxToggles)
  /\ busy' = IF p \in busy THEN busy \ {p} ELSE busy \cup {p}
  /\ permit' = (permit \/ busy = {})
  /\ UNCHANGED <<queueVars, lifeVars, worker, pipeVars>>
SetBusy(p) ==
  /\ Spend("toggle", MaxToggles)
  /\ busy' = IF p \in busy THEN busy \ {p} ELSE busy \cup {p}
  /\ permit' = (permit \/ (busy = {}) # (busy' = {}))
  /\ UNCHANGED <<queueVars, lifeVars, worker, pipeVars>>

------------------------------------------------------------------------------
(* The worker.                                                             *)

(* shutdown_client has aborted the worker, which has not left. *)
Aborted == stopper \in {"cancel", "take", "done"} /\ worker.at # "gone"

(* pick_next: final flush, dictation, mic and system in turn, and backfill   *)
(* while no producer is busy - or once the lane is shutting down.            *)
Gated == busy # {} /\ ~shutdown
Order == <<"flush", "dictation">>
         \o (IF lastLive = "mic" THEN <<"system", "mic">> ELSE <<"mic", "system">>)
         \o (IF Gated THEN <<>> ELSE <<"backfill">>)
Ready == {i \in DOMAIN Order : lanes[Order[i]] # <<>>}
Pick ==
  /\ worker.at = "pick"
  /\ \E first \in Ready :
     LET l == Order[first]
     IN /\ \A i \in Ready : first <= i
        /\ lanes' = [lanes EXCEPT ![l] = Tail(@)]
        /\ lastLive' = IF l \in {"mic", "system"} THEN l ELSE lastLive
        /\ worker' = [Idle EXCEPT !.at = "send", !.job = Head(lanes[l])]
  /\ UNCHANGED <<jobs, busy, lifeVars, permit, pipeVars, laneUsed>>

(* Nothing to pick; with the queue unlocked the flag is read again: leave     *)
(* when shutting down, else wait to be notified.                              *)
PickNone ==
  /\ worker.at = "pick" /\ Ready = {} /\ worker' = [Idle EXCEPT !.at = "empty"]
  /\ UNCHANGED <<queueVars, busy, lifeVars, permit, pipeVars, laneUsed>>
Park ==
  /\ worker.at = "empty" /\ worker' = [Idle EXCEPT !.at = IF shutdown THEN "gone" ELSE "park"]
  /\ UNCHANGED <<queueVars, busy, lifeVars, permit, pipeVars, laneUsed>>
Notified ==
  /\ worker.at = "park" /\ ~Aborted /\ permit /\ permit' = FALSE /\ worker' = Idle
  /\ UNCHANGED <<queueVars, busy, lifeVars, pipeVars, laneUsed>>

(* transcribe_with: a fresh id gets a waiter, then the request is written;   *)
(* writing to a process that is gone fails, to one that is going it may.     *)
Sent(id) ==
  /\ pending' = pending \cup {id} /\ got' = Silent
  /\ \/ /\ sidecar.proc # "gone" /\ worker' = [worker EXCEPT !.at = "wait", !.id = id]
        /\ sidecar' = [sidecar EXCEPT !.stdin = Append(@, [id |-> id, job |-> worker.job])]
     \/ sidecar.proc \in {"going", "gone"} /\ worker' = [worker EXCEPT !.at = "broken", !.id = id]
        /\ UNCHANGED sidecar
  /\ UNCHANGED <<queueVars, busy, lifeVars, permit, laneUsed>>
(* Mutant: the id of a request that was given up is used again. *)
DispatchReused == worker.at = "send" /\ stopper # "done" /\ Sent(1) /\ UNCHANGED nextId
Dispatch       == worker.at = "send" /\ stopper # "done" /\ Sent(nextId) /\ nextId' = nextId + 1

(* await_response: an answer, a dropped waiter, or the timer; every failure   *)
(* drops the waiter.                                                          *)
Answer(j, what) == jobs' = [jobs EXCEPT ![j].answer = what]
Replied ==
  /\ worker.at = "wait" /\ ~Aborted /\ got.kind = "ok" /\ Answer(worker.job, "ok") /\ worker' = Idle
  /\ UNCHANGED <<lanes, lastLive, busy, lifeVars, permit, pipeVars, laneUsed>>
Broken ==
  /\ \/ worker.at = "wait" /\ ~Aborted /\ got.kind \in {"error", "dropped"}
     \/ worker.at = "wait" /\ ~Aborted /\ got.kind = "none"        \* 300 s
     \/ worker.at = "broken"
  /\ pending' = pending \ {worker.id} /\ worker' = [worker EXCEPT !.at = "failed"]
  /\ sidecar' = IF stopper = "done" THEN [sidecar EXCEPT !.proc = "gone"] ELSE sidecar  \* the last holder
  /\ UNCHANGED <<queueVars, busy, lifeVars, permit, got, nextId, laneUsed>>

(* process_job after a failure: a retry is final; a live sidecar means the    *)
(* job failed; a dead one is respawned once.                                  *)
IsRunning == sidecar.reader # "down" /\ sidecar.proc # "gone"
Failed ==
  /\ worker.at = "failed"
  /\ IF worker.retry \/ IsRunning THEN Answer(worker.job, "failed") /\ worker' = Idle
     ELSE worker' = [worker EXCEPT !.at = "respawn"] /\ UNCHANGED jobs
  /\ UNCHANGED <<lanes, lastLive, busy, lifeVars, permit, pipeVars, laneUsed>>

(* respawn: the old process is killed, every waiter dropped; a new process    *)
(* comes with new pipes and a new waiter map, ids go on counting.             *)
Respawn ==
  /\ worker.at = "respawn" /\ ~Aborted /\ pending' = {}
  /\ \/ /\ worker' = [worker EXCEPT !.at = "send", !.retry = TRUE]
        /\ sidecar' = Fresh /\ UNCHANGED <<jobs, laneUsed>>
     \/ /\ Spend("respawn", MaxRespawnFailures) /\ Answer(worker.job, "dead") /\ worker' = Idle
        /\ sidecar' = [sidecar EXCEPT !.proc = "gone"]
  /\ UNCHANGED <<lanes, lastLive, busy, lifeVars, permit, got, nextId>>
(* Without the client there is nothing to respawn. *)
NoClient ==
  /\ stopper = "done" /\ worker.at = "respawn"
  /\ Answer(worker.job, "dead") /\ worker' = Idle
  /\ UNCHANGED <<lanes, lastLive, busy, lifeVars, permit, pipeVars, laneUsed>>

------------------------------------------------------------------------------
(* The sidecar process and the reader task.                                *)

SidecarStep == UNCHANGED <<queueVars, busy, lifeVars, permit, worker, nextId>>

(* main: the model is loaded before stdin is read; a failed load exits. *)
LoadModel ==
  /\ sidecar.proc = "loading" /\ UNCHANGED <<pending, got>> /\ SidecarStep
  /\ \/ sidecar' = [sidecar EXCEPT !.proc = "up"] /\ UNCHANGED laneUsed
     \/ Spend("crash", MaxCrashes) /\ sidecar' = [sidecar EXCEPT !.proc = "going"]
Serve ==
  /\ sidecar.proc = "up" /\ sidecar.stdin # <<>>
  /\ \E ok \in BOOLEAN :
       sidecar' = [sidecar EXCEPT !.stdin = Tail(@),
                                  !.stdout = Append(@, [id |-> Head(sidecar.stdin).id, job |-> Head(sidecar.stdin).job, ok |-> ok])]
  /\ UNCHANGED <<pending, got, laneUsed>> /\ SidecarStep
Crash ==
  /\ sidecar.proc = "up" /\ Spend("crash", MaxCrashes) /\ sidecar' = [sidecar EXCEPT !.proc = "going"]
  /\ UNCHANGED <<pending, got>> /\ SidecarStep
Reap ==
  /\ sidecar.proc = "going" /\ sidecar' = [sidecar EXCEPT !.proc = "gone"]
  /\ UNCHANGED <<pending, got, laneUsed>> /\ SidecarStep

(* reader_task: the answer goes to the waiter of its id, or nowhere ... *)
Route ==
  /\ sidecar.reader = "up" /\ sidecar.stdout # <<>>
  /\ LET r == Head(sidecar.stdout)
     IN /\ sidecar' = [sidecar EXCEPT !.stdout = Tail(@)] /\ pending' = pending \ {r.id}
        /\ got' = IF r.id \in pending /\ r.id = worker.id
                    THEN [kind |-> IF r.ok THEN "ok" ELSE "error", job |-> r.job] ELSE got
  /\ UNCHANGED laneUsed /\ SidecarStep

(* ... the end of the stream, or a line that is not text, ends it: waiters     *)
(* are dropped, then it says it is gone.                                       *)
ReaderEnds ==
  /\ sidecar.reader = "up"
  /\ \/ sidecar.proc \in {"going", "gone"} /\ sidecar.stdout = <<>> /\ UNCHANGED laneUsed
     \/ Spend("crash", MaxCrashes)
  /\ sidecar' = [sidecar EXCEPT !.reader = "closing"] /\ pending' = {}
  /\ got' = IF worker.id \in pending THEN [got EXCEPT !.kind = "dropped"] ELSE got
  /\ SidecarStep
ReaderGone ==
  /\ sidecar.reader = "closing" /\ sidecar' = [sidecar EXCEPT !.reader = "down"]
  /\ UNCHANGED <<pending, got, laneUsed>> /\ SidecarStep

------------------------------------------------------------------------------
(* shutdown_client.                                                        *)

StopFlag ==
  /\ stopper = "idle" /\ ~shutdown /\ shutdown' = TRUE /\ stopper' = "flagged"
  /\ UNCHANGED <<queueVars, busy, life, permit, worker, pipeVars, laneUsed>>
StopState ==
  /\ stopper = "flagged" /\ life' = "shutting_down" /\ permit' = TRUE /\ stopper' = "join"
  /\ UNCHANGED <<queueVars, busy, shutdown, worker, pipeVars, laneUsed>>

(* The worker has left, or - after the timeout - is aborted, which is not     *)
(* waited for.                                                               *)
StopJoin ==
  /\ stopper = "join" /\ stopper' = "cancel"
  /\ UNCHANGED <<queueVars, busy, life, shutdown, permit, worker, pipeVars, laneUsed>>
(* The runtime drops the aborted task at an await: it does not go on from a    *)
(* wait, but from where it computes it may go on to the next one.  Its job's   *)
(* oneshot goes with it, and so does that of a request that finds the client   *)
(* taken (the task panics).                                                    *)
DropWorker ==
  /\ Aborted /\ worker' = [Idle EXCEPT !.at = "gone"]
  /\ sidecar' = IF stopper = "done" THEN [sidecar EXCEPT !.proc = "gone"] ELSE sidecar
  /\ jobs' = IF worker.job = 0 THEN jobs ELSE [jobs EXCEPT ![worker.job].answer = "dropped"]
  /\ UNCHANGED <<lanes, lastLive, busy, lifeVars, permit, pending, got, nextId, laneUsed>>

(* cancel_all answers what is queued. *)
(* Mutant: the queues are emptied without answering. *)
StopCancelSilent ==
  /\ stopper = "cancel" /\ stopper' = "take" /\ lanes' = [l \in Lanes |-> <<>>]
  /\ UNCHANGED <<jobs, lastLive, busy, life, shutdown, permit, worker, pipeVars, laneUsed>>
StopCancel ==
  /\ stopper = "cancel" /\ stopper' = "take" /\ lanes' = [l \in Lanes |-> <<>>]
  /\ LET queued == {j \in Jobs : \E l \in Lanes : \E i \in DOMAIN lanes[l] : lanes[l][i] = j}
     IN jobs' = [j \in Jobs |-> IF j \in queued THEN [jobs[j] EXCEPT !.answer = "cancelled"] ELSE jobs[j]]
  /\ UNCHANGED <<lastLive, busy, life, shutdown, permit, worker, pipeVars, laneUsed>>
(* The client is shut down, or dropped beside an aborted worker's request. *)
StopTake ==
  /\ stopper = "take" /\ stopper' = "done" /\ life' = "terminal"
  /\ sidecar' = IF worker.at \in {"wait", "broken"} THEN sidecar ELSE [sidecar EXCEPT !.proc = "gone"]
  /\ UNCHANGED <<queueVars, busy, shutdown, permit, worker, pending, got, nextId, laneUsed>>

------------------------------------------------------------------------------
WorkerStep == \/ Pick \/ PickNone \/ Park \/ Notified \/ Dispatch \/ Replied \/ Broken \/ Failed
              \/ Respawn \/ NoClient
StopStep   == StopState \/ StopJoin \/ StopCancel \/ StopTake
LaneNext == \/ \E l \in Origins : Submit(l)
            \/ \E p \in Producers : SetBusy(p)
            \/ WorkerStep
            \/ LoadModel \/ Serve \/ Crash \/ Reap \/ Route \/ ReaderEnds \/ ReaderGone
            \/ StopFlag \/ StopStep \/ DropWorker

LaneFairness == WF_laneVars(WorkerStep) /\ WF_laneVars(StopStep) /\ WF_laneVars(DropWorker)
LaneSpec == LaneInit /\ [][LaneNext]_laneVars /\ LaneFairness

------------------------------------------------------------------------------
Accepted(j) == jobs[j].lane # "none" /\ jobs[j].answer # "refused"

LaneTypeOK ==
  /\ life \in {"running", "shutting_down", "terminal"} /\ busy \subseteq Producers
  /\ pending \subseteq 1..nextId /\ worker.job \in 0..MaxJobs
  /\ \A l \in Lanes : \A i \in DOMAIN lanes[l] : jobs[lanes[l][i]].answer = "none"

(* A worker that waits, or is about to, with no notification coming has       *)
(* nothing it may take: not a job, not backfill whose producers went idle,    *)
(* not the shutdown.                                                          *)
WorkerAwake == ~permit =>
  /\ worker.at = "empty" => Ready = {} \/ shutdown
  /\ worker.at = "park" /\ stopper # "flagged" => Ready = {} /\ ~shutdown

(* "the returned oneshot would never resolve": once the lane is down every   *)
(* job it ever accepted has been answered, but for the one that an aborted   *)
(* worker is about to drop.                                                  *)
NoneStranded ==
  life = "terminal" => \A j \in Jobs : Accepted(j) => jobs[j].answer # "none" \/ j = worker.job

(* An answer is the answer to this job, however late, and whichever process  *)
(* or timed-out request it comes from.                                       *)
AnswersMatch == worker.at = "wait" /\ got.kind \in {"ok", "error"} => got.job = worker.job

(* Every accepted job is answered in the end, by text, an error, or the       *)
(* shutdown; backfill at the latest when the producers are idle.              *)
JobsAnswered == \A j \in Jobs :
  Accepted(j) ~> (jobs[j].answer # "none" \/ (jobs[j].lane = "backfill" /\ Gated))

(* The queue and the pipe: an accepted job is never stranded in a stopped    *)
(* scheduler, the worker never sleeps beside work it may take, and no answer *)
(* goes to another job.                                                      *)
LanesSound == LaneTypeOK /\ NoneStranded /\ WorkerAwake /\ AnswersMatch
==============================================================================
