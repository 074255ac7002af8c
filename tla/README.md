# Formal models of YapStack

YapStack is a local-first desktop meeting recorder and transcriber (Tauri, Rust and React) with an
end-to-end encrypted sync relay (Axum and Postgres). This directory holds TLA+ modules that model
its concurrent and fault-tolerant parts, the TLC configurations that check them on small instances,
and TLAPS proofs for any number of devices, writers and requests. `PROJECT.json` lists every
component, run, property, mutant, hazard, finding and theorem, and maps every definition to the
lines it models.

```
tlc -workers 2 -config MC_Desktop.cfg MC_Desktop     # one run
tlapm SyncEngine_proofs.tla                          # one proof module
```

## 1. Inventory

### Sync, on the device (`crates/yapstack-sync`, `apps/desktop/src-tauri/src/sync.rs`)

| Component | State | Operations | What is hard | What makes it correct |
|---|---|---|---|---|
| Sync engine (`outbox.rs`, `state.rs`, `change.rs`) | outbox rows, `client_seq`, push and pull watermarks, crypto quarantine | capture in chunks, push, ack, conflict recovery, reconcile, pull, merge, manual retry | crash between two chunks of one transaction; answers lost after the relay committed; delayed duplicates; a database file restored from an old copy | no local write is lost, no ack is false, the watermark skips nothing, everything converges |
| Capability gate (`outbox.rs`, `state.rs`) | proof that the relay enforces levels, back-off of a refused raise | gate a push, raise the floor, forget, reset | a proof that outlives its relay, a back-off that outlives its reason | no leak past a stale proof, prompt and eventual raise |
| Schema-gap quarantine (`quarantine.rs`) | stash in arrival order, persisted counts | merge a changeset, replay pass | merges between the rows of a pass, failing rows, updates that bring the schema | nothing lost, arrival order per key, honest counts, the stash drains |
| Cascade and uniqueness repair (`cascade.rs`, `uniqueness.rs`) | maintenance schedule | garbage-collect, dedup notes and tags | every device repairs for itself and the repairs replicate | convergence |
| Audio lanes (`audio.rs`, `sync.rs`) | upload queue; fetch registry with permits, slots and cache | save, enqueue, walk, drain, re-arm, retry; submit, promote, cancel, finish, clear | crash between save and enqueue; many readers of one download | nothing forgotten, permits exact, whoever waits is answered |
| Session (`sync.rs`) | session record in the cache and at rest (sealed file and keychain entry), identity, drain handle | refresh, sign-in, sign-out, enable, disable, approve, change password | whole-record writes of stale copies; file and key written apart; lost refresh answers | the stored token is usable, nothing a user did is undone, a stored session opens |
| Roster commands (`sync.rs`) | anchor counter, pending login | sign in, recover, approve, remove, change password | commands of several devices interleave at every request | active devices are the signed list |
| Cutover (`sync.rs`, `db_service.rs`) | database files, journal, pool | copy, convert, swap, verify, roll back, recover at boot, bind | crash between two renames, writes meanwhile | the last complete copy survives, the app is served again |
| Migrations (`db_service.rs`, `schema.rs`) | schema, records, CRR triggers | apply, convert, record, heal | separate transactions on a CRR database | a record means landed |
| Recording recovery (`db.rs`) | open sessions, audio files and part rows | boot sweep, reconcile | rows of a peer that is recording now | a live peer is spared, an own crash closed |
| Drain lanes (`sync.rs`) | handle, wake-up, debouncer's claim, published status | spawn, install, stop, join, kick, SSE wake | two generations side by side | nothing spoilt by the older one, all work synced |
| Write turnstile (`yapstack-common`) | two ticket counters | acquire, release | lost wake-up, barging | mutual exclusion, arrival order |

### Relay (`crates/yapstack-server`)

| Component | State | Operations | What is hard | What makes it correct |
|---|---|---|---|---|
| Log (`sync/push.rs`, `pull.rs`, `completeness.rs`) | `changesets`, `tenant_seq` | push, pull, completeness | READ COMMITTED statements of overlapping requests, aborts | dense, append-only, each pair once, complete below every watermark |
| Capability floor (`sync/capability.rs`) | floor, reported levels | stamp, gated read, raise | check and commit apart | no reader gets what it cannot handle |
| Metering (`choke.rs`) | `tenant_usage` | check and reserve | concurrent reservations | within quota, each byte charged once |
| Audio (`audio.rs`, `gc.rs`) | blobs, refcounts, mappings, objects | presign, sweep | object store outside the transaction | refcount = mappings, no phantom done, reclaimed |
| Snapshots (`snapshot.rs`) | a row per generation | presign, head | HEAD outside the transaction | a joiner gets bytes and their own baseline, rows are paid for |
| Devices and auth (`devices.rs`, `auth.rs`) | device rows, signed roster, token families, recovery stamp, login nonce | put roster, sign up, log in, recover, change password, refresh | compare-and-swap beside unlocked reads, rotation and reuse | see the session and roster rows above |
| Notification (`sse.rs`, `sync/stream.rs`) | subscribers | wake, subscribe | wake before commit, lag, reconnect | a wake-up names something visible, a lost one is made up |

### Capture and transcription

| Component | State | Operations | What is hard | What makes it correct |
|---|---|---|---|---|
| Ring buffer, mixed drain (`yapstack-audio`) | cells, positions | write, snapshot, extract | a reader beside the capture callback; two rates | no sample torn, lost or taken twice |
| Capture streams (`manager.rs`, `mic.rs`) | device of each stream, whether it follows the default | start, stop, restart, preflight, watchdog | restarts from three places while devices come and go | a follower is on the default |
| Device broker (`device_broker.rs`) | debounce, routing | flush, route, restart | decision and restart apart | no restart under a session's positions |
| Live slots (`live_transcription.rs`) | slot per kind, inbox, microphone window, presence flag | reserve, set up, install, stop, finalize | failure at every step, stop during start | fenced and idle again |
| Live loop (`live_transcription.rs`) | detector, pending chunk, file position, dictation windows | tick, dispatch, replace the ring, flush | dictations and swaps between ticks | each sample heard once, dictation private, file complete |
| Backfill (`live_transcription.rs`, `silero_vad.rs`) | scan, chunks, pieces | scan, merge, split, send | cuts, pre-roll and boundaries | every spoken frame in one job |
| Scheduler, client, sidecar | lanes, pending ids, process | submit, pick, respawn, shut down | time-outs and crashes beside late answers | every job answered, with its own answer |
| Engine and models (`model.rs`, `commands/transcription.rs`) | model files, claims, installed engine | download, delete, init, shut down | two inits, kill during a download | no orphan sidecar, only verified files |

How the parts meet: the app's writers and the drain share one SQLite file under the write turnstile;
the drain calls push, pull and completeness on the relay; the upload lane calls presign and PUTs to
the object store; relay handlers meet in row locks; the drain, the user's commands and the relay
meet in the session record and its refresh token; the live loop, the dictation, the broker and the
capture callbacks meet in the ring, the slots and the microphone window; live loop and backfill meet
in the scheduler's lanes.

## 2. Modules

| Module | Models | Variables and actions |
|---|---|---|
| `WriteTurnstile` | the ticket lock of `write_turnstile.rs` | `next`, `serving` are the fields of `Tickets`; one action per critical section, `NotifyAll` after the mutex is released, `SpuriousWake` |
| `ChangeLog` | abstract: what the relay promises about a tenant's log | a sequence; `Admit` appends a coherent batch's new entries |
| `SyncEngine` | the engine of every device, their network and the relay | `file` is what survives a crash, `backup` an older copy; each SQLite transaction and each side of a round trip is an action |
| `RelayTx` | push, pull, raise, metering and status changes as interleaved transactions | a handler's `at` is its next statement; writes appear at the commit; `Abort` anywhere |
| `AudioBlobs` | presign, object store, sweep and the client's attempts | statements of a presign beside the two phases of the sweep and the client's PUT |
| `SnapshotStore` | snapshot presign, head, publishers and a joiner | row per generation, objects, calls by their next request |
| `SessionTokens` | session record, drain refresh, user commands, refresh tokens | `store` and `cache` written in two steps; each actor has a place and the record it loaded |
| `SessionStore` | the sealed file, the keychain entry, identity and cache | one action per store call, each may fail; `Die` between any two |
| `DeviceRoster` | device rows, signed roster, anchors; login, recovery, approval, removal, password | a command is a sequence of requests; reads without a lock are steps of their own |
| `CapabilityGate` | proof of the gate, raise, back-off, notices | drain cycle in steps; peers, relay and back-off clock move between them |
| `Quarantine` | stash, merge, replay pass, schema updates | one action per row of a pass |
| `Repair` | cascade and dedup on every device, replication of the repairs | tables with causal lengths and column clocks as cr-sqlite keeps them; a statement's changes are a set, pulls stop anywhere in it |
| `UploadQueue` | upload queue, uploader start, walk and drain | saves and enqueues are two writes, each may fail; so may the walk |
| `AudioFetch` | fetch registry and the player's commands | slots are objects: a task keeps the slot it found |
| `DrainLanes` | the four threads of each generation and the cells they share | `command` is the one user command under way |
| `Cutover` | cutover, rollback, boot recovery, account binding | one action per file operation |
| `Migrations` | the runner on plain and CRR databases, the heals | one action per transaction |
| `RecordingRecovery` | boot sweep and reconciliation beside live peers | sessions with owner and age, files, part rows |
| `RingBuffer` | one writer, a reader copying cell by cell | a sample is its position; cells are relaxed atomics |
| `MixedDrain` | `extract_since`, `extract_since_until` on two rates | positions in mono frames |
| `CaptureStreams` | both streams, preflight, watchdog, broker, devices | device lookup by id, then name, then default |
| `LiveSlots` | start, stop, finalizer, guards, broker's routing | a run is one call of the start command |
| `LiveChunks` | the live loop of the microphone, its file and dictation windows | a position is one detector frame; a tick, a ring replacement, a flush, and the start and end of a dictation are split wherever the code takes another lock or awaits |
| `Backfill` | scan, merge, split and send of earlier audio | scores 0, 1, 2 against the two thresholds; one step per frame, per cut of the splitting loop and per job |
| `Transcriber` | scheduler, client, reader task, sidecar | jobs, lanes, pending ids, process generations |
| `EngineModels` | downloads, deletion, init and shutdown of the engine | overlapping async commands, kills |
| `SyncEngine_proofs`, `RelayTx_proofs`, `SessionTokens_proofs`, `AudioBlobs_proofs` | theorems about the module each is named for | |
| `Accounts_proofs` | theorems about `SessionStore`, `DeviceRoster`, `SnapshotStore`, `AudioFetch`, `UploadQueue` | |
| `Desktop_proofs` | theorems about `Cutover`, `Migrations`, `RecordingRecovery`, `CapabilityGate`, `Quarantine`, `WriteTurnstile`, `DrainLanes` | |
| `Live_proofs` | theorems about `EngineModels`, `CaptureStreams`, `LiveSlots`, `Transcriber` | |
| `Transcript_proofs` | theorems about `RingBuffer`, `MixedDrain`, `Backfill` | |
| `MC_*` | constants, symmetry, and the suites below | |

An operator introduced by "Mutant:" is a plausible bug of the definition that follows it; it is used
only to show that a property can fail. One per property is listed in `PROJECT.json`; the others each
break a further conjunct of the same property when they replace their definition.

A suite (`MC_Service`, `MC_Desktop`, `MC_Live`, `MC_Transcription`, `MC_Accounts`) explores several
modules in one TLC run. The variable `part` chooses the module in the initial state and never
changes; the variables of the others stay as they are, fixed to one initial value. The reachable
states are the union of the parts', not their product, and a property of one module is checked in
its own part. The suites compose nothing; the compositions are `SyncEngine` (devices, network,
relay), `SessionTokens` (drain, commands, relay), `DeviceRoster` (devices, relay), `LiveSlots`
(session, dictation, broker), `Transcriber` (producers, scheduler, client, process) and
`DrainLanes` (threads of two generations, commands, relay's notifications).

## 3. Runs

| Run | Instance | Shows |
|---|---|---|
| `service` | 3 writers with 6 tickets; 2 generations of lanes, one local write, one peer's push, one fault; fair | `OneTurn`, `ServedInOrder`, `NoStarvation`; `LanesClean`: the debouncer that claimed last stays armed while it runs, and a switch-off that has joined its lanes leaves no status of them (what an older generation still does to an installed one is under Observations); `LanesLive`: every stop ends, all work is synced |
| `desktop` | cutover: 2 rows (one an orphan) and one insert, 2 accounts, 2 faults, 1 crash; migrations: 5 migrations of 3 kinds, 2 errors, 3 starts; recovery: 2 sessions, 2 parts, 2 boots; stash: 2 keys, 3 arrivals, 1 failure, 1 restart; gate: 1 peer, outbox of levels 0 and 1, 2 outages; fair | `CutoverSafe`, `ServedAgain`, `MigrationsLand`, `RecoverySound`, `StashKept`, `StashDelivered`, `GateSound`, `RaiseDelivered` |
| `live` | ring of 3 cells with bursts of 4; rates 2 and 3; 14 samples of earlier audio; a loop of 5 positions by itself, one of 4 beside a dictation, with one utterance and one stop, one of 4 with a ring replacement while the sidecar lives, one of 3 with both while it records; 2 inputs and 1 output with 2 device changes; 2 inits, 2 bundles, 1 kill | `AudioReadOnce`, `TranscriptSound`, `CaptureSound`, `EnginesSound` |
| `transcription` | 3 runs of session or dictation, 1 device change, 1 loop that dies; 2 jobs on 2 lanes, 1 sidecar crash, 1 failed respawn, shutdown; fair | `SlotsFenced`, `SlotsSettle`, `LanesSound`, `JobsAnswered` |
| `accounts` | 3 devices with 3 commands and a lost answer; 2 writers of the session file, 2 failed calls, 1 death; 2 parts at 1 permit; 2 recordings, 2 starts of the uploader; 2 seeds, 3 publications, quota 5; 2 replicas with 2 notes and 2 tags | `RosterSound`, `StoreSound`, `AudioLanesSound`, `SnapshotsSound`, `RepairsSound` |
| `session` | 3 calls of approve, sign-in and sign-out, or 2 of all six commands, beside the drain, a lost answer, a crash; fair | one live token per family, no older token comes back to disk, no refresh undoes a sign-out, a sign-out ends |
| `engine_restore` | 1 device, transactions of 1 or 2 rows, chunks of 1, one restore, two faults; fair | `NoSilentLoss`, `AckedIsStored`, refinement of `ChangeLog` (`LogSpec`), `Converges` |
| `engine_pair` | 2 writing devices, two vault keys, one restore, one fault | the pull watermark passes only what is merged or quarantined |
| `relay` | 3 handlers; one device's 3 overlapping requests with batches of 2 and pages of 1, or 3 requests of two devices that push one changeset of a new level, pull and raise, beside a status change; quota 2 | `LogComplete` (dense, complete below every watermark, hints committed, within quota), `FloorSound` (readers and raises), `LocksSound` (some handler in a transaction waits for nobody, and each such handler has a step), `LogSpec` |
| `audio` | 2 parts, 3 hashes, 4 attempts, 2 failed PUTs, 1 abandoned presign, 4 sweeps; desktops, or clients that share 2 hashes; fair | `BlobsSound`: usage equals blobs and, while no presign was abandoned, refcounts equal mappings, done means downloadable, no object is orphaned; `LaneSettles`: uploads end, unreferenced blobs are reclaimed |

Most properties are conjunctions of named parts, each stated and commented in its module. A suite
checks the part of its `part` only, so every conjunct is checked where its module moves.

Two runs end in a violation, each the disagreement of a sentence in the repository with the code
(quoted under `findings`):

| Run | The code does |
|---|---|
| `session_password` | the password command is a second refresher beside the drain: both present one token, the second is reuse and the family is revoked |
| `repair_notes` | the winner among two notes of a session depends on edits that are not pushed yet: two devices each delete the note the other keeps, and none is left |

### Observations

Where a passing property stops, the module states the stronger one the repository's comments
suggest. TLC refutes each of these when it replaces the properties of the named run's cfg (constants
as there unless given):

| Run | Property | What the code does | Said otherwise in |
|---|---|---|---|
| `desktop` | `BackupKept` | A write answered after the `VACUUM` copy and before the pool closes is only in the backup; one after the reopening makes the counts differ, and the rollback replaces the file that has it. Orphan rows make every cutover roll back. | `sync.rs:2704-2707` |
| `desktop` | `FilesRecovered` | The sweep deletes an empty session whose file is on disk; reconciliation finds no session to attach it to. | `live_transcription.rs:5561-5563`, `lib.rs:821-823` |
| `transcription` | `InboxWhileRunning` | A stop during a start is refused, but took the inbox's sender first (5933-5939): the session runs on and the broker cannot reach it. | `live_transcription.rs:716-719` |
| `transcription` | `RestartSafe` | The broker decides on a flag a starting session sets before the restart happens. | `device_broker.rs:368-369` |
| `live` | `NeverOverheard` | A dictation that begins after a tick, or a dead sidecar's flush, has read the windows and before it takes the samples: its first samples are sent. | `live_transcription.rs:3835-3837`, `2919-2921` |
| `live` | `SentBehind` | The window of such a dictation takes the detector back to its end, behind what was sent. | `live_transcription.rs:3837` |
| `live` | `WindowKept` | A dictation that ends between the swap of a ring and the rebase has its end on the new ring and its start on the old one: the window is dropped. One that began before the pending speech does not bound the rescue. | `commands/transcription.rs:313-318`, `live_transcription.rs:2939-2942` |
| `live` | `WindowOnRing` | The start of a window is read before the live state's lock is taken; the ring may be replaced in between. | `live_transcription.rs:5392-5394` |
| `live` | `DictationPrivate` without `adrift` | A dictation's end read on the old ring and stored after the rebase closes the window beyond what the new ring holds; a tick that read the windows before the ring got there takes nothing more from it for dictated. | `live_transcription.rs:5864-5871` |
| `live` | `FilePrivate` | The rescue of an old ring's file is cut at a dictation found after the detector's start; one between the file's position and that start stays audible. | `live_transcription.rs:2939-2943` |
| `live` | `PendingKept` | Speech pending when a dictation opens is dropped while an earlier chunk is in flight. | `live_transcription.rs:3830-3832` |
| `live` | `FailFastTold` | Rebinding to the same device uses up the attempts of a mixed session, which then ends without `restart_abandoned`. | `live_transcription.rs:2651-2652` |
| `live` | `FallbackFollows` | A restart that fell back to the default keeps the flag of the explicit choice. | `manager.rs:856-861` |
| `live` | `DefaultExact` with one name for two microphones in `Name` | A restart that preserves the device tries the stored id, then the name: a default that does not open is replaced by its namesake, and the flag still says it follows. | `manager.rs:867-872`, `device.rs:258-262` |
| `live` | `StopsStay` | The broker restarts a stream it saw running after the user stopped the capture. | `device_broker.rs:195-196` |
| `live` | `MixedAligned` | The fraction of a frame each trimming cuts off is never made up; the sources drift apart. | `manager.rs:533-535` |
| `live` | `AttachedServed` | A live run attaches between the check and the take of a shutdown. | `commands/transcription.rs:428-429` |
| `live` | `DownloadedThere` | A delete beside a download removes a file the download had finished. | `model.rs:466` |
| `service` | `GateOwned`, `StatusOwned`, `KickHeard` | Two generations share process-wide cells: the old drain's exit opens the new uploader's gate, the old drain publishes after the new reset, and an old debouncer that first runs late claims and then disarms. | `sync.rs:2948-2951`, `3576-3582`, `3126-3127` |
| `accounts` | `RevokedNeedsApproval` (`MaxCommands = 5`) | A removed device recovers twice: the first recovery makes it pending without a grant, the second finds it pending and grants, and it approves itself. | `auth.rs:558-561` |
| `accounts` | `IdentityKept` | A failed keychain read looks like no identity, and a second one is minted. | `sync.rs:5464-5479` |
| `accounts` | `SingleFlight` (`Cap = 2`, `MaxSubmits = 4`, `MaxPokes = 2`) | A cancelled task that ends late removes the slot of its successor; a third request starts beside the second. | `audio.rs:1115-1118` |
| `accounts` | `InFlightOwned` | A bookkeeping write that fails leaves the entry in flight until the next start. | `sync.rs:4897-4898` |
| `accounts` | `PublishedKept` (`MaxHeadErrors = 0`) | An upload that lands between the HEAD and the swap is replaced although it was reported. | `snapshot.rs:142-147` |
| `relay` | `RevokedNeverWrites` | The push reads the status without a lock, so one that read "active" commits after the revocation. | `devices.rs:389-390` |
| `session` | `RosterNeverBack`, `EnableSticks` | A refresh stores the record it loaded before an approval or an enable. | `sync.rs:1096-1097`, `SYNC_SPEC.md:458` |

`LinksSurvive` of `Repair` (`uniqueness.rs:12-13`) is refuted by `MC_Repair_notes.cfg` with
`NoteIds = {}`, `TagIds = {1, 2}` and `MaxEdits = 4`: a link repointed to a tag that another device
deletes goes with it. A refresh answer lost after the relay committed refutes `Refreshable` too
(`sync.rs:3861-3863`); an abandoned presign that runs beside its retry refutes `MappingCount`
(`audio.rs:13-14`), which is why `KeptWhenAnswered` is conditional; and for clients that present a
hash again the sweep refutes `DoneIsStored` (`gc.rs:156-157`).

`SlotsFenced` records one step it cannot exclude: a finalizer clears the mark of a session that is
present as its last statement (`live_transcription.rs:5879-5888`), after the slot is idle, so it may
clear the mark of the next session. `raced` says that it did.

Seen while reading, without a property: a batch whose scoring fails part-way drops the unscored
audio (`live_transcription.rs:2087-2091`); a sidecar line that is not UTF-8 ends the reader and the
next request waits its full time-out; `last_engine_info` is not filled again after a respawn; a
failed maintenance pass only warns, with the schedule disarmed; downloads have no read time-out;
`put_snapshot` and `get_snapshot` have no product caller and send no capability header
(`transport.rs:404`); `db.ts:806` relies on a foreign-key cascade that the CRR conversion strips.
In `useDictation.ts`: the 1.2 s "done" timer can idle a newer dictation; a slot deleted while it
records leaves the run going; a start that outlives its cancel attaches to the next recording.

### Bounds

Every bound is a CONSTANT whose comment says so. They are the smallest at which the case a property
is about happens: a transaction wider than a chunk; a restore followed by a capture and a push under
re-minted numbers; two pushes of one pair and a pull between them; a quota that two requests fill and
a third exceeds; a key with a failed row, a blocked row and a later arrival; a burst longer than the
ring; a chunk longer than the quantum; a dictation, a ring replacement and a stop in one recording;
an account change after a cutover that a crash interrupted. The mutants are the evidence: for each
property, a plausible bug makes it fail within the same bounds. `CHECK_DEADLOCK FALSE` is set where a
budget of requests, calls or recordings ends the behaviour.

### Fairness

- `WriteTurnstile`: a thread that is awake runs on, and a holder releases its turn. The code's
  writers hold it for one transaction.
- `SyncEngine`: the drain thread loops (`sync.rs`, drain loop) and the relay serves what reaches it.
- `DrainLanes`: each drain and debouncer thread runs on (the drain's idle wait has a time-out, so it
  comes round without a wake-up), and the command that spawned or joins lanes goes on.
- `Cutover`: the thread that cuts over, rolls back or recovers goes on to its next file operation.
- `Quarantine`, `CapabilityGate`: every drain cycle replays and pushes, and the back-off's clock runs.
- `LiveSlots`, `Transcriber`: spawned tasks are polled: a start goes on, a loop that was told to stop
  flushes and ends, a detached revert guard gets its lock, the worker and the shutdown go on. A
  request to the sidecar ends by its answer, its time-out or the death of the process.
- `AudioBlobs`: Postgres runs a statement whose lock is free; the uploader loops, the GC runs on its
  timer, the grace period passes. `RelayTx` assumes no fairness.
- `SessionTokens`: a command or thread that has begun runs on. Strong fairness of `DrainStops`: the
  drain comes back to the head of its loop again and again and tests the flag there.

No fairness is assumed for users, devices, faults, retries by hand, or restarts. Faults are finite in
the liveness runs: they ask for progress once the network and the app stay up. `LocksSound` excludes
deadlock; starvation of a `FOR UPDATE` by an endless stream of `FOR SHARE` readers is out of scope.

## 4. Proofs

TLAPS proves the following for every value of the constants that the module's named ASSUMEs allow
(budgets are naturals, sizes are positive, a "none" value is not a member of the set it stands
beside). None of the invariants below is inductive as the runs check it; each proof states the
stronger invariant it needs, has one lemma per action or per group of actions (`...Keeps`), and
combines them in the theorem. Each row says what the inductive invariant adds.

| Theorem | Property | What makes it inductive |
|---|---|---|
| `SyncEngine_proofs`: `NoSilentLossHolds`, `AckedIsStoredHolds`, `PulledOrQuarantinedHolds`, `PairUniqueHolds` | those properties | below |
| `Refinement` | the devices' relay implements `ChangeLog` | `Inv`: only a coherent batch's new entries are appended |
| `RelayTx_proofs`: `LogCompleteHolds`, `FloorSoundHolds` | `LogComplete`, `FloorSound` | below |
| `NobodyCorneredHolds` | `NobodyCornered`, the lock order in `LocksSound` | steps past the last lock wait for nobody; without them no usage row is owned, then no sequence row, no device row, no floor |
| `Refinement` | `LogSpec`: every commit appends in the order of the sequence, every other step stutters | `Invariance` |
| `SessionTokens_proofs`: `TokensSoundHolds` | `TokensSound` | a live token is the only one of its family not spent, and every record, on disk, in the cache or in a thread's hand, names a token that exists |
| `SessionNeverBackHolds` | the action property `SessionNeverBack` | `AccountInv`: who may be between its read and its write while the drain runs, and with which token |
| `Accounts_proofs`: `StoreSoundHolds` | `StoreSound` | a writer past the lock holds it, so what it read of the file and of the keychain entry is still so when it writes |
| `RosterSoundHolds` | `RosterSound` | a signer that saw the current counter saw the current list; the one in its commit holds the roster row |
| `SnapshotsSoundHolds` | `SnapshotsSound` | a row holds a seal with its own baseline, and a call past its gate presents a level the floor still admits; what the rows pin is a finite set of bytes, so a replacement changes its size by exactly the growth it pays for |
| `AudioLanesSoundHolds` | `AudioLanesSound` under `AccountSpec` | a part waits once at most; who waits has a task in state queued and a slot; a task past its work has left an outcome on the very slot it took, so nobody is told to wait for it; a recording seen at the start is, while the library is walked, on the list, queued, or stepped over |
| `RepairsSoundHolds` | `RepairsSound` under `AccountSpec` | below |
| `AudioBlobs_proofs`: `MeteredHolds` | type correctness and `Metered` under `Spec` | an insert is under its row's lock; a transaction's own writes are counted with it |
| `BlobsSoundHolds` | `BlobsSound` under `DesktopSpec` and `SharedSpec` | while every presign is awaited, one handler at most works for a part, so the mapping it read is still there at its commit; a desktop's hash is fresh, so what the collector has gathered is neither mapped nor asked for (for shared hashes the collector is at rest); once a presign was abandoned the promise lapses and only the metering stays |
| `Desktop_proofs`: `CutoverSafeHolds` | `CutoverSafe` | below |
| `MigrationsLandHolds` | `MigrationsLand` | the schema and the set of CRR tables only grow, triggers that are fresh stay fresh, and only the conversion of all tables makes a plain database a CRR one |
| `RecoverySoundHolds` | `RecoverySound` | only sessions of this device have files here, a peer's live row is one the sweep spares, and while files are reconciled a session of ours that still counts as recording is ownerless and young |
| `GateSoundHolds` | `GateSound` | whoever is about to publish has the proof, a proof fails its relay only after a swap nobody has seen, and once the user was told all is well no peer is below and no refusal is waited out |
| `StashKeptHolds`, `KeyOrderHolds` | `StashKept`, the action property `KeyOrder` | what a pass has looked at and left behind is counted, and each such row waits for its schema or has closed its key; what arrives beside the pass comes after all it looks at |
| `TicketDiscipline`, `MutualExclusion`, `FirstComeFirstServed` | `TicketInv`, `OneTurn`, the action property `ServedInOrder` | tickets in the queue are distinct and lie between `serving` and `next` |
| `LanesCleanHolds` | `LanesClean` | a debouncer that started has a claim of its own and there are as many claims as debouncers that started; a drain that runs is installed, about to be, or waited for |
| `Live_proofs`: `EnginesSoundHolds` | `EnginesSound` | the engines in the hands of inits, of the shutdown and in the slot are distinct and up; a file on disk is one its bundle pins |
| `CaptureSoundHolds` | `CaptureSound` | a microphone that follows the default, running or stopped, is on it or on a device of its name, or the change is still owed to somebody or known to be lost |
| `SlotsFencedHolds` | `SlotsFenced` | a slot has one holder at a time: the run that reserved it, until that run vacates it or its revert task ran; a session whose loop was spawned is marked present, unless a late step of an earlier run was recorded |
| `LanesSoundHolds` | `LanesSound` | a job is in one place (queued once, in hand, answered); ids are never used again, so what the pipes hold under the worker's id is about its job; the stages of the shutdown |
| `Transcript_proofs`: `AudioReadOnceHolds` | `AudioReadOnce` | below |

**The engine.** `Inv` of `SyncEngine_proofs` is `TypeOK`, `PairUnique`, and, for each device, the
same facts about its `file` and its `backup`, since a restore turns one into the other:

- *push*: a row at or below the push watermark is at the relay or in the outbox; what a capture in
  progress holds in `snap` is exactly what separates the next chunk's watermark from the rows
  (a `db_version` counts as passed only when all its rows are in chunks, `ClosedVersions`);
- *pull*: the watermark, the page being merged and its remaining `todo` cover the log without a gap;
- *acks*: an acked row names its own entry in the log, and so does a response not yet applied;
- *requests*: a batch on the wire carries entries that were sealed by their device; a seal's
  incarnation tells two contents of one pair apart, so an ack for a pair is an ack for its content;
- *retry*: a quarantine row about to be deleted has been merged.

The lemmas about its operators (`AckKeeps`, `ReseedKeeps`, `ChunkKeeps`, `MergeKeeps`) and two frame
lemmas carry it: what one device does leaves the others alone (`DeviceStep`), and a log that grows at
its end keeps every device's facts (`GrowthKeeps`).

**The relay's transactions.** What a handler has read stays true until its commit because of the row
locks it took, and only because of them. `LocksHeld` says that no two transactions hold conflicting
locks on the sequence row, the usage row, the floor row or a device row; `JobOK` says, step by step,
what a handler's job still shares with the tables: the floor it read is the floor from its `FOR SHARE`
on, its `next` is the table's from its `FOR UPDATE` on, the rows it has numbered are what its batch
adds to the log and start at `next`, the reservation still fits the quota, a page is the part of the
log between its cursor and its last row. `Dense`, `CursorComplete`, `HintCommitted` and `QuotaKept`
follow at each commit from the committing handler's `JobOK` alone.

**The cutover.** Where the complete copies of the data are follows from the step the app is in:
the live file until it is moved away, the backup until the counts are compared, the staging file
between the copy and the swap. `UnionOK` says that after at most one failed file operation the files
that are left hold every answered write between them, `FullOK` that the database served is one of the
complete ones, `OwnOK` that the changesets in an outbox belong to the account bound to it.

**The samples.** The ring: a cell holds its last published sample or, inside a burst, the one being
written; what the reader has copied is at least the sample it wanted, a whole number of laps ahead at
most up to the burst's end. The drain: on each source, what was used is at most what was passed, and
equal to it while the ring has not lapped. The backfill: chunks and jobs are spans in order and
apart (`Apart`); during the scan no chunk reaches past `prevEnd`, open speech begins behind it, and every
sample of a spoken frame lies in a chunk or in the open speech; during the splitting each job is a
chunk or a long enough part of one (`PartOf`), and what lies before the place of the loop is covered.
A cut of `quietest_frame_midpoint` lies inside the bounds it was given (`QuietestBounds`), from which
it follows that no piece is too long or too short and that the loop advances.

**The repairs.** Rows only grow in the order cr-sqlite merges by (`Grown`: a longer causal length, or
the same with each column at least as new), and a merge of a set of changes is the least row that
absorbs them, so neither order nor repetition matters. `ExchangeInv` says where changes are: each one
below a device's cursor is stashed there or absorbed by its row (`PulledIsIn`); each row, and each change
on the log, of a living row is backed, column by column, by something as new on the log or marked dirty
on some device (`RowsBacked`, `SentBacked`), which is what survives a delete that wipes a row's marks or
a failed pull that merges half a statement. With nothing dirty and every cursor at the end, two devices
have absorbed the same changes and hold nothing beyond them, so their rows are equal (`RowsAgree`), and
no living row lacks a column, so each note and tag takes part in the dedup. `IdleIsTidy` says that a
device that owes no pass, has nothing to push and nothing new to pull is tidy: a merge arms the
schedule, a pass leaves a tidy table (its deletes are of other rows than those it keeps, and a
replacement link hangs from a living tag), and whatever else changes a table leaves a mark to push.
The greatest of a set of numbers exists because numbers stay bounded (`RepairBounded`).

`CaptureSoundHolds` is for any names of the microphones: what follows the default is on a device of
the default's name, which is the default itself where names are distinct, as in the run.

Only model-checked:

- everything temporal under fairness (`NoStarvation`, `LanesLive`, `ServedAgain`, `StashDelivered`,
  `RaiseDelivered`, `SlotsSettle`, `JobsAnswered`, `StopEnds`, `Converges`, `LaneSettles`);
- the second half of `LocksSound`, that a handler that waits for nobody has a step, which is about
  `ENABLED`; its first half is `NobodyCorneredHolds`;
- `TranscriptSound`.

The prover handles neither of the first two. Every other invariant and action property of the passing
runs is stated by a theorem above.

## 5. Abstractions to know of

- Ciphertexts, rows, hashes and samples are values; a seal opens under its own key only. One
  changeset and one blob are one byte of quota.
- `SyncEngine`: the capability gate appears only as a failed push half (`CapabilityGate` has it). The
  relay's push is atomic there; `RelayTx` justifies it, both implementing `ChangeLog`.
- `RelayTx`: `upload_bytes_period`, frozen tenants and tokens without a device are left out.
- `AudioBlobs`: a released blob may age at any time, which allows more than the real clock. What
  is promised differs for desktops, whose seals are fresh (`DesktopSpec`, collector at work), and for
  clients that present a hash again (`SharedSpec`, collector at rest); the run starts in either.
- `SessionTokens`: the sealed file and its keychain entry are one write (`SessionStore` takes them
  apart); a new access token is accepted; commands are not serialised with each other. Sign-in and
  enable happen in the states in which the app offers them.
- `DeviceRoster`: signatures and keys are facts about who signed; a device's own commands follow each
  other, commands of different devices interleave.
- `DrainLanes`: one user command at a time, as the busy flags of `SyncTab.tsx` and the setup wizard
  keep it.
- `Quarantine`: one table; the stash is a set of rows, each with the number it arrived under, since
  the code reads it `ORDER BY` its id; a merge whose ready row fails is rolled back and pulled again. Malformed
  stash blobs are left out: the stash holds what `stash` encoded.
- `Repair`: one session with its notes and tags; `dedup_audio_parts` has the shape of the tags' dedup.
  The relay's log is a sequence of statements' change sets. A pull that fails may have merged any part
  of the next one; its cursor then stays before it, and merging that part again changes nothing.
- `Cutover`: a database file is the set of writes it holds; a copy into the live
  path is one step, since it lands by an atomic rename of a temporary file.
- `LiveChunks`: the microphone's source only, and detector scores for it alone; wall-clock conditions
  and scores are free choices. A lock that is taken, and an await, end a step. Two exceptions: the
  frames of a tick are polled, and its file is written and scored, in one step each, since nothing in
  them is shared until the windows are read, last. A batch that cannot be resampled (the tick goes on
  to the next) and the end of a mixed session whose sources cannot be restarted (`FailFastTold`) are
  left out. `AllSaid` is about recordings in which no wait outlasted the pre-roll or the stop's grace
  (`"stalled"`): beyond that the ring's write position, read late, leaves speech behind the cursor.
  `Backfill` enumerates every score sequence. `MixedDrain`'s durations are exact.
- `RingBuffer`: relaxed cells give any value at least as new as what the position's release published.
- `Transcriber`: a time-out is a step that may happen at any time while a request waits. The abort of
  the worker is not awaited: until `DropWorker` its task, and the caller it is answering, are there.
- `UploadQueue`: a walk of the library fails as a whole (`WalkFails`) and the drain goes on with what
  was queued before; the promise about the library is for a walk that ended.
- `SyncEngine`: the permanent `SyncError::Oversized` (`outbox.rs:655-670`) is left out. Capture keeps
  every new entry within the budget it tests; a device with an older, larger one does not converge.

## 6. Not modelled, and why

Cryptographic primitives, HTTP and WAV encoding, resampling, inference engines, operating-system
audio calls, window and logging code, configuration, rate limits and entitlement tables: no protocol
state of their own. Postgres, the keychain and the object store are external and appear by the facts
the code uses; of the vendored cr-sqlite only how rows and clocks are written and merged is modelled
(`Repair`). Of the front end only the writes of `db.ts` that the models need are there;
its dictation and recording hooks (`useDictation.ts`, `appStore.ts`) are state machines worth a
module, the rest is rendering.

## 7. Plan

Done: all modules of section 2, and the proofs of section 4.

Next, to model: the dictation hook of the front end beside `LiveSlots`; the system-audio source of
the live loop beside the microphone's; restoring a snapshot on a joining device once product code
calls it.
