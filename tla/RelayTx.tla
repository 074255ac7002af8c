------------------------------- MODULE RelayTx -------------------------------
(***************************************************************************)
(* The relay's request handlers for one tenant as concurrent READ          *)
(* COMMITTED transactions: push, pull and the raise of the sync capability *)
(* floor (crates/yapstack-server/src/sync/{push,pull,capability}.rs), the  *)
(* metering of choke.rs (shared with the audio presign), and the status    *)
(* changes a roster upload makes (devices.rs).                             *)
(*                                                                         *)
(* A statement that waits for a row lock or reads shared state is a step.  *)
(* It sees what is committed when it runs; the writes of a transaction     *)
(* appear together at its commit and its row locks are held until then, so *)
(* the locks a handler holds follow from where it is.  A handler can die   *)
(* at any step, which rolls its transaction back.                          *)
(*                                                                         *)
(* A changeset counts as one byte.  The level of a ciphertext is the sync  *)
(* capability a reader needs for it; a push declares the highest level of  *)
(* its batch.  The row keys of `changesets' are not used as guards: that   *)
(* they are never violated is what Dense and LogSpec say.                  *)
(***************************************************************************)
EXTENDS Naturals, Sequences, FiniteSets, Functions

CONSTANTS Handlers,     \* requests the relay can serve at the same time
          Clients,      \* client_ids of the tenant's devices
          NoClient,     \* an idle handler serves nobody
          ClientSeqs,   \* client_seq numbers
          Ciphertexts,  \* sealed changesets
          LevelOf,      \* level each of them needs
          MaxBatch,     \* MAX_PUSH_CHANGES
          MaxLimit,     \* MAX_LIMIT: most changesets of a pulled page
          Quota,        \* storage_bytes the tenant may use
          MaxRequests,  \* bound: requests begun
          MaxChanges    \* bound: status changes and window expiries

ASSUME RelayAssumption ==
    /\ NoClient \notin Clients
    /\ ClientSeqs \subseteq Nat
    /\ LevelOf \in [Ciphertexts -> Nat]
    /\ MaxBatch \in Nat \ {0}
    /\ MaxLimit \in Nat \ {0}
    /\ Quota \in Nat
    /\ MaxRequests \in Nat
    /\ MaxChanges \in Nat

VARIABLES
    rows,    \* changesets: committed rows
    nextSeq, \* tenant_seq.next_seq
    floor,   \* tenant_sync_capability
    dev,     \* devices: status, reported level, seen within the window
    usage,   \* tenant_usage.storage_bytes
    hint,    \* last changeset_seq broadcast to the SSE subscribers
    at,      \* the statement each handler runs next
    job,     \* its request and what it read so far
    cursor,  \* pull watermark of each device
    got,     \* history: the changesets each device was given
    audio,   \* history: audio bytes charged
    begun,   \* history: requests
    changes  \* history: status changes and expiries

tables  == <<rows, nextSeq, floor, dev, usage>>
devices == <<cursor, got>>
vars    == <<tables, hint, at, job, devices, audio, begun, changes>>

-----------------------------------------------------------------------------
Levels  == {LevelOf[c] : c \in Ciphertexts} \cup {0}
Entries == [client : Clients, cseq : ClientSeqs, ct : Ciphertexts]
Rows    == [seq : Nat, entry : Entries]

DeviceRows == [status : {"pending", "active", "revoked"}, level : Levels, seen : BOOLEAN]

Steps == {"idle",
          "push_caller", "push_floor", "push_seq", "push_walk", "push_meter",
          "push_commit", "push_wake",
          "pull_floor", "pull_stamp", "pull_read", "pull_commit",
          "raise_floor", "raise_caller", "raise_check", "raise_commit",
          "audio_meter", "audio_commit"}

(***************************************************************************)
(* client: the device the token names.  level: the header (what the caller *)
(* handles, or what its batch needs).  floor: required, as lock_floor read *)
(* it.  stamp: the caller's devices row is written.  batch, next, fresh:   *)
(* the push, its counter and the rows it inserts.  since, page: the pull.  *)
(* target, members, free: the raise, the devices not revoked when it       *)
(* looked, and whether none of them blocks it.                             *)
(***************************************************************************)
Jobs == [client : Clients \cup {NoClient}, level : Levels, floor : Levels,
         stamp : BOOLEAN, batch : SUBSET Entries, next : Nat, fresh : SUBSET Rows,
         since : Nat, page : SUBSET Rows, target : Levels,
         members : SUBSET Clients, free : BOOLEAN]

NoJob == [client |-> NoClient, level |-> 0, floor |-> 0, stamp |-> FALSE,
          batch |-> {}, next |-> 0, fresh |-> {}, since |-> 0, page |-> {},
          target |-> 0, members |-> {}, free |-> FALSE]

Init ==
    /\ rows = {}
    /\ nextSeq = 1
    /\ floor = [required |-> 0, requested |-> 0]
    /\ dev \in [Clients -> [status : {"pending", "active"}, level : {0}, seen : {FALSE}]]
    /\ usage = 0
    /\ hint = 0
    /\ at = [h \in Handlers |-> "idle"]
    /\ job = [h \in Handlers |-> NoJob]
    /\ cursor = [c \in Clients |-> 0]
    /\ got = [c \in Clients |-> {}]
    /\ audio = 0
    /\ begun = 0
    /\ changes = 0

TypeOK ==
    /\ rows \subseteq Rows
    /\ nextSeq \in Nat \ {0}
    /\ floor \in [required : Levels, requested : Levels]
    /\ dev \in [Clients -> DeviceRows]
    /\ usage \in Nat
    /\ hint \in Nat
    /\ at \in [Handlers -> Steps]
    /\ job \in [Handlers -> Jobs]
    /\ cursor \in [Clients -> Nat]
    /\ got \in [Clients -> SUBSET Rows]
    /\ audio \in Nat
    /\ begun \in Nat
    /\ changes \in Nat

-----------------------------------------------------------------------------
(* Mutant: a pull commits its gate transaction before it reads.            *)
SharesFloorPushOnly(h) ==
    at[h] \in {"push_seq", "push_walk", "push_meter", "push_commit"}

(* Mutant: the raise checks its caller with the unlocked read.             *)
LocksDeviceOnStamp(h, c) ==
    /\ job[h].client = c
    /\ at[h] \in {"pull_read", "pull_commit", "raise_check", "raise_commit"}
    /\ job[h].stamp

(* Row locks, by the statements between which they are held.               *)
SharesFloor(h) == at[h] \in {"push_seq", "push_walk", "push_meter", "push_commit",
                             "pull_stamp", "pull_read", "pull_commit"}
OwnsFloor(h)   == at[h] \in {"raise_caller", "raise_check", "raise_commit"}
OwnsSeq(h)     == at[h] \in {"push_walk", "push_meter", "push_commit"}
OwnsUsage(h)   == at[h] \in {"push_commit", "audio_commit"}
LocksDevice(h, c) ==
    /\ job[h].client = c
    /\ \/ at[h] \in {"pull_read", "pull_commit"} /\ job[h].stamp
       \/ at[h] \in {"raise_check", "raise_commit"}

Others(h) == Handlers \ {h}

Goto(h, step)    == at' = [at EXCEPT ![h] = step]
Note(h, j)       == job' = [job EXCEPT ![h] = j]
Done(h)          == Goto(h, "idle") /\ Note(h, NoJob)

(* A request arrives for an idle handler.                                  *)
Begin(h, step, j) ==
    /\ at[h] = "idle"
    /\ begun < MaxRequests
    /\ begun' = begun + 1
    /\ Goto(h, step)
    /\ Note(h, j)
    /\ UNCHANGED <<tables, hint, devices, audio, changes>>

(* A statement that changes nothing but what its own handler knows.        *)
Only(h, step, j) ==
    /\ Goto(h, step)
    /\ Note(h, j)
    /\ UNCHANGED <<tables, hint, devices, audio, begun, changes>>

(* The transaction ends without a trace: an error answer, a dropped        *)
(* connection, a crash.                                                    *)
Rollback(h) ==
    /\ Done(h)
    /\ UNCHANGED <<tables, hint, devices, audio, begun, changes>>

-----------------------------------------------------------------------------
(* lock_floor.                                                             *)
LockFloorShare(h, step, j) ==
    /\ \A g \in Others(h) : ~OwnsFloor(g)
    /\ Only(h, step, [j EXCEPT !.floor = floor.required])

LockFloorUpdate(h, step, j) ==
    /\ \A g \in Others(h) : ~OwnsFloor(g) /\ ~SharesFloor(g)
    /\ Only(h, step, [j EXCEPT !.floor = floor.required])

(* record_caller_level writes the row when the level differs or there is   *)
(* no recent stamp; a row seen within the window may be over an hour old.  *)
MustStamp(c, l) == dev[c].level # l \/ ~dev[c].seen

Stamped(j) == IF j.stamp
              THEN [dev EXCEPT ![j.client].level = j.level, ![j.client].seen = TRUE]
              ELSE dev

(* Mutant: read the counter, then write it, without the row lock.          *)
CanMeterAtOnce(h) == TRUE

(* choke::admit: check and reserve under the lock of the usage row.        *)
CanMeter(h)      == \A g \in Others(h) : ~OwnsUsage(g)
WithinQuota(n)   == usage + n <= Quota
Meter(h, n, step) ==
    /\ CanMeter(h)
    /\ WithinQuota(n)
    /\ Only(h, step, job[h])

-----------------------------------------------------------------------------
(* POST /sync/push                                                         *)
LevelOfBatch(batch) ==
    CHOOSE l \in Levels :
        /\ \A e \in batch : LevelOf[e.ct] <= l
        /\ \/ l = 0
           \/ \E e \in batch : LevelOf[e.ct] = l

Batches == {batch \in SUBSET Entries :
                /\ IsFiniteSet(batch) /\ batch # {}
                /\ Cardinality(batch) <= MaxBatch}

BeginPush(h, c, batch) ==
    /\ batch \in Batches
    /\ Begin(h, "push_caller",
             [NoJob EXCEPT !.client = c, !.batch = batch, !.level = LevelOfBatch(batch)])

(* require_active_caller: an unlocked read.                                *)
PushCaller(h) ==
    /\ at[h] = "push_caller"
    /\ dev[job[h].client].status = "active"
    /\ Only(h, "push_floor", job[h])

(* lock_floor(Share), then admit_publication.                              *)
Admitted(h) == job[h].level <= floor.required

PushFloor(h) ==
    /\ at[h] = "push_floor"
    /\ Admitted(h)
    /\ LockFloorShare(h, "push_seq", job[h])

(* Mutants: next_seq read without FOR UPDATE; the floor lock upgraded to   *)
(* FOR UPDATE while it is shared.                                          *)
PushLockFree(h) ==
    /\ at[h] = "push_seq"
    /\ Only(h, "push_walk", [job[h] EXCEPT !.next = nextSeq])

PushLockUpgrades(h) ==
    /\ at[h] = "push_seq"
    /\ \A g \in Others(h) : ~OwnsSeq(g) /\ ~SharesFloor(g)
    /\ Only(h, "push_walk", [job[h] EXCEPT !.next = nextSeq])

(* The tenant_seq row, FOR UPDATE.                                         *)
PushLock(h) ==
    /\ at[h] = "push_seq"
    /\ \A g \in Others(h) : ~OwnsSeq(g)
    /\ Only(h, "push_walk", [job[h] EXCEPT !.next = nextSeq])

StoredEntries == {r.entry : r \in rows}
SamePair(a, b) == a.client = b.client /\ a.cseq = b.cseq

(* Mutant: the walk does not remember the pairs it has just numbered.      *)
ClashStored(batch) ==
    \E e \in batch : \E s \in StoredEntries : SamePair(e, s) /\ e.ct # s.ct

(* A pair of the batch is stored, or occurs earlier in the batch, under a  *)
(* different ciphertext.                                                   *)
Clash(batch) ==
    \E e \in batch : \E s \in StoredEntries \cup batch : SamePair(e, s) /\ e.ct # s.ct

(* The batch in any order: its new entries take the next numbers.          *)
Numberings(new, next) ==
    {{[seq |-> f[e], entry |-> e] : e \in new} :
        f \in Bijection(new, next .. (next + Cardinality(new) - 1))}

PushWalk(h) ==
    /\ at[h] = "push_walk"
    /\ ~Clash(job[h].batch)
    /\ job[h].batch \ StoredEntries # {}
    /\ \E new \in Numberings(job[h].batch \ StoredEntries, job[h].next) :
           Only(h, "push_meter", [job[h] EXCEPT !.fresh = new])

(* Every pair is stored already: acks only.                                *)
PushRetried(h) ==
    /\ at[h] = "push_walk"
    /\ ~Clash(job[h].batch)
    /\ job[h].batch \subseteq StoredEntries
    /\ Rollback(h)

PushMeter(h) ==
    /\ at[h] = "push_meter"
    /\ Meter(h, Cardinality(job[h].fresh), "push_commit")

PushCommit(h) ==
    /\ at[h] = "push_commit"
    /\ rows' = rows \cup job[h].fresh
    /\ nextSeq' = nextSeq + Cardinality(job[h].fresh)
    /\ usage' = usage + Cardinality(job[h].fresh)
    /\ Goto(h, "push_wake")
    /\ UNCHANGED <<floor, dev, hint, job, devices, audio, begun, changes>>

(* Mutant: wake with next_seq instead of the last number assigned.         *)
PushWakeNext(h) ==
    /\ at[h] = "push_wake"
    /\ hint' = job[h].next + Cardinality(job[h].fresh)
    /\ Done(h)
    /\ UNCHANGED <<tables, devices, audio, begun, changes>>

PushWake(h) ==
    /\ at[h] = "push_wake"
    /\ hint' = job[h].next + Cardinality(job[h].fresh) - 1
    /\ Done(h)
    /\ UNCHANGED <<tables, devices, audio, begun, changes>>

-----------------------------------------------------------------------------
(* GET /sync/pull                                                          *)
BeginPull(h, c, l) ==
    Begin(h, "pull_floor", [NoJob EXCEPT !.client = c, !.level = l, !.since = cursor[c]])

PullFloor(h) == at[h] = "pull_floor" /\ LockFloorShare(h, "pull_stamp", job[h])

(* record_caller_level waits for the devices row if it has to write it; a  *)
(* caller at the floor goes on to read.                                    *)
CanStamp(h) == \A g \in Others(h) : ~LocksDevice(g, job[h].client)

PullStamp(h) ==
    /\ at[h] = "pull_stamp"
    /\ job[h].floor <= job[h].level
    /\ \E s \in BOOLEAN :
           /\ MustStamp(job[h].client, job[h].level) => s
           /\ s => CanStamp(h)
           /\ Only(h, "pull_read", [job[h] EXCEPT !.stamp = s])

(* 426: the stamp of a caller below the floor is committed.                *)
PullRefused(h) ==
    /\ at[h] = "pull_stamp"
    /\ job[h].level < job[h].floor
    /\ \E s \in BOOLEAN :
           /\ MustStamp(job[h].client, job[h].level) => s
           /\ s => CanStamp(h)
           /\ dev' = Stamped([job[h] EXCEPT !.stamp = s])
    /\ Done(h)
    /\ UNCHANGED <<rows, nextSeq, floor, usage, hint, devices, audio, begun, changes>>

Page(since) ==
    {r \in rows : /\ r.seq > since
                  /\ Cardinality({q \in rows : since < q.seq /\ q.seq <= r.seq}) <= MaxLimit}

PullRead(h) ==
    /\ at[h] = "pull_read"
    /\ Only(h, "pull_commit", [job[h] EXCEPT !.page = Page(job[h].since)])

(* Mutant: answer with the log's tail instead of the page's last row.      *)
PageEndAtTail(page, since) == IF page = {} THEN since ELSE nextSeq - 1

(* The watermark a page moves the client to: its last row.                 *)
PageEnd(page, since) ==
    IF page = {} THEN since
    ELSE CHOOSE n \in {r.seq : r \in page} : \A r \in page : r.seq <= n

(* Commit.  The client takes the answer if it still waits at that cursor;  *)
(* otherwise it is the answer to a request it gave up.                     *)
PullCommit(h) ==
    /\ at[h] = "pull_commit"
    /\ dev' = Stamped(job[h])
    /\ LET c == job[h].client IN
       \/ /\ cursor[c] = job[h].since
          /\ cursor' = [cursor EXCEPT ![c] = PageEnd(job[h].page, job[h].since)]
          /\ got' = [got EXCEPT ![c] = @ \cup job[h].page]
       \/ UNCHANGED devices
    /\ Done(h)
    /\ UNCHANGED <<rows, nextSeq, floor, usage, hint, audio, begun, changes>>

-----------------------------------------------------------------------------
(* PUT /sync/capability                                                    *)
BeginRaise(h, c, l, target) ==
    Begin(h, "raise_floor", [NoJob EXCEPT !.client = c, !.level = l, !.target = target])

RaiseFloor(h) == at[h] = "raise_floor" /\ LockFloorUpdate(h, "raise_caller", job[h])

(* require_active_caller_locked, record_caller_level.                      *)
RaiseCaller(h) ==
    /\ at[h] = "raise_caller"
    /\ CanStamp(h)
    /\ dev[job[h].client].status = "active"
    /\ job[h].floor < job[h].target
    /\ \E s \in BOOLEAN :
           /\ MustStamp(job[h].client, job[h].level) => s
           /\ Only(h, "raise_check", [job[h] EXCEPT !.stamp = s])

(* At or below the floor already: only the stamp is committed.             *)
RaiseNoop(h) ==
    /\ at[h] = "raise_caller"
    /\ CanStamp(h)
    /\ dev[job[h].client].status = "active"
    /\ job[h].target <= job[h].floor
    /\ \E s \in BOOLEAN :
           /\ MustStamp(job[h].client, job[h].level) => s
           /\ dev' = Stamped([job[h] EXCEPT !.stamp = s])
    /\ Done(h)
    /\ UNCHANGED <<rows, nextSeq, floor, usage, hint, devices, audio, begun, changes>>

(* Devices that keep the floor below l, the transaction's own stamp        *)
(* included in what it sees.                                               *)
Blocks(d, l) == d.status # "revoked" /\ d.seen /\ d.level < l

RaiseCheck(h) ==
    /\ at[h] = "raise_check"
    /\ LET seen == Stamped(job[h]) IN
       Only(h, "raise_commit",
            [job[h] EXCEPT !.members = {c \in Clients : seen[c].status # "revoked"},
                           !.free = \A c \in Clients : ~Blocks(seen[c], job[h].target)])

Greatest(a, b) == IF a < b THEN b ELSE a

RaiseCommit(h) ==
    /\ at[h] = "raise_commit"
    /\ dev' = Stamped(job[h])
    /\ floor' = IF job[h].free
                THEN [floor EXCEPT !.required = Greatest(@, job[h].target)]
                ELSE [floor EXCEPT !.requested = Greatest(@, job[h].target)]
    /\ Done(h)
    /\ UNCHANGED <<rows, nextSeq, usage, hint, devices, audio, begun, changes>>

-----------------------------------------------------------------------------
(* POST /audio/presign of a new blob: the other user of the choke point.   *)
BeginAudio(h, c) == Begin(h, "audio_meter", [NoJob EXCEPT !.client = c])

AudioMeter(h) == at[h] = "audio_meter" /\ Meter(h, 1, "audio_commit")

(* Mutant: the charge is given back instead of taken.                      *)
AudioCommitRefunds(h) ==
    /\ at[h] = "audio_commit"
    /\ usage' = usage - 1
    /\ audio' = audio + 1
    /\ Done(h)
    /\ UNCHANGED <<rows, nextSeq, floor, dev, hint, devices, begun, changes>>

AudioCommit(h) ==
    /\ at[h] = "audio_commit"
    /\ usage' = usage + 1
    /\ audio' = audio + 1
    /\ Done(h)
    /\ UNCHANGED <<rows, nextSeq, floor, dev, hint, devices, begun, changes>>

-----------------------------------------------------------------------------
(* A refused request: 403 for a caller that is not active, 409 or 426 for  *)
(* content above the floor or a client_seq regression, 429 over the quota. *)
Refuse(h) ==
    /\ \/ at[h] \in {"push_caller", "raise_caller"} /\ dev[job[h].client].status # "active"
       \/ at[h] = "push_floor" /\ ~Admitted(h) /\ \A g \in Others(h) : ~OwnsFloor(g)
       \/ at[h] = "push_walk" /\ Clash(job[h].batch)
       \/ at[h] = "push_meter" /\ CanMeter(h) /\ ~WithinQuota(Cardinality(job[h].fresh))
       \/ at[h] = "audio_meter" /\ CanMeter(h) /\ ~WithinQuota(1)
    /\ Rollback(h)

(* A connection or the process dies.  Past push_commit the rows are in and *)
(* only the wake-up is lost.                                               *)
Abort(h) == at[h] # "idle" /\ Rollback(h)

(* put_roster: a device is approved, re-admitted or revoked.               *)
SetStatus(c, s) ==
    /\ changes < MaxChanges
    /\ dev[c].status # s
    /\ \A h \in Handlers : ~LocksDevice(h, c)
    /\ dev' = [dev EXCEPT ![c].status = s]
    /\ changes' = changes + 1
    /\ UNCHANGED <<rows, nextSeq, floor, usage, hint, at, job, devices, audio, begun>>

(* CAPABILITY_WINDOW_DAYS pass without a stamp.                            *)
Expire(c) ==
    /\ changes < MaxChanges
    /\ dev[c].seen
    /\ dev' = [dev EXCEPT ![c].seen = FALSE]
    /\ changes' = changes + 1
    /\ UNCHANGED <<rows, nextSeq, floor, usage, hint, at, job, devices, audio, begun>>

-----------------------------------------------------------------------------
Push(h)  == PushCaller(h) \/ PushFloor(h) \/ PushLock(h) \/ PushWalk(h)
            \/ PushRetried(h) \/ PushMeter(h) \/ PushCommit(h) \/ PushWake(h)
Pull(h)  == PullFloor(h) \/ PullStamp(h) \/ PullRefused(h) \/ PullRead(h) \/ PullCommit(h)
Raise(h) == RaiseFloor(h) \/ RaiseCaller(h) \/ RaiseNoop(h) \/ RaiseCheck(h) \/ RaiseCommit(h)
Audio(h) == AudioMeter(h) \/ AudioCommit(h)

Serve(h) == Push(h) \/ Pull(h) \/ Raise(h) \/ Audio(h) \/ Refuse(h)

(* Requests of a device; of any device with any content.                   *)
ArriveFrom(h, c, batches, levels) ==
    \/ \E batch \in batches : BeginPush(h, c, batch)
    \/ \E l \in levels : BeginPull(h, c, l)
    \/ \E l \in levels, target \in levels : BeginRaise(h, c, l, target)
    \/ BeginAudio(h, c)

Arrive(h) == \E c \in Clients : ArriveFrom(h, c, Batches, Levels)

(* What happens to the devices beside their requests.                      *)
Around(c) == (\E s \in {"active", "revoked"} : SetStatus(c, s)) \/ Expire(c)

Next ==
    \/ \E h \in Handlers : Arrive(h) \/ Serve(h) \/ Abort(h)
    \/ \E c \in Clients : Around(c)

Spec == Init /\ [][Next]_vars

-----------------------------------------------------------------------------
(* The relay's rows as the abstract log.                                   *)
logOfRows == [i \in 1 .. (nextSeq - 1) |-> (CHOOSE r \in rows : r.seq = i).entry]

Log == INSTANCE ChangeLog WITH log <- logOfRows

(* The handlers, with their statements interleaved and aborted anywhere,   *)
(* implement the atomic append-only log the sync engine relies on.         *)
LogSpec == Log!Spec

(* changeset_seq is dense from 1 and unique, whatever aborts: this is what *)
(* makes "everything up to my watermark" and the contiguous flag of        *)
(* GET /sync/completeness meaningful.                                      *)
Dense ==
    /\ {r.seq : r \in rows} = 1 .. (nextSeq - 1)
    /\ \A r, q \in rows : r.seq = q.seq => r = q

(* A device that has pulled to its watermark has every row up to it: no    *)
(* push commits a lower number after a pull has moved past it.             *)
CursorComplete == \A c \in Clients : got[c] = {r \in rows : r.seq <= cursor[c]}

(* A page a pull is about to answer holds nothing its caller cannot        *)
(* handle, although the floor was checked two statements before the read.  *)
ReadersHandle ==
    \A h \in Handlers : at[h] = "pull_commit" =>
        \A r \in job[h].page : LevelOf[r.entry.ct] <= job[h].level

(* When a raise commits, its caller is still an active device, and no      *)
(* device that was a member when it looked reports less than the target:   *)
(* no status change and no stamp of a pull fell between check and commit.  *)
RaiseSound ==
    \A h \in Handlers : at[h] = "raise_commit" =>
        /\ dev[job[h].client].status = "active"
        /\ job[h].free => \A c \in job[h].members :
                              dev[c].seen /\ dev[c].level < job[h].target =>
                                  c = job[h].client /\ job[h].stamp

(* Every row and every audio byte is paid for, and together they stay      *)
(* within the quota, whatever pushes and presigns overlap or abort.        *)
QuotaKept == usage = Cardinality(rows) + audio /\ usage <= Quota

(* An SSE wake-up names a changeset a pull can already see.                *)
HintCommitted == hint < nextSeq

(* The handlers a handler's next statement waits for.                      *)
WaitsFor(h, g) ==
    \/ at[h] \in {"push_floor", "pull_floor"} /\ OwnsFloor(g)
    \/ at[h] = "raise_floor" /\ (OwnsFloor(g) \/ SharesFloor(g))
    \/ at[h] = "push_seq" /\ OwnsSeq(g)
    \/ at[h] \in {"push_meter", "audio_meter"} /\ OwnsUsage(g)
    \/ at[h] \in {"pull_stamp", "raise_caller"} /\ LocksDevice(g, job[h].client)
MayGoOn(h) == at[h] # "idle" /\ \A g \in Others(h) : ~WaitsFor(h, g)

(* Row locks never form a cycle: while requests are being served, one of   *)
(* them waits for nobody, whatever the others have done.                   *)
NobodyCornered ==
    (\E h \in Handlers : at[h] # "idle") => \E h \in Handlers : MayGoOn(h)

(* No deadlock, and no statement that can neither pass nor refuse: who     *)
(* waits for nobody has a step without an abort.  A handler only moves     *)
(* forward through its statements, so every request is answered.           *)
LocksSound ==
    NobodyCornered /\ \A h \in Handlers : MayGoOn(h) => ENABLED Serve(h)

(* The log a device reads is the whole log, every byte of it is paid for,  *)
(* and its wake-ups are true.                                              *)
LogComplete == TypeOK /\ Dense /\ CursorComplete /\ HintCommitted /\ QuotaKept

(* The capability floor holds through every race of push, pull and raise.  *)
FloorSound == ReadersHandle /\ RaiseSound

(* put_roster: "the write gate refuses them immediately" - a changeset is  *)
(* inserted only on behalf of a device that is active at that moment.      *)
RevokedNeverWrites ==
    [][\A h \in Handlers :
           at[h] = "push_commit" /\ at'[h] = "push_wake" =>
               dev[job[h].client].status = "active"]_vars
=============================================================================
