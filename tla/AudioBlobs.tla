----------------------------- MODULE AudioBlobs -----------------------------
(***************************************************************************)
(* The audio lane of one tenant: the devices' upload queue                 *)
(* (crates/yapstack-sync/src/audio.rs), the relay's presign transaction    *)
(* with its mapping-count refcounts (crates/yapstack-server/src/audio.rs), *)
(* the object store, and the garbage collector (gc.rs).                    *)
(*                                                                         *)
(* A presign is a READ COMMITTED transaction: each statement is a step     *)
(* that sees what is committed, a written row stays locked until commit,   *)
(* and the writes appear together at the commit.  A blob is one byte.      *)
(*                                                                         *)
(* seal_blob draws a new key and nonce for every attempt, so a desktop     *)
(* never presents a hash twice (Resealed).  The relay's contract is wider, *)
(* it deduplicates by hash: any part may present any hash.                 *)
(***************************************************************************)
EXTENDS Naturals, FiniteSets

CONSTANTS Handlers,    \* presigns the relay can serve at the same time
          Parts,       \* part_ids
          Hashes,      \* ciphertext_sha256 values
          None,        \* no hash, no handler, no part
          MaxAttempts, \* bound: uploads begun
          MaxFaults,   \* bound: aborts, failed PUTs, HEADs and DELETEs, GC crashes
          MaxGiveUps,  \* bound: presigns the client no longer waits for
          MaxSweeps    \* bound: GC sweeps

ASSUME AudioAssumption ==
    /\ None \notin Handlers \cup Parts \cup Hashes
    /\ IsFiniteSet(Parts)
    /\ MaxAttempts \in Nat /\ MaxFaults \in Nat /\ MaxGiveUps \in Nat /\ MaxSweeps \in Nat

VARIABLES
    blobs,    \* audio_blobs: the hashes that have a row
    ref,      \* its refcount
    released, \* its released_at: "no" (NULL), "recent", "past" the grace period
    mapping,  \* audio_objects: the hash of each part
    usage,    \* tenant_usage.storage_bytes
    stored,   \* objects in storage
    at,       \* the statement each presign handler runs next
    job,      \* its request and what it did so far
    queue,    \* upload queue: state, hash and awaited handler of each part
    gc,       \* the sweep: "idle", "object" or "row", what is left, the blob at hand
    tried,    \* history: hashes presented
    attempts, faults, giveups, sweeps

tables  == <<blobs, ref, released, mapping, usage>>
history == <<tried, attempts, faults, giveups, sweeps>>
vars    == <<tables, stored, at, job, queue, gc, history>>

-----------------------------------------------------------------------------
Steps  == {"idle", "blob", "old", "repoint", "map", "ref", "commit", "head"}
States == {"pending", "uploading", "done", "failed"}

(* saw: the blob row was there at first.  old: the part's mapping then.    *)
(* drop: the old blob's row is decremented.  act: what is written to the   *)
(* blob's own row.                                                         *)
Jobs == [part : Parts \cup {None}, hash : Hashes \cup {None}, saw : BOOLEAN,
         old : Hashes \cup {None}, drop : BOOLEAN, act : {"none", "add", "insert"}]

NoJob == [part |-> None, hash |-> None, saw |-> FALSE, old |-> None,
          drop |-> FALSE, act |-> "none"]

(* url: the presign answered with an upload URL.                           *)
Entries == [state : States, hash : Hashes \cup {None}, asked : Handlers \cup {None},
            url : BOOLEAN]

Queued(s) == [state |-> s, hash |-> None, asked |-> None, url |-> FALSE]

Init ==
    /\ blobs = {}
    /\ ref = [x \in Hashes |-> 0]
    /\ released = [x \in Hashes |-> "no"]
    /\ mapping = [p \in Parts |-> None]
    /\ usage = 0
    /\ stored = {}
    /\ at = [h \in Handlers |-> "idle"]
    /\ job = [h \in Handlers |-> NoJob]
    /\ queue = [p \in Parts |-> Queued("pending")]
    /\ gc = [at |-> "idle", todo |-> {}, blob |-> None]
    /\ tried = {}
    /\ attempts = 0 /\ faults = 0 /\ giveups = 0 /\ sweeps = 0

TypeOK ==
    /\ blobs \subseteq Hashes
    /\ ref \in [Hashes -> Nat]
    /\ released \in [Hashes -> {"no", "recent", "past"}]
    /\ mapping \in [Parts -> Hashes \cup {None}]
    /\ usage \in Nat
    /\ stored \subseteq Hashes
    /\ at \in [Handlers -> Steps]
    /\ job \in [Handlers -> Jobs]
    /\ queue \in [Parts -> Entries]
    /\ gc \in [at : {"idle", "object", "row"}, todo : SUBSET Hashes, blob : Hashes \cup {None}]
    /\ tried \subseteq Hashes
    /\ attempts \in Nat /\ faults \in Nat /\ giveups \in Nat /\ sweeps \in Nat

-----------------------------------------------------------------------------
(* The client: upload_entry.                                               *)

(* Seal the source and ask for a presign.  One request per part is awaited *)
(* at a time; parts of several devices overlap.                            *)
Ask(p, h, x) ==
    /\ attempts < MaxAttempts
    /\ queue[p].state = "pending"
    /\ at[h] = "idle"
    /\ queue' = [queue EXCEPT ![p] = [Queued("uploading") EXCEPT !.hash = x, !.asked = h]]
    /\ at' = [at EXCEPT ![h] = "blob"]
    /\ job' = [job EXCEPT ![h] = [NoJob EXCEPT !.part = p, !.hash = x]]
    /\ tried' = tried \cup {x}
    /\ attempts' = attempts + 1
    /\ UNCHANGED <<tables, stored, gc, faults, giveups, sweeps>>

(* What the desktop's step adds: seal_blob has made a hash that was never  *)
(* presented before.                                                       *)
Resealed == attempts' # attempts => tried' # tried

(* Mutant: an error answer leaves the entry as it is.                      *)
AnswerIfGood(h, s, url) ==
    [p \in Parts |->
        IF queue[p].asked = h /\ s # "failed"
        THEN [queue[p] EXCEPT !.state = s, !.asked = None, !.url = url]
        ELSE queue[p]]

(* The queue after handler h answered: only a client that still waits for  *)
(* h takes it.                                                             *)
Answer(h, s, url) ==
    [p \in Parts |->
        IF queue[p].asked = h
        THEN [queue[p] EXCEPT !.state = s, !.asked = None, !.url = url]
        ELSE queue[p]]

(* put_audio succeeds: done.                                               *)
Put(p) ==
    /\ queue[p].url
    /\ stored' = stored \cup {queue[p].hash}
    /\ queue' = [queue EXCEPT ![p] = Queued("done")]
    /\ UNCHANGED <<tables, at, job, gc, history>>

(* The PUT fails or the app dies; the bytes may have arrived all the same. *)
PutFails(p) ==
    /\ queue[p].url
    /\ faults < MaxFaults
    /\ stored' \in {stored, stored \cup {queue[p].hash}}
    /\ queue' = [queue EXCEPT ![p] = Queued("failed")]
    /\ faults' = faults + 1
    /\ UNCHANGED <<tables, at, job, gc, tried, attempts, giveups, sweeps>>

(* The connection breaks or the app dies while the relay is still at it.   *)
GiveUp(p) ==
    /\ queue[p].asked # None
    /\ giveups < MaxGiveUps
    /\ queue' = [queue EXCEPT ![p] = Queued("failed")]
    /\ giveups' = giveups + 1
    /\ UNCHANGED <<tables, stored, at, job, gc, tried, attempts, faults, sweeps>>

(* reset_in_flight and retry_failed, at the next start or by hand.         *)
Retry(p) ==
    /\ queue[p].state = "failed"
    /\ queue' = [queue EXCEPT ![p] = Queued("pending")]
    /\ UNCHANGED <<tables, stored, at, job, gc, history>>

-----------------------------------------------------------------------------
(* The relay: presign.                                                     *)

(* Rows written and not yet committed.                                     *)
LocksBlob(h, x) ==
    \/ at[h] \in {"map", "ref", "commit"} /\ job[h].old = x /\ job[h].drop
    \/ at[h] = "commit" /\ job[h].hash = x /\ job[h].act # "none"
LocksPart(h, p) == at[h] \in {"ref", "commit"} /\ job[h].part = p

FreeBlob(h, x) == \A g \in Handlers \ {h} : ~LocksBlob(g, x)
FreePart(h, p) == \A g \in Handlers \ {h} : ~LocksPart(g, p)

Statement(h, from, to, j) ==
    /\ at[h] = from
    /\ at' = [at EXCEPT ![h] = to]
    /\ job' = [job EXCEPT ![h] = j]
    /\ UNCHANGED <<tables, stored, queue, gc, history>>

(* The two unlocked reads.                                                 *)
ReadBlob(h) ==
    Statement(h, "blob", "old", [job[h] EXCEPT !.saw = job[h].hash \in blobs])

ReadOld(h) ==
    Statement(h, "old", "repoint", [job[h] EXCEPT !.old = mapping[job[h].part]])

(* Mutant: the old blob keeps its reference.                               *)
RepointForgets(h) == Statement(h, "repoint", "map", job[h])

(* Repointing away from another blob drops its reference, if it has a row. *)
Repoint(h) ==
    LET old == job[h].old
        away == old \notin {None, job[h].hash}
    IN /\ away => FreeBlob(h, old)
       /\ Statement(h, "repoint", "map", [job[h] EXCEPT !.drop = away /\ old \in blobs])

(* The upsert of the part's mapping.                                       *)
Map(h) ==
    /\ FreePart(h, job[h].part)
    /\ Statement(h, "map", "ref", job[h])

(* add_ref, or the insert of a new row; the loser of an insert adds a      *)
(* reference to the winner's row.  The same part at the same blob counts   *)
(* once.  add_ref of a row that has gone meanwhile updates nothing.        *)
SamePartSameBlob(h) == job[h].old = job[h].hash

(* Mutant: a retry of the same part counts again.                          *)
AddRefAlways(h) ==
    /\ FreeBlob(h, job[h].hash)
    /\ job[h].hash \in blobs
    /\ Statement(h, "ref", "commit", [job[h] EXCEPT !.act = "add"])

AddRef(h) ==
    /\ FreeBlob(h, job[h].hash) \/ (job[h].saw /\ SamePartSameBlob(h))
    /\ job[h].saw \/ job[h].hash \in blobs
    /\ Statement(h, "ref", "commit",
                 [job[h] EXCEPT !.act = IF SamePartSameBlob(h) \/ job[h].hash \notin blobs
                                        THEN "none" ELSE "add"])

Insert(h) ==
    /\ FreeBlob(h, job[h].hash)
    /\ ~job[h].saw
    /\ job[h].hash \notin blobs
    /\ Statement(h, "ref", "commit", [job[h] EXCEPT !.act = "insert"])

(* The refcounts after the transaction: GREATEST(0, ref - 1) for the old   *)
(* blob, one more for the new one.                                         *)
Counted(j) ==
    [x \in Hashes |->
        IF x = j.old /\ j.drop THEN (IF ref[x] = 0 THEN 0 ELSE ref[x] - 1)
        ELSE IF x = j.hash /\ j.act = "add" THEN ref[x] + 1
        ELSE IF x = j.hash /\ j.act = "insert" THEN 1
        ELSE ref[x]]

(* Mutant: the transition is tested on the wrong side of the decrement.    *)
DatedTooLate(j) ==
    [x \in Hashes |->
        IF x = j.old /\ j.drop /\ ref[x] <= 0 /\ released[x] = "no" THEN "recent"
        ELSE IF x = j.hash /\ j.act # "none" THEN "no"
        ELSE released[x]]

(* released_at is stamped on the transition to zero, cleared on the way up.*)
Dated(j) ==
    [x \in Hashes |->
        IF x = j.old /\ j.drop /\ ref[x] <= 1 /\ released[x] = "no" THEN "recent"
        ELSE IF x = j.hash /\ j.act # "none" THEN "no"
        ELSE released[x]]

(* Commit, the charge of a new blob included.  A new blob has no object    *)
(* yet and is answered with a URL.                                         *)
Commit(h) ==
    /\ at[h] = "commit"
    /\ ref' = Counted(job[h])
    /\ released' = Dated(job[h])
    /\ mapping' = [mapping EXCEPT ![job[h].part] = job[h].hash]
    /\ IF job[h].act = "insert"
       THEN /\ blobs' = blobs \cup {job[h].hash}
            /\ usage' = usage + 1
            /\ queue' = Answer(h, "uploading", TRUE)
            /\ at' = [at EXCEPT ![h] = "idle"]
            /\ job' = [job EXCEPT ![h] = NoJob]
       ELSE /\ at' = [at EXCEPT ![h] = "head"]
            /\ UNCHANGED <<blobs, usage, queue, job>>
    /\ UNCHANGED <<stored, gc, history>>

End(h) ==
    /\ at' = [at EXCEPT ![h] = "idle"]
    /\ job' = [job EXCEPT ![h] = NoJob]

(* Mutant: a blob row is taken for its object.                             *)
HeadTrustsRow(h) ==
    /\ at[h] = "head"
    /\ queue' = Answer(h, "done", FALSE)
    /\ End(h)
    /\ UNCHANGED <<tables, stored, gc, history>>

(* HEAD of the object: already_exists, or a URL for the bytes.             *)
Head(h) ==
    /\ at[h] = "head"
    /\ queue' = IF job[h].hash \in stored
                THEN Answer(h, "done", FALSE) ELSE Answer(h, "uploading", TRUE)
    /\ End(h)
    /\ UNCHANGED <<tables, stored, gc, history>>

(* A HEAD that fails errs towards an upload.                               *)
HeadFails(h) ==
    /\ at[h] = "head"
    /\ faults < MaxFaults
    /\ faults' = faults + 1
    /\ queue' = Answer(h, "uploading", TRUE)
    /\ End(h)
    /\ UNCHANGED <<tables, stored, gc, tried, attempts, giveups, sweeps>>

(* Refused (quota, caller not active), a deadlock victim, or the relay     *)
(* dies: nothing is written and the client sees an error.                  *)
Abort(h) ==
    /\ at[h] # "idle"
    /\ faults < MaxFaults
    /\ faults' = faults + 1
    /\ queue' = Answer(h, "failed", FALSE)
    /\ End(h)
    /\ UNCHANGED <<tables, stored, gc, tried, attempts, giveups, sweeps>>

-----------------------------------------------------------------------------
(* The collector: run_sweep.                                               *)
Eligible(x) == x \in blobs /\ ref[x] = 0 /\ released[x] = "past"

(* The grace period passes.  The cutoff of a sweep is fixed when it starts,*)
(* so nothing becomes eligible during one.                                 *)
Age(x) ==
    /\ gc.at = "idle"
    /\ released[x] = "recent"
    /\ released' = [released EXCEPT ![x] = "past"]
    /\ UNCHANGED <<blobs, ref, mapping, usage, stored, at, job, queue, gc, history>>

Scan ==
    /\ gc.at = "idle"
    /\ sweeps < MaxSweeps
    /\ \E x \in Hashes : Eligible(x)
    /\ gc' = [at |-> "object", todo |-> {x \in Hashes : Eligible(x)}, blob |-> None]
    /\ sweeps' = sweeps + 1
    /\ UNCHANGED <<tables, stored, at, job, queue, tried, attempts, faults, giveups>>

(* Phase 1: the object goes first.                                         *)
DeleteObject(x) ==
    /\ gc.at = "object"
    /\ x \in gc.todo
    /\ stored' = stored \ {x}
    /\ gc' = [at |-> "row", todo |-> gc.todo \ {x}, blob |-> x]
    /\ UNCHANGED <<tables, at, job, queue, history>>

(* The sweep goes on, or is over.                                          *)
Swept(todo) == [at |-> IF todo = {} THEN "idle" ELSE "object", todo |-> todo, blob |-> None]

DeleteFails(x) ==
    /\ gc.at = "object"
    /\ x \in gc.todo
    /\ faults < MaxFaults
    /\ faults' = faults + 1
    /\ gc' = Swept(gc.todo \ {x})
    /\ UNCHANGED <<tables, stored, at, job, queue, tried, attempts, giveups, sweeps>>

(* Mutant: the bytes are not given back.                                   *)
DeleteRowKeepsCharge ==
    /\ gc.at = "row"
    /\ \A h \in Handlers : ~LocksBlob(h, gc.blob)
    /\ IF Eligible(gc.blob)
       THEN /\ blobs' = blobs \ {gc.blob}
            /\ ref' = [ref EXCEPT ![gc.blob] = 0]
            /\ released' = [released EXCEPT ![gc.blob] = "no"]
       ELSE UNCHANGED <<blobs, ref, released>>
    /\ gc' = Swept(gc.todo)
    /\ UNCHANGED <<usage, mapping, stored, at, job, queue, history>>

(* Phase 2: the row, if it is still eligible, and its bytes back.          *)
DeleteRow ==
    /\ gc.at = "row"
    /\ \A h \in Handlers : ~LocksBlob(h, gc.blob)
    /\ IF Eligible(gc.blob)
       THEN /\ blobs' = blobs \ {gc.blob}
            /\ ref' = [ref EXCEPT ![gc.blob] = 0]
            /\ released' = [released EXCEPT ![gc.blob] = "no"]
            /\ usage' = IF usage = 0 THEN 0 ELSE usage - 1
       ELSE UNCHANGED <<blobs, ref, released, usage>>
    /\ gc' = Swept(gc.todo)
    /\ UNCHANGED <<mapping, stored, at, job, queue, history>>

(* The relay restarts: the sweep is forgotten where it was.                *)
GcCrash ==
    /\ gc.at # "idle"
    /\ faults < MaxFaults
    /\ faults' = faults + 1
    /\ gc' = Swept({})
    /\ UNCHANGED <<tables, stored, at, job, queue, tried, attempts, giveups, sweeps>>

-----------------------------------------------------------------------------
Presign(h) == ReadBlob(h) \/ ReadOld(h) \/ Repoint(h) \/ Map(h) \/ AddRef(h)
              \/ Insert(h) \/ Commit(h) \/ Head(h)

Sweep == \/ Scan
         \/ DeleteRow
         \/ \E x \in Hashes : DeleteObject(x)

Next ==
    \/ \E p \in Parts : \/ \E h \in Handlers, x \in Hashes : Ask(p, h, x)
                        \/ Put(p) \/ PutFails(p) \/ GiveUp(p) \/ Retry(p)
    \/ \E h \in Handlers : Presign(h) \/ HeadFails(h) \/ Abort(h)
    \/ \E x \in Hashes : Age(x) \/ DeleteFails(x)
    \/ Sweep
    \/ GcCrash

Spec == Init /\ [][Next]_vars

(* Two populations: desktops, which reseal every attempt, and clients that *)
(* present the same hashes again, with the collector at rest.              *)
DesktopSpec == Init /\ [][Next /\ Resealed]_vars
SharedSpec  == Init /\ [][Next /\ sweeps' = 0]_vars

(* The relay runs its statements, the uploader its loop, the collector its *)
(* timer, and days pass.  Nothing has to fail or be retried.               *)
FairSpec ==
    /\ Spec
    /\ \A h \in Handlers : WF_vars(Presign(h))
    /\ \A p \in Parts : WF_vars(Put(p))
    /\ \A x \in Hashes : WF_vars(Age(x))
    /\ WF_vars(Sweep)

-----------------------------------------------------------------------------
(* The mapping-count invariant of audio.rs: the refcount of a blob is the  *)
(* number of parts mapped to it, and a part is never mapped to a blob that *)
(* has no row - although both are read before they are locked.             *)
MappingCount ==
    /\ \A x \in blobs : ref[x] = Cardinality({p \in Parts : mapping[p] = x})
    /\ \A p \in Parts : mapping[p] # None => mapping[p] \in blobs

(* "Never a phantom done": a part whose upload is done can be downloaded.  *)
(* It takes the HEAD, the PUT and the collector to agree.                  *)
DoneIsStored == \A p \in Parts : queue[p].state = "done" => mapping[p] \in stored

(* The tenant pays once for every blob row, whatever was retried, raced,   *)
(* aborted or collected.                                                   *)
Metered == usage = Cardinality(blobs)

(* No object without a row: the collector could never find it again.       *)
NoOrphan == stored \subseteq blobs

(* The desktop's lane with its collector, as long as no presign outlives   *)
(* the client that asked for it: uploads that are done stay downloadable,  *)
(* refcounts match and no object is orphaned, through failed PUTs, retries *)
(* under new hashes, sweeps that stop half-way and blobs collected later.  *)
KeptWhenAnswered == giveups = 0 => MappingCount /\ DoneIsStored /\ NoOrphan

(* The lane's books: the bytes charged, and the uploads kept.              *)
BlobsSound == TypeOK /\ Metered /\ KeptWhenAnswered

(* An upload that has begun ends: no presign waits for ever on row locks.  *)
UploadsEnd == \A p \in Parts : queue[p].state = "uploading" ~> queue[p].state # "uploading"

(* A blob that stays unreferenced is reclaimed.                            *)
Reclaimed == \A x \in Hashes :
    x \in blobs /\ ref[x] = 0 ~> x \notin blobs \/ ref[x] > 0
=============================================================================
