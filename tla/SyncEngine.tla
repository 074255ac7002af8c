----------------------------- MODULE SyncEngine -----------------------------
(***************************************************************************)
(* The client sync engine of every device of one tenant, and the relay log *)
(* they meet at (crates/yapstack-sync/src/outbox.rs, state.rs; the relay   *)
(* side is ChangeLog).                                                     *)
(*                                                                         *)
(* A device runs drain cycles: reconcile the client_seq counter once per   *)
(* spawn, capture local writes into outbox chunks, push the outbox, pull   *)
(* and merge pages.  Every commit to the device's database file and every  *)
(* relay round trip is a step of its own, so app writes, crashes, restores *)
(* of an old database file and requests that reach the relay after their   *)
(* sender gave up interleave everywhere.                                   *)
(*                                                                         *)
(* Data is abstract.  A change row is the n-th row its author ever wrote;  *)
(* a ciphertext is the rows it seals, the vault key and the incarnation of *)
(* the database file that sealed it.  Sealing is randomised, so two seals  *)
(* of one (client_id, client_seq) pair differ; within one incarnation the  *)
(* counter never goes back, so the incarnation tells them apart.           *)
(***************************************************************************)
EXTENDS Naturals, Sequences, FiniteSets, Functions

CONSTANTS Devices,       \* client_ids
          Keys,          \* vault keys a device may hold
          ChunkRows,     \* CHUNK_ROWS: most rows of a capture chunk
          MaxPush,       \* MAX_PUSH_CHANGES: most entries of a push batch
          PullLimit,     \* PULL_LIMIT: most changesets of a pulled page
          GroupSizes,    \* rows an app transaction may write
          WriteBudget,   \* bound: rows each device may write
          RestoreBudget, \* bound: database-file restores of each device
          FaultBudget    \* bound: failed calls, crashes and key changes of each

ASSUME LimitsAssumption ==
    /\ ChunkRows \in Nat \ {0}
    /\ MaxPush \in Nat \ {0}
    /\ PullLimit \in Nat \ {0}
    /\ GroupSizes \subseteq Nat \ {0}

ASSUME BudgetsAssumption ==
    /\ WriteBudget \in [Devices -> Nat]
    /\ RestoreBudget \in [Devices -> Nat]
    /\ FaultBudget \in [Devices -> Nat]

VARIABLES
    log,        \* the relay's change log, see ChangeLog
    net,        \* push requests on the wire or inside the relay
    file,       \* each device's database file: all that survives a crash
    backup,     \* an old copy of that file
    key,        \* the vault key of each device's running drain
    pc,         \* where each device's drain is
    reconciled, \* the per-spawn TEMP marker of state.rs
    snap,       \* enqueue_local: captured rows not yet committed to a chunk
    req,        \* the push batch being awaited
    resp,       \* its response
    tail,       \* completeness answer being applied, and on whose behalf
    page,       \* pulled page being merged
    retry,      \* retry_crypto_quarantine: seq merged, row not yet deleted
    writes,     \* history: rows each device ever wrote
    restores,   \* history: restores of each device
    faults      \* history: faults of each device

relayVars   == <<log, net>>
sessionVars == <<key, pc, reconciled, snap, req, resp, tail, page, retry>>
historyVars == <<writes, restores, faults>>
vars == <<relayVars, file, backup, sessionVars, historyVars>>

-----------------------------------------------------------------------------
Rows    == [site : Devices, n : Nat]
Sealed  == [rows : SUBSET Rows, key : Keys, inc : Nat]

Log == INSTANCE ChangeLog WITH Clients <- Devices,
                               ClientSeqs <- Nat,
                               Ciphertexts <- Sealed

(***************************************************************************)
(* The database file.  db: the crsql_changes rows, each with the local     *)
(* db_version it carries; dbv: the current db_version; outbox: the         *)
(* _yapstack_outbox rows, seq = 0 while not acked; quar: the changeset_seqs*)
(* in _yapstack_crypto_quarantine.                                         *)
(***************************************************************************)
LocalRows   == [row : Rows, ver : Nat]
OutboxRows  == [cseq : Nat, ct : Sealed, seq : Nat]
Files == [db : SUBSET LocalRows, dbv : Nat, outbox : SUBSET OutboxRows,
          cseq : Nat, pushWm : Nat, pullWm : Nat, quar : SUBSET Nat]

EmptyFile == [db |-> {}, dbv |-> 0, outbox |-> {}, cseq |-> 0,
              pushWm |-> 0, pullWm |-> 0, quar |-> {}]

Own(f, d)   == {r \in f.db : r.row.site = d}
Has(f)      == {r.row : r \in f.db}
Unacked(f)  == {o \in f.outbox : o.seq = 0}
Entry(d, o) == [client |-> d, cseq |-> o.cseq, ct |-> o.ct]

(* One batch of the outbox as the relay sees it.                           *)
Batch(d, os) == {Entry(d, o) : o \in os}

(***************************************************************************)
(* Where a drain is.  The reconcile round trip runs for three callers:     *)
(* push_direction at the start of a spawn, push_outbox after a             *)
(* deduplicated ack, recover_from_conflict after a 409.                    *)
(***************************************************************************)
Places == {"idle", "reconcile", "tail", "capture", "chunk", "push", "await",
           "resp", "pull", "merge"}
Callers == {"start", "dedup", "conflict"}

NoTail == [max |-> 0, by |-> "start"]
NoResp == [conflict |-> FALSE, acks |-> {}]
NoPage == [todo |-> {}, next |-> 0, more |-> FALSE]
Acks   == [cseq : Nat, seq : Nat, dup : BOOLEAN]

Init ==
    /\ log = << >>
    /\ net = {}
    /\ file = [d \in Devices |-> EmptyFile]
    /\ backup = [d \in Devices |-> EmptyFile]
    /\ key \in [Devices -> Keys]
    /\ pc = [d \in Devices |-> "idle"]
    /\ reconciled = [d \in Devices |-> FALSE]
    /\ snap = [d \in Devices |-> {}]
    /\ req = [d \in Devices |-> {}]
    /\ resp = [d \in Devices |-> NoResp]
    /\ tail = [d \in Devices |-> NoTail]
    /\ page = [d \in Devices |-> NoPage]
    /\ retry = [d \in Devices |-> 0]
    /\ writes = [d \in Devices |-> 0]
    /\ restores = [d \in Devices |-> 0]
    /\ faults = [d \in Devices |-> 0]

TypeOK ==
    /\ log \in Seq(Log!Entries)
    /\ net \subseteq [client : Devices, batch : SUBSET Log!Entries]
    /\ file \in [Devices -> Files]
    /\ backup \in [Devices -> Files]
    /\ key \in [Devices -> Keys]
    /\ pc \in [Devices -> Places]
    /\ reconciled \in [Devices -> BOOLEAN]
    /\ snap \in [Devices -> SUBSET LocalRows]
    /\ req \in [Devices -> SUBSET Log!Entries]
    /\ resp \in [Devices -> [conflict : BOOLEAN, acks : SUBSET Acks]]
    /\ tail \in [Devices -> [max : Nat, by : Callers]]
    /\ page \in [Devices -> [todo : SUBSET Nat, next : Nat, more : BOOLEAN]]
    /\ retry \in [Devices -> Nat]
    /\ writes \in [Devices -> Nat]
    /\ restores \in [Devices -> Nat]
    /\ faults \in [Devices -> Nat]

-----------------------------------------------------------------------------
(* Mutated forms of operators and actions below, each a plausible slip in  *)
(* this code; the properties at the end of the module catch them.          *)

\* the UPDATE of an ack without its WHERE client_seq
AckEverything(f, acks) ==
    [f EXCEPT !.outbox = {[o EXCEPT !.seq = (CHOOSE a \in acks : TRUE).seq] : o \in @}]

\* advance the watermark to the chunk's last row, open group or not
ClosedAnyway(chunk, rest) == {r.ver : r \in chunk}

\* drop a changeset that does not open
DropUndecodable(f, i) == f

\* a relay without the lookup of pairs it already holds
RelayPushNoDedup(m) ==
    /\ net' = net \ {m}
    /\ \E s \in Bijection(1 .. Cardinality(m.batch), m.batch) : log' = log \o s
    /\ IF pc[m.client] = "await" /\ req[m.client] = m.batch
       THEN /\ resp' = [resp EXCEPT ![m.client] =
                  [conflict |-> FALSE,
                   acks |-> {[cseq |-> log'[i].cseq, seq |-> i, dup |-> FALSE] :
                               i \in (Len(log) + 1) .. Len(log')}]]
            /\ pc' = [pc EXCEPT ![m.client] = "resp"]
       ELSE UNCHANGED <<resp, pc>>
    /\ UNCHANGED <<file, backup, key, reconciled, snap, req, tail, page, retry,
                   historyVars>>

\* skip own echoes: "authored here, so already here"
MergeOneSkipsOwn(d) ==
    /\ pc[d] = "merge"
    /\ \E i \in page[d].todo :
          /\ \A j \in page[d].todo : i <= j
          /\ file' = [file EXCEPT ![d] =
                IF log[i].client = d THEN @
                ELSE IF log[i].ct.key # key[d] THEN [@ EXCEPT !.quar = @ \cup {i}]
                ELSE [@ EXCEPT !.db = @ \cup {[row |-> r, ver |-> file[d].dbv + 1] :
                                                 r \in log[i].ct.rows \ Has(file[d])},
                               !.dbv = @ + 1]]
          /\ page' = [page EXCEPT ![d].todo = @ \ {i}]
    /\ UNCHANGED <<relayVars, backup, key, pc, reconciled, snap, req, resp, tail,
                   retry, historyVars>>

-----------------------------------------------------------------------------
(* The app and the rest of the world.                                      *)

(* An app transaction: k new rows share the next db_version.               *)
LocalWrite(d) ==
    /\ \E k \in GroupSizes :
          /\ writes[d] + k <= WriteBudget[d]
          /\ LET new == {[site |-> d, n |-> writes[d] + i] : i \in 1 .. k} IN
             file' = [file EXCEPT
                        ![d].db = @ \cup {[row |-> r, ver |-> file[d].dbv + 1] : r \in new},
                        ![d].dbv = @ + 1]
          /\ writes' = [writes EXCEPT ![d] = @ + k]
    /\ UNCHANGED <<relayVars, backup, sessionVars, restores, faults>>

(* A spawn of the drain begins: everything connection-scoped is forgotten. *)
Respawn(d) ==
    /\ pc' = [pc EXCEPT ![d] = "idle"]
    /\ reconciled' = [reconciled EXCEPT ![d] = FALSE]
    /\ snap' = [snap EXCEPT ![d] = {}]
    /\ req' = [req EXCEPT ![d] = {}]
    /\ resp' = [resp EXCEPT ![d] = NoResp]
    /\ tail' = [tail EXCEPT ![d] = NoTail]
    /\ page' = [page EXCEPT ![d] = NoPage]
    /\ retry' = [retry EXCEPT ![d] = 0]

Crash(d) ==
    /\ faults[d] < FaultBudget[d]
    /\ faults' = [faults EXCEPT ![d] = @ + 1]
    /\ Respawn(d)
    /\ UNCHANGED <<relayVars, file, backup, key, writes, restores>>

(* The user signs in again and the next drain holds another vault key.     *)
Rekey(d) ==
    /\ faults[d] < FaultBudget[d]
    /\ faults' = [faults EXCEPT ![d] = @ + 1]
    /\ \E k \in Keys \ {key[d]} : key' = [key EXCEPT ![d] = k]
    /\ Respawn(d)
    /\ UNCHANGED <<relayVars, file, backup, writes, restores>>

(* A copy of the database file is kept, and later put back.                *)
Backup(d) ==
    /\ restores[d] < RestoreBudget[d]
    /\ backup' = [backup EXCEPT ![d] = file[d]]
    /\ UNCHANGED <<relayVars, file, sessionVars, historyVars>>

Restore(d) ==
    /\ restores[d] < RestoreBudget[d]
    /\ restores' = [restores EXCEPT ![d] = @ + 1]
    /\ file' = [file EXCEPT ![d] = backup[d]]
    /\ Respawn(d)
    /\ UNCHANGED <<relayVars, backup, key, writes, faults>>

-----------------------------------------------------------------------------
(* Reconciling the counter against the relay's tail.                       *)

(* A cycle starts; the first one of a spawn reconciles before it captures. *)
StartCycle(d) ==
    /\ pc[d] = "idle"
    /\ IF reconciled[d]
       THEN /\ pc' = [pc EXCEPT ![d] = "capture"]
            /\ UNCHANGED tail
       ELSE /\ pc' = [pc EXCEPT ![d] = "reconcile"]
            /\ tail' = [tail EXCEPT ![d] = NoTail]
    /\ UNCHANGED <<relayVars, file, backup, key, reconciled, snap, req, resp, page,
                   retry, historyVars>>

ClientSeqsAt(d) == {e.cseq : e \in {s \in Log!Stored : s.client = d}}

(* GET completeness: the largest client_seq the relay holds of this client.*)
TailRead(d) ==
    /\ pc[d] = "reconcile"
    /\ \E t \in ClientSeqsAt(d) \cup {0} :
          /\ \A c \in ClientSeqsAt(d) : c <= t
          /\ tail' = [tail EXCEPT ![d].max = t]
    /\ pc' = [pc EXCEPT ![d] = "tail"]
    /\ UNCHANGED <<relayVars, file, backup, key, reconciled, snap, req, resp, page,
                   retry, historyVars>>

(* One transaction: counter to the target, re-walk everything, drop what   *)
(* is not acked.                                                           *)
Reseed(f, target) ==
    [f EXCEPT !.cseq = target, !.pushWm = 0, !.outbox = {o \in @ : o.seq # 0}]

(* Mark outbox rows acked at the changeset_seq the relay assigned.         *)
Ack(f, acks) ==
    [f EXCEPT !.outbox =
        {IF \E a \in acks : a.cseq = o.cseq
         THEN [o EXCEPT !.seq = (CHOOSE a \in acks : a.cseq = o.cseq).seq]
         ELSE o : o \in @}]

(* The answer arrives and is applied for whoever asked.                    *)
TailApply(d) ==
    /\ pc[d] = "tail"
    /\ LET regressed == tail[d].max > file[d].cseq
           dups == {a \in resp[d].acks : a.dup} IN
       \/ /\ tail[d].by = "start"
          /\ file' = IF regressed
                     THEN [file EXCEPT ![d] = Reseed(@, tail[d].max)] ELSE file
          /\ pc' = [pc EXCEPT ![d] = "capture"]
       \/ /\ tail[d].by = "dedup"
          /\ regressed
          /\ file' = [file EXCEPT ![d] = Reseed(@, tail[d].max)]
          /\ pc' = [pc EXCEPT ![d] = "pull"]
       \/ /\ tail[d].by = "dedup"
          /\ ~regressed
          /\ file' = [file EXCEPT ![d] = Ack(@, dups)]
          /\ \E p \in {"push", "pull"} : pc' = [pc EXCEPT ![d] = p]
       \/ /\ tail[d].by = "conflict"
          /\ file' = [file EXCEPT ![d] =
                         Reseed(@, IF regressed THEN tail[d].max ELSE file[d].cseq)]
          /\ pc' = [pc EXCEPT ![d] = "pull"]
    /\ reconciled' = [reconciled EXCEPT ![d] = TRUE]
    /\ tail' = [tail EXCEPT ![d] = NoTail]
    /\ resp' = [resp EXCEPT ![d] = NoResp]
    /\ UNCHANGED <<relayVars, backup, key, snap, req, page, retry, historyVars>>

-----------------------------------------------------------------------------
(* Capturing local writes into the outbox.                                 *)

(* Read this device's rows past the push watermark, once.                  *)
CaptureRead(d) ==
    /\ pc[d] = "capture"
    /\ LET new == {r \in Own(file[d], d) : r.ver > file[d].pushWm} IN
       /\ snap' = [snap EXCEPT ![d] = new]
       /\ pc' = [pc EXCEPT ![d] = IF new = {} THEN "push" ELSE "chunk"]
    /\ UNCHANGED <<relayVars, file, backup, key, reconciled, req, resp, tail, page,
                   retry, historyVars>>

(* The order of the capture query: db_version, then row.                   *)
Before(a, b) == a.ver < b.ver \/ (a.ver = b.ver /\ a.row.n < b.row.n)

(* A cut of the row stream: the row and byte budgets and a change of       *)
(* capability level may end a chunk after any row.                         *)
IsChunk(chunk, rows) ==
    /\ chunk # {}
    /\ Cardinality(chunk) <= ChunkRows
    /\ \A a \in chunk, b \in rows \ chunk : Before(a, b)

(* db_versions wholly inside the chunks committed so far.                  *)
ClosedVersions(chunk, rest) ==
    {r.ver : r \in {c \in chunk : \A x \in rest : c.ver < x.ver}}

(* The watermark that commits with a chunk: the newest closed version, or  *)
(* the old watermark while a group is still open.                          *)
IsCommitWatermark(w, chunk, rest, wm) ==
    /\ w \in ClosedVersions(chunk, rest) \cup {wm}
    /\ \A v \in ClosedVersions(chunk, rest) \cup {wm} : v <= w

(* Seal one chunk under the next client_seq and commit it together with    *)
(* the watermark.                                                          *)
CaptureChunk(d) ==
    /\ pc[d] = "chunk"
    /\ \E chunk \in SUBSET snap[d] :
          /\ IsChunk(chunk, snap[d])
          /\ \E w \in {r.ver : r \in chunk} \cup {file[d].pushWm} :
                /\ IsCommitWatermark(w, chunk, snap[d] \ chunk, file[d].pushWm)
                /\ LET ct == [rows |-> {r.row : r \in chunk}, key |-> key[d],
                              inc |-> restores[d]] IN
                   file' = [file EXCEPT
                     ![d].cseq = @ + 1,
                     ![d].outbox = @ \cup {[cseq |-> file[d].cseq + 1, ct |-> ct, seq |-> 0]},
                     ![d].pushWm = w]
          /\ snap' = [snap EXCEPT ![d] = @ \ chunk]
          /\ pc' = [pc EXCEPT ![d] = IF snap[d] = chunk THEN "push" ELSE "chunk"]
    /\ UNCHANGED <<relayVars, backup, key, reconciled, req, resp, tail, page, retry,
                   historyVars>>

-----------------------------------------------------------------------------
(* Pushing the outbox.                                                     *)

(* Send the oldest unacked entries; the wire budgets and a change of       *)
(* capability level may end the batch after any entry.                     *)
PushSend(d) ==
    /\ pc[d] = "push"
    /\ \E os \in SUBSET Unacked(file[d]) :
          /\ os # {}
          /\ Cardinality(os) <= MaxPush
          /\ \A a \in os, b \in Unacked(file[d]) \ os : a.cseq < b.cseq
          /\ req' = [req EXCEPT ![d] = Batch(d, os)]
          /\ net' = net \cup {[client |-> d, batch |-> Batch(d, os)]}
    /\ pc' = [pc EXCEPT ![d] = "await"]
    /\ UNCHANGED <<log, file, backup, key, reconciled, snap, resp, tail, page, retry,
                   historyVars>>

PushDone(d) ==
    /\ pc[d] = "push"
    /\ Unacked(file[d]) = {}
    /\ pc' = [pc EXCEPT ![d] = "pull"]
    /\ UNCHANGED <<relayVars, file, backup, key, reconciled, snap, req, resp, tail,
                   page, retry, historyVars>>

(* Hand the relay's answer to the sender if it still waits for it.         *)
Answer(m, r) ==
    IF pc[m.client] = "await" /\ req[m.client] = m.batch
    THEN /\ resp' = [resp EXCEPT ![m.client] = r]
         /\ pc' = [pc EXCEPT ![m.client] = "resp"]
    ELSE UNCHANGED <<resp, pc>>

(* Store the batch's new entries at the next changeset_seqs, in client_seq *)
(* order, unless one of its pairs is held under another ciphertext.        *)
Store(batch) ==
    /\ ~Log!Conflict(batch)
    /\ \E s \in Bijection(1 .. Cardinality(Log!Fresh(batch)), Log!Fresh(batch)) :
          /\ \A i, j \in DOMAIN s : i < j => s[i].cseq < s[j].cseq
          /\ log' = log \o s

(* The relay handles a push: 409 for the whole batch, or store what is new *)
(* and acknowledge everything.                                             *)
RelayPush(m) ==
    /\ net' = net \ {m}
    /\ \/ /\ Log!Conflict(m.batch)
          /\ Answer(m, [conflict |-> TRUE, acks |-> {}])
          /\ UNCHANGED log
       \/ /\ Store(m.batch)
          /\ Answer(m, [conflict |-> FALSE,
                        acks |-> {[cseq |-> log'[i].cseq, seq |-> i, dup |-> i <= Len(log)] :
                                    i \in {j \in DOMAIN log' : log'[j] \in m.batch}}])
    /\ UNCHANGED <<file, backup, key, reconciled, snap, req, tail, page, retry,
                   historyVars>>

(* A request dies on the way.                                              *)
LoseRequest(m) ==
    /\ faults[m.client] < FaultBudget[m.client]
    /\ faults' = [faults EXCEPT ![m.client] = @ + 1]
    /\ net' = net \ {m}
    /\ UNCHANGED <<log, file, backup, sessionVars, writes, restores>>

(* The sender gives up.  Its request may still be under way.               *)
PushTimeout(d) ==
    /\ pc[d] = "await"
    /\ IF [client |-> d, batch |-> req[d]] \in net
       THEN /\ faults[d] < FaultBudget[d]
            /\ faults' = [faults EXCEPT ![d] = @ + 1]
       ELSE UNCHANGED faults
    /\ pc' = [pc EXCEPT ![d] = "pull"]
    /\ req' = [req EXCEPT ![d] = {}]
    /\ UNCHANGED <<relayVars, file, backup, key, reconciled, snap, resp, tail, page,
                   retry, writes, restores>>

(* The response: first-time acks are applied at once, deduplicated ones    *)
(* only after a reconcile, a conflict starts the recovery.  The loop goes  *)
(* on unless the per-cycle cap is reached.                                 *)
PushAck(d) ==
    /\ pc[d] = "resp"
    /\ req' = [req EXCEPT ![d] = {}]
    /\ LET firsts == {a \in resp[d].acks : ~a.dup} IN
       \/ /\ resp[d].conflict
          /\ reconciled' = [reconciled EXCEPT ![d] = FALSE]
          /\ tail' = [tail EXCEPT ![d] = [max |-> 0, by |-> "conflict"]]
          /\ pc' = [pc EXCEPT ![d] = "reconcile"]
          /\ resp' = [resp EXCEPT ![d] = NoResp]
          /\ UNCHANGED file
       \/ /\ ~resp[d].conflict
          /\ firsts # resp[d].acks
          /\ file' = [file EXCEPT ![d] = Ack(@, firsts)]
          /\ tail' = [tail EXCEPT ![d] = [max |-> 0, by |-> "dedup"]]
          /\ pc' = [pc EXCEPT ![d] = "reconcile"]
          /\ UNCHANGED <<reconciled, resp>>
       \/ /\ ~resp[d].conflict
          /\ firsts = resp[d].acks
          /\ file' = [file EXCEPT ![d] = Ack(@, firsts)]
          /\ \E p \in {"push", "pull"} : pc' = [pc EXCEPT ![d] = p]
          /\ resp' = [resp EXCEPT ![d] = NoResp]
          /\ UNCHANGED <<reconciled, tail>>
    /\ UNCHANGED <<relayVars, backup, key, snap, page, retry, historyVars>>

-----------------------------------------------------------------------------
(* Pulling, merging and the crypto quarantine.                             *)

(* GET pull: at most PullLimit changesets past the watermark.              *)
PullPage(d) ==
    /\ pc[d] = "pull"
    /\ LET since == file[d].pullWm
           last  == IF Len(log) > since + PullLimit THEN since + PullLimit ELSE Len(log) IN
       IF last <= since
       THEN /\ pc' = [pc EXCEPT ![d] = "idle"]
            /\ UNCHANGED page
       ELSE /\ pc' = [pc EXCEPT ![d] = "merge"]
            /\ page' = [page EXCEPT ![d] = [todo |-> (since + 1) .. last, next |-> last,
                                            more |-> Len(log) > last]]
    /\ UNCHANGED <<relayVars, file, backup, key, reconciled, snap, req, resp, tail,
                   retry, historyVars>>

Decodes(d, i) == log[i].ct.key = key[d]

(* cr-sqlite merge: rows already here are no-ops, new ones get the next    *)
(* local db_version, also rows of this device's own that a restore lost.   *)
Merge(f, rows) ==
    IF rows \subseteq Has(f) THEN f
    ELSE [f EXCEPT !.db = @ \cup {[row |-> r, ver |-> f.dbv + 1] : r \in rows \ Has(f)},
                   !.dbv = @ + 1]

Quarantine(f, i) == [f EXCEPT !.quar = @ \cup {i}]

(* The next changeset of the page: merged in a transaction of its own, or  *)
(* stored in the quarantine if it does not open.                           *)
MergeOne(d) ==
    /\ pc[d] = "merge"
    /\ \E i \in page[d].todo :
          /\ \A j \in page[d].todo : i <= j
          /\ file' = [file EXCEPT ![d] = IF Decodes(d, i) THEN Merge(@, log[i].ct.rows)
                                         ELSE Quarantine(@, i)]
          /\ page' = [page EXCEPT ![d].todo = @ \ {i}]
    /\ UNCHANGED <<relayVars, backup, key, pc, reconciled, snap, req, resp, tail,
                   retry, historyVars>>

(* The whole page is consumed: the watermark moves once.                   *)
PageDone(d) ==
    /\ pc[d] = "merge"
    /\ page[d].todo = {}
    /\ file' = [file EXCEPT ![d].pullWm = page[d].next]
    /\ pc' = [pc EXCEPT ![d] = IF page[d].more THEN "pull" ELSE "idle"]
    /\ page' = [page EXCEPT ![d] = NoPage]
    /\ UNCHANGED <<relayVars, backup, key, reconciled, snap, req, resp, tail, retry,
                   historyVars>>

(* A call or a local transaction fails: a failed push half still pulls, a  *)
(* failed pull half ends the cycle.                                        *)
StepFails(d) ==
    /\ faults[d] < FaultBudget[d]
    /\ faults' = [faults EXCEPT ![d] = @ + 1]
    /\ \/ /\ pc[d] \in {"reconcile", "tail", "capture", "chunk", "push"}
          /\ pc' = [pc EXCEPT ![d] = "pull"]
       \/ /\ pc[d] \in {"pull", "merge"}
          /\ pc' = [pc EXCEPT ![d] = "idle"]
    /\ snap' = [snap EXCEPT ![d] = {}]
    /\ resp' = [resp EXCEPT ![d] = NoResp]
    /\ tail' = [tail EXCEPT ![d] = NoTail]
    /\ page' = [page EXCEPT ![d] = NoPage]
    /\ UNCHANGED <<relayVars, file, backup, key, reconciled, req, retry, writes,
                   restores>>

(* The manual retry, beside the drain on its own connection: merge what    *)
(* opens now, then delete the quarantine row in a second transaction.      *)
RetryMerge(d) ==
    /\ retry[d] = 0
    /\ \E i \in file[d].quar :
          /\ Decodes(d, i)
          /\ file' = [file EXCEPT ![d] = Merge(@, log[i].ct.rows)]
          /\ retry' = [retry EXCEPT ![d] = i]
    /\ UNCHANGED <<relayVars, backup, key, pc, reconciled, snap, req, resp, tail, page,
                   historyVars>>

RetryDelete(d) ==
    /\ retry[d] # 0
    /\ file' = [file EXCEPT ![d].quar = @ \ {retry[d]}]
    /\ retry' = [retry EXCEPT ![d] = 0]
    /\ UNCHANGED <<relayVars, backup, key, pc, reconciled, snap, req, resp, tail, page,
                   historyVars>>

-----------------------------------------------------------------------------
Drain(d) ==
    \/ StartCycle(d) \/ TailRead(d) \/ TailApply(d)
    \/ CaptureRead(d) \/ CaptureChunk(d)
    \/ PushSend(d) \/ PushDone(d) \/ PushTimeout(d) \/ PushAck(d)
    \/ PullPage(d) \/ MergeOne(d) \/ PageDone(d)

Retry(d) == RetryMerge(d) \/ RetryDelete(d)

World(d) ==
    \/ LocalWrite(d) \/ Crash(d) \/ Rekey(d) \/ Backup(d) \/ Restore(d) \/ StepFails(d)

Next ==
    \/ \E d \in Devices : Drain(d) \/ Retry(d) \/ World(d)
    \/ \E m \in net : RelayPush(m) \/ LoseRequest(m)

Spec == Init /\ [][Next]_vars

(***************************************************************************)
(* The drain thread loops and the relay serves what reaches it.  Nothing   *)
(* obliges the user to write or to retry the quarantine.  Faults are       *)
(* finite: this asks for progress once the network and the app stay up.    *)
(***************************************************************************)
FairSpec ==
    /\ Spec
    /\ \A d \in Devices :
          /\ WF_vars(Drain(d))
          /\ WF_vars(\E m \in net : m.client = d /\ RelayPush(m))

-----------------------------------------------------------------------------
(* Rows of d that the relay holds, and rows that still wait in an outbox.  *)
AtRelay(d) == UNION {e.ct.rows : e \in {s \in Log!Stored : s.client = d}}
Waiting(f) == UNION {o.ct.rows : o \in Unacked(f)}

FilesOf(d) == {file[d], backup[d]}

(* No local write is lost: a row the push watermark has passed is at the   *)
(* relay or in an unacked outbox entry.  Crashes between chunks, split     *)
(* db_version groups, retried, late and conflicting pushes and restores of *)
(* an old file all try to break this.                                      *)
NoSilentLoss ==
    \A d \in Devices : \A f \in FilesOf(d) : \A r \in Own(f, d) :
        r.ver <= f.pushWm => r.row \in AtRelay(d) \cup Waiting(f)

(* An acked outbox row is in the log, under this client_seq, with exactly  *)
(* this ciphertext: no ack is ever given for somebody else's content.      *)
AckedIsStored ==
    \A d \in Devices : \A f \in FilesOf(d) : \A o \in f.outbox :
        o.seq # 0 => o.seq \in DOMAIN log /\ log[o.seq] = Entry(d, o)

(* The pull watermark skips nothing: every changeset at or below it was    *)
(* merged here or sits in the crypto quarantine.                           *)
PulledOrQuarantined ==
    \A d \in Devices : \A f \in FilesOf(d) :
        /\ f.pullWm <= Len(log)
        /\ \A i \in 1 .. f.pullWm : log[i].ct.rows \subseteq Has(f) \/ i \in f.quar

(* The relay stores a pair once, whatever the clients do.                  *)
PairUnique == Log!PairUnique

(* The relay seen by the devices is a ChangeLog: it grows only at its end, *)
(* by entries whose pairs are new, also when a request arrives late, twice *)
(* or from a restored device.                                              *)
LogSpec == Log!Spec

(* A device is caught up: what it wrote is at the relay, nothing waits,    *)
(* and every changeset is merged or visibly quarantined.                   *)
CaughtUp(d) ==
    /\ {r.row : r \in Own(file[d], d)} \subseteq AtRelay(d)
    /\ Unacked(file[d]) = {}
    /\ \A i \in DOMAIN log : \/ log[i].ct.rows \subseteq Has(file[d])
                            \/ i \in file[d].quar

(* Once faults end, every device catches up for good: no push loop, no     *)
(* conflict that recurs, no page that is never consumed.                   *)
Converges == <>[](\A d \in Devices : CaughtUp(d))
=============================================================================
