------------------------------ MODULE Cutover ------------------------------
(***************************************************************************)
(* The one-time cutover that turns the desktop's live database into the    *)
(* CRR database sync works on (sync.rs, perform_cutover), the recovery a   *)
(* boot runs first, and the binding of the database to an account.         *)
(*                                                                         *)
(* A step is one file operation, so a crash can fall between any two.  A   *)
(* database file is the set of writes it holds, whether it is prepared,    *)
(* the account it is bound to and what its outbox and watermarks are from. *)
(***************************************************************************)
EXTENDS Naturals, FiniteSets

CONSTANTS Seed,       \* rows the live database starts with
          Orphans,    \* those of Seed the repairs of staging would delete
          Inserts,    \* rows the app may insert
          Tenants,    \* accounts
          NoTenant,
          MaxFaults, MaxCrashes, MaxUpgrades

ASSUME CutoverAssumption ==
  /\ Orphans \subseteq Seed /\ NoTenant \notin Tenants
  /\ MaxFaults \in Nat /\ MaxCrashes \in Nat /\ MaxUpgrades \in Nat

Writes == Seed \cup Inserts
Names  == {"live", "backup", "staging", "failed"}

VARIABLES
  disk,       \* Names -> file
  asides,     \* earlier backups, moved to time-stamped names
  journal,    \* [phase, pre]: the cutover journal, phase "none" without one
  pool,       \* the app's connections are open
  swapping,   \* DbService.swapping
  at,         \* what the process runs next
  pre,        \* pre_counts of the running cutover
  tenant,     \* the signed-in account
  enabled,    \* its sync_enabled flag
  drain,      \* the account the drain runs for
  safe,       \* writes answered outside the window Swapping
  faults, crashes, upgrades

stored  == <<disk, asides, journal>>
service == <<pool, swapping>>
account == <<tenant, enabled, drain>>
bounds  == <<faults, crashes, upgrades>>
cutVars == <<stored, service, at, pre, account, safe, bounds>>

\* A file: rows, whether it is CRR at this build's schema version, the
\* account it is bound to, whose changesets its outbox holds and whose
\* sequence numbers its watermarks are (NoTenant: zero).
NoFile == [on |-> FALSE, rows |-> {}, crr |-> FALSE, bound |-> NoTenant,
           outbox |-> {}, marks |-> NoTenant]
NewDb  == [NoFile EXCEPT !.on = TRUE]
NoJournal == [phase |-> "none", pre |-> 0]

On(n)      == disk[n].on
Counts(f)  == Cardinality(f.rows)
Failing    == faults < MaxFaults /\ faults' = faults + 1
Working    == UNCHANGED faults
Rename(a, b, d) == [d EXCEPT ![b] = d[a], ![a] = NoFile]
RemoveDb(a, d)  == [d EXCEPT ![a] = NoFile]
\* The steps of a cutover that follow the copy of the live database, and of
\* a boot that precede the first connection.
Swapping == {"prepare", "close", "aside", "journal", "move", "moved", "swap", "unswap",
             "swapped", "reopen", "verify", "giveup", "rollback", "restore", "unroll"}
Booting  == {"off", "unjournal", "open"}
\* An append to the live file by a process that found it on disk.
Committed(w) == [disk EXCEPT !["live"].rows = @ \cup {w}]
\* Pool::open: opening a path that holds no file creates an empty database.
Opened(d) == IF d["live"].on THEN d ELSE [d EXCEPT !["live"] = NewDb]

CutTypeOK ==
  /\ \A n \in Names : disk[n].rows \subseteq Writes
  /\ \A n \in Names : disk[n].bound \in Tenants \cup {NoTenant}
  /\ journal.phase \in {"none", "SwapStarted", "BackupMoved", "SwapCompleted"}
  /\ pool \in BOOLEAN /\ swapping \in BOOLEAN
  /\ drain \in Tenants \cup {NoTenant} /\ tenant \in Tenants \cup {NoTenant}
  /\ safe \subseteq Writes
  /\ faults \in 0..MaxFaults /\ crashes \in 0..MaxCrashes

CutInit ==
  /\ \E o \in SUBSET Orphans :
       disk = [n \in Names |-> IF n = "live"
                 THEN [NewDb EXCEPT !.rows = (Seed \ Orphans) \cup o] ELSE NoFile]
  /\ asides = {} /\ journal = NoJournal
  /\ pool = TRUE /\ swapping = FALSE /\ at = "idle" /\ pre = 0
  /\ tenant = NoTenant /\ enabled = FALSE /\ drain = NoTenant
  /\ safe = disk["live"].rows
  /\ faults = 0 /\ crashes = 0 /\ upgrades = 0

(***************************************************************************)
(* Writers.                                                                *)
(***************************************************************************)

\* DbService::execute: refused while a swap is under way or the pool is gone.
AppWrite(w) ==
  /\ pool /\ ~swapping /\ w \notin disk["live"].rows
  /\ w \in Inserts
  /\ disk' = Committed(w)
  /\ safe' = IF at \in Swapping THEN safe ELSE safe \cup {w}
  /\ UNCHANGED <<asides, journal, service, at, pre, account, bounds>>

\* insert_audio_part_row: its own connection, past the swapping flag; it only
\* refuses when the live path holds no file.
DirectWrite(w) ==
  /\ at \notin Booting /\ On("live") /\ w \in Inserts /\ w \notin disk["live"].rows
  /\ disk' = Committed(w)
  /\ safe' = IF at \in Swapping THEN safe ELSE safe \cup {w}
  /\ UNCHANGED <<asides, journal, service, at, pre, account, bounds>>

\* The drain captures changesets and moves the watermarks of its account.
DrainPass ==
  /\ drain # NoTenant
  /\ disk' = [disk EXCEPT !["live"].outbox = @ \cup {drain},
                          !["live"].marks = drain]
  /\ UNCHANGED <<asides, journal, service, at, pre, account, safe, bounds>>

(***************************************************************************)
(* The commands around the cutover.                                        *)
(***************************************************************************)
SignIn(t) ==
  /\ at = "idle" /\ tenant = NoTenant
  /\ tenant' = t /\ UNCHANGED <<stored, service, at, pre, enabled, drain, safe, bounds>>

\* sync_sign_out stops the drain before it clears the session.
SignOut ==
  /\ at = "idle" /\ tenant # NoTenant
  /\ tenant' = NoTenant /\ enabled' = FALSE /\ drain' = NoTenant
  /\ UNCHANGED <<stored, service, at, pre, safe, bounds>>

SyncDisable ==
  /\ at = "idle" /\ tenant # NoTenant
  /\ enabled' = FALSE /\ drain' = NoTenant
  /\ UNCHANGED <<stored, service, at, pre, tenant, safe, bounds>>

SyncEnable ==
  /\ at = "idle" /\ tenant # NoTenant
  /\ at' = "gate" /\ UNCHANGED <<stored, service, pre, account, safe, bounds>>

(***************************************************************************)
(* cutover_with_fault.                                                     *)
(***************************************************************************)
Artifacts  == journal.phase # "none" \/ On("backup") \/ On("staging")
\* synced_table_row_counts: a synced table that is absent counts nothing.
SyncedRows(f) == f.rows
NoUserRows == SyncedRows(disk["live"]) = {}
\* live_is_crr_prepared: a file that is there and prepared at this build's
\* schema version; a probe that fails is no answer (Failing).
CrrPrepared == On("live") /\ disk["live"].crr
\* Where a cutover that gives up leaves the process: the app goes on without
\* a drain, whether a command or the boot asked for the cutover.
GiveUp == at' = "idle" /\ pre' = 0

\* live_is_crr_prepared, the refusal of a fresh live beside recovery
\* artifacts, the removal of an old staging file and the row counts.
CutGate ==
  /\ at = "gate"
  /\ \/ Failing /\ GiveUp /\ UNCHANGED disk
     \/ Working /\ CrrPrepared /\ at' = "bind" /\ UNCHANGED <<disk, pre>>
     \/ Working /\ ~CrrPrepared /\ Artifacts /\ NoUserRows /\ GiveUp
        /\ UNCHANGED disk
     \/ /\ Working /\ ~CrrPrepared /\ ~(Artifacts /\ NoUserRows)
        /\ disk' = RemoveDb("staging", disk)
        /\ pre' = Counts(disk["live"])
        /\ at' = "vacuum"
  /\ UNCHANGED <<asides, journal, service, account, safe, crashes, upgrades>>

\* VACUUM INTO staging, on a connection of its own while the pool stays open;
\* the file exists before it is complete.
CutVacuum ==
  /\ at \in {"vacuum", "vacuuming"}
  /\ \/ at = "vacuum" /\ at' = "vacuuming" /\ Working /\ UNCHANGED pre
        /\ disk' = [disk EXCEPT !["staging"] = NewDb]
     \/ at = "vacuuming" /\ at' = "prepare" /\ Working /\ UNCHANGED pre
        /\ disk' = [disk EXCEPT !["staging"] = disk["live"]]
     \/ Failing /\ GiveUp /\ UNCHANGED disk      \* a partial staging file stays
  /\ UNCHANGED <<asides, journal, service, account, safe, crashes, upgrades>>

\* Conversion and repairs on staging: orphans go, the watermarks restart.
Converted(f) == [f EXCEPT !.rows = @ \ Orphans, !.crr = TRUE, !.marks = NoTenant]

CutPrepare ==
  /\ at = "prepare"
  /\ \/ /\ Working /\ at' = "close" /\ UNCHANGED pre
        /\ disk' = [disk EXCEPT !["staging"] = Converted(@)]
     \/ Failing /\ GiveUp /\ disk' = RemoveDb("staging", disk)
  /\ UNCHANGED <<asides, journal, service, account, safe, crashes, upgrades>>

\* DbService::close_for_swap: the flag first, then the checkpoint, then every
\* connection; a checkpoint that fails leaves the pool as it was, and a pool
\* that an earlier failed reopening left shut has none.
CloseForSwap ==
  /\ at = "close"
  /\ \/ Working /\ swapping' = TRUE /\ pool' = FALSE /\ at' = "aside"
     \/ pool /\ Failing /\ swapping' = FALSE /\ UNCHANGED pool /\ at' = "giveup"
  /\ UNCHANGED <<stored, pre, account, safe, crashes, upgrades>>

\* Mutant: the earlier backup is deleted to make room.
CutAsideDeletes ==
  /\ at = "aside" /\ at' = "journal" /\ Working /\ disk' = RemoveDb("backup", disk)
  /\ UNCHANGED <<asides, journal, service, pre, account, safe, crashes, upgrades>>

\* An earlier backup moves to a name of its own (a failed rename is ignored).
CutAside ==
  /\ at = "aside" /\ at' = "journal"
  /\ \/ Working /\ disk' = RemoveDb("backup", disk)
        /\ asides' = IF On("backup") THEN asides \cup {disk["backup"]} ELSE asides
     \/ Failing /\ On("backup") /\ UNCHANGED <<disk, asides>>
  /\ UNCHANGED <<journal, service, pre, account, safe, crashes, upgrades>>

\* write_journal replaces the journal atomically.
CutJournal ==
  /\ at = "journal"
  /\ \/ /\ Working /\ at' = "move"
        /\ journal' = [phase |-> "SwapStarted", pre |-> pre]
     \/ Failing /\ at' = "giveup" /\ UNCHANGED journal
  /\ UNCHANGED <<disk, asides, service, pre, account, safe, crashes, upgrades>>

CutMove ==
  /\ at = "move"
  /\ \/ Working /\ disk' = Rename("live", "backup", disk) /\ at' = "moved"
        /\ UNCHANGED journal
     \/ Failing /\ journal' = NoJournal /\ at' = "giveup" /\ UNCHANGED disk
  /\ UNCHANGED <<asides, service, pre, account, safe, crashes, upgrades>>

\* The later phases of the journal are written best effort.
CutPhase ==
  /\ at \in {"moved", "swapped"}
  /\ at' = IF at = "moved" THEN "swap" ELSE "reopen"
  /\ \/ /\ Working
        /\ journal' = [phase |-> IF at = "moved" THEN "BackupMoved" ELSE "SwapCompleted",
                       pre |-> pre]
     \/ Failing /\ UNCHANGED journal
  /\ UNCHANGED <<disk, asides, service, pre, account, safe, crashes, upgrades>>

CutSwap ==
  /\ at = "swap"
  /\ \/ Working /\ disk' = Rename("staging", "live", disk) /\ at' = "swapped"
     \/ Failing /\ at' = "unswap" /\ UNCHANGED disk
  /\ UNCHANGED <<asides, journal, service, pre, account, safe, crashes, upgrades>>

\* The swap failed: rename the backup back, whatever comes of it, and drop
\* the journal.
CutUnswap ==
  /\ at = "unswap" /\ at' = "giveup"
  /\ \/ Working /\ disk' = Rename("backup", "live", disk)
     \/ Failing /\ UNCHANGED disk
  /\ journal' = NoJournal
  /\ UNCHANGED <<asides, service, pre, account, safe, crashes, upgrades>>

\* The common tail of the early failures: reopen (its result ignored), then
\* remove staging.
CutGiveUp ==
  /\ at = "giveup" /\ GiveUp
  /\ \/ Working /\ disk' = RemoveDb("staging", Opened(disk))
        /\ pool' = TRUE /\ swapping' = FALSE
     \/ Failing /\ disk' = RemoveDb("staging", disk) /\ UNCHANGED service
  /\ UNCHANGED <<asides, journal, account, safe, crashes, upgrades>>

\* DbService::reopen after the swap.
CutReopen ==
  /\ at = "reopen"
  /\ \/ Working /\ disk' = Opened(disk) /\ pool' = TRUE /\ swapping' = FALSE
        /\ at' = "verify"
     \/ Failing /\ at' = "rollback" /\ UNCHANGED <<disk, service>>
  /\ UNCHANGED <<asides, journal, pre, account, safe, crashes, upgrades>>

\* The row counts of every user table against those before the swap; then
\* the journal goes (a journal that cannot be removed is only logged).
CutVerify ==
  /\ at = "verify" /\ pre' = 0
  /\ \/ Counts(disk["live"]) = pre /\ Working /\ at' = "bind" /\ journal' = NoJournal
     \/ Counts(disk["live"]) = pre /\ Failing /\ at' = "bind" /\ UNCHANGED journal
     \/ Counts(disk["live"]) # pre /\ Working /\ at' = "rollback" /\ UNCHANGED journal
     \/ Failing /\ at' = "rollback" /\ UNCHANGED journal
  /\ UNCHANGED <<disk, asides, service, account, safe, crashes, upgrades>>

(***************************************************************************)
(* rollback_to_backup.                                                     *)
(***************************************************************************)

\* discard_pool, drop the failed copy of an earlier rollback, then put this
\* one aside.
RollAside ==
  /\ at = "rollback" /\ at' = "restore"
  /\ swapping' = TRUE /\ pool' = FALSE
  /\ \/ Working /\ disk' = Rename("live", "failed", disk)
     \/ Failing /\ disk' = RemoveDb("failed", disk)
  /\ UNCHANGED <<asides, journal, pre, account, safe, crashes, upgrades>>

\* Only once the backup is back is the failed copy deleted; when the backup
\* will not move the failed copy goes back to the live path.
RollRestore ==
  /\ at = "restore" /\ at' = "unroll"
  /\ \/ Working /\ disk' = RemoveDb("failed", Rename("backup", "live", disk))
     \/ Failing /\ disk' = IF On("failed") THEN Rename("failed", "live", disk) ELSE disk
     \/ faults + 1 < MaxFaults /\ faults' = faults + 2 /\ UNCHANGED disk
  /\ UNCHANGED <<asides, journal, service, pre, account, safe, crashes, upgrades>>

\* Mutant: the rollback ends without reopening the pool.
RollEndShut ==
  /\ at = "unroll" /\ GiveUp /\ journal' = NoJournal /\ Working
  /\ UNCHANGED <<disk, service, asides, account, safe, crashes, upgrades>>

RollEnd ==
  /\ at = "unroll" /\ GiveUp /\ journal' = NoJournal
  /\ \/ Working /\ disk' = Opened(disk) /\ pool' = TRUE /\ swapping' = FALSE
     \/ Failing /\ UNCHANGED <<disk, service>>
  /\ UNCHANGED <<asides, account, safe, crashes, upgrades>>

(***************************************************************************)
(* reconcile_account_binding: autocommitted steps, the binding last.       *)
(***************************************************************************)
ResetForBinding(f) == [f EXCEPT !.marks = NoTenant, !.outbox = {}]

\* Mutant: the new binding is recorded with the first reset.
BindResetFirst ==
  /\ at = "bind"
  /\ IF disk["live"].bound = tenant
       THEN at' = "spawn" /\ UNCHANGED disk
       ELSE at' = "outbox" /\ disk' = [disk EXCEPT !["live"].marks = NoTenant,
                                                  !["live"].bound = tenant]
  /\ UNCHANGED <<asides, journal, service, pre, account, safe, bounds>>

BindReset ==
  /\ at = "bind"
  /\ IF disk["live"].bound = tenant
       THEN at' = "spawn" /\ UNCHANGED disk
       ELSE \/ at' = "outbox" /\ disk' = [disk EXCEPT !["live"].marks = NoTenant]
            \/ at' = "idle" /\ UNCHANGED disk    \* a locked database: refused
  /\ UNCHANGED <<asides, journal, service, pre, account, safe, bounds>>

BindClear ==
  /\ at = "outbox" /\ at' = "bound"
  /\ disk' = [disk EXCEPT !["live"] = ResetForBinding(@)]
  /\ UNCHANGED <<asides, journal, service, pre, account, safe, bounds>>

\* The bind is recorded, and only then may the drain start.
BindRecord ==
  /\ at = "bound" /\ at' = "spawn"
  /\ disk' = [disk EXCEPT !["live"].bound = tenant]
  /\ UNCHANGED <<asides, journal, service, pre, account, safe, bounds>>

SpawnDrain ==
  /\ at = "spawn" /\ at' = "idle"
  /\ drain' = tenant /\ enabled' = TRUE
  /\ UNCHANGED <<stored, service, pre, tenant, safe, bounds>>

(***************************************************************************)
(* Crash and boot.                                                         *)
(***************************************************************************)
Crash ==
  /\ at # "off" /\ crashes < MaxCrashes /\ crashes' = crashes + 1
  /\ at' = "off" /\ pre' = 0 /\ pool' = FALSE /\ swapping' = FALSE /\ drain' = NoTenant
  /\ UNCHANGED <<stored, tenant, enabled, safe, faults, upgrades>>

\* A newer build is installed: no database is prepared at its version.
Upgrade ==
  /\ at = "off" /\ upgrades < MaxUpgrades /\ upgrades' = upgrades + 1
  /\ disk' = [n \in Names |-> [disk[n] EXCEPT !.crr = FALSE]]
  /\ UNCHANGED <<asides, journal, service, at, pre, account, safe, faults, crashes>>

CopyIntoLive(n)   == [disk EXCEPT !["live"] = disk[n]]
RenameIntoLive(n) == Rename(n, "live", disk)
StagingValid      == On("staging") /\ Counts(disk["staging"]) = journal.pre

\* Mutant: recovery leaves the disk as the crash left it.
RecoverFromJournalNothing == disk

\* recover_from_journal: what an absent live path is restored from.
RecoverFromJournal ==
  CASE On("live") -> disk
    [] ~On("live") /\ journal.phase = "SwapCompleted" ->
         IF On("backup") THEN CopyIntoLive("backup")
         ELSE IF StagingValid THEN RenameIntoLive("staging") ELSE disk
    [] OTHER ->
         IF StagingValid THEN RenameIntoLive("staging")
         ELSE IF On("backup") THEN CopyIntoLive("backup") ELSE disk

RecoverWithoutJournal ==
  IF On("live") THEN disk
  ELSE IF On("backup") THEN CopyIntoLive("backup")
  ELSE IF On("staging") THEN RenameIntoLive("staging") ELSE disk

\* A restore that fails is reported: nothing was deleted.
RestoreOrReport(restored) == (Working /\ disk' = restored) \/ (Failing /\ UNCHANGED disk)

\* recover_interrupted_cutover: a live path that cannot be probed stops it; a
\* restore that fails is reported and the journal goes all the same.
BootRecover ==
  /\ at = "off"
  /\ \/ /\ at' = "unjournal"
        /\ RestoreOrReport(IF journal.phase = "none" THEN RecoverWithoutJournal
                                                    ELSE RecoverFromJournal)
     \/ Failing /\ UNCHANGED disk /\ at' = "open"
  /\ UNCHANGED <<asides, journal, service, pre, account, safe, crashes, upgrades>>

BootUnjournal ==
  /\ at = "unjournal" /\ at' = "open"
  /\ \/ Working /\ journal' = NoJournal
     \/ Failing /\ UNCHANGED journal
  /\ UNCHANGED <<disk, asides, service, pre, account, safe, crashes, upgrades>>

\* DbService::open, then start_drain_if_enabled.
BootOpen ==
  /\ at = "open"
  /\ disk' = Opened(disk) /\ pool' = TRUE /\ swapping' = FALSE
  /\ at' = IF enabled THEN "gate" ELSE "idle"
  /\ UNCHANGED <<asides, journal, pre, account, safe, bounds>>

CutStep ==
  \/ CutGate \/ CutVacuum \/ CutPrepare \/ CloseForSwap \/ CutAside
  \/ CutJournal \/ CutMove \/ CutPhase \/ CutSwap \/ CutUnswap \/ CutGiveUp
  \/ CutReopen \/ CutVerify \/ RollAside \/ RollRestore \/ RollEnd
  \/ BindReset \/ BindClear \/ BindRecord \/ SpawnDrain
  \/ BootRecover \/ BootUnjournal \/ BootOpen

CutNext ==
  \/ CutStep
  \/ \E w \in Inserts : AppWrite(w)
  \/ \E w \in Inserts : DirectWrite(w)
  \/ DrainPass \/ SyncEnable \/ SignOut \/ SyncDisable \/ Crash \/ Upgrade
  \/ \E t \in Tenants : SignIn(t)

\* A running cutover or boot is one thread and goes on.
CutSpec == CutInit /\ [][CutNext]_cutVars /\ WF_cutVars(CutStep)

Held == (UNION {disk[n].rows : n \in Names}) \cup (UNION {f.rows : f \in asides})

\* No crash and no single failure of a file operation deletes the last copy of
\* a write that was answered before the cutover copied the database: the
\* renames, the rollback and the boot recovery leave it in some file.
NeverLosesLastCopy == faults <= 1 => safe \ Orphans \subseteq Held

\* What the comments on the cutover's steps promise of a backup: the cutover
\* moves an earlier one aside, the rollback moves it back to the live path, and
\* nothing else touches it.  The code keeps less, and no run checks it: see the
\* README.
BackupKept ==
  [][On("backup") => disk["backup"] \in {disk'[n] : n \in Names} \cup asides']_cutVars

\* Whatever one file operation does, or wherever crashes fall, the app ends up
\* serving a database that holds every such write the repairs keep.
LiveComplete ==
  (at = "idle" /\ pool /\ (faults = 0 \/ (crashes = 0 /\ faults = 1)))
     => safe \ Orphans \subseteq disk["live"].rows

\* A drain never runs on the outbox or the watermarks of another account,
\* wherever a crash interrupted the change of binding.
NoForeignOutbox ==
  drain # NoTenant =>
    disk["live"].outbox \subseteq {drain} /\ disk["live"].marks \in {NoTenant, drain}

\* A cutover that succeeds, is refused by its row counts or is cut short by a
\* crash never leaves the app shut out of its database: the swapping flag is
\* cleared again, unless a file operation failed.
ServedAgain == swapping ~> (~swapping \/ faults > 0)

\* The cutover over every crash, fault and concurrent write: the last complete
\* copy survives, the live database is complete whenever it is served, and
\* nothing of another account is queued for this one.
CutoverSafe == CutTypeOK /\ NeverLosesLastCopy /\ LiveComplete /\ NoForeignOutbox
============================================================================
