----------------------------- MODULE Migrations -----------------------------
(***************************************************************************)
(* The desktop's migration runner (db_service.rs, run_migrations_list_with)*)
(* and the schema heals a drain runs when it starts (sync.rs,              *)
(* prepare_drain_connection, over yapstack-sync's schema.rs).              *)
(*                                                                         *)
(* On a plain database a migration and its record commit together.  On a   *)
(* CRR database a sync table is created, converted and recorded by         *)
(* separate transactions, and an altered one is recorded after the alter:  *)
(* a crash or an error between them leaves a schema no record describes,   *)
(* which the next boot must recognise or finish.                           *)
(***************************************************************************)
EXTENDS Naturals, Sequences, FiniteSets

CONSTANTS List,        \* the migrations, in order (see Migration)
          Base,        \* schema objects of the oldest database
          SyncTables,  \* SYNC_TABLES
          SessionsTable,    \* the table whose clock marks a CRR database
          OutOfBand,   \* OUT_OF_BAND_ALTERS: columns the heal adds
          MaxErrors, MaxStarts

\* A schema object is <<kind, table, name>>: a table, a column or an index.
Objects == Base \cup OutOfBand \cup UNION {List[i].makes : i \in DOMAIN List}
Kinds   == {"Plain", "SyncIndex", "CreateSyncTable"}

Tables(s) == {o[2] : o \in {p \in s : p[1] = "table"}}
\* Sync tables an object set names by table or column: on a CRR database they
\* must be CRRs with fresh triggers.
Synced(s) == {o[2] : o \in {p \in s : p[1] # "index"}} \cap SyncTables

\* A migration names only what its SQL makes.  One that mentions no sync table
\* makes nothing of one (mentions_sync_table); a SyncIndex makes indexes and a
\* CreateSyncTable a new sync table and its indexes (the validators refuse
\* others).
ASSUME MigrationsAssumption ==
  /\ SessionsTable \in SyncTables
  /\ MaxErrors \in Nat /\ MaxStarts \in Nat
  /\ List \in Seq([kind : Kinds, makes : SUBSET Objects, declares : SUBSET Objects,
                   alters : BOOLEAN, mentions : BOOLEAN])
  /\ \A o \in Base : o[1] # "table" => o[2] \in Tables(Base)
  /\ \A o \in OutOfBand : o[1] = "column"
  /\ \A i \in DOMAIN List :
       /\ List[i].declares \subseteq List[i].makes
       /\ ~List[i].mentions => ~List[i].alters /\ Synced(List[i].makes) = {}
       /\ List[i].kind = "SyncIndex" => \A o \in List[i].makes : o[1] = "index"
       /\ List[i].kind = "CreateSyncTable" =>
            /\ \A o \in List[i].makes : o[1] \in {"table", "index"}
            /\ \E t \in SyncTables \ Tables(Base) :
                 Tables(List[i].makes) = {t} /\ \A o \in List[i].makes : o[2] = t

VARIABLES
  schema,      \* the objects the database has
  crr,         \* its sync tables that are CRRs
  stale,       \* those whose triggers miss a column
  recorded,    \* _sqlx_migrations
  failures,    \* SyncTableSetupFailures of the process
  step,        \* what the boot runs next
  cur,         \* the migration at hand
  hurt,        \* an error was injected since the process started
  errors, starts

database == <<schema, crr, stale, recorded>>
migVars  == <<database, failures, step, cur, hurt, errors, starts>>

Prepared == SessionsTable \in crr
M        == List[cur]
Landed(s) == s \subseteq schema

\* recordable_effects: a CreateSyncTable derives its own, others declare them.
Effects(m) == IF m.kind = "CreateSyncTable" THEN m.makes ELSE m.declares
\* crr_triggers_are_stale: a trigger's value slots do not match the columns.
Stale(t) == t \in stale
\* schema_effects_present.
EffectsPresent(s) ==
  Landed(s) /\ (Prepared => \A t \in Synced(s) : t \in crr /\ ~Stale(t))

Inject == errors < MaxErrors /\ errors' = errors + 1 /\ hurt' = TRUE
Clean  == UNCHANGED <<errors, hurt>>

MigTypeOK ==
  /\ schema \subseteq Objects /\ crr \subseteq SyncTables /\ stale \subseteq crr
  /\ recorded \subseteq DOMAIN List /\ failures \subseteq DOMAIN List
  /\ cur \in 1..Len(List) + 1 /\ errors \in 0..MaxErrors /\ starts \in 0..MaxStarts

\* A database of an older build: plain, or converted by it, perhaps with the
\* stale triggers a plain ALTER of that build left behind.
MigInit ==
  /\ schema = Base /\ recorded = {} /\ failures = {}
  /\ crr \in {{}, Tables(Base) \cap SyncTables}
  /\ stale \in {{}} \cup {{t} : t \in crr}
  /\ step = "off" /\ cur = 1 /\ hurt = FALSE /\ errors = 0 /\ starts = 0

(***************************************************************************)
(* run_migrations_list_with.                                               *)
(***************************************************************************)
Boot ==
  /\ step = "off" /\ starts < MaxStarts /\ starts' = starts + 1
  /\ step' = "next" /\ cur' = 1 /\ failures' = {} /\ hurt' = FALSE
  /\ UNCHANGED <<database, errors>>

\* Recorded migrations are skipped; after the last one the pool is open.
Skip ==
  /\ step = "next"
  /\ IF cur > Len(List) THEN step' = "prepare" /\ UNCHANGED cur
     ELSE cur \in recorded /\ cur' = cur + 1 /\ UNCHANGED step
  /\ Clean /\ UNCHANGED <<database, failures, starts>>

Advance == step' = "next" /\ cur' = cur + 1

\* apply_migration, first: where the kind and the database send it.  A Plain
\* migration that touches a sync table of a CRR database other than by one
\* ALTER is refused.
Route ==
  /\ step = "next" /\ cur <= Len(List) /\ cur \notin recorded
  /\ step' = CASE M.kind = "CreateSyncTable" /\ Prepared -> "create"
               [] M.kind = "Plain" /\ Prepared /\ M.alters -> "alter"
               [] M.kind = "Plain" /\ Prepared /\ ~M.alters /\ M.mentions -> "failed"
               [] OTHER -> "plain"
  /\ Clean /\ UNCHANGED <<database, failures, cur, starts>>

\* The SQL and the record in one transaction.  ADD COLUMN fails on a column
\* that exists, and like CREATE INDEX on a table that does not; the creates
\* say IF NOT EXISTS.
Applies(m) ==
  \A o \in m.makes : /\ o[1] = "column" => o \notin schema
                     /\ o[1] # "table" => o[2] \in Tables(schema \cup m.makes)
ApplyPlain ==
  /\ step = "plain"
  /\ \/ /\ Applies(M) /\ Clean /\ Advance
        /\ schema' = schema \cup M.makes /\ recorded' = recorded \cup {cur}
     \/ /\ ~Applies(M) /\ Clean /\ step' = "failed" /\ UNCHANGED <<cur, schema, recorded>>
     \/ /\ Inject /\ step' = "failed" /\ UNCHANGED <<cur, schema, recorded>>
  /\ UNCHANGED <<crr, stale, failures, starts>>

\* crsql_alter: begin_alter, the ALTER and commit_alter in one transaction
\* (alter_dance), which ends by making the table a CRR and its triggers anew;
\* on a table that is none yet the dance may fail instead.
AlterOnCrr ==
  /\ step = "alter"
  /\ \/ /\ Applies(M) /\ Clean /\ step' = "record"
        /\ schema' = schema \cup M.makes
        /\ crr' = crr \cup Synced(M.makes) /\ stale' = stale \ Synced(M.makes)
     \/ /\ ~Applies(M) \/ ~(Synced(M.makes) \subseteq crr)
        /\ Clean /\ step' = "failed" /\ UNCHANGED <<schema, crr, stale>>
     \/ /\ Inject /\ step' = "failed" /\ UNCHANGED <<schema, crr, stale>>
  /\ UNCHANGED <<recorded, failures, cur, starts>>

\* apply_create_sync_table_on_crr: CREATE TABLE IF NOT EXISTS, autocommitted.
CreateOnCrr ==
  /\ step = "create"
  /\ \/ Clean /\ step' = "convert"
        /\ schema' = schema \cup {o \in M.makes : o[1] = "table"}
     \/ Inject /\ step' = "failed" /\ UNCHANGED schema
  /\ UNCHANGED <<crr, stale, recorded, failures, cur, starts>>

\* ensure_crr / transform_and_crrify: a no-op on a CRR; else the table is
\* rebuilt by one transaction and converted by a second.
EnsureCrr(t) == crr' = crr \cup {t} /\ stale' = stale
ConvertOnCrr ==
  /\ step = "convert"
  /\ \/ Clean /\ step' = "index" /\ \E t \in Tables(M.makes) : EnsureCrr(t)
     \/ Inject /\ step' = "failed" /\ UNCHANGED <<crr, stale>>
  /\ UNCHANGED <<schema, recorded, failures, cur, starts>>

\* Mutant: the version is recorded before its indexes are built.
IndexOnCrrLater ==
  /\ step = "index"
  /\ \/ /\ Clean /\ Advance /\ schema' = schema \cup M.makes
        /\ recorded' = recorded \cup {cur}
     \/ /\ Inject /\ step' = "failed" /\ recorded' = recorded \cup {cur}
        /\ UNCHANGED <<cur, schema>>
  /\ UNCHANGED <<crr, stale, failures, starts>>

\* The indexes and the record in one transaction.
IndexOnCrr ==
  /\ step = "index"
  /\ \/ /\ Clean /\ Advance /\ schema' = schema \cup M.makes
        /\ recorded' = recorded \cup {cur}
     \/ /\ Inject /\ step' = "failed" /\ UNCHANGED <<cur, schema, recorded>>
  /\ UNCHANGED <<crr, stale, failures, starts>>

\* record_migration after a wrapped ALTER.
RecordAlter ==
  /\ step = "record"
  /\ \/ Clean /\ Advance /\ recorded' = recorded \cup {cur}
     \/ Inject /\ step' = "failed" /\ UNCHANGED <<cur, recorded>>
  /\ UNCHANGED <<schema, crr, stale, failures, starts>>

\* record_if_schema_present.
RecordIfPresent == Effects(M) # {} /\ EffectsPresent(Effects(M))

\* Mutant: a table that could not be set up is only logged.
FallbackSilent ==
  /\ step = "failed" /\ Advance /\ UNCHANGED failures
  /\ recorded' = IF RecordIfPresent THEN recorded \cup {cur} ELSE recorded
  /\ Clean /\ UNCHANGED <<schema, crr, stale, starts>>

\* A migration that could not apply: recorded when everything it makes is
\* there, else logged, and kept for the lane status when it creates a table.
Fallback ==
  /\ step = "failed" /\ Advance
  /\ IF RecordIfPresent
       THEN recorded' = recorded \cup {cur} /\ UNCHANGED failures
       ELSE /\ UNCHANGED recorded
            /\ failures' = IF M.kind = "CreateSyncTable" THEN failures \cup {cur}
                           ELSE failures
  /\ Clean /\ UNCHANGED <<schema, crr, stale, starts>>

(***************************************************************************)
(* prepare_drain_connection.  It runs when sync is enabled, which is when  *)
(* the database is a CRR.                                                  *)
(***************************************************************************)

Unconverted == (Tables(schema) \cap SyncTables) \ crr

\* ensure_sync_tables_crr: every present sync table, one by one; the first
\* error ends it.
HealTables ==
  \E done \in SUBSET Unconverted :
    /\ \/ Clean /\ done = Unconverted
       \/ Inject
    /\ crr' = crr \cup done /\ UNCHANGED stale

\* resolve_landed, after the conversion.
ResolveLanded == failures' = {i \in failures : ~EffectsPresent(Effects(List[i]))'}

HealUnconverted ==
  /\ step = "prepare" /\ Prepared /\ step' = "alters"
  /\ UNCHANGED <<schema, recorded, cur, starts>>
  /\ HealTables /\ ResolveLanded

\* apply_out_of_band_alters, on converted tables only; the first error ends it.
Missing == {o \in OutOfBand : o[2] \in crr /\ o \notin schema}
OutOfBandAlters ==
  /\ step = "alters" /\ step' = "triggers"
  /\ \E done \in SUBSET Missing :
       /\ \/ Clean /\ done = Missing
          \/ Inject
       /\ schema' = schema \cup done /\ stale' = stale \ Synced(done)
  /\ UNCHANGED <<crr, recorded, failures, cur, starts>>

\* heal_stale_crr_triggers: every CRR, an error on one does not stop the next.
HealTriggers ==
  /\ step = "triggers" /\ step' = "up"
  /\ \E left \in SUBSET {t \in crr : Stale(t)} :
       /\ \/ Clean /\ left = {}
          \/ Inject
       /\ stale' = left
  /\ UNCHANGED <<schema, crr, recorded, failures, cur, starts>>

\* Sync is not enabled.
NoDrain ==
  /\ step = "prepare" /\ ~Prepared /\ step' = "up"
  /\ Clean /\ UNCHANGED <<database, failures, cur, starts>>

\* The cutover converts a plain database: crr_migrate on the staging copy,
\* then the out-of-band columns and the trigger heal.
ConvertAll ==
  /\ step = "up" /\ ~Prepared
  /\ crr' = Tables(schema) \cap SyncTables
  /\ schema' = schema \cup {o \in OutOfBand : o[2] \in crr'}
  /\ stale' = {} /\ step' = "prepare"
  /\ Clean /\ UNCHANGED <<recorded, failures, cur, starts>>

\* The process ends at any point and may start again.
Stop ==
  /\ step # "off" /\ step' = "off"
  /\ UNCHANGED <<database, failures, cur, hurt, errors, starts>>

MigNext ==
  \/ Boot \/ Skip \/ Route \/ ApplyPlain \/ AlterOnCrr \/ CreateOnCrr
  \/ ConvertOnCrr \/ IndexOnCrr \/ RecordAlter \/ Fallback
  \/ HealUnconverted \/ OutOfBandAlters \/ HealTriggers \/ NoDrain
  \/ ConvertAll \/ Stop

MigSpec == MigInit /\ [][MigNext]_migVars

\* A recorded migration has landed: its objects exist and, on a CRR database,
\* its sync tables are CRRs with fresh triggers, whatever was interrupted
\* between the create, the conversion and the record.
RecordedIsLanded ==
  \A i \in recorded : EffectsPresent(Effects(List[i]))

\* One start without an error repairs what earlier ones left: every sync table
\* a migration creates is there and converted, and no trigger is stale.
CleanBootRepairs ==
  (step = "up" /\ ~hurt) =>
    /\ \A i \in DOMAIN List :
         List[i].kind = "CreateSyncTable" => EffectsPresent(List[i].makes)
    /\ stale = {} \/ ~Prepared

\* The lane status lists every sync table that is not ready: a table missing
\* or unconverted once the process is up is among the failures.
UnreadyReported ==
  step = "up" =>
    \A i \in DOMAIN List :
      (List[i].kind = "CreateSyncTable" /\ ~EffectsPresent(List[i].makes))
        => i \in failures

\* The runner over every interrupted start: a record means landed, one clean
\* start repairs the rest, and what is not ready is reported meanwhile.
MigrationsLand == MigTypeOK /\ RecordedIsLanded /\ CleanBootRepairs /\ UnreadyReported
=============================================================================
