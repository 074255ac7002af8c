----------------------------- MODULE Quarantine -----------------------------
(***************************************************************************)
(* The schema-gap quarantine (crates/yapstack-sync/src/quarantine.rs).     *)
(*                                                                         *)
(* A pulled change for a table or a column this build does not have yet is *)
(* stashed, and replayed by a pass at the end of every drain cycle once an *)
(* update has brought the schema.  merge_changeset is one transaction; a   *)
(* pass handles one stashed row per transaction, so the manual retry of    *)
(* the crypto quarantine, on its own connection, may merge between two     *)
(* rows of a pass.  A stashed row that is ready and fails holds back every *)
(* later row of its key, in the pass and in later merges.                  *)
(*                                                                         *)
(* One synced table is modelled; tables do not interact.                   *)
(***************************************************************************)
EXTENDS Integers, Sequences, FiniteSets

CONSTANTS
    Keys,           \* primary keys of the table
    ChangesetRows,  \* bound: rows in a changeset
    MaxArrivals,    \* bound: rows pulled
    MaxFailures,    \* bound: rows, or passes, that fail
    MaxRestarts     \* bound: restarts, of this build or of a newer one

ASSUME BoundsAssumption ==
    /\ ChangesetRows \in Nat /\ MaxArrivals \in Nat
    /\ MaxFailures \in Nat /\ MaxRestarts \in Nat

(* A change is for a column every build has, for one only a newer build    *)
(* has, or it is the delete sentinel of its row.                           *)
Cids == {"old", "new", "delete"}
Changes == [key : Keys, cid : Cids]
Rows == [n : 1 .. MaxArrivals, key : Keys, cid : Cids]

(* The table is not converted here, is, or is and has the new column.      *)
Schemas == <<"absent", "table", "column">>

VARIABLES
    schemaAt,   \* index into Schemas: migrations only add
    stash,      \* _yapstack_pending_changes: its ids follow the rows' n
    applied,    \* the rows that reached the table
    pass,       \* the replay pass under way
    status,     \* the counts the last complete pass persisted
    arrived,    \* rows pulled so far; a row's n is its place among them
    upto,       \* history: arrived when the last complete pass began
    replayFaults, restarts

quarBounds == <<replayFaults, restarts>>
quarVars == <<schemaAt, stash, applied, pass, status, arrived, upto, replayFaults, restarts>>

NoPass == [on |-> FALSE, todo |-> {}, failed |-> {}, waiting |-> 0, held |-> 0, from |-> 0]

QuarTypeOK ==
    /\ schemaAt \in DOMAIN Schemas
    /\ stash \subseteq Rows
    /\ applied \subseteq Rows
    /\ pass \in [on : BOOLEAN, todo : SUBSET Rows, failed : SUBSET Keys,
                 waiting : Nat, held : Nat, from : Nat]
    /\ status \in [waiting : Nat, failed : Nat]
    /\ arrived \in 0 .. MaxArrivals /\ upto \in 0 .. arrived
    /\ replayFaults \in 0 .. MaxFailures /\ restarts \in 0 .. MaxRestarts

QuarInit ==
    /\ schemaAt \in DOMAIN Schemas
    /\ stash = {} /\ applied = {}
    /\ pass = NoPass
    /\ status = [waiting |-> 0, failed |-> 0]
    /\ arrived = 0 /\ upto = 0
    /\ replayFaults = 0 /\ restarts = 0

-----------------------------------------------------------------------------
(* The negation of is_deferrable: the table is a CRR here, and the column  *)
(* exists; a sentinel needs the table only.                                *)
Ready(r) ==
    /\ Schemas[schemaAt] # "absent"
    /\ r.cid = "new" => Schemas[schemaAt] = "column"

ReadyStashedKeys == {r.key : r \in {s \in stash : Ready(s)}}

(* Mutant: the stash is no barrier for what is pulled.                     *)
DefersUnready(r) == ~ Ready(r)

(* apply_or_quarantine: not ready, or behind a ready row of its key.       *)
Defers(r) == r.key \in ReadyStashedKeys \/ ~ Ready(r)

Numbered(k, cs) == {[n |-> arrived + i, key |-> cs[i].key, cid |-> cs[i].cid] : i \in 1 .. k}

(* merge_changeset, from the pull or from the manual retry.  A changeset   *)
(* of which a ready row fails is rolled back whole and pulled again.       *)
MergeChangeset(k, cs) ==
    /\ arrived + k <= MaxArrivals
    /\ arrived' = arrived + k
    /\ stash' = stash \cup {r \in Numbered(k, cs) : Defers(r)}
    /\ applied' = applied \cup {r \in Numbered(k, cs) : ~ Defers(r)}
    /\ UNCHANGED <<schemaAt, pass, status, upto, quarBounds>>

-----------------------------------------------------------------------------
(* replay_pending: the candidates are read once, at the start.             *)
BeginPass ==
    /\ ~ pass.on
    /\ pass' = [NoPass EXCEPT !.on = TRUE, !.todo = stash, !.from = arrived]
    /\ UNCHANGED <<schemaAt, stash, applied, status, arrived, upto, quarBounds>>

Candidate == CHOOSE r \in pass.todo : \A s \in pass.todo : r.n <= s.n
HasCandidate == pass.on /\ pass.todo # {}
Behind == Candidate.key \in pass.failed

(* An earlier row of the key failed in this pass.                          *)
Block ==
    /\ HasCandidate /\ Behind
    /\ pass' = [pass EXCEPT !.todo = @ \ {Candidate}, !.held = @ + 1]
    /\ UNCHANGED <<schemaAt, stash, applied, status, arrived, upto, quarBounds>>

(* Its table or column is still missing.                                   *)
Wait ==
    /\ HasCandidate /\ ~ Behind /\ ~ Ready(Candidate)
    /\ pass' = [pass EXCEPT !.todo = @ \ {Candidate}, !.waiting = @ + 1]
    /\ UNCHANGED <<schemaAt, stash, applied, status, arrived, upto, quarBounds>>

(* Applied and deleted from the stash in one transaction.                  *)
Replay ==
    /\ HasCandidate /\ ~ Behind /\ Ready(Candidate)
    /\ applied' = applied \cup {Candidate}
    /\ stash' = stash \ {Candidate}
    /\ pass' = [pass EXCEPT !.todo = @ \ {Candidate}]
    /\ UNCHANGED <<schemaAt, status, arrived, upto, quarBounds>>

(* Mutant: a row that fails is dropped, so that it cannot wedge the queue. *)
FailDrops ==
    /\ HasCandidate /\ ~ Behind /\ Ready(Candidate)
    /\ replayFaults < MaxFailures
    /\ replayFaults' = replayFaults + 1
    /\ stash' = stash \ {Candidate}
    /\ pass' = [pass EXCEPT !.todo = @ \ {Candidate}, !.held = @ + 1, !.failed = @ \cup {Candidate.key}]
    /\ UNCHANGED <<schemaAt, applied, status, arrived, upto, restarts>>

(* The apply fails: the row stays and its key is closed for this pass.     *)
Fail ==
    /\ HasCandidate /\ ~ Behind /\ Ready(Candidate)
    /\ replayFaults < MaxFailures
    /\ replayFaults' = replayFaults + 1
    /\ pass' = [pass EXCEPT !.todo = @ \ {Candidate}, !.held = @ + 1, !.failed = @ \cup {Candidate.key}]
    /\ UNCHANGED <<schemaAt, stash, applied, status, arrived, upto, restarts>>

(* persist_replay_outcome.                                                 *)
EndPass ==
    /\ pass.on /\ pass.todo = {}
    /\ status' = [waiting |-> pass.waiting, failed |-> pass.held]
    /\ upto' = pass.from
    /\ pass' = NoPass
    /\ UNCHANGED <<schemaAt, stash, applied, arrived, quarBounds>>

(* A local database fault ends the pass; the next cycle begins another.    *)
AbandonPass ==
    /\ pass.on
    /\ replayFaults < MaxFailures
    /\ replayFaults' = replayFaults + 1
    /\ pass' = NoPass
    /\ UNCHANGED <<schemaAt, stash, applied, status, arrived, upto, restarts>>

(* A crash or a restart.  Migrations run when the database is opened,      *)
(* before the drain starts: a newer build brings the table or the column.  *)
Restart ==
    /\ restarts < MaxRestarts
    /\ restarts' = restarts + 1
    /\ schemaAt' \in schemaAt .. Len(Schemas)
    /\ pass' = NoPass
    /\ UNCHANGED <<stash, applied, status, arrived, upto, replayFaults>>

-----------------------------------------------------------------------------
Pass == BeginPass \/ Block \/ Wait \/ Replay \/ EndPass

QuarNext ==
    \/ \E k \in 1 .. ChangesetRows : \E cs \in [1 .. k -> Changes] : MergeChangeset(k, cs)
    \/ Pass \/ Fail \/ AbandonPass \/ Restart

QuarSpec == QuarInit /\ [][QuarNext]_quarVars

(* The drain loops, and every cycle replays.                               *)
QuarFairSpec == QuarSpec /\ WF_quarVars(Pass)

-----------------------------------------------------------------------------
(* Every row that was pulled is either stashed, once, or applied: no crash,*)
(* failed row or merge beside a pass loses or duplicates one.              *)
NoneLost ==
    /\ stash \cap applied = {}
    /\ {r.n : r \in stash \cup applied} = 1 .. arrived
    /\ \A r, s \in stash \cup applied : r.n = s.n => r = s

(* Rows of one key are applied in arrival order as far as they can be: no  *)
(* row is applied while an earlier row of its key that is ready sits in    *)
(* the stash.  A live row applied past a delete that failed would bring    *)
(* the deleted row back.                                                   *)
KeyOrder ==
    [][\A r \in applied' \ applied : \A s \in stash :
          s.key = r.key /\ s.n < r.n => ~ Ready(s)]_quarVars

(* The counts shown to the user never hide a row: they cover every stashed *)
(* row that had arrived when the last complete pass began.                 *)
StatusCovers ==
    Cardinality({r \in stash : r.n <= upto}) <= status.waiting + status.failed

(* Once the schema is there the stash drains, whatever failed on the way.  *)
Drains == Schemas[schemaAt] = "column" ~> stash = {}

(* The stash keeps what it took and shows what it keeps: replay_pending    *)
(* and the merges beside it lose no row, and no row is out of the user's   *)
(* sight.                                                                  *)
StashKept == QuarTypeOK /\ NoneLost /\ StatusCovers

(* The rows of a stash reach their tables, those of a key in their order.  *)
StashDelivered == KeyOrder /\ Drains
=============================================================================
