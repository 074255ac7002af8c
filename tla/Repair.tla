------------------------------- MODULE Repair -------------------------------
(***************************************************************************)
(* What the synced tables lost when cr-sqlite took their foreign keys and  *)
(* unique indexes is put back by every device for itself: cascade_gc and   *)
(* enforce_uniqueness, run after a merge by the drain's                    *)
(* MaintenanceSchedule.  Devices exchange changes through the relay's log, *)
(* users go on writing, and every repair is itself a change that           *)
(* replicates.  The rows are one session, its notes, the tags of one name  *)
(* and the session's links to them.                                        *)
(***************************************************************************)
EXTENDS Naturals, Sequences, FiniteSets, FiniteSetsExt

CONSTANTS Replicas, NoteIds, TagIds,   \* ids are numbers: their order decides ties
          MaxClock,                    \* seconds datetime('now') can tell apart
          MaxEdits,                    \* writes of users
          MaxMishaps                   \* pulls cut short, restarts, failed passes
ASSUME RepairAssumption == NoteIds \cup TagIds \cup {MaxClock, MaxEdits, MaxMishaps} \subseteq Nat

SessionRow == <<"session", 0>>
Note(n) == <<"note", n>>
Tag(t)  == <<"tag", t>>
Link(t) == <<"link", t>>
Rows    == {SessionRow} \cup {Note(n) : n \in NoteIds} \cup {Tag(t) : t \in TagIds} \cup {Link(t) : t \in TagIds}
Cols    == {"session", "updated", "name"}
ColsOf(r) == CASE r[1] = "note" -> {"session", "updated"} [] r[1] = "tag" -> {"name"} [] OTHER -> {"-1"}

VARIABLES tables,     \* [Replicas -> [Rows -> row]]; a row: causal length, and version and value per column
          dirty,      \* [Replicas -> Seq(set of <<row, column>>)]: what each statement changed last
          wire,       \* the relay's log: the changes of one statement after the other
          cursor,     \* [Replicas -> Nat]: pull watermark
          cycle,      \* [Replicas -> where the drain cycle is]
          maint,      \* [Replicas -> [pending, skipped]]: MaintenanceSchedule
          converted,  \* [Replicas -> BOOLEAN]: the tag tables exist here as CRRs
          stash,      \* [Replicas -> set of changes]: those of tables not converted yet
          missed,     \* [Replicas -> BOOLEAN]: history - a pass failed and none followed
          clock, userDeleted, repairUsed
repairVars == <<tables, dirty, wire, cursor, cycle, maint, converted, stash, missed, clock, userDeleted, repairUsed>>
scheduleVars == <<maint, converted, stash, missed>>

(* A column no change has reached holds its default, which for updated_at    *)
(* is the present.                                                           *)
Defaults == [k \in Cols |-> <<0, IF k = "updated" THEN MaxClock + 1 ELSE 0>>]
Live(tb, r)      == tb[r].cl % 2 = 1
Deleted(tb, r)   == tb[r].cl > 0 /\ tb[r].cl % 2 = 0            \* proven_deleted_pks
Proven(tb, r, c) == tb[r].col[c][1] > 0
Value(tb, r, c)  == tb[r].col[c][2]

(* cr-sqlite's merge, which gives the same in whatever order changes come:   *)
(* the longest causal length wins, then per column the highest version, then *)
(* the greatest value.                                                       *)
AtLeast(x, y) == x[1] > y[1] \/ (x[1] = y[1] /\ x[2] >= y[2])
Newest(S) == CHOOSE x \in S : \A y \in S : AtLeast(x, y)
MergedRow(row, cs) ==
  LET cl == Max({row.cl} \cup {c.cl : c \in cs})
      base == IF cl = row.cl THEN row.col ELSE Defaults
      values(k) == {<<c.ver, c.val>> : c \in {x \in cs : x.cl = cl /\ x.col = k}}
  IN [cl |-> cl, col |-> IF cl % 2 = 0 THEN Defaults ELSE [k \in Cols |-> Newest({base[k]} \cup values(k))]]
Merged(tb, cs) == [r \in Rows |-> MergedRow(tb[r], {c \in cs : c.row = r})]

(* A local statement, on <<table state, dirty marks>>: cr-sqlite's triggers    *)
(* raise the causal length or the column's version and mark the change, in   *)
(* place of an earlier mark.                                                   *)
Mark(q, marks, gone) == Append([i \in DOMAIN q |-> {m \in q[i] : m \notin marks /\ m[1] \notin gone}], marks)
InsertRow(s, r, cols) ==
  IF Live(s[1], r) THEN s
  ELSE << [s[1] EXCEPT ![r] = [cl |-> @.cl + 1, col |-> cols]],
          Mark(s[2], {<<r, c>> : c \in ColsOf(r)}, {}) >>
SetColumn(s, r, c, v) == << [s[1] EXCEPT ![r].col[c] = <<@[1] + 1, v>>], Mark(s[2], {<<r, c>>}, {}) >>
DeleteRows(s, rs) ==
  LET hit == {r \in rs : Live(s[1], r)}
  IN IF hit = {} THEN s
     ELSE << [r \in Rows |-> IF r \in hit THEN [cl |-> s[1][r].cl + 1, col |-> Defaults] ELSE s[1][r]],
             Mark(s[2], {<<r, "-1">> : r \in hit}, hit) >>
Local(d) == <<tables[d], dirty[d]>>
Store(d, s) == tables' = [tables EXCEPT ![d] = s[1]] /\ dirty' = [dirty EXCEPT ![d] = s[2]]

(* crsql_changes for a dirty mark: the row's present state. *)
ChangeOf(d, m) ==
  LET r == tables[d][m[1]]
  IN [row |-> m[1], cl |-> r.cl, col |-> m[2],
      ver |-> IF m[2] = "-1" THEN 0 ELSE r.col[m[2]][1], val |-> IF m[2] = "-1" THEN 0 ELSE r.col[m[2]][2]]

Bare   == [r \in Rows |-> IF r = SessionRow THEN [cl |-> 1, col |-> Defaults] ELSE [cl |-> 0, col |-> Defaults]]
Startup == [pending |-> TRUE, skipped |-> FALSE]                     \* at_startup

RepairInit ==
  /\ tables = [d \in Replicas |-> Bare] /\ dirty = [d \in Replicas |-> <<>>]
  /\ wire = <<>> /\ cursor = [d \in Replicas |-> 0] /\ cycle = [d \in Replicas |-> "push"]
  /\ maint = [d \in Replicas |-> Startup] /\ stash = [d \in Replicas |-> {}]
  /\ missed = [d \in Replicas |-> FALSE]
  /\ converted \in {c \in [Replicas -> BOOLEAN] : \E d \in Replicas : c[d]}
  /\ clock = 1 /\ userDeleted = {} /\ repairUsed = [edit |-> 0, mishap |-> 0]

Use(what, bound) == repairUsed[what] < bound /\ repairUsed' = [repairUsed EXCEPT ![what] = @ + 1]

------------------------------------------------------------------------------
(* Users.                                                                  *)
Edit(d, s) ==
  /\ Use("edit", MaxEdits) /\ Store(d, s) /\ UNCHANGED <<wire, cursor, cycle, scheduleVars>>

(* saveNote: update the session's note, or insert one under a fresh id. *)
NotesHere(d) == {n \in NoteIds : Live(tables[d], Note(n)) /\ Value(tables[d], Note(n), "session") = 1}
Known(n) == \E d \in Replicas : tables[d][Note(n)].cl > 0
SaveNote(d, now) ==
  /\ now >= clock /\ clock' = now /\ UNCHANGED userDeleted
  /\ \/ \E n \in NotesHere(d) : Edit(d, SetColumn(Local(d), Note(n), "updated", now))
     \/ /\ NotesHere(d) = {}
        /\ \E n \in NoteIds : ~Known(n)
             /\ Edit(d, InsertRow(Local(d), Note(n), [Defaults EXCEPT !.session = <<1, 1>>, !.updated = <<1, now>>]))

(* createTag, addSessionTag, deleteTag, deleteSession. *)
NamedHere(d) == {t \in TagIds : Live(tables[d], Tag(t)) /\ Value(tables[d], Tag(t), "name") = 1}
CreateTag(d) ==
  /\ converted[d] /\ NamedHere(d) = {} /\ UNCHANGED <<clock, userDeleted>>
  /\ \E t \in TagIds : (\A e \in Replicas : tables[e][Tag(t)].cl = 0)
       /\ Edit(d, InsertRow(Local(d), Tag(t), [Defaults EXCEPT !.name = <<1, 1>>]))
AddSessionTag(d) ==
  /\ UNCHANGED <<clock, userDeleted>>
  /\ \E t \in NamedHere(d) : ~Live(tables[d], Link(t)) /\ Edit(d, InsertRow(Local(d), Link(t), Defaults))
DeleteByUser(d, r) ==
  /\ Live(tables[d], r) /\ Edit(d, DeleteRows(Local(d), {r}))
  /\ userDeleted' = userDeleted \cup {r} /\ UNCHANGED clock

------------------------------------------------------------------------------
(* A drain cycle: push, pull, replay, maintenance.                         *)

Push(d) ==
  /\ cycle[d] = "push" /\ cycle' = [cycle EXCEPT ![d] = "pull"]
  /\ wire' = wire \o [i \in DOMAIN dirty[d] |-> {ChangeOf(d, m) : m \in dirty[d][i]}]
  /\ dirty' = [dirty EXCEPT ![d] = <<>>]
  /\ UNCHANGED <<tables, cursor, scheduleVars, clock, userDeleted, repairUsed>>

(* maintenance_ready: a merge arms it, a clean cycle runs it.               *)
Due(m, merged, clean)           == clean /\ (m.pending \/ merged)
StaysArmed(m, merged, clean)    == ~clean /\ (m.pending \/ merged)

(* pull_direction up to the n-th statement, the device's own among them; a    *)
(* pull that fails half way has merged, with a part of the next one, without   *)
(* moving the watermark past its page.  Changes of a table that is not a CRR   *)
(* here are stashed; replay_pending follows every pull.                        *)
Mine(d, c) == converted[d] \/ c.row[1] \notin {"tag", "link"}
NextOf(n) == IF n < Len(wire) THEN wire[n + 1] ELSE {}
Pull(d, n, part, clean) ==
  /\ cycle[d] = "pull" /\ n \in cursor[d]..Len(wire) /\ part \subseteq NextOf(n)
  /\ clean => n = Len(wire)
  /\ IF clean THEN UNCHANGED repairUsed ELSE Use("mishap", MaxMishaps)
  /\ LET page   == part \cup UNION {wire[i] : i \in (cursor[d] + 1)..n}
         held   == stash[d] \cup {c \in page : ~Mine(d, c)}
         fresh  == {c \in page : Mine(d, c)} \cup (IF converted[d] THEN held ELSE {})
         merged == fresh # {} \/ (maint[d].skipped /\ converted[d])              \* readiness_changed
     IN /\ tables' = [tables EXCEPT ![d] = Merged(@, fresh)]
        /\ stash' = [stash EXCEPT ![d] = IF converted[d] THEN {} ELSE held]
        /\ \E k \in (IF clean THEN n ELSE cursor[d])..n : cursor' = [cursor EXCEPT ![d] = k]
        /\ maint' = [maint EXCEPT ![d].pending = StaysArmed(maint[d], merged, clean)]
        /\ cycle' = [cycle EXCEPT ![d] = IF Due(maint[d], merged, clean) THEN "maintain" ELSE "push"]
  /\ UNCHANGED <<dirty, wire, converted, missed, clock, userDeleted>>

(* cascade_gc: children of a parent that is proven deleted. *)
Orphans(tb, tags) ==
  {Note(n) : n \in {m \in NoteIds : Live(tb, Note(m)) /\ Value(tb, Note(m), "session") = 1 /\ Deleted(tb, SessionRow)}}
  \cup {Link(t) : t \in {u \in TagIds : tags /\ Live(tb, Link(u)) /\ (Deleted(tb, SessionRow) \/ Deleted(tb, Tag(u)))}}
Cascade(s, tags) == DeleteRows(s, Orphans(s[1], tags))

(* dedup_notes: only notes both of whose columns are proven compete; the      *)
(* fresher wins, then the lower id.                                           *)
NoteProven(tb, n) == Live(tb, Note(n)) /\ Proven(tb, Note(n), "session") /\ Proven(tb, Note(n), "updated")
(* Mutant: two notes of one second are not told apart. *)
FresherStrict(tb, w, n) == Value(tb, Note(w), "updated") > Value(tb, Note(n), "updated")
Fresher(tb, w, n) ==
  LET a == Value(tb, Note(w), "updated") b == Value(tb, Note(n), "updated")
  IN a > b \/ (a = b /\ w < n)
DedupNotes(s) ==
  DeleteRows(s, {Note(n) : n \in {m \in NoteIds : NoteProven(s[1], m)
                   /\ \E w \in NoteIds \ {m} : NoteProven(s[1], w) /\ Fresher(s[1], w, m)}})

(* dedup_tags: the lowest id keeps the name and inherits the links.           *)
Named(tb) == {t \in TagIds : Live(tb, Tag(t)) /\ Proven(tb, Tag(t), "name")}
MergeTags(s, w, losers) ==
  DeleteRows(IF \E t \in losers : Live(s[1], Link(t)) THEN InsertRow(s, Link(w), Defaults) ELSE s,
             {Link(t) : t \in losers} \cup {Tag(t) : t \in losers})
DedupTags(s) ==
  LET named == Named(s[1])
  IN IF named = {} THEN s ELSE MergeTags(s, Min(named), named \ {Min(named)})

Maintain(d) ==
  /\ cycle[d] = "maintain" /\ cycle' = [cycle EXCEPT ![d] = "push"]
  /\ LET s == DedupNotes(Cascade(Local(d), converted[d]))
     IN Store(d, IF converted[d] THEN DedupTags(s) ELSE s)
  /\ maint' = [maint EXCEPT ![d].skipped = ~converted[d]] /\ missed' = [missed EXCEPT ![d] = FALSE]
  /\ UNCHANGED <<wire, cursor, converted, stash, clock, userDeleted, repairUsed>>

(* A pass that fails is logged; the schedule has already been disarmed. *)
MaintainFails(d) ==
  /\ cycle[d] = "maintain" /\ cycle' = [cycle EXCEPT ![d] = "push"] /\ Use("mishap", MaxMishaps)
  /\ maint' = [maint EXCEPT ![d].skipped = FALSE] /\ missed' = [missed EXCEPT ![d] = TRUE]
  /\ UNCHANGED <<tables, dirty, wire, cursor, converted, stash, clock, userDeleted>>

(* The tag tables are created and converted; the application restarts. *)
Convert(d) ==
  /\ ~converted[d] /\ converted' = [converted EXCEPT ![d] = TRUE]
  /\ UNCHANGED <<tables, dirty, wire, cursor, cycle, maint, stash, missed, clock, userDeleted, repairUsed>>
Restart(d) ==
  /\ Use("mishap", MaxMishaps) /\ cycle' = [cycle EXCEPT ![d] = "push"]
  /\ maint' = [maint EXCEPT ![d] = Startup]
  /\ UNCHANGED <<tables, dirty, wire, cursor, converted, stash, missed, clock, userDeleted>>

RepairNext == \E d \in Replicas :
  \/ \E now \in 1..MaxClock : SaveNote(d, now)
  \/ CreateTag(d) \/ AddSessionTag(d)
  \/ \E r \in {SessionRow} \cup {Tag(t) : t \in TagIds} : DeleteByUser(d, r)
  \/ Push(d) \/ \E n \in 0..Len(wire), clean \in BOOLEAN : \E part \in SUBSET NextOf(n) : Pull(d, n, part, clean)
  \/ Maintain(d) \/ MaintainFails(d) \/ Convert(d) \/ Restart(d)
RepairSpec == RepairInit /\ [][RepairNext]_repairVars

------------------------------------------------------------------------------
RepairTypeOK ==
  /\ \A d \in Replicas : cursor[d] <= Len(wire) /\ cycle[d] \in {"push", "pull", "maintain"}
  /\ \A d \in Replicas : \A i \in DOMAIN dirty[d] : \A m \in dirty[d][i] : m[1] \in Rows

(* Everything is exchanged and no pass is owed. *)
Settled == \A d \in Replicas :
  dirty[d] = <<>> /\ cursor[d] = Len(wire) /\ cycle[d] = "push" /\ stash[d] = {}
  /\ converted[d] /\ ~maint[d].pending /\ ~maint[d].skipped /\ ~missed[d]

(* Repairs made on different devices from different moments of the exchange   *)
(* meet: the devices agree on every row, a session has at most one note, a     *)
(* name one tag, and nothing hangs from a deleted parent.                      *)
RepairsConverge == Settled => \A d, e \in Replicas :
  /\ \A r \in Rows : tables[d][r] = tables[e][r]
  /\ Cardinality({n \in NoteIds : Live(tables[d], Note(n))}) <= 1
  /\ Cardinality({t \in TagIds : Live(tables[d], Tag(t))}) <= 1
  /\ Orphans(tables[d], TRUE) = {}

(* "references are first repointed to the winner so associations survive the   *)
(* dedup": a session that was tagged stays tagged unless a user deletes.        *)
LinksSurvive == Settled /\ userDeleted = {} => \A d \in Replicas :
  (\E t \in TagIds : tables[d][Link(t)].cl > 0) => \E t \in TagIds : Live(tables[d], Link(t))

(* "every device picks the SAME winner": of the notes of a session nobody      *)
(* deleted, one is left.                                                       *)
NoteSurvives == Settled /\ userDeleted = {} => \A d \in Replicas :
  (\E n \in NoteIds : tables[d][Note(n)].cl > 0) => \E n \in NoteIds : Live(tables[d], Note(n))

(* What cascade_gc and enforce_uniqueness leave on the devices.                *)
RepairsSound == RepairTypeOK /\ RepairsConverge
==============================================================================
