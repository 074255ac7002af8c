------------------------- MODULE SyncEngine_proofs -------------------------
(***************************************************************************)
(* Proofs about SyncEngine, for any set of devices and any budgets.        *)
(*                                                                         *)
(* The inductive invariant has a part for each database file (the live one *)
(* and the backup satisfy the same part, which is why a restore is         *)
(* harmless), one for each running drain, and one for the wire.  The file  *)
(* parts are stated over an explicit log, so that growth of the log is one *)
(* lemma instead of one argument per action.                               *)
(***************************************************************************)
EXTENDS SyncEngine, FiniteSetTheorems, SequenceTheorems, TLAPS

(* row is at the relay under client d / waits in an unacked entry of f.    *)
Delivered(l, d, row) == \E i \in DOMAIN l : l[i].client = d /\ row \in l[i].ct.rows
Pending(f, row) == \E o \in f.outbox : o.seq = 0 /\ row \in o.ct.rows

(* What every database file of device d satisfies against log l.           *)
PushOK(f, d, l) ==
    /\ IsFiniteSet(f.outbox)
    /\ \A o \in f.outbox : o.cseq <= f.cseq
    /\ \A o, p \in f.outbox : o.cseq = p.cseq => o = p
    /\ \A o \in f.outbox : o.seq # 0 => o.seq \in DOMAIN l /\ l[o.seq] = Entry(d, o)
    /\ \A r \in f.db : 0 < r.ver /\ r.ver <= f.dbv
    /\ \A r \in f.db : r.row.site = d /\ r.ver <= f.pushWm
                           => Delivered(l, d, r.row) \/ Pending(f, r.row)
    /\ f.pushWm <= f.dbv

(* changeset i of l is merged into f or quarantined there.                 *)
Covered(f, l, i) == l[i].ct.rows \subseteq Has(f) \/ i \in f.quar

PullOK(f, l) ==
    /\ f.pullWm <= Len(l)
    /\ f.quar \subseteq DOMAIN l
    /\ \A i \in 1 .. f.pullWm : Covered(f, l, i)

(* A capture in progress: whatever is not in the remaining snapshot is     *)
(* already captured, or newer than all of it.                              *)
CaptureOK(f, d, l, s) ==
    /\ s \subseteq f.db
    /\ \A r \in f.db : r.row.site = d =>
          \/ Delivered(l, d, r.row) \/ Pending(f, r.row)
          \/ r \in s
          \/ \A x \in s : x.ver < r.ver

(* An awaited batch is a set of unacked entries of the outbox.             *)
RequestOK(f, d, q) ==
    /\ IsFiniteSet(q)
    /\ \A e \in q : \E o \in f.outbox : o.seq = 0 /\ e = Entry(d, o)

(* Every ack names the stored copy of the outbox entry it is about.        *)
AcksOK(f, d, l, acks) ==
    \A x \in acks : /\ x.seq \in DOMAIN l
                    /\ \A o \in f.outbox : o.cseq = x.cseq => l[x.seq] = Entry(d, o)

PageOK(f, l, p) ==
    /\ p.next <= Len(l)
    /\ p.todo \subseteq DOMAIN l
    /\ \A i \in 1 .. p.next : i \in p.todo \/ Covered(f, l, i)

MessageOK(m) ==
    /\ IsFiniteSet(m.batch)
    /\ Log!Coherent(m.batch)
    /\ \A e \in m.batch : e.client = m.client

(* All of it for one device: its two files and its running drain.          *)
DeviceOK(d) ==
    /\ PushOK(file[d], d, log) /\ PushOK(backup[d], d, log)
    /\ PullOK(file[d], log) /\ PullOK(backup[d], log)
    /\ pc[d] = "chunk" => CaptureOK(file[d], d, log, snap[d])
    /\ pc[d] \in {"await", "resp"} => RequestOK(file[d], d, req[d])
    /\ pc[d] \notin {"resp", "reconcile", "tail"} => resp[d].acks = {}
    /\ AcksOK(file[d], d, log, resp[d].acks)
    /\ pc[d] = "merge" => PageOK(file[d], log, page[d])
    /\ retry[d] # 0 => retry[d] \in DOMAIN log /\ log[retry[d]].ct.rows \subseteq Has(file[d])

Inv ==
    /\ TypeOK
    /\ \A d \in Devices : DeviceOK(d)
    /\ \A m \in net : MessageOK(m)
    /\ Log!PairUnique

-----------------------------------------------------------------------------
(* The log only grows at its end.                                          *)
Extends(l, m) == Len(l) <= Len(m) /\ \A i \in 1 .. Len(l) : m[i] = l[i]

(* Entries are determined by their fields.                                 *)
LEMMA EntryFields ==
    ASSUME NEW x \in Log!Entries, NEW y \in Log!Entries,
           x.client = y.client, x.cseq = y.cseq, x.ct = y.ct
    PROVE  x = y
BY DEF Log!Entries

LEMMA LogEntry ==
    ASSUME NEW l \in Seq(Log!Entries), NEW i \in DOMAIN l
    PROVE  /\ l[i] \in Log!Entries /\ l[i].client \in Devices /\ l[i].cseq \in Nat
           /\ l[i].ct.rows \in SUBSET Rows
<1>1. l[i] \in Log!Entries
  OBVIOUS
<1> QED
  BY <1>1 DEF Log!Entries, Sealed

(* What a push that is admitted does to the log: the old part stays, the   *)
(* new part consists of entries of the batch that were not stored, the     *)
(* whole batch is stored afterwards, and pairs stay unique.                *)
LEMMA AdmitGrows ==
    ASSUME log \in Seq(Log!Entries), Log!PairUnique,
           NEW B \in SUBSET Log!Entries, IsFiniteSet(B), Log!Coherent(B), Store(B)
    PROVE  /\ log' \in Seq(Log!Entries)
           /\ Extends(log, log')
           /\ \A i \in (Len(log) + 1) .. Len(log') : log'[i] \in B /\ log'[i] \notin Log!Stored
           /\ \A e \in B : \E i \in 1 .. Len(log') : log'[i] = e
           /\ Log!PairUnique'
           /\ Log!Admit(B)
<1> DEFINE F == Log!Fresh(B)
           n == Cardinality(F)
<1>1. IsFiniteSet(F) /\ n \in Nat
  BY FS_Subset, FS_CardinalityType DEF Log!Fresh
<1>2. PICK s \in Bijection(1 .. n, F) : log' = log \o s
  BY DEF Store
<1>3. /\ s \in [1 .. n -> F]
      /\ \A i, j \in 1 .. n : s[i] = s[j] => i = j
      /\ \A e \in F : \E i \in 1 .. n : s[i] = e
  BY <1>2 DEF Bijection, Injection, Surjection, IsInjective
<1>4. F \subseteq B /\ F \cap Log!Stored = {}
  BY DEF Log!Fresh
<1>5. s \in Seq(Log!Entries) /\ Len(s) = n
  BY <1>1, <1>3, <1>4
<1>6. /\ log' \in Seq(Log!Entries)
      /\ Len(log') = Len(log) + n
      /\ \A i \in 1 .. Len(log) : log'[i] = log[i]
      /\ \A i \in (Len(log) + 1) .. Len(log') : i - Len(log) \in 1 .. n /\ log'[i] = s[i - Len(log)]
  <2> HIDE DEF n, F
  <2>1. log' = log \o s
    BY <1>2
  <2>2. /\ log' \in Seq(Log!Entries)
        /\ Len(log') = Len(log) + n
        /\ \A i \in 1 .. Len(log) + n :
              log'[i] = IF i <= Len(log) THEN log[i] ELSE s[i - Len(log)]
    BY <2>1, <1>5, ConcatProperties
  <2> QED
    BY <1>1, <2>2
<1>7. \A i \in (Len(log) + 1) .. Len(log') : log'[i] \in F
  BY <1>3, <1>6
<1>8. \A e \in B : \E i \in 1 .. Len(log') : log'[i] = e
  <2> SUFFICES ASSUME NEW e \in B PROVE \E i \in 1 .. Len(log') : log'[i] = e
    OBVIOUS
  <2>1. CASE e \in Log!Stored
    <3>1. PICK i \in 1 .. Len(log) : log[i] = e
      BY <2>1 DEF Log!Stored
    <3> QED
      BY <3>1, <1>6, <1>1
  <2>2. CASE e \in F
    <3>1. PICK i \in 1 .. n : s[i] = e
      BY <2>2, <1>3
    <3>2. i + Len(log) \in (Len(log) + 1) .. Len(log') /\ (i + Len(log)) - Len(log) = i
      BY <3>1, <1>1, <1>6
    <3> QED
      BY <3>1, <3>2, <1>6, <1>1
  <2> QED
    BY <2>1, <2>2 DEF Log!Fresh
<1>9. Log!PairUnique'
  <2> SUFFICES ASSUME NEW i \in 1 .. Len(log'), NEW j \in 1 .. Len(log'),
                      log'[i].client = log'[j].client, log'[i].cseq = log'[j].cseq
               PROVE  i = j
    BY <1>6 DEF Log!PairUnique, Log!SamePair
  <2>1. ASSUME NEW x \in 1 .. Len(log), NEW y \in (Len(log) + 1) .. Len(log'),
               log'[x].client = log'[y].client, log'[x].cseq = log'[y].cseq
        PROVE  FALSE
    <3>1. log'[y] \in B /\ log'[y] \notin Log!Stored
      BY <1>7, <1>4
    <3>2. log'[x] = log[x] /\ log[x] \in Log!Stored
      BY <1>6 DEF Log!Stored
    <3>3. log'[y].ct = log[x].ct
      BY <3>1, <3>2, <2>1 DEF Store, Log!Conflict, Log!SamePair
    <3>4. log[x] \in Log!Entries /\ log'[y] \in Log!Entries
      BY <3>1
    <3> QED
      BY <3>1, <3>2, <3>3, <3>4, <2>1, EntryFields
  <2>2. CASE i \in 1 .. Len(log) /\ j \in 1 .. Len(log)
    BY <2>2, <1>6 DEF Log!PairUnique, Log!SamePair
  <2>3. CASE i \in (Len(log) + 1) .. Len(log') /\ j \in (Len(log) + 1) .. Len(log')
    <3>1. log'[i] = log'[j]
      BY <2>3, <1>7, <1>4 DEF Log!Coherent, Log!SamePair
    <3>2. i - Len(log) = j - Len(log)
      BY <3>1, <2>3, <1>6, <1>3
    <3> QED
      BY <3>2, <1>6
  <2> QED
    BY <2>1, <2>2, <2>3, <1>6, <1>1
<1>10. Log!Added = F
  <2>1. ASSUME NEW e \in F PROVE e \in Log!Added
    <3>1. PICK i \in 1 .. n : s[i] = e
      BY <1>3
    <3>2. i + Len(log) \in (Len(log) + 1) .. Len(log') /\ (i + Len(log)) - Len(log) = i
      BY <1>1, <1>6
    <3> QED
      BY <3>1, <3>2, <1>6 DEF Log!Added
  <2> QED
    BY <2>1, <1>7 DEF Log!Added
<1>11. ASSUME NEW i \in (Len(log) + 1) .. Len(log'), NEW j \in (Len(log) + 1) .. Len(log'),
              log'[i] = log'[j]
       PROVE  i = j
  <2>1. i - Len(log) = j - Len(log)
    BY <1>11, <1>6, <1>3
  <2> QED
    BY <2>1, <1>6
<1>12. Log!Admit(B)
  BY <1>1, <1>6, <1>10, <1>11 DEF Log!Admit, Store
<1> QED
  BY <1>1, <1>4, <1>6, <1>7, <1>8, <1>9, <1>12 DEF Extends

-----------------------------------------------------------------------------
(* The parts of the invariant survive growth of the log.                   *)
LEMMA GrowthKeeps ==
    ASSUME NEW l \in Seq(Log!Entries), NEW m \in Seq(Log!Entries), Extends(l, m),
           NEW f \in Files, NEW d \in Devices
    PROVE  /\ PushOK(f, d, l) => PushOK(f, d, m)
           /\ \A s : CaptureOK(f, d, l, s) => CaptureOK(f, d, m, s)
           /\ \A acks : AcksOK(f, d, l, acks) => AcksOK(f, d, m, acks)
           /\ PullOK(f, l) => PullOK(f, m)
           /\ \A p \in [todo : SUBSET Nat, next : Nat, more : BOOLEAN] :
                 PageOK(f, l, p) => PageOK(f, m, p)
<1> USE DEF Extends
<1>1. \A row : Delivered(l, d, row) => Delivered(m, d, row)
  BY DEF Delivered
<1>2. \A i \in 1 .. Len(l) : i \in DOMAIN m /\ m[i] = l[i]
  OBVIOUS
<1>3. PushOK(f, d, l) => PushOK(f, d, m)
  BY <1>1, <1>2 DEF PushOK
<1>4. \A s : CaptureOK(f, d, l, s) => CaptureOK(f, d, m, s)
  BY <1>1 DEF CaptureOK
<1>5. \A acks : AcksOK(f, d, l, acks) => AcksOK(f, d, m, acks)
  BY <1>2 DEF AcksOK
<1>6. PullOK(f, l) => PullOK(f, m)
  BY <1>2 DEF PullOK, Covered, Files
<1>7. \A p \in [todo : SUBSET Nat, next : Nat, more : BOOLEAN] :
         PageOK(f, l, p) => PageOK(f, m, p)
  BY <1>2 DEF PageOK, Covered
<1> QED
  BY <1>3, <1>4, <1>5, <1>6, <1>7

(* Rows that enter the database at the next db_version disturb nothing:    *)
(* they are past the push watermark and past every snapshot.               *)
AddRows(f, rows) ==
    [f EXCEPT !.db = @ \cup {[row |-> r, ver |-> f.dbv + 1] : r \in rows}, !.dbv = @ + 1]

LEMMA AddRowsKeeps ==
    ASSUME NEW l \in Seq(Log!Entries), NEW f \in Files, NEW d \in Devices,
           NEW rows \in SUBSET Rows, PushOK(f, d, l)
    PROVE  /\ AddRows(f, rows) \in Files
           /\ PushOK(AddRows(f, rows), d, l)
           /\ \A s : CaptureOK(f, d, l, s) => CaptureOK(AddRows(f, rows), d, l, s)
           /\ \A q : RequestOK(f, d, q) => RequestOK(AddRows(f, rows), d, q)
           /\ \A acks : AcksOK(f, d, l, acks) => AcksOK(AddRows(f, rows), d, l, acks)
           /\ Has(f) \subseteq Has(AddRows(f, rows))
           /\ rows \subseteq Has(AddRows(f, rows))
           /\ AddRows(f, rows).quar = f.quar
           /\ AddRows(f, rows).pullWm = f.pullWm
<1> DEFINE new == {[row |-> r, ver |-> f.dbv + 1] : r \in rows}
           g == AddRows(f, rows)
<1>1. /\ g \in Files
      /\ g.db = f.db \cup new /\ g.dbv = f.dbv + 1
      /\ g.outbox = f.outbox /\ g.cseq = f.cseq /\ g.pushWm = f.pushWm
      /\ g.pullWm = f.pullWm /\ g.quar = f.quar
  <2>1. new \in SUBSET LocalRows
    BY DEF Files, LocalRows
  <2>2. f.db \cup new \in SUBSET LocalRows /\ f.dbv + 1 \in Nat
    BY <2>1 DEF Files
  <2>3. g = [f EXCEPT !.db = f.db \cup new, !.dbv = f.dbv + 1]
    BY DEF AddRows, Files
  <2> HIDE DEF g, new
  <2> QED
    BY <2>2, <2>3 DEF Files
<1>2. \A r \in new : r.ver = f.dbv + 1
  OBVIOUS
<1>3. \A row : Pending(f, row) <=> Pending(g, row)
  BY <1>1 DEF Pending
<1> HIDE DEF g, new
<1>4. PushOK(g, d, l)
  <2>1. \A r \in g.db : 0 < r.ver /\ r.ver <= g.dbv
    BY <1>1, <1>2 DEF PushOK, Files, LocalRows
  <2>2. \A r \in g.db : r.row.site = d /\ r.ver <= g.pushWm
                           => Delivered(l, d, r.row) \/ Pending(g, r.row)
    BY <1>1, <1>2, <1>3 DEF PushOK, Files, LocalRows
  <2>3. g.pushWm <= g.dbv
    BY <1>1 DEF PushOK, Files
  <2> QED
    BY <1>1, <2>1, <2>2, <2>3 DEF PushOK
<1>5. ASSUME NEW s, CaptureOK(f, d, l, s) PROVE CaptureOK(g, d, l, s)
  <2>1. \A r \in new, x \in s : x.ver < r.ver
    BY <1>2, <1>5 DEF CaptureOK, PushOK, Files, LocalRows
  <2> QED
    BY <1>1, <1>3, <1>5, <2>1 DEF CaptureOK
<1>6. \A q : RequestOK(f, d, q) => RequestOK(g, d, q)
  BY <1>1 DEF RequestOK
<1>7. \A acks : AcksOK(f, d, l, acks) => AcksOK(g, d, l, acks)
  BY <1>1 DEF AcksOK
<1>8. Has(f) \subseteq Has(g)
  BY <1>1 DEF Has
<1>9. rows \subseteq Has(g)
  <2>1. \A r \in rows : [row |-> r, ver |-> f.dbv + 1] \in g.db
    BY <1>1 DEF new
  <2>2. \A r \in rows : r = [row |-> r, ver |-> f.dbv + 1].row
    OBVIOUS
  <2> QED
    BY <2>1, <2>2 DEF Has
<1> QED
  BY <1>1, <1>4, <1>5, <1>6, <1>7, <1>8, <1>9 DEF g

(* Marking entries acked: each ack names the stored copy.                  *)
LEMMA AckKeeps ==
    ASSUME NEW l \in Seq(Log!Entries), NEW f \in Files, NEW d \in Devices,
           NEW acks \in SUBSET Acks, PushOK(f, d, l), AcksOK(f, d, l, acks)
    PROVE  /\ Ack(f, acks) \in Files
           /\ PushOK(Ack(f, acks), d, l)
           /\ \A as : AcksOK(f, d, l, as) => AcksOK(Ack(f, acks), d, l, as)
           /\ Has(Ack(f, acks)) = Has(f)
           /\ Ack(f, acks).quar = f.quar
           /\ Ack(f, acks).pullWm = f.pullWm
<1> DEFINE mark(o) == IF \E a \in acks : a.cseq = o.cseq
                      THEN [o EXCEPT !.seq = (CHOOSE a \in acks : a.cseq = o.cseq).seq]
                      ELSE o
           g == Ack(f, acks)
<1>0. ASSUME NEW o \in f.outbox, \E a \in acks : a.cseq = o.cseq
      PROVE  /\ (CHOOSE a \in acks : a.cseq = o.cseq) \in acks
             /\ (CHOOSE a \in acks : a.cseq = o.cseq).cseq = o.cseq
  BY <1>0
<1>1. ASSUME NEW o \in f.outbox
      PROVE  /\ mark(o) \in OutboxRows
             /\ mark(o).cseq = o.cseq /\ mark(o).ct = o.ct
             /\ mark(o) = o \/ (mark(o).seq \in DOMAIN l /\ l[mark(o).seq] = Entry(d, o))
  <2>1. o \in OutboxRows
    BY DEF Files
  <2>2. CASE \E a \in acks : a.cseq = o.cseq
    <3> DEFINE c == CHOOSE a \in acks : a.cseq = o.cseq
    <3>1. c \in acks /\ c.cseq = o.cseq
      BY <2>2
    <3>2. c.seq \in DOMAIN l /\ l[c.seq] = Entry(d, o) /\ c.seq \in Nat
      BY <3>1 DEF AcksOK, Acks
    <3>3. mark(o) = [o EXCEPT !.seq = c.seq]
      BY <2>2
    <3> HIDE DEF c
    <3>4. mark(o) \in OutboxRows /\ mark(o).cseq = o.cseq /\ mark(o).ct = o.ct /\ mark(o).seq = c.seq
      BY <2>1, <3>2, <3>3 DEF OutboxRows
    <3> QED
      BY <3>2, <3>4
  <2>3. CASE ~ \E a \in acks : a.cseq = o.cseq
    BY <2>1, <2>3
  <2> QED
    BY <2>2, <2>3
<1>2. /\ g.outbox = {mark(o) : o \in f.outbox}
      /\ g.db = f.db /\ g.dbv = f.dbv /\ g.cseq = f.cseq /\ g.pushWm = f.pushWm
      /\ g.pullWm = f.pullWm /\ g.quar = f.quar
  BY DEF Ack, Files
<1> HIDE DEF mark
<1>3. g \in Files
  <2>1. {mark(o) : o \in f.outbox} \in SUBSET OutboxRows
    BY <1>1
  <2>2. g = [f EXCEPT !.outbox = {mark(o) : o \in f.outbox}]
    BY DEF Ack, mark, Files
  <2> QED
    BY <2>1, <2>2 DEF Files
<1> HIDE DEF g
<1>4. IsFiniteSet(g.outbox)
  <2> DEFINE h == [o \in f.outbox |-> mark(o)]
  <2>1. h \in Surjection(f.outbox, g.outbox)
    BY <1>2 DEF Surjection
  <2> QED
    BY <2>1, FS_Surjection DEF PushOK, ExistsSurjection
<1>5. \A o \in g.outbox : \E p \in f.outbox :
         /\ o.cseq = p.cseq /\ o.ct = p.ct
         /\ o = p \/ (o.seq \in DOMAIN l /\ l[o.seq] = Entry(d, p))
  BY <1>1, <1>2
<1>6. \A o \in g.outbox : o.cseq <= g.cseq
  BY <1>5, <1>2 DEF PushOK
<1>7. \A o, p \in g.outbox : o.cseq = p.cseq => o = p
  BY <1>1, <1>2 DEF PushOK
<1>8. \A o \in g.outbox : o.seq # 0 => o.seq \in DOMAIN l /\ l[o.seq] = Entry(d, o)
  BY <1>5 DEF PushOK, Entry
<1>9. ASSUME NEW row, Pending(f, row) PROVE Pending(g, row) \/ Delivered(l, d, row)
  <2>1. PICK o \in f.outbox : o.seq = 0 /\ row \in o.ct.rows
    BY <1>9 DEF Pending
  <2>2. mark(o) \in g.outbox
    BY <1>2
  <2>3. CASE mark(o) = o
    BY <2>1, <2>2, <2>3 DEF Pending
  <2>4. CASE mark(o).seq \in DOMAIN l /\ l[mark(o).seq] = Entry(d, o)
    BY <2>1, <2>4 DEF Delivered, Entry
  <2> QED
    BY <2>3, <2>4, <1>1
<1>10. PushOK(g, d, l)
  BY <1>2, <1>4, <1>6, <1>7, <1>8, <1>9 DEF PushOK
<1>11. ASSUME NEW as, AcksOK(f, d, l, as) PROVE AcksOK(g, d, l, as)
  <2> SUFFICES ASSUME NEW x \in as, NEW o \in g.outbox, o.cseq = x.cseq
               PROVE  l[x.seq] = Entry(d, o)
    BY <1>11 DEF AcksOK
  <2>1. PICK p \in f.outbox : o.cseq = p.cseq /\ o.ct = p.ct
    BY <1>5
  <2>2. Entry(d, o) = Entry(d, p)
    BY <2>1 DEF Entry
  <2> QED
    BY <2>1, <2>2, <1>11 DEF AcksOK
<1> QED
  BY <1>2, <1>3, <1>10, <1>11 DEF g, Has

(* Re-walking everything under a counter that did not go back.             *)
LEMMA ReseedKeeps ==
    ASSUME NEW l \in Seq(Log!Entries), NEW f \in Files, NEW d \in Devices,
           PushOK(f, d, l), NEW target \in Nat, f.cseq <= target
    PROVE  /\ Reseed(f, target) \in Files
           /\ PushOK(Reseed(f, target), d, l)
           /\ \A acks : AcksOK(f, d, l, acks) => AcksOK(Reseed(f, target), d, l, acks)
           /\ Has(Reseed(f, target)) = Has(f)
           /\ Reseed(f, target).quar = f.quar
           /\ Reseed(f, target).pullWm = f.pullWm
<1> DEFINE g == Reseed(f, target)
           kept == {o \in f.outbox : o.seq # 0}
<1>1. /\ g \in Files
      /\ g.outbox = kept /\ g.cseq = target /\ g.pushWm = 0
      /\ g.db = f.db /\ g.dbv = f.dbv /\ g.pullWm = f.pullWm /\ g.quar = f.quar
  <2>1. kept \in SUBSET OutboxRows /\ 0 \in Nat
    BY DEF Files
  <2>2. g = [f EXCEPT !.cseq = target, !.pushWm = 0, !.outbox = kept]
    BY DEF Reseed, Files
  <2> HIDE DEF g, kept
  <2> QED
    BY <2>1, <2>2 DEF Files
<1>2. kept \subseteq f.outbox /\ IsFiniteSet(kept)
  BY FS_Subset DEF PushOK
<1> HIDE DEF g
<1>3. \A r \in g.db : ~(r.ver <= g.pushWm)
  BY <1>1 DEF PushOK, Files, LocalRows
<1>4. PushOK(g, d, l)
  BY <1>1, <1>2, <1>3 DEF PushOK, Files, OutboxRows
<1>5. \A acks : AcksOK(f, d, l, acks) => AcksOK(g, d, l, acks)
  BY <1>1, <1>2 DEF AcksOK
<1> QED
  BY <1>1, <1>4, <1>5 DEF g, Has

(* Committing a chunk with its watermark: the watermark passes a version   *)
(* only when no row of it is left outside the committed chunks.            *)
CommitChunk(f, ct, w) ==
    [f EXCEPT !.cseq = f.cseq + 1,
              !.outbox = f.outbox \cup {[cseq |-> f.cseq + 1, ct |-> ct, seq |-> 0]},
              !.pushWm = w]

LEMMA ChunkKeeps ==
    ASSUME NEW l \in Seq(Log!Entries), NEW f \in Files, NEW d \in Devices,
           PushOK(f, d, l),
           NEW s \in SUBSET LocalRows, CaptureOK(f, d, l, s),
           NEW chunk \in SUBSET s, NEW rest, rest = s \ chunk,
           NEW ct \in Sealed, \A r \in chunk : r.row \in ct.rows,
           NEW w, IsCommitWatermark(w, chunk, rest, f.pushWm)
    PROVE  /\ CommitChunk(f, ct, w) \in Files
           /\ PushOK(CommitChunk(f, ct, w), d, l)
           /\ CaptureOK(CommitChunk(f, ct, w), d, l, rest)
<1> DEFINE o == [cseq |-> f.cseq + 1, ct |-> ct, seq |-> 0]
           g == CommitChunk(f, ct, w)
<1>1. w = f.pushWm \/ \E c \in chunk : w = c.ver /\ \A x \in s \ chunk : c.ver < x.ver
  BY DEF IsCommitWatermark, ClosedVersions
<1>2. w \in Nat /\ w <= f.dbv
  BY <1>1 DEF CaptureOK, PushOK, Files, LocalRows
<1>3. /\ g \in Files
      /\ g.outbox = f.outbox \cup {o} /\ g.cseq = f.cseq + 1 /\ g.pushWm = w
      /\ g.db = f.db /\ g.dbv = f.dbv /\ g.pullWm = f.pullWm /\ g.quar = f.quar
  <2>1. o \in OutboxRows /\ f.cseq + 1 \in Nat
    BY DEF OutboxRows, Files
  <2>2. f.outbox \cup {o} \in SUBSET OutboxRows
    BY <2>1 DEF Files
  <2>3. g = [f EXCEPT !.cseq = f.cseq + 1, !.outbox = f.outbox \cup {o}, !.pushWm = w]
    BY DEF CommitChunk
  <2> HIDE DEF g, o
  <2> QED
    BY <1>2, <2>1, <2>2, <2>3 DEF Files
<1>4. \A row : Pending(f, row) => Pending(g, row)
  BY <1>3 DEF Pending
<1>5. \A r \in chunk : Pending(g, r.row)
  <2>1. o \in g.outbox /\ o.seq = 0 /\ o.ct = ct
    BY <1>3
  <2> HIDE DEF o
  <2> QED
    BY <2>1 DEF Pending
<1>6. o.cseq = f.cseq + 1 /\ o.seq = 0
  OBVIOUS
<1> HIDE DEF g, o
<1>7. \A r \in f.db : r.row.site = d /\ r.ver <= w
                         => Delivered(l, d, r.row) \/ Pending(g, r.row)
  <2> SUFFICES ASSUME NEW r \in f.db, r.row.site = d, r.ver <= w
               PROVE  Delivered(l, d, r.row) \/ Pending(g, r.row)
    OBVIOUS
  <2>1. CASE w = f.pushWm
    BY <2>1, <1>4 DEF PushOK
  <2>2. CASE \E c \in chunk : w = c.ver /\ \A x \in s \ chunk : c.ver < x.ver
    <3>1. PICK c \in chunk : w = c.ver /\ \A x \in s \ chunk : c.ver < x.ver
      BY <2>2
    <3>2. r.ver \in Nat /\ c.ver \in Nat /\ ~(c.ver < r.ver)
      BY <3>1 DEF Files, LocalRows
    <3>3. \/ Delivered(l, d, r.row) \/ Pending(f, r.row)
          \/ r \in chunk \/ r \in s \ chunk
          \/ \A x \in s : x.ver < r.ver
      BY DEF CaptureOK
    <3> QED
      BY <1>4, <1>5, <3>1, <3>2, <3>3
  <2> QED
    BY <1>1, <2>1, <2>2
<1>8. IsFiniteSet(g.outbox)
  BY <1>3, FS_AddElement, SMTT(20) DEF PushOK
<1>9. PushOK(g, d, l)
  <2>1. \A p \in g.outbox : p.cseq <= g.cseq
    BY <1>3, <1>6 DEF PushOK, Files, OutboxRows
  <2>2. \A p, q \in g.outbox : p.cseq = q.cseq => p = q
    BY <1>3, <1>6 DEF PushOK, Files, OutboxRows
  <2>3. \A p \in g.outbox : p.seq # 0 => p.seq \in DOMAIN l /\ l[p.seq] = Entry(d, p)
    BY <1>3, <1>6 DEF PushOK
  <2> QED
    BY <1>2, <1>3, <1>7, <1>8, <2>1, <2>2, <2>3 DEF PushOK
<1>10. CaptureOK(g, d, l, rest)
  BY <1>3, <1>4, <1>5 DEF CaptureOK
<1> QED
  BY <1>3, <1>9, <1>10 DEF g, Has

(* Steps that leave the rows, the outbox and the counter alone.            *)
LEMMA SameOutboxKeeps ==
    ASSUME NEW l, NEW d, NEW f \in Files, NEW g \in Files,
           g.db = f.db, g.dbv = f.dbv, g.outbox = f.outbox,
           g.cseq = f.cseq, g.pushWm = f.pushWm
    PROVE  /\ PushOK(f, d, l) => PushOK(g, d, l)
           /\ \A s : CaptureOK(f, d, l, s) => CaptureOK(g, d, l, s)
           /\ \A q : RequestOK(f, d, q) => RequestOK(g, d, q)
           /\ \A acks : AcksOK(f, d, l, acks) => AcksOK(g, d, l, acks)
           /\ Has(g) = Has(f)
<1>1. \A row : Pending(f, row) <=> Pending(g, row)
  BY DEF Pending
<1> QED
  BY <1>1 DEF PushOK, CaptureOK, RequestOK, AcksOK, Has

(* Steps that only add rows or quarantined changesets.                     *)
LEMMA CoveredKeeps ==
    ASSUME NEW l \in Seq(Log!Entries), NEW f \in Files, NEW g \in Files,
           Has(f) \subseteq Has(g), f.quar \subseteq g.quar
    PROVE  /\ \A i : Covered(f, l, i) => Covered(g, l, i)
           /\ f.pullWm = g.pullWm /\ f.quar = g.quar /\ PullOK(f, l) => PullOK(g, l)
           /\ \A p : PageOK(f, l, p) => PageOK(g, l, p)
BY DEF Covered, PullOK, PageOK

-----------------------------------------------------------------------------
(* Steps of one device.  What a step of d leaves alone on every other      *)
(* device, and what it has to show of d.                                   *)
Untouched(e) ==
    /\ file'[e] = file[e] /\ backup'[e] = backup[e] /\ pc'[e] = pc[e]
    /\ snap'[e] = snap[e] /\ req'[e] = req[e] /\ resp'[e] = resp[e]
    /\ page'[e] = page[e] /\ retry'[e] = retry[e]

LEMMA UntouchedKeeps ==
    ASSUME NEW e \in Devices, DeviceOK(e), Untouched(e), log' = log
    PROVE  DeviceOK(e)'
BY DEF DeviceOK, Untouched

LEMMA DeviceStep ==
    ASSUME Inv, NEW d \in Devices, log' = log, TypeOK', DeviceOK(d)',
           \A e \in Devices \ {d} : Untouched(e),
           \A m \in net' : MessageOK(m)
    PROVE  Inv'
<1>1. \A e \in Devices : DeviceOK(e)'
  BY UntouchedKeeps DEF Inv
<1>2. Log!PairUnique'
  BY DEF Inv, Log!PairUnique
<1>3. \A m \in net' : MessageOK(m)'
  BY DEF MessageOK, Log!Coherent
<1> QED
  BY <1>1, <1>2, <1>3 DEF Inv

LEMMA InitInv ==
    Init => Inv
<1> SUFFICES ASSUME Init PROVE Inv
  OBVIOUS
<1>1. EmptyFile \in Files
  BY DEF EmptyFile, Files
<1>2. \A d \in Devices : PushOK(EmptyFile, d, log) /\ PullOK(EmptyFile, log)
  <2>1. IsFiniteSet(EmptyFile.outbox)
    BY FS_EmptySet DEF EmptyFile
  <2> QED
    BY <2>1 DEF Init, EmptyFile, PushOK, PullOK
<1>3. TypeOK
  BY <1>1 DEF Init, TypeOK, NoResp, NoTail, NoPage, Places, Callers, Acks
<1>4. \A d \in Devices : DeviceOK(d)
  BY <1>2 DEF Init, DeviceOK, NoResp, AcksOK
<1> QED
  BY <1>3, <1>4 DEF Inv, Init, Log!PairUnique

(* A transaction of the app.                                               *)
LEMMA LocalWriteKeeps ==
    ASSUME Inv, NEW d \in Devices, LocalWrite(d)
    PROVE  Inv'
<1>1. PICK k \in GroupSizes :
         /\ file' = [file EXCEPT
                        ![d].db = @ \cup {[row |-> r, ver |-> file[d].dbv + 1] :
                                    r \in {[site |-> d, n |-> writes[d] + i] : i \in 1 .. k}},
                        ![d].dbv = @ + 1]
         /\ writes' = [writes EXCEPT ![d] = @ + k]
  BY DEF LocalWrite
<1> DEFINE rows == {[site |-> d, n |-> writes[d] + i] : i \in 1 .. k}
           f == file[d]
           g == AddRows(f, rows)
<1>2. /\ f \in Files /\ log \in Seq(Log!Entries) /\ PushOK(f, d, log)
      /\ k \in Nat /\ writes[d] \in Nat
  BY LimitsAssumption DEF Inv, TypeOK, DeviceOK
<1>3. rows \in SUBSET Rows
  BY <1>2 DEF Rows
<1>4. file' = [file EXCEPT ![d] = g]
  BY <1>1 DEF AddRows, Inv, TypeOK
<1> HIDE DEF rows, f
<1>5. /\ g \in Files
      /\ PushOK(g, d, log)
      /\ \A s : CaptureOK(f, d, log, s) => CaptureOK(g, d, log, s)
      /\ \A q : RequestOK(f, d, q) => RequestOK(g, d, q)
      /\ \A acks : AcksOK(f, d, log, acks) => AcksOK(g, d, log, acks)
      /\ Has(f) \subseteq Has(g)
      /\ g.quar = f.quar
      /\ g.pullWm = f.pullWm
  BY <1>2, <1>3, AddRowsKeeps
<1> HIDE DEF g
<1>6. /\ PullOK(f, log) => PullOK(g, log)
      /\ \A p : PageOK(f, log, p) => PageOK(g, log, p)
  BY <1>2, <1>5, CoveredKeeps
<1>7. TypeOK'
  <2>1. file' \in [Devices -> Files]
    BY <1>4, <1>5 DEF Inv, TypeOK
  <2>2. writes' \in [Devices -> Nat]
    <3>1. writes' = [writes EXCEPT ![d] = writes[d] + k] /\ writes[d] + k \in Nat
      BY <1>1, <1>2
    <3> QED
      BY <3>1 DEF Inv, TypeOK
  <2>3. UNCHANGED <<log, net, backup, key, pc, reconciled, snap, req, resp, tail, page,
                    retry, restores, faults>>
    BY DEF LocalWrite, relayVars, sessionVars
  <2> QED
    BY <2>1, <2>2, <2>3 DEF Inv, TypeOK
<1>8. DeviceOK(d)'
  <2>1. file'[d] = g
    BY <1>4 DEF Inv, TypeOK
  <2> QED
    BY <2>1, <1>5, <1>6 DEF f, Inv, DeviceOK, LocalWrite, relayVars, sessionVars
<1>9. \A e \in Devices \ {d} : Untouched(e)
  BY <1>4 DEF Untouched, LocalWrite, relayVars, sessionVars, Inv, TypeOK
<1>10. log' = log /\ \A m \in net' : MessageOK(m)
  BY DEF Inv, LocalWrite, relayVars
<1> QED
  BY <1>7, <1>8, <1>9, <1>10, DeviceStep

(* A spawn begins with one of the device's two files.                      *)
LEMMA RespawnKeeps ==
    ASSUME Inv, NEW d \in Devices, Respawn(d), UNCHANGED <<log, net, backup, writes>>,
           key' \in [Devices -> Keys],
           restores' \in [Devices -> Nat], faults' \in [Devices -> Nat],
           NEW g \in {file[d], backup[d]}, file' = [file EXCEPT ![d] = g]
    PROVE  Inv'
<1>1. g \in Files /\ file'[d] = g
  BY DEF Inv, TypeOK
<1>2. TypeOK'
  <2>1. file' \in [Devices -> Files]
    BY <1>1 DEF Inv, TypeOK
  <2>2. NoResp \in [conflict : BOOLEAN, acks : SUBSET Acks]
    BY DEF NoResp
  <2>3. NoTail \in [max : Nat, by : Callers] /\ NoPage \in [todo : SUBSET Nat, next : Nat, more : BOOLEAN]
    BY DEF NoTail, NoPage, Callers
  <2>4. "idle" \in Places
    BY DEF Places
  <2> QED
    BY <2>1, <2>2, <2>3, <2>4 DEF Respawn, Inv, TypeOK
<1>3. DeviceOK(d)'
  <2>1. pc'[d] = "idle" /\ resp'[d] = NoResp /\ retry'[d] = 0
    BY DEF Respawn, Inv, TypeOK
  <2>2. resp'[d].acks = {}
    BY <2>1 DEF NoResp
  <2>3. PushOK(g, d, log) /\ PullOK(g, log) /\ PushOK(backup[d], d, log) /\ PullOK(backup[d], log)
    BY DEF Inv, DeviceOK
  <2> QED
    BY <1>1, <2>1, <2>2, <2>3 DEF DeviceOK, AcksOK
<1>4. \A e \in Devices \ {d} : Untouched(e)
  BY DEF Untouched, Respawn, Inv, TypeOK
<1> QED
  BY <1>2, <1>3, <1>4, DeviceStep DEF Inv

LEMMA CrashKeeps ==
    ASSUME Inv, NEW d \in Devices, Crash(d) \/ Rekey(d) \/ Restore(d)
    PROVE  Inv'
<1>1. /\ UNCHANGED <<log, net, backup, writes>> /\ Respawn(d)
      /\ key' \in [Devices -> Keys]
  BY ZenonT(60) DEF Crash, Rekey, Restore, relayVars, Inv, TypeOK
<1>2. restores' \in [Devices -> Nat] /\ faults' \in [Devices -> Nat]
  <2>1. /\ restores \in [Devices -> Nat] /\ faults \in [Devices -> Nat]
        /\ restores[d] + 1 \in Nat /\ faults[d] + 1 \in Nat
    BY DEF Inv, TypeOK
  <2>2. \/ restores' = restores /\ faults' = [faults EXCEPT ![d] = faults[d] + 1]
        \/ faults' = faults /\ restores' = [restores EXCEPT ![d] = restores[d] + 1]
    BY DEF Crash, Rekey, Restore
  <2> QED
    BY <2>1, <2>2
<1>3. \E g \in {file[d], backup[d]} : file' = [file EXCEPT ![d] = g]
  BY DEF Crash, Rekey, Restore, Inv, TypeOK
<1> QED
  BY <1>1, <1>2, <1>3, RespawnKeeps

LEMMA BackupKeeps ==
    ASSUME Inv, NEW d \in Devices, Backup(d)
    PROVE  Inv'
<1>1. /\ backup' = [backup EXCEPT ![d] = file[d]]
      /\ UNCHANGED <<log, net, file, key, pc, reconciled, snap, req, resp, tail, page,
                     retry, writes, restores, faults>>
  BY DEF Backup, relayVars, sessionVars, historyVars
<1>2. TypeOK'
  BY <1>1 DEF Inv, TypeOK
<1>3. DeviceOK(d)'
  <2>1. backup'[d] = file[d]
    BY <1>1 DEF Inv, TypeOK
  <2> QED
    BY <1>1, <2>1 DEF Inv, DeviceOK
<1>4. \A e \in Devices \ {d} : Untouched(e)
  BY <1>1 DEF Untouched, Inv, TypeOK
<1> QED
  BY <1>1, <1>2, <1>3, <1>4, DeviceStep DEF Inv

-----------------------------------------------------------------------------
(* Drain steps that leave the files alone.                                 *)
LEMMA StartCycleKeeps ==
    ASSUME Inv, NEW d \in Devices, StartCycle(d)
    PROVE  Inv'
<1>1. UNCHANGED <<log, net, file, backup, key, reconciled, snap, req, resp, page, retry,
                  writes, restores, faults>>
  BY DEF StartCycle, relayVars, historyVars
<1>2. /\ pc[d] = "idle"
      /\ \/ pc' = [pc EXCEPT ![d] = "capture"] /\ tail' = tail
         \/ pc' = [pc EXCEPT ![d] = "reconcile"] /\ tail' = [tail EXCEPT ![d] = NoTail]
  BY DEF StartCycle
<1>3. pc'[d] \in {"capture", "reconcile"}
  BY <1>2 DEF Inv, TypeOK
<1>4. TypeOK'
  <2>0. NoTail \in [max : Nat, by : Callers]
    BY DEF NoTail, Callers
  <2>1. tail' \in [Devices -> [max : Nat, by : Callers]]
    BY <1>2, <2>0, ZenonT(60) DEF Inv, TypeOK
  <2>2. pc' \in [Devices -> Places]
    BY <1>2 DEF Inv, TypeOK, Places
  <2> QED
    BY <1>1, <2>1, <2>2 DEF Inv, TypeOK
<1>5. DeviceOK(d)'
  BY <1>1, <1>2, <1>3 DEF Inv, DeviceOK
<1>6. \A e \in Devices \ {d} : Untouched(e)
  BY <1>1, <1>2 DEF Untouched, Inv, TypeOK
<1> QED
  BY <1>1, <1>4, <1>5, <1>6, DeviceStep DEF Inv

LEMMA TailReadKeeps ==
    ASSUME Inv, NEW d \in Devices, TailRead(d)
    PROVE  Inv'
<1>1. UNCHANGED <<log, net, file, backup, key, reconciled, snap, req, resp, page, retry,
                  writes, restores, faults>>
  BY DEF TailRead, relayVars, historyVars
<1>2. PICK t \in ClientSeqsAt(d) \cup {0} : tail' = [tail EXCEPT ![d].max = t]
  BY DEF TailRead
<1>3. pc[d] = "reconcile" /\ pc' = [pc EXCEPT ![d] = "tail"]
  BY DEF TailRead
<1>4. t \in Nat
  <2>1. log \in Seq(Log!Entries)
    BY DEF Inv, TypeOK
  <2>2. \A i \in DOMAIN log : log[i].cseq \in Nat
    BY <2>1, LogEntry
  <2>3. \A c \in ClientSeqsAt(d) : \E i \in DOMAIN log : c = log[i].cseq
    BY DEF ClientSeqsAt, Log!Stored
  <2> QED
    BY <2>2, <2>3
<1>5. TypeOK'
  <2>1. tail' \in [Devices -> [max : Nat, by : Callers]]
    BY <1>2, <1>4 DEF Inv, TypeOK
  <2>2. pc' \in [Devices -> Places]
    BY <1>3 DEF Inv, TypeOK, Places
  <2> QED
    BY <1>1, <2>1, <2>2 DEF Inv, TypeOK
<1>6. DeviceOK(d)'
  <2>1. pc'[d] = "tail"
    BY <1>3 DEF Inv, TypeOK
  <2> QED
    BY <1>1, <2>1 DEF Inv, DeviceOK
<1>7. \A e \in Devices \ {d} : Untouched(e)
  BY <1>1, <1>3 DEF Untouched, Inv, TypeOK
<1> QED
  BY <1>1, <1>5, <1>6, <1>7, DeviceStep DEF Inv

LEMMA CaptureReadKeeps ==
    ASSUME Inv, NEW d \in Devices, CaptureRead(d)
    PROVE  Inv'
<1> DEFINE new == {r \in Own(file[d], d) : r.ver > file[d].pushWm}
<1>1. UNCHANGED <<log, net, file, backup, key, reconciled, req, resp, tail, page, retry,
                  writes, restores, faults>>
  BY DEF CaptureRead, relayVars, historyVars
<1>2. /\ pc[d] = "capture"
      /\ snap' = [snap EXCEPT ![d] = new]
      /\ \/ pc' = [pc EXCEPT ![d] = "push"]
         \/ pc' = [pc EXCEPT ![d] = "chunk"]
  BY DEF CaptureRead
<1>3. file[d] \in Files /\ PushOK(file[d], d, log)
  BY DEF Inv, TypeOK, DeviceOK
<1>4. new \in SUBSET LocalRows
  BY <1>3 DEF Files, Own
<1>5. CaptureOK(file[d], d, log, new)
  <2>1. \A r \in file[d].db : r.row.site = d => r.ver <= file[d].pushWm \/ r \in new
    BY <1>3 DEF Own, Files, LocalRows
  <2>2. new \subseteq file[d].db
    BY DEF Own
  <2> HIDE DEF new
  <2> QED
    BY <1>3, <2>1, <2>2 DEF CaptureOK, PushOK
<1> HIDE DEF new
<1>6. TypeOK'
  <2>1. snap' \in [Devices -> SUBSET LocalRows]
    BY <1>2, <1>4 DEF Inv, TypeOK
  <2>2. pc' \in [Devices -> Places]
    BY <1>2 DEF Inv, TypeOK, Places
  <2> QED
    BY <1>1, <2>1, <2>2 DEF Inv, TypeOK
<1>7. DeviceOK(d)'
  <2>1. pc'[d] \in {"push", "chunk"} /\ snap'[d] = new
    BY <1>2 DEF Inv, TypeOK
  <2> QED
    BY <1>1, <1>2, <1>5, <2>1 DEF Inv, DeviceOK
<1>8. \A e \in Devices \ {d} : Untouched(e)
  BY <1>1, <1>2 DEF Untouched, Inv, TypeOK
<1> QED
  BY <1>1, <1>6, <1>7, <1>8, DeviceStep DEF Inv

(* What is sent: a finite, coherent set of the device's own entries.       *)
LEMMA BatchOK ==
    ASSUME NEW d \in Devices, NEW f \in Files, NEW l, PushOK(f, d, l),
           NEW os \in SUBSET Unacked(f)
    PROVE  /\ Batch(d, os) \in SUBSET Log!Entries
           /\ RequestOK(f, d, Batch(d, os))
           /\ MessageOK([client |-> d, batch |-> Batch(d, os)])
<1>1. os \subseteq f.outbox /\ IsFiniteSet(os) /\ \A o \in os : o \in OutboxRows /\ o.seq = 0
  BY FS_Subset DEF Unacked, PushOK, Files
<1>2. \A o \in os : Entry(d, o) \in Log!Entries
  BY <1>1 DEF Entry, Log!Entries, OutboxRows
<1>3. IsFiniteSet(Batch(d, os))
  <2> DEFINE h == [o \in os |-> Entry(d, o)]
  <2>1. h \in Surjection(os, Batch(d, os))
    BY DEF Surjection, Batch
  <2> QED
    BY <1>1, <2>1, FS_Surjection DEF ExistsSurjection
<1>4. RequestOK(f, d, Batch(d, os))
  BY <1>1, <1>3 DEF RequestOK, Batch
<1>5. \A o \in os : Entry(d, o).client = d /\ Entry(d, o).cseq = o.cseq
  BY DEF Entry
<1>6. Log!Coherent(Batch(d, os))
  BY <1>1, <1>5 DEF Log!Coherent, Log!SamePair, Batch, PushOK
<1>7. MessageOK([client |-> d, batch |-> Batch(d, os)])
  BY <1>3, <1>5, <1>6 DEF MessageOK, Batch
<1> QED
  BY <1>2, <1>4, <1>7 DEF Batch

LEMMA PushSendKeeps ==
    ASSUME Inv, NEW d \in Devices, PushSend(d)
    PROVE  Inv'
<1>1. UNCHANGED <<log, file, backup, key, reconciled, snap, resp, tail, page, retry,
                  writes, restores, faults>>
  BY DEF PushSend, historyVars
<1>2. PICK os \in SUBSET Unacked(file[d]) :
         /\ req' = [req EXCEPT ![d] = Batch(d, os)]
         /\ net' = net \cup {[client |-> d, batch |-> Batch(d, os)]}
  BY DEF PushSend
<1>3. pc[d] = "push" /\ pc' = [pc EXCEPT ![d] = "await"]
  BY DEF PushSend
<1> DEFINE B == Batch(d, os)
<1>4. /\ B \in SUBSET Log!Entries
      /\ RequestOK(file[d], d, B)
      /\ MessageOK([client |-> d, batch |-> B])
  BY BatchOK DEF Inv, TypeOK, DeviceOK
<1> HIDE DEF B
<1>5. TypeOK'
  <2>1. req' \in [Devices -> SUBSET Log!Entries]
    BY <1>2, <1>4 DEF B, Inv, TypeOK
  <2>2. net' \subseteq [client : Devices, batch : SUBSET Log!Entries]
    BY <1>2, <1>4 DEF B, Inv, TypeOK
  <2>3. pc' \in [Devices -> Places]
    BY <1>3 DEF Inv, TypeOK, Places
  <2> QED
    BY <1>1, <2>1, <2>2, <2>3 DEF Inv, TypeOK
<1>6. DeviceOK(d)'
  <2>1. pc'[d] = "await" /\ req'[d] = B
    BY <1>2, <1>3 DEF B, Inv, TypeOK
  <2> QED
    BY <1>1, <1>3, <1>4, <2>1 DEF Inv, DeviceOK
<1>7. \A e \in Devices \ {d} : Untouched(e)
  BY <1>1, <1>2, <1>3 DEF Untouched, Inv, TypeOK
<1>8. \A m \in net' : MessageOK(m)
  BY <1>2, <1>4 DEF B, Inv
<1> QED
  BY <1>1, <1>5, <1>6, <1>7, <1>8, DeviceStep

LEMMA PushEndKeeps ==
    ASSUME Inv, NEW d \in Devices, PushDone(d) \/ PushTimeout(d)
    PROVE  Inv'
<1>1. UNCHANGED <<log, net, file, backup, key, reconciled, snap, resp, tail, page, retry,
                  writes, restores>>
  BY DEF PushDone, PushTimeout, relayVars, historyVars
<1>2. /\ pc[d] \in {"push", "await"} /\ pc' = [pc EXCEPT ![d] = "pull"]
      /\ req' = req \/ req' = [req EXCEPT ![d] = {}]
      /\ faults' = faults \/ faults' = [faults EXCEPT ![d] = faults[d] + 1]
  BY DEF PushDone, PushTimeout, historyVars
<1>3. TypeOK'
  <2>1. req' \in [Devices -> SUBSET Log!Entries]
    BY <1>2 DEF Inv, TypeOK
  <2>2. faults' \in [Devices -> Nat]
    <3>1. faults \in [Devices -> Nat] /\ faults[d] + 1 \in Nat
      BY DEF Inv, TypeOK
    <3> QED
      BY <1>2, <3>1
  <2>3. pc' \in [Devices -> Places]
    BY <1>2 DEF Inv, TypeOK, Places
  <2> QED
    BY <1>1, <2>1, <2>2, <2>3 DEF Inv, TypeOK
<1>4. DeviceOK(d)'
  <2>1. pc'[d] = "pull"
    BY <1>2 DEF Inv, TypeOK
  <2> QED
    BY <1>1, <1>2, <2>1 DEF Inv, DeviceOK
<1>5. \A e \in Devices \ {d} : Untouched(e)
  BY <1>1, <1>2 DEF Untouched, Inv, TypeOK
<1> QED
  BY <1>1, <1>3, <1>4, <1>5, DeviceStep DEF Inv

(* A fetched page starts right after the watermark.                        *)
LEMMA PullPageKeeps ==
    ASSUME Inv, NEW d \in Devices, PullPage(d)
    PROVE  Inv'
<1> DEFINE since == file[d].pullWm
           last  == IF Len(log) > since + PullLimit THEN since + PullLimit ELSE Len(log)
           p == [todo |-> (since + 1) .. last, next |-> last, more |-> Len(log) > last]
<1>1. UNCHANGED <<log, net, file, backup, key, reconciled, snap, req, resp, tail, retry,
                  writes, restores, faults>>
  BY DEF PullPage, relayVars, historyVars
<1>2. /\ pc[d] = "pull"
      /\ \/ pc' = [pc EXCEPT ![d] = "idle"] /\ page' = page
         \/ pc' = [pc EXCEPT ![d] = "merge"] /\ page' = [page EXCEPT ![d] = p]
  BY DEF PullPage
<1>3. since \in Nat /\ Len(log) \in Nat /\ PullLimit \in Nat /\ PullOK(file[d], log)
  BY LimitsAssumption DEF Inv, TypeOK, DeviceOK, Files
<1>4. last \in Nat /\ last <= Len(log)
  BY <1>3
<1>5. p \in [todo : SUBSET Nat, next : Nat, more : BOOLEAN] /\ PageOK(file[d], log, p)
  <2>1. DOMAIN log = 1 .. Len(log)
    BY DEF Inv, TypeOK
  <2>2. \A i \in 1 .. last : i \in (since + 1) .. last \/ i \in 1 .. since
    BY <1>3, <1>4
  <2>3. (since + 1) .. last \subseteq 1 .. Len(log)
    BY <1>3, <1>4
  <2> HIDE DEF since, last
  <2>4. p.next = last /\ p.todo = (since + 1) .. last
    OBVIOUS
  <2>5. p \in [todo : SUBSET Nat, next : Nat, more : BOOLEAN]
    BY <1>4, <1>3
  <2> HIDE DEF p
  <2>6. PageOK(file[d], log, p)
    BY <1>3, <1>4, <2>1, <2>2, <2>3, <2>4 DEF PageOK, PullOK, since
  <2> QED
    BY <2>5, <2>6
<1> HIDE DEF p
<1>6. TypeOK'
  <2>1. page' \in [Devices -> [todo : SUBSET Nat, next : Nat, more : BOOLEAN]]
    BY <1>2, <1>5 DEF Inv, TypeOK
  <2>2. pc' \in [Devices -> Places]
    BY <1>2 DEF Inv, TypeOK, Places
  <2> QED
    BY <1>1, <2>1, <2>2 DEF Inv, TypeOK
<1>7. DeviceOK(d)'
  <2>1. pc'[d] = "idle" \/ (pc'[d] = "merge" /\ page'[d] = p)
    BY <1>2 DEF Inv, TypeOK
  <2> QED
    BY <1>1, <1>2, <1>5, <2>1 DEF Inv, DeviceOK
<1>8. \A e \in Devices \ {d} : Untouched(e)
  BY <1>1, <1>2 DEF Untouched, Inv, TypeOK
<1> QED
  BY <1>1, <1>6, <1>7, <1>8, DeviceStep DEF Inv

LEMMA StepFailsKeeps ==
    ASSUME Inv, NEW d \in Devices, StepFails(d)
    PROVE  Inv'
<1>1. /\ UNCHANGED <<log, net, file, backup, key, reconciled, req, retry, writes, restores>>
      /\ faults' = [faults EXCEPT ![d] = faults[d] + 1]
      /\ snap' = [snap EXCEPT ![d] = {}]
      /\ resp' = [resp EXCEPT ![d] = NoResp]
      /\ tail' = [tail EXCEPT ![d] = NoTail]
      /\ page' = [page EXCEPT ![d] = NoPage]
  BY DEF StepFails, relayVars
<1>2. \E q \in {"pull", "idle"} : pc' = [pc EXCEPT ![d] = q]
  BY DEF StepFails
<1>3. TypeOK'
  <2>1. NoResp \in [conflict : BOOLEAN, acks : SUBSET Acks]
    BY DEF NoResp
  <2>2. NoTail \in [max : Nat, by : Callers] /\ NoPage \in [todo : SUBSET Nat, next : Nat, more : BOOLEAN]
    BY DEF NoTail, NoPage, Callers
  <2>3. pc' \in [Devices -> Places]
    BY <1>2 DEF Inv, TypeOK, Places
  <2>4. faults' \in [Devices -> Nat]
    BY <1>1 DEF Inv, TypeOK
  <2> QED
    BY <1>1, <2>1, <2>2, <2>3, <2>4 DEF Inv, TypeOK
<1>4. DeviceOK(d)'
  <2>1. pc'[d] \in {"pull", "idle"} /\ resp'[d] = NoResp
    BY <1>1, <1>2 DEF Inv, TypeOK
  <2>2. resp'[d].acks = {}
    BY <2>1 DEF NoResp
  <2> QED
    BY <1>1, <2>1, <2>2 DEF Inv, DeviceOK, AcksOK
<1>5. \A e \in Devices \ {d} : Untouched(e)
  BY <1>1, <1>2 DEF Untouched, Inv, TypeOK
<1> QED
  BY <1>1, <1>3, <1>4, <1>5, DeviceStep DEF Inv

-----------------------------------------------------------------------------
(* Drain steps that commit to the file.                                    *)
LEMMA TailApplyKeeps ==
    ASSUME Inv, NEW d \in Devices, TailApply(d)
    PROVE  Inv'
<1> DEFINE f == file[d]
           t == tail[d].max
           dups == {a \in resp[d].acks : a.dup}
<1>1. /\ UNCHANGED <<log, net, backup, key, snap, req, page, retry, writes, restores, faults>>
      /\ reconciled' = [reconciled EXCEPT ![d] = TRUE]
      /\ tail' = [tail EXCEPT ![d] = NoTail]
      /\ resp' = [resp EXCEPT ![d] = NoResp]
  BY DEF TailApply, relayVars, historyVars
<1>2. \E q \in {"capture", "push", "pull"} : pc' = [pc EXCEPT ![d] = q]
  BY DEF TailApply
<1>3. /\ f \in Files /\ f.cseq \in Nat /\ t \in Nat /\ dups \in SUBSET Acks
      /\ log \in Seq(Log!Entries) /\ file \in [Devices -> Files]
      /\ PushOK(f, d, log) /\ PullOK(f, log) /\ AcksOK(f, d, log, dups)
  <2>1. f \in Files /\ log \in Seq(Log!Entries) /\ file \in [Devices -> Files]
    BY DEF Inv, TypeOK
  <2>2. tail[d] \in [max : Nat, by : Callers] /\ resp[d] \in [conflict : BOOLEAN, acks : SUBSET Acks]
    BY DEF Inv, TypeOK
  <2>3. t \in Nat /\ dups \in SUBSET Acks /\ f.cseq \in Nat
    BY <2>1, <2>2 DEF Files
  <2>4. AcksOK(f, d, log, dups)
    BY DEF Inv, DeviceOK, AcksOK
  <2> QED
    BY <2>1, <2>3, <2>4 DEF Inv, DeviceOK
<1>4. PICK g : /\ file' = [file EXCEPT ![d] = g]
               /\ \/ g = f
                  \/ g = Ack(f, dups)
                  \/ \E x \in Nat : f.cseq <= x /\ g = Reseed(f, x)
  <2>1. \/ file' = file
        \/ file' = [file EXCEPT ![d] = Ack(f, dups)]
        \/ t > f.cseq /\ file' = [file EXCEPT ![d] = Reseed(f, t)]
        \/ file' = [file EXCEPT ![d] = Reseed(f, f.cseq)]
    BY DEF TailApply
  <2> HIDE DEF f, t, dups
  <2>2. file = [file EXCEPT ![d] = f]
    BY <1>3 DEF f
  <2>3. f.cseq <= f.cseq /\ (t > f.cseq => f.cseq <= t)
    BY <1>3
  <2> QED
    BY <1>3, <2>1, <2>2, <2>3
<1> HIDE DEF f, t, dups
<1>5. /\ g \in Files /\ PushOK(g, d, log) /\ Has(g) = Has(f)
      /\ g.quar = f.quar /\ g.pullWm = f.pullWm
  BY <1>3, <1>4, AckKeeps, ReseedKeeps
<1>6. PullOK(g, log)
  BY <1>3, <1>5, CoveredKeeps
<1>7. TypeOK'
  <2>1. NoResp \in [conflict : BOOLEAN, acks : SUBSET Acks] /\ NoTail \in [max : Nat, by : Callers]
    BY DEF NoResp, NoTail, Callers
  <2>2. file' \in [Devices -> Files]
    BY <1>3, <1>4, <1>5
  <2>3. pc' \in [Devices -> Places]
    BY <1>2 DEF Inv, TypeOK, Places
  <2> QED
    BY <1>1, <2>1, <2>2, <2>3 DEF Inv, TypeOK
<1>8. DeviceOK(d)'
  <2>1. pc'[d] \in {"capture", "push", "pull"} /\ resp'[d] = NoResp /\ file'[d] = g
    BY <1>1, <1>2, <1>4 DEF Inv, TypeOK
  <2>2. resp'[d].acks = {}
    BY <2>1 DEF NoResp
  <2> QED
    BY <1>1, <1>5, <1>6, <2>1, <2>2 DEF f, Inv, DeviceOK, AcksOK
<1>9. \A e \in Devices \ {d} : Untouched(e)
  BY <1>1, <1>2, <1>4 DEF Untouched, Inv, TypeOK
<1> QED
  BY <1>1, <1>7, <1>8, <1>9, DeviceStep DEF Inv

LEMMA CaptureChunkKeeps ==
    ASSUME Inv, NEW d \in Devices, CaptureChunk(d)
    PROVE  Inv'
<1> DEFINE f == file[d]
           s == snap[d]
           ct(c) == [rows |-> {r.row : r \in c}, key |-> key[d], inc |-> restores[d]]
<1>1. UNCHANGED <<log, net, backup, key, reconciled, req, resp, tail, page, retry,
                  writes, restores, faults>>
  BY DEF CaptureChunk, relayVars, historyVars
<1>2. PICK chunk \in SUBSET s :
         /\ \E w \in {r.ver : r \in chunk} \cup {f.pushWm} :
               /\ IsCommitWatermark(w, chunk, s \ chunk, f.pushWm)
               /\ file' = [file EXCEPT
                     ![d].cseq = @ + 1,
                     ![d].outbox = @ \cup {[cseq |-> f.cseq + 1, ct |-> ct(chunk), seq |-> 0]},
                     ![d].pushWm = w]
         /\ snap' = [snap EXCEPT ![d] = s \ chunk]
         /\ \/ pc' = [pc EXCEPT ![d] = "push"]
            \/ pc' = [pc EXCEPT ![d] = "chunk"]
  BY DEF CaptureChunk
<1>w. PICK w \in {r.ver : r \in chunk} \cup {f.pushWm} :
               /\ IsCommitWatermark(w, chunk, s \ chunk, f.pushWm)
               /\ file' = [file EXCEPT
                     ![d].cseq = @ + 1,
                     ![d].outbox = @ \cup {[cseq |-> f.cseq + 1, ct |-> ct(chunk), seq |-> 0]},
                     ![d].pushWm = w]
  BY <1>2
<1> DEFINE sealed == ct(chunk)
           g == CommitChunk(f, sealed, w)
<1>3. /\ f \in Files /\ s \in SUBSET LocalRows /\ log \in Seq(Log!Entries)
      /\ file \in [Devices -> Files] /\ key[d] \in Keys /\ restores[d] \in Nat
  BY DEF Inv, TypeOK
<1>4. /\ PushOK(f, d, log) /\ PullOK(f, log)
      /\ pc[d] = "chunk" /\ CaptureOK(f, d, log, s)
  BY DEF CaptureChunk, Inv, DeviceOK
<1>5. sealed \in Sealed /\ \A r \in chunk : r.row \in sealed.rows
  <2>1. {r.row : r \in chunk} \in SUBSET Rows
    BY <1>3 DEF LocalRows
  <2> QED
    BY <1>3, <2>1 DEF Sealed
<1>6. file' = [file EXCEPT ![d] = g]
  BY <1>w, <1>3 DEF CommitChunk
<1> DEFINE rest == s \ chunk
<1>c. IsCommitWatermark(w, chunk, rest, f.pushWm) /\ rest = s \ chunk /\ chunk \in SUBSET s
  BY <1>w
<1> HIDE DEF f, s, sealed, rest
<1>7. /\ g \in Files /\ PushOK(g, d, log) /\ CaptureOK(g, d, log, rest)
      /\ Has(g) = Has(f) /\ g.quar = f.quar /\ g.pullWm = f.pullWm
  <2> HIDE DEF ct
  <2>1. /\ f \in Files /\ d \in Devices /\ PushOK(f, d, log) /\ log \in Seq(Log!Entries)
        /\ s \in SUBSET LocalRows /\ CaptureOK(f, d, log, s)
        /\ sealed \in Sealed /\ \A r \in chunk : r.row \in sealed.rows
    BY <1>3, <1>4, <1>5
  <2>2. g \in Files /\ PushOK(g, d, log)
    BY <2>1, <1>c, ChunkKeeps
  <2>3. CaptureOK(g, d, log, rest)
    BY <2>1, <1>c, ChunkKeeps
  <2>4. g.db = f.db /\ g.quar = f.quar /\ g.pullWm = f.pullWm
    BY <1>3 DEF CommitChunk, Files
  <2> QED
    BY <2>2, <2>3, <2>4 DEF Has
<1> HIDE DEF g
<1>8. PullOK(g, log)
  BY <1>3, <1>4, <1>7, CoveredKeeps
<1>9. TypeOK'
  <2>1. file' \in [Devices -> Files]
    BY <1>3, <1>6, <1>7
  <2>2. snap' \in [Devices -> SUBSET LocalRows]
    BY <1>2, <1>3 DEF Inv, TypeOK
  <2>3. pc' \in [Devices -> Places]
    BY <1>2 DEF Inv, TypeOK, Places
  <2> QED
    BY <1>1, <2>1, <2>2, <2>3 DEF Inv, TypeOK
<1>10. DeviceOK(d)'
  <2>1. pc'[d] \in {"push", "chunk"}
    BY <1>2 DEF Inv, TypeOK
  <2>2. snap'[d] = rest /\ file'[d] = g
    BY <1>2, <1>6, <1>3 DEF rest, Inv, TypeOK
  <2>3. resp'[d].acks = {}
    BY <1>1, <1>4 DEF Inv, DeviceOK
  <2> QED
    BY <1>1, <1>4, <1>7, <1>8, <2>1, <2>2, <2>3 DEF f, Inv, DeviceOK, AcksOK
<1>11. \A e \in Devices \ {d} : Untouched(e)
  BY <1>1, <1>2, <1>6 DEF Untouched, Inv, TypeOK
<1> QED
  BY <1>1, <1>9, <1>10, <1>11, DeviceStep DEF Inv

LEMMA PushAckKeeps ==
    ASSUME Inv, NEW d \in Devices, PushAck(d)
    PROVE  Inv'
<1> DEFINE f == file[d]
           firsts == {a \in resp[d].acks : ~a.dup}
           conflictTail == [max |-> 0, by |-> "conflict"]
           dedupTail == [max |-> 0, by |-> "dedup"]
<1>1. /\ UNCHANGED <<log, net, backup, key, snap, page, retry, writes, restores, faults>>
      /\ req' = [req EXCEPT ![d] = {}]
  BY DEF PushAck, relayVars, historyVars
<1>2. /\ pc[d] = "resp"
      /\ reconciled' = reconciled \/ reconciled' = [reconciled EXCEPT ![d] = FALSE]
      /\ \/ tail' = tail
         \/ tail' = [tail EXCEPT ![d] = conflictTail]
         \/ tail' = [tail EXCEPT ![d] = dedupTail]
  BY DEF PushAck
<1>3. \/ resp' = resp /\ pc' = [pc EXCEPT ![d] = "reconcile"]
      \/ /\ resp' = [resp EXCEPT ![d] = NoResp]
         /\ \E q \in {"reconcile", "push", "pull"} : pc' = [pc EXCEPT ![d] = q]
  BY DEF PushAck
<1>4. /\ f \in Files /\ firsts \in SUBSET Acks
      /\ log \in Seq(Log!Entries) /\ file \in [Devices -> Files]
      /\ PushOK(f, d, log) /\ PullOK(f, log)
      /\ AcksOK(f, d, log, firsts) /\ AcksOK(f, d, log, resp[d].acks)
  <2>1. f \in Files /\ log \in Seq(Log!Entries) /\ file \in [Devices -> Files]
    BY DEF Inv, TypeOK
  <2>2. resp[d] \in [conflict : BOOLEAN, acks : SUBSET Acks]
    BY DEF Inv, TypeOK
  <2>3. firsts \in SUBSET Acks
    BY <2>2
  <2>4. AcksOK(f, d, log, firsts)
    BY DEF Inv, DeviceOK, AcksOK
  <2> QED
    BY <2>1, <2>3, <2>4 DEF Inv, DeviceOK
<1>5. PICK g : file' = [file EXCEPT ![d] = g] /\ (g = f \/ g = Ack(f, firsts))
  <2>1. file' = file \/ file' = [file EXCEPT ![d] = Ack(f, firsts)]
    BY DEF PushAck
  <2> HIDE DEF f, firsts
  <2>2. file = [file EXCEPT ![d] = f]
    BY <1>4 DEF f
  <2> QED
    BY <2>1, <2>2
<1>6. /\ conflictTail \in [max : Nat, by : Callers]
      /\ dedupTail \in [max : Nat, by : Callers]
  BY DEF Callers
<1> HIDE DEF f, firsts, conflictTail, dedupTail
<1>7. /\ g \in Files /\ PushOK(g, d, log) /\ Has(g) = Has(f)
      /\ g.quar = f.quar /\ g.pullWm = f.pullWm
      /\ AcksOK(g, d, log, resp[d].acks)
  BY <1>4, <1>5, AckKeeps
<1>8. PullOK(g, log)
  BY <1>4, <1>7, CoveredKeeps
<1>9. TypeOK'
  <2>1. NoResp \in [conflict : BOOLEAN, acks : SUBSET Acks]
    BY DEF NoResp
  <2>2. file' \in [Devices -> Files]
    BY <1>4, <1>5, <1>7
  <2>3. pc' \in [Devices -> Places]
    BY <1>3 DEF Inv, TypeOK, Places
  <2>4. resp' \in [Devices -> [conflict : BOOLEAN, acks : SUBSET Acks]]
    BY <1>3, <2>1, ZenonT(60) DEF Inv, TypeOK
  <2>5. tail' \in [Devices -> [max : Nat, by : Callers]]
    <3>1. tail \in [Devices -> [max : Nat, by : Callers]]
      BY DEF Inv, TypeOK
    <3> QED
      BY <1>2, <1>6, <3>1
  <2>6. reconciled' \in [Devices -> BOOLEAN] /\ req' \in [Devices -> SUBSET Log!Entries]
    BY <1>1, <1>2 DEF Inv, TypeOK
  <2> QED
    BY <1>1, <2>2, <2>3, <2>4, <2>5, <2>6 DEF Inv, TypeOK
<1>10. DeviceOK(d)'
  <2>1. file'[d] = g
    BY <1>4, <1>5
  <2>2. NoResp.acks = {}
    BY DEF NoResp
  <2>3. \/ pc'[d] = "reconcile" /\ resp'[d] = resp[d]
        \/ pc'[d] \in {"reconcile", "push", "pull"} /\ resp'[d].acks = {}
    BY <1>3, <2>2 DEF Inv, TypeOK
  <2>4. AcksOK(g, d, log, resp'[d].acks)
    BY <1>7, <2>3 DEF AcksOK
  <2> QED
    BY <1>1, <1>7, <1>8, <2>1, <2>3, <2>4 DEF f, Inv, DeviceOK
<1>11. \A e \in Devices \ {d} : Untouched(e)
  BY <1>1, <1>3, <1>5 DEF Untouched, Inv, TypeOK
<1> QED
  BY <1>1, <1>9, <1>10, <1>11, DeviceStep DEF Inv

(* A merge adds the rows that are not there yet.                           *)
LEMMA MergeKeeps ==
    ASSUME NEW l \in Seq(Log!Entries), NEW f \in Files, NEW d \in Devices,
           NEW rows \in SUBSET Rows, PushOK(f, d, l)
    PROVE  /\ Merge(f, rows) \in Files
           /\ PushOK(Merge(f, rows), d, l)
           /\ \A s : CaptureOK(f, d, l, s) => CaptureOK(Merge(f, rows), d, l, s)
           /\ \A q : RequestOK(f, d, q) => RequestOK(Merge(f, rows), d, q)
           /\ \A acks : AcksOK(f, d, l, acks) => AcksOK(Merge(f, rows), d, l, acks)
           /\ Has(f) \subseteq Has(Merge(f, rows))
           /\ rows \subseteq Has(Merge(f, rows))
           /\ Merge(f, rows).quar = f.quar
           /\ Merge(f, rows).pullWm = f.pullWm
<1>1. CASE rows \subseteq Has(f)
  BY <1>1 DEF Merge
<1>2. CASE ~(rows \subseteq Has(f))
  <2> DEFINE more == rows \ Has(f)
             g == AddRows(f, more)
  <2>1. Merge(f, rows) = g
    BY <1>2 DEF Merge, AddRows
  <2>2. more \in SUBSET Rows /\ rows \subseteq more \cup Has(f)
    OBVIOUS
  <2> HIDE DEF more
  <2>3. /\ g \in Files
        /\ PushOK(g, d, l)
        /\ \A s : CaptureOK(f, d, l, s) => CaptureOK(g, d, l, s)
        /\ \A q : RequestOK(f, d, q) => RequestOK(g, d, q)
        /\ \A acks : AcksOK(f, d, l, acks) => AcksOK(g, d, l, acks)
        /\ Has(f) \subseteq Has(g)
        /\ more \subseteq Has(g)
        /\ g.quar = f.quar
        /\ g.pullWm = f.pullWm
    BY <2>2, AddRowsKeeps
  <2> HIDE DEF g
  <2>4. rows \subseteq Has(g)
    BY <2>2, <2>3
  <2> QED
    BY <2>1, <2>3, <2>4
<1> QED
  BY <1>1, <1>2

LEMMA MergeOneKeeps ==
    ASSUME Inv, NEW d \in Devices, MergeOne(d)
    PROVE  Inv'
<1> DEFINE f == file[d]
<1>1. UNCHANGED <<log, net, backup, key, pc, reconciled, snap, req, resp, tail, retry,
                  writes, restores, faults>>
  BY DEF MergeOne, relayVars, historyVars
<1>2. PICK i \in page[d].todo :
         /\ file' = [file EXCEPT ![d] = IF Decodes(d, i) THEN Merge(f, log[i].ct.rows)
                                        ELSE Quarantine(f, i)]
         /\ page' = [page EXCEPT ![d].todo = @ \ {i}]
  BY DEF MergeOne
<1> DEFINE g == IF Decodes(d, i) THEN Merge(f, log[i].ct.rows) ELSE Quarantine(f, i)
           p == page[d]
           q == [p EXCEPT !.todo = p.todo \ {i}]
<1>3. /\ f \in Files /\ log \in Seq(Log!Entries) /\ file \in [Devices -> Files]
      /\ p \in [todo : SUBSET Nat, next : Nat, more : BOOLEAN]
      /\ page \in [Devices -> [todo : SUBSET Nat, next : Nat, more : BOOLEAN]]
  BY DEF Inv, TypeOK
<1>4. /\ pc[d] = "merge" /\ PushOK(f, d, log) /\ PullOK(f, log) /\ PageOK(f, log, p)
      /\ AcksOK(f, d, log, resp[d].acks) /\ resp[d].acks = {}
  BY DEF MergeOne, Inv, DeviceOK
<1>5. i \in DOMAIN log /\ log[i].ct.rows \in SUBSET Rows /\ i \in Nat
  <2>1. i \in DOMAIN log
    BY <1>4 DEF PageOK
  <2> QED
    BY <2>1, <1>3, LogEntry
<1>6. file' = [file EXCEPT ![d] = g] /\ page' = [page EXCEPT ![d] = q]
  BY <1>2
<1>7. /\ q \in [todo : SUBSET Nat, next : Nat, more : BOOLEAN]
      /\ q.todo = p.todo \ {i} /\ q.next = p.next
  BY <1>3
<1> HIDE DEF f, p, q
<1>8. /\ g \in Files /\ PushOK(g, d, log) /\ Has(f) \subseteq Has(g)
      /\ PullOK(g, log) /\ Covered(g, log, i)
      /\ \A j : Covered(f, log, j) => Covered(g, log, j)
      /\ AcksOK(g, d, log, resp[d].acks)
  <2>1. CASE Decodes(d, i)
    <3> DEFINE rows == log[i].ct.rows
    <3> HIDE DEF rows
    <3>1. g = Merge(f, rows) /\ rows \in SUBSET Rows
      BY <2>1, <1>5 DEF rows
    <3> HIDE DEF g
    <3>2. /\ g \in Files /\ PushOK(g, d, log) /\ Has(f) \subseteq Has(g)
          /\ rows \subseteq Has(g) /\ g.quar = f.quar /\ g.pullWm = f.pullWm
          /\ AcksOK(g, d, log, resp[d].acks)
      BY <1>3, <1>4, <3>1, MergeKeeps
    <3>3. PullOK(g, log) /\ \A j : Covered(f, log, j) => Covered(g, log, j)
      BY <1>3, <1>4, <3>2, CoveredKeeps
    <3> QED
      BY <3>2, <3>3 DEF Covered, rows
  <2>2. CASE ~Decodes(d, i)
    <3>1. g = Quarantine(f, i)
      BY <2>2
    <3>2. /\ g \in Files /\ g.db = f.db /\ g.dbv = f.dbv /\ g.outbox = f.outbox
          /\ g.cseq = f.cseq /\ g.pushWm = f.pushWm
          /\ g.quar = f.quar \cup {i} /\ g.pullWm = f.pullWm
      <4>1. f.quar \cup {i} \in SUBSET Nat
        BY <1>3, <1>5 DEF Files
      <4>2. g = [f EXCEPT !.quar = f.quar \cup {i}]
        BY <3>1, <1>3 DEF Quarantine, Files
      <4> HIDE DEF g
      <4> QED
        BY <4>1, <4>2, <1>3 DEF Files
    <3> HIDE DEF g
    <3>3. PushOK(g, d, log) /\ Has(g) = Has(f) /\ AcksOK(g, d, log, resp[d].acks)
      BY <1>3, <1>4, <3>2, SameOutboxKeeps
    <3>4. \A j : Covered(f, log, j) => Covered(g, log, j)
      BY <3>2, <3>3 DEF Covered
    <3>5. PullOK(g, log) /\ Covered(g, log, i)
      BY <1>4, <1>5, <3>2, <3>4 DEF PullOK, Covered
    <3> QED
      BY <3>2, <3>3, <3>4, <3>5
  <2> QED
    BY <2>1, <2>2
<1> HIDE DEF g
<1>9. PageOK(g, log, q)
  <2>1. \A j \in 1 .. q.next : j \in q.todo \/ Covered(g, log, j)
    BY <1>4, <1>7, <1>8 DEF PageOK
  <2> QED
    BY <1>4, <1>7, <2>1 DEF PageOK
<1>10. TypeOK'
  <2>1. file' \in [Devices -> Files]
    BY <1>3, <1>6, <1>8
  <2>2. page' \in [Devices -> [todo : SUBSET Nat, next : Nat, more : BOOLEAN]]
    BY <1>3, <1>6, <1>7
  <2> QED
    BY <1>1, <2>1, <2>2 DEF Inv, TypeOK
<1>11. DeviceOK(d)'
  <2>1. file'[d] = g /\ page'[d] = q
    BY <1>3, <1>6
  <2>2. retry[d] # 0 => retry[d] \in DOMAIN log /\ log[retry[d]].ct.rows \subseteq Has(g)
    BY <1>8 DEF f, Inv, DeviceOK
  <2> QED
    BY <1>1, <1>4, <1>8, <1>9, <2>1, <2>2 DEF Inv, DeviceOK
<1>12. \A e \in Devices \ {d} : Untouched(e)
  BY <1>1, <1>3, <1>6 DEF Untouched
<1> QED
  BY <1>1, <1>10, <1>11, <1>12, DeviceStep DEF Inv

LEMMA PageDoneKeeps ==
    ASSUME Inv, NEW d \in Devices, PageDone(d)
    PROVE  Inv'
<1> DEFINE f == file[d]
           p == page[d]
           g == [f EXCEPT !.pullWm = p.next]
<1>1. UNCHANGED <<log, net, backup, key, reconciled, snap, req, resp, tail, retry,
                  writes, restores, faults>>
  BY DEF PageDone, relayVars, historyVars
<1>2. /\ f \in Files /\ log \in Seq(Log!Entries) /\ file \in [Devices -> Files]
      /\ p \in [todo : SUBSET Nat, next : Nat, more : BOOLEAN]
  BY DEF Inv, TypeOK
<1>3. /\ file' = [file EXCEPT ![d] = g]
      /\ page' = [page EXCEPT ![d] = NoPage]
      /\ p.todo = {}
  BY <1>2 DEF PageDone
<1>4. pc[d] = "merge" /\ \E x \in {"pull", "idle"} : pc' = [pc EXCEPT ![d] = x]
  BY DEF PageDone
<1>5. /\ PushOK(f, d, log) /\ PullOK(f, log) /\ PageOK(f, log, p)
      /\ AcksOK(f, d, log, resp[d].acks) /\ resp[d].acks = {}
  BY <1>4 DEF Inv, DeviceOK
<1> HIDE DEF f, p
<1>6. /\ g \in Files /\ g.db = f.db /\ g.dbv = f.dbv /\ g.outbox = f.outbox
      /\ g.cseq = f.cseq /\ g.pushWm = f.pushWm
      /\ g.quar = f.quar /\ g.pullWm = p.next
  BY <1>2 DEF Files
<1> HIDE DEF g
<1>7. PushOK(g, d, log) /\ Has(g) = Has(f) /\ AcksOK(g, d, log, resp[d].acks)
  BY <1>2, <1>5, <1>6, SameOutboxKeeps
<1>8. PullOK(g, log)
  BY <1>3, <1>5, <1>6, <1>7 DEF PullOK, PageOK, Covered
<1>9. TypeOK'
  <2>1. file' \in [Devices -> Files]
    BY <1>2, <1>3, <1>6
  <2>2. NoPage \in [todo : SUBSET Nat, next : Nat, more : BOOLEAN]
    BY DEF NoPage
  <2>3. pc' \in [Devices -> Places]
    BY <1>4 DEF Inv, TypeOK, Places
  <2> QED
    BY <1>1, <1>3, <2>1, <2>2, <2>3 DEF Inv, TypeOK
<1>10. DeviceOK(d)'
  <2>1. file'[d] = g /\ pc'[d] \in {"pull", "idle"}
    BY <1>2, <1>3, <1>4 DEF Inv, TypeOK
  <2>2. retry[d] # 0 => retry[d] \in DOMAIN log /\ log[retry[d]].ct.rows \subseteq Has(g)
    BY <1>7 DEF f, Inv, DeviceOK
  <2> QED
    BY <1>1, <1>5, <1>7, <1>8, <2>1, <2>2 DEF Inv, DeviceOK
<1>11. \A e \in Devices \ {d} : Untouched(e)
  BY <1>1, <1>3, <1>4 DEF Untouched, Inv, TypeOK
<1> QED
  BY <1>1, <1>9, <1>10, <1>11, DeviceStep DEF Inv

(* The manual retry: merge first, forget afterwards.                       *)
LEMMA RetryKeeps ==
    ASSUME Inv, NEW d \in Devices, RetryMerge(d) \/ RetryDelete(d)
    PROVE  Inv'
<1> DEFINE f == file[d]
<1>1. UNCHANGED <<log, net, backup, key, pc, reconciled, snap, req, resp, tail, page,
                  writes, restores, faults>>
  BY DEF RetryMerge, RetryDelete, relayVars, historyVars
<1>2. /\ f \in Files /\ log \in Seq(Log!Entries) /\ file \in [Devices -> Files]
      /\ retry \in [Devices -> Nat]
  BY DEF Inv, TypeOK
<1>3. /\ PushOK(f, d, log) /\ PullOK(f, log)
      /\ AcksOK(f, d, log, resp[d].acks)
  BY DEF Inv, DeviceOK
<1>4. PICK g \in Files, k \in Nat :
         /\ file' = [file EXCEPT ![d] = g] /\ retry' = [retry EXCEPT ![d] = k]
         /\ PushOK(g, d, log) /\ PullOK(g, log)
         /\ \A s : CaptureOK(f, d, log, s) => CaptureOK(g, d, log, s)
         /\ \A q : RequestOK(f, d, q) => RequestOK(g, d, q)
         /\ AcksOK(g, d, log, resp[d].acks)
         /\ \A j \in DOMAIN log : Covered(f, log, j) => Covered(g, log, j)
         /\ k # 0 => k \in DOMAIN log /\ log[k].ct.rows \subseteq Has(g)
  <2>1. CASE RetryMerge(d)
    <3>1. PICK i \in f.quar : /\ file' = [file EXCEPT ![d] = Merge(f, log[i].ct.rows)]
                              /\ retry' = [retry EXCEPT ![d] = i]
      BY <2>1 DEF RetryMerge
    <3> DEFINE rows == log[i].ct.rows
               g == Merge(f, rows)
    <3>2. i \in DOMAIN log /\ i \in Nat
      BY <1>2, <1>3 DEF PullOK, Files
    <3>3. rows \in SUBSET Rows
      BY <1>2, <3>2, LogEntry
    <3>4. file' = [file EXCEPT ![d] = g]
      BY <3>1
    <3> HIDE DEF f, rows
    <3>5. /\ g \in Files /\ PushOK(g, d, log) /\ Has(f) \subseteq Has(g)
          /\ \A s : CaptureOK(f, d, log, s) => CaptureOK(g, d, log, s)
          /\ \A q : RequestOK(f, d, q) => RequestOK(g, d, q)
          /\ AcksOK(g, d, log, resp[d].acks)
          /\ rows \subseteq Has(g) /\ g.quar = f.quar /\ g.pullWm = f.pullWm
      BY <1>2, <1>3, <3>3, MergeKeeps
    <3> HIDE DEF g
    <3>6. PullOK(g, log) /\ \A j : Covered(f, log, j) => Covered(g, log, j)
      BY <1>2, <1>3, <3>5, CoveredKeeps
    <3>7. log[i].ct.rows \subseteq Has(g)
      BY <3>5 DEF rows
    <3> QED
      BY <3>1, <3>2, <3>4, <3>5, <3>6, <3>7
  <2>2. CASE RetryDelete(d)
    <3> DEFINE i == retry[d]
               g == [f EXCEPT !.quar = f.quar \ {i}]
    <3>1. /\ file' = [file EXCEPT ![d] = g] /\ retry' = [retry EXCEPT ![d] = 0] /\ i # 0
      BY <2>2 DEF RetryDelete
    <3>2. log[i].ct.rows \subseteq Has(f)
      BY <3>1 DEF Inv, DeviceOK
    <3> HIDE DEF f, i
    <3>3. /\ g \in Files /\ g.db = f.db /\ g.dbv = f.dbv /\ g.outbox = f.outbox
          /\ g.cseq = f.cseq /\ g.pushWm = f.pushWm
          /\ g.quar = f.quar \ {i} /\ g.pullWm = f.pullWm
      <4>1. f.quar \ {i} \in SUBSET Nat
        BY <1>2 DEF Files
      <4> QED
        BY <1>2, <4>1 DEF Files
    <3> HIDE DEF g
    <3>4. /\ PushOK(g, d, log) /\ Has(g) = Has(f)
          /\ \A s : CaptureOK(f, d, log, s) => CaptureOK(g, d, log, s)
          /\ \A q : RequestOK(f, d, q) => RequestOK(g, d, q)
          /\ AcksOK(g, d, log, resp[d].acks)
      BY <1>2, <1>3, <3>3, SameOutboxKeeps
    <3>5. \A j : Covered(f, log, j) => Covered(g, log, j)
      BY <3>2, <3>3, <3>4 DEF Covered
    <3>6. PullOK(g, log)
      BY <1>3, <3>3, <3>5 DEF PullOK
    <3> QED
      BY <3>1, <3>3, <3>4, <3>5, <3>6
  <2> QED
    BY <2>1, <2>2
<1>5. PageOK(f, log, page[d]) => PageOK(g, log, page[d])
  <2>1. \A j \in 1 .. page[d].next : j \in DOMAIN log \/ ~(page[d].next <= Len(log))
    BY <1>2 DEF Inv, TypeOK
  <2> HIDE DEF f
  <2> QED
    BY <1>4, <2>1 DEF PageOK
<1>6. TypeOK'
  BY <1>1, <1>2, <1>4 DEF Inv, TypeOK
<1>7. DeviceOK(d)'
  <2>1. file'[d] = g /\ retry'[d] = k
    BY <1>2, <1>4
  <2> QED
    BY <1>1, <1>4, <1>5, <2>1 DEF Inv, DeviceOK
<1>8. \A e \in Devices \ {d} : Untouched(e)
  BY <1>1, <1>2, <1>4 DEF Untouched
<1> QED
  BY <1>1, <1>6, <1>7, <1>8, DeviceStep DEF Inv

-----------------------------------------------------------------------------
(* The relay's step, with the log growing under every device.              *)
LEMMA GrowthDevice ==
    ASSUME Inv, NEW e \in Devices, Untouched(e), log' \in Seq(Log!Entries), Extends(log, log')
    PROVE  DeviceOK(e)'
<1>1. /\ log \in Seq(Log!Entries) /\ file[e] \in Files /\ backup[e] \in Files
      /\ page[e] \in [todo : SUBSET Nat, next : Nat, more : BOOLEAN]
  BY DEF Inv, TypeOK
<1>2. DeviceOK(e)
  BY DEF Inv
<1>3. /\ PushOK(file[e], e, log') /\ PullOK(file[e], log')
      /\ PushOK(backup[e], e, log') /\ PullOK(backup[e], log')
  BY <1>1, <1>2, GrowthKeeps DEF DeviceOK
<1>4. /\ pc[e] = "chunk" => CaptureOK(file[e], e, log', snap[e])
      /\ AcksOK(file[e], e, log', resp[e].acks)
      /\ pc[e] = "merge" => PageOK(file[e], log', page[e])
  BY <1>1, <1>2, GrowthKeeps DEF DeviceOK
<1>5. retry[e] # 0 => retry[e] \in DOMAIN log' /\ log'[retry[e]].ct.rows \subseteq Has(file[e])
  <2>1. \A i \in DOMAIN log : i \in DOMAIN log' /\ log'[i] = log[i]
    BY <1>1 DEF Extends
  <2> QED
    BY <1>2, <2>1 DEF DeviceOK
<1> QED
  BY <1>2, <1>3, <1>4, <1>5 DEF DeviceOK, Untouched

LEMMA RelayPushKeeps ==
    ASSUME Inv, NEW m \in net, RelayPush(m)
    PROVE  /\ Inv'
           /\ log' = log \/ (log' \in Seq(Log!Entries) /\ Log!Admit(m.batch))
<1> DEFINE c == m.client
           B == m.batch
           acks == {[cseq |-> log'[i].cseq, seq |-> i, dup |-> i <= Len(log)] :
                       i \in {j \in DOMAIN log' : log'[j] \in B}}
<1>1. /\ UNCHANGED <<file, backup, key, reconciled, snap, req, tail, page, retry,
                     writes, restores, faults>>
      /\ net' = net \ {m}
  BY DEF RelayPush, historyVars
<1>2. /\ c \in Devices /\ B \in SUBSET Log!Entries /\ MessageOK(m)
      /\ log \in Seq(Log!Entries) /\ Log!PairUnique
  BY DEF Inv, TypeOK
<1>3. PICK r \in {[conflict |-> TRUE, acks |-> {}], [conflict |-> FALSE, acks |-> acks]} :
         /\ Answer(m, r)
         /\ \/ log' = log /\ r.acks = {}
            \/ Store(B) /\ r.acks = acks
  <2> DEFINE no == [conflict |-> TRUE, acks |-> {}]
             yes == [conflict |-> FALSE, acks |-> acks]
  <2>1. \/ Answer(m, no) /\ log' = log
        \/ Answer(m, yes) /\ Store(B)
    BY DEF RelayPush
  <2>2. no.acks = {} /\ yes.acks = acks
    OBVIOUS
  <2> HIDE DEF no, yes
  <2>3. \E r \in {no, yes} : /\ Answer(m, r)
                             /\ \/ log' = log /\ r.acks = {}
                                \/ Store(B) /\ r.acks = acks
    BY <2>1, <2>2
  <2> QED
    BY <2>3 DEF no, yes
<1>4. /\ log' \in Seq(Log!Entries) /\ Extends(log, log') /\ Log!PairUnique'
      /\ log' = log \/ Log!Admit(B)
  <2>1. CASE log' = log
    BY <1>2, <2>1 DEF Extends, Log!PairUnique
  <2>2. CASE Store(B)
    BY <1>2, <2>2, AdmitGrows DEF MessageOK
  <2> QED
    BY <1>3, <2>1, <2>2
<1>5. acks \in SUBSET Acks
  <2> SUFFICES ASSUME NEW i \in DOMAIN log'
               PROVE  [cseq |-> log'[i].cseq, seq |-> i, dup |-> i <= Len(log)] \in Acks
    OBVIOUS
  <2> DEFINE b == i <= Len(log)
  <2>1. log'[i].cseq \in Nat /\ i \in Nat
    BY <1>4, LogEntry
  <2>2. b \in BOOLEAN
    OBVIOUS
  <2> HIDE DEF b
  <2>3. [cseq |-> log'[i].cseq, seq |-> i, dup |-> b] \in Acks
    BY <2>1, <2>2 DEF Acks
  <2> QED
    BY <2>3 DEF b
<1>6. r \in [conflict : BOOLEAN, acks : SUBSET Acks]
  <2> HIDE DEF acks
  <2>1. [conflict |-> TRUE, acks |-> {}] \in [conflict : BOOLEAN, acks : SUBSET Acks]
    OBVIOUS
  <2>2. [conflict |-> FALSE, acks |-> acks] \in [conflict : BOOLEAN, acks : SUBSET Acks]
    BY <1>5
  <2> QED
    BY <1>3, <2>1, <2>2, Zenon
<1>7. ASSUME pc[c] = "await", req[c] = B, r.acks = acks
      PROVE  AcksOK(file[c], c, log', r.acks)
  <2>1. RequestOK(file[c], c, B) /\ PushOK(file[c], c, log)
    BY <1>2, <1>7 DEF Inv, DeviceOK
  <2> SUFFICES ASSUME NEW x \in acks
               PROVE  /\ x.seq \in DOMAIN log'
                      /\ \A o \in file[c].outbox : o.cseq = x.cseq => log'[x.seq] = Entry(c, o)
    BY <1>7 DEF AcksOK
  <2>2. PICK i \in DOMAIN log' : /\ log'[i] \in B
                                 /\ x = [cseq |-> log'[i].cseq, seq |-> i, dup |-> i <= Len(log)]
    OBVIOUS
  <2>3. x.seq = i /\ x.cseq = log'[i].cseq
    BY <2>2
  <2>4. PICK p \in file[c].outbox : log'[i] = Entry(c, p)
    BY <2>1, <2>2 DEF RequestOK
  <2>5. p.cseq = log'[i].cseq
    BY <2>4 DEF Entry
  <2> QED
    BY <2>1, <2>3, <2>4, <2>5 DEF PushOK
<1>8. \/ pc' = pc /\ resp' = resp
      \/ /\ pc[c] = "await" /\ req[c] = B
         /\ pc' = [pc EXCEPT ![c] = "resp"] /\ resp' = [resp EXCEPT ![c] = r]
  BY <1>3 DEF Answer
<1> HIDE DEF acks
<1>9. TypeOK'
  <2>1. pc' \in [Devices -> Places]
    BY <1>2, <1>8 DEF Inv, TypeOK, Places
  <2>2. resp' \in [Devices -> [conflict : BOOLEAN, acks : SUBSET Acks]]
    <3>1. resp \in [Devices -> [conflict : BOOLEAN, acks : SUBSET Acks]]
      BY <1>2 DEF Inv, TypeOK
    <3>2. r \in [conflict : BOOLEAN, acks : SUBSET Acks]
      BY <1>6
    <3>3. resp' = resp \/ resp' = [resp EXCEPT ![c] = r]
      BY <1>8
    <3> HIDE DEF c
    <3> QED
      BY <3>1, <3>2, <3>3
  <2>3. net' \subseteq [client : Devices, batch : SUBSET Log!Entries]
    BY <1>1 DEF Inv, TypeOK
  <2> QED
    BY <1>1, <1>4, <2>1, <2>2, <2>3 DEF Inv, TypeOK
<1>10. ASSUME NEW e \in Devices PROVE DeviceOK(e)'
  <2>1. CASE Untouched(e)
    BY <1>4, <2>1, GrowthDevice
  <2>2. CASE e = c /\ pc[c] = "await" /\ req[c] = B /\ pc'[c] = "resp" /\ resp'[c] = r
    <3>1. /\ log \in Seq(Log!Entries) /\ file[c] \in Files /\ backup[c] \in Files
      BY <1>2 DEF Inv, TypeOK
    <3>2. DeviceOK(c)
      BY <1>2 DEF Inv
    <3>3. /\ PushOK(file[c], c, log') /\ PullOK(file[c], log')
          /\ PushOK(backup[c], c, log') /\ PullOK(backup[c], log')
      BY <1>2, <1>4, <3>1, <3>2, GrowthKeeps DEF DeviceOK
    <3>4. AcksOK(file[c], c, log', r.acks)
      BY <1>3, <1>7, <2>2 DEF AcksOK
    <3>5. RequestOK(file[c], c, req[c])
      BY <2>2, <3>2 DEF DeviceOK
    <3>6. retry[c] # 0 => retry[c] \in DOMAIN log' /\ log'[retry[c]].ct.rows \subseteq Has(file[c])
      <4>1. \A i \in DOMAIN log : i \in DOMAIN log' /\ log'[i] = log[i]
        BY <3>1, <1>4 DEF Extends
      <4> QED
        BY <3>2, <4>1 DEF DeviceOK
    <3> HIDE DEF c
    <3> QED
      BY <1>1, <2>2, <3>3, <3>4, <3>5, <3>6 DEF DeviceOK
  <2>3. Untouched(e) \/ (e = c /\ pc[c] = "await" /\ req[c] = B /\ pc'[c] = "resp" /\ resp'[c] = r)
    <3> HIDE DEF c, B
    <3> QED
      BY <1>1, <1>2, <1>8 DEF Untouched, Inv, TypeOK
  <2> QED
    BY <2>1, <2>2, <2>3
<1>11. \A x \in net' : MessageOK(x)'
  BY <1>1 DEF Inv, MessageOK, Log!Coherent
<1> QED
  BY <1>4, <1>9, <1>10, <1>11 DEF Inv

LEMMA LoseRequestKeeps ==
    ASSUME Inv, NEW m \in net, LoseRequest(m)
    PROVE  Inv'
<1>1. /\ UNCHANGED <<log, file, backup, key, pc, reconciled, snap, req, resp, tail, page,
                     retry, writes, restores>>
      /\ net' = net \ {m}
      /\ faults' = [faults EXCEPT ![m.client] = faults[m.client] + 1]
  BY DEF LoseRequest, sessionVars
<1>2. m.client \in Devices
  BY DEF Inv, TypeOK
<1>3. TypeOK'
  <2>1. faults \in [Devices -> Nat] /\ faults[m.client] + 1 \in Nat
    BY <1>2 DEF Inv, TypeOK
  <2>2. faults' \in [Devices -> Nat]
    BY <1>1, <2>1
  <2> QED
    BY <1>1, <2>2 DEF Inv, TypeOK
<1>4. \A e \in Devices : Untouched(e)
  BY <1>1 DEF Untouched
<1> QED
  BY <1>1, <1>2, <1>3, <1>4, DeviceStep, UntouchedKeeps DEF Inv

-----------------------------------------------------------------------------
LEMMA NextInv ==
    Inv /\ [Next]_vars => Inv'
<1> SUFFICES ASSUME Inv, [Next]_vars PROVE Inv'
  OBVIOUS
<1>1. ASSUME NEW d \in Devices, Drain(d) PROVE Inv'
  BY <1>1, StartCycleKeeps, TailReadKeeps, TailApplyKeeps, CaptureReadKeeps,
     CaptureChunkKeeps, PushSendKeeps, PushEndKeeps, PushAckKeeps, PullPageKeeps,
     MergeOneKeeps, PageDoneKeeps DEF Drain
<1>2. ASSUME NEW d \in Devices, Retry(d) PROVE Inv'
  BY <1>2, RetryKeeps DEF Retry
<1>3. ASSUME NEW d \in Devices, World(d) PROVE Inv'
  BY <1>3, LocalWriteKeeps, CrashKeeps, BackupKeeps, StepFailsKeeps DEF World
<1>4. ASSUME NEW m \in net, RelayPush(m) \/ LoseRequest(m) PROVE Inv'
  BY <1>4, RelayPushKeeps, LoseRequestKeeps
<1>5. CASE UNCHANGED vars
  <2>1. UNCHANGED <<log, net, file, backup, key, pc, reconciled, snap, req, resp, tail,
                    page, retry, writes, restores, faults>>
    BY <1>5 DEF vars, relayVars, sessionVars, historyVars
  <2>2. \A d \in Devices : DeviceOK(d)'
    BY <2>1, UntouchedKeeps DEF Inv, Untouched
  <2> QED
    BY <2>1, <2>2 DEF Inv, TypeOK, MessageOK, Log!Coherent, Log!PairUnique
<1> QED
  BY <1>1, <1>2, <1>3, <1>4, <1>5 DEF Next

(* The inductive invariant holds in every reachable state.                 *)
THEOREM Invariance ==
    Spec => []Inv
BY InitInv, NextInv, PTL DEF Spec

(* Every variable keeps its type, whatever interleaves.                    *)
THEOREM TypeCorrect ==
    Spec => []TypeOK
<1>1. Inv => TypeOK
  BY DEF Inv
<1> QED
  BY <1>1, Invariance, PTL

(* push_outbox, enqueue_local and the reconcile never lose a local write,  *)
(* whatever crashes, restores and late requests happen.                    *)
THEOREM NoSilentLossHolds ==
    Spec => []NoSilentLoss
<1>1. Inv => NoSilentLoss
  <2> SUFFICES ASSUME Inv, NEW d \in Devices, NEW f \in FilesOf(d), NEW r \in Own(f, d),
                      r.ver <= f.pushWm
               PROVE  r.row \in AtRelay(d) \cup Waiting(f)
    BY DEF NoSilentLoss
  <2>1. PushOK(f, d, log)
    BY DEF Inv, DeviceOK, FilesOf
  <2>2. Delivered(log, d, r.row) \/ Pending(f, r.row)
    BY <2>1 DEF PushOK, Own
  <2>3. CASE Delivered(log, d, r.row)
    <3>1. PICK i \in DOMAIN log : log[i].client = d /\ r.row \in log[i].ct.rows
      BY <2>3 DEF Delivered
    <3>2. log[i] \in {s \in Log!Stored : s.client = d}
      BY <3>1 DEF Log!Stored
    <3> QED
      BY <3>1, <3>2 DEF AtRelay
  <2>4. CASE Pending(f, r.row)
    BY <2>4 DEF Pending, Waiting, Unacked
  <2> QED
    BY <2>2, <2>3, <2>4
<1> QED
  BY <1>1, Invariance, PTL

(* An ack always names this device's own entry with its own ciphertext.    *)
THEOREM AckedIsStoredHolds ==
    Spec => []AckedIsStored
<1>1. Inv => AckedIsStored
  BY DEF Inv, DeviceOK, PushOK, AckedIsStored, FilesOf
<1> QED
  BY <1>1, Invariance, PTL

(* The pull watermark passes only what was merged or quarantined.          *)
THEOREM PulledOrQuarantinedHolds ==
    Spec => []PulledOrQuarantined
<1>1. Inv => PulledOrQuarantined
  BY DEF Inv, DeviceOK, PullOK, Covered, PulledOrQuarantined, FilesOf
<1> QED
  BY <1>1, Invariance, PTL

(* No pair is stored twice.                                                *)
THEOREM PairUniqueHolds ==
    Spec => []PairUnique
<1>1. Inv => PairUnique
  BY DEF Inv, PairUnique
<1> QED
  BY <1>1, Invariance, PTL

-----------------------------------------------------------------------------
(* A push is a ChangeLog step, of the batch's new entries.                 *)
LEMMA AdmitFresh ==
    ASSUME NEW B, Log!Admit(B)
    PROVE  Log!Admit(Log!Added)
<1>1. Log!Added = B \ Log!Stored
  BY DEF Log!Admit, Log!Fresh
<1>2. Log!Added \subseteq B /\ Log!Fresh(Log!Added) = Log!Added
  BY <1>1 DEF Log!Fresh
<1>3. Log!Coherent(Log!Added) /\ ~Log!Conflict(Log!Added)
  BY <1>2 DEF Log!Admit, Log!Coherent, Log!Conflict
<1> QED
  BY <1>2, <1>3 DEF Log!Admit

(* The relay as the devices drive it implements the abstract ChangeLog:    *)
(* every step leaves the log alone or appends a batch's new entries.       *)
THEOREM Refinement ==
    Spec => LogSpec
<1>1. Init => Log!Init
  BY DEF Init, Log!Init
<1>2. Inv /\ [Next]_vars => [Log!Next]_log
  <2> SUFFICES ASSUME Inv, [Next]_vars PROVE Log!Next \/ log' = log
    OBVIOUS
  <2>1. ASSUME NEW d \in Devices, Drain(d) PROVE log' = log
    BY <2>1 DEF Drain, StartCycle, TailRead, TailApply, CaptureRead, CaptureChunk,
       PushSend, PushDone, PushTimeout, PushAck, PullPage, MergeOne, PageDone, relayVars
  <2>2. ASSUME NEW d \in Devices, Retry(d) PROVE log' = log
    BY <2>2 DEF Retry, RetryMerge, RetryDelete, relayVars
  <2>3. ASSUME NEW d \in Devices, World(d) PROVE log' = log
    BY <2>3 DEF World, LocalWrite, Crash, Rekey, Backup, Restore, StepFails, relayVars
  <2>4. ASSUME NEW m \in net, RelayPush(m) PROVE Log!Next \/ log' = log
    <3>1. log' = log \/ (log' \in Seq(Log!Entries) /\ Log!Admit(m.batch))
      BY <2>4, RelayPushKeeps
    <3> QED
      BY <3>1, AdmitFresh DEF Log!Next
  <2>5. ASSUME NEW m \in net, LoseRequest(m) PROVE log' = log
    BY <2>5 DEF LoseRequest
  <2>6. CASE UNCHANGED vars
    BY <2>6 DEF vars, relayVars
  <2> QED
    BY <2>1, <2>2, <2>3, <2>4, <2>5, <2>6 DEF Next
<1> QED
  BY <1>1, <1>2, Invariance, PTL DEF Spec, LogSpec, Log!Spec
=============================================================================
