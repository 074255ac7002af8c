-------------------------- MODULE AudioBlobs_proofs --------------------------
(***************************************************************************)
(* Proofs about the audio lane, for any number of handlers, parts, hashes, *)
(* attempts, faults and sweeps.                                            *)
(***************************************************************************)
EXTENDS AudioBlobs, FiniteSetTheorems, TLAPS

-----------------------------------------------------------------------------
(* The meter.  A row is inserted under its lock, so a transaction that is   *)
(* about to insert one knows that there is none; this needs no assumption   *)
(* on the clients.                                                          *)
Busy(h) == at[h] # "idle"

JobsOK == \A h \in Handlers : Busy(h) => job[h].part \in Parts /\ job[h].hash \in Hashes
LocksOK == \A h, g \in Handlers, x \in Hashes : LocksBlob(h, x) /\ LocksBlob(g, x) => h = g
InsertsOK == \A h \in Handlers :
    at[h] = "commit" /\ job[h].act = "insert" => job[h].hash \notin blobs
EntriesOK == \A p \in Parts :
    queue[p].url \/ queue[p].asked # None => queue[p].hash \in Hashes
Meter == IsFiniteSet(blobs) /\ Metered
MeterInv == TypeOK /\ JobsOK /\ LocksOK /\ InsertsOK /\ EntriesOK /\ Meter

LEMMA JobFields ==
    ASSUME NEW j \in Jobs
    PROVE  /\ j.part \in Parts \cup {None} /\ j.hash \in Hashes \cup {None} /\ j.saw \in BOOLEAN
           /\ j.old \in Hashes \cup {None} /\ j.drop \in BOOLEAN /\ j.act \in {"none", "add", "insert"}
BY Zenon DEF Jobs

LEMMA EntryFields ==
    ASSUME NEW e \in Entries
    PROVE  /\ e.state \in States /\ e.hash \in Hashes \cup {None}
           /\ e.asked \in Handlers \cup {None} /\ e.url \in BOOLEAN
BY Zenon DEF Entries

LEMMA QueuedEntry ==
    ASSUME NEW s \in States
    PROVE  /\ Queued(s) \in Entries /\ Queued(s).state = s /\ Queued(s).hash = None
           /\ Queued(s).asked = None /\ Queued(s).url = FALSE
BY DEF Queued, Entries

LEMMA NoJobType == NoJob \in Jobs /\ NoJob.act = "none" /\ NoJob.drop = FALSE /\ NoJob.part = None
BY DEF NoJob, Jobs

(* The queue after an answer. *)
LEMMA Answered ==
    ASSUME TypeOK, NEW h \in Handlers, NEW s \in States, NEW u \in BOOLEAN
    PROVE  /\ Answer(h, s, u) \in [Parts -> Entries]
           /\ \A p \in Parts :
                /\ Answer(h, s, u)[p].hash = queue[p].hash
                /\ queue[p].asked = h =>
                     /\ Answer(h, s, u)[p].state = s /\ Answer(h, s, u)[p].asked = None
                     /\ Answer(h, s, u)[p].url = u
                /\ queue[p].asked # h => Answer(h, s, u)[p] = queue[p]
<1>1. ASSUME NEW e \in Entries, NEW f, f = [e EXCEPT !.state = s, !.asked = None, !.url = u]
      PROVE  f \in Entries /\ f.hash = e.hash /\ f.state = s /\ f.asked = None /\ f.url = u
  BY <1>1 DEF Entries
<1>2. ASSUME NEW p \in Parts
      PROVE  /\ Answer(h, s, u)[p] \in Entries
             /\ Answer(h, s, u)[p].hash = queue[p].hash
             /\ queue[p].asked = h =>
                  /\ Answer(h, s, u)[p].state = s /\ Answer(h, s, u)[p].asked = None
                  /\ Answer(h, s, u)[p].url = u
             /\ queue[p].asked # h => Answer(h, s, u)[p] = queue[p]
  <2>1. queue[p] \in Entries
    BY DEF TypeOK
  <2>2. CASE queue[p].asked = h
    <3>1. PICK f : f = [queue[p] EXCEPT !.state = s, !.asked = None, !.url = u]
      OBVIOUS
    <3>2. Answer(h, s, u)[p] = f
      BY Zenon, <2>2, <3>1 DEF Answer
    <3>3. f \in Entries /\ f.hash = queue[p].hash /\ f.state = s /\ f.asked = None /\ f.url = u
      BY Zenon, <1>1, <2>1, <3>1
    <3> QED
      BY Zenon, <2>2, <3>2, <3>3
  <2>3. CASE queue[p].asked # h
    <3>1. Answer(h, s, u)[p] = queue[p]
      BY Zenon, <2>3 DEF Answer
    <3> QED
      BY Zenon, <2>1, <2>3, <3>1
  <2> QED
    BY <2>2, <2>3
<1>3. Answer(h, s, u) = [p \in Parts |-> Answer(h, s, u)[p]]
  BY Zenon DEF Answer
<1> QED
  BY Zenon, <1>2, <1>3

LEMMA AnsweredEntries ==
    ASSUME TypeOK, EntriesOK, AudioAssumption, NEW h \in Handlers, NEW s \in States, NEW u \in BOOLEAN,
           queue' = Answer(h, s, u)
    PROVE  EntriesOK'
<1>1. h # None
  BY DEF AudioAssumption
<1>2. ASSUME NEW p \in Parts, queue'[p].url \/ queue'[p].asked # None
      PROVE  queue'[p].hash \in Hashes
  <2>1. /\ queue'[p].hash = queue[p].hash
        /\ queue[p].asked # h => queue'[p] = queue[p]
    <3>1. PICK e : e = Answer(h, s, u)[p]
      OBVIOUS
    <3>2. e.hash = queue[p].hash /\ (queue[p].asked # h => e = queue[p])
      BY <3>1, Answered
    <3>3. queue'[p] = e
      BY <3>1
    <3> QED
      BY Zenon, <3>2, <3>3
  <2> QED
    BY Zenon, <1>1, <1>2, <2>1 DEF EntriesOK
<1> QED
  BY Zenon, <1>2 DEF EntriesOK

LEMMA HandlerMoves ==
    ASSUME TypeOK, NEW h \in Handlers, NEW a \in Steps, NEW j \in Jobs,
           at' = [at EXCEPT ![h] = a], job' = [job EXCEPT ![h] = j]
    PROVE  /\ at' \in [Handlers -> Steps] /\ job' \in [Handlers -> Jobs]
           /\ at'[h] = a /\ job'[h] = j
           /\ \A g \in Handlers : g # h => at'[g] = at[g] /\ job'[g] = job[g]
BY DEF TypeOK

(* A handler that moves on keeps the locks apart if it takes none that      *)
(* another one has.                                                         *)
LEMMA LocksMove ==
    ASSUME TypeOK, JobsOK, LocksOK, InsertsOK,
           NEW h \in Handlers, NEW a \in Steps, NEW j \in Jobs,
           at' = [at EXCEPT ![h] = a], job' = [job EXCEPT ![h] = j],
           a # "idle" => j.part \in Parts /\ j.hash \in Hashes,
           \A x \in Hashes : LocksBlob(h, x)' => LocksBlob(h, x) \/ FreeBlob(h, x),
           blobs' = blobs, a = "commit" /\ j.act = "insert" => j.hash \notin blobs
    PROVE  JobsOK' /\ LocksOK' /\ InsertsOK'
<1>1. /\ at'[h] = a /\ job'[h] = j
      /\ \A g \in Handlers : g # h => at'[g] = at[g] /\ job'[g] = job[g]
  BY Zenon, HandlerMoves
<1>2. JobsOK'
  BY Zenon, <1>1 DEF JobsOK, Busy
<1>3. InsertsOK'
  <2>1. ASSUME NEW g \in Handlers, at'[g] = "commit" /\ job'[g].act = "insert"
        PROVE  job'[g].hash \notin blobs
    <3>1. CASE g = h
      BY Zenon, <1>1, <2>1, <3>1
    <3>2. CASE g # h
      BY Zenon, <1>1, <2>1, <3>2 DEF InsertsOK
    <3> QED
      BY <3>1, <3>2
  <2> QED
    BY Zenon, <2>1 DEF InsertsOK
<1>4. ASSUME NEW g \in Handlers, g # h, NEW x \in Hashes
      PROVE  LocksBlob(g, x)' <=> LocksBlob(g, x)
  BY Zenon, <1>1, <1>4 DEF LocksBlob
<1>5. ASSUME NEW g \in Handlers, g # h, NEW x \in Hashes, LocksBlob(h, x)', LocksBlob(g, x)'
      PROVE  FALSE
  BY Zenon, <1>4, <1>5 DEF LocksOK, FreeBlob
<1>6. LocksOK'
  BY Zenon, <1>4, <1>5 DEF LocksOK
<1> QED
  BY <1>2, <1>3, <1>6

LEMMA LocksStay ==
    ASSUME JobsOK, LocksOK, InsertsOK, UNCHANGED <<at, job>>, blobs' \subseteq blobs
    PROVE  JobsOK' /\ LocksOK' /\ InsertsOK'
<1>1. JobsOK' /\ InsertsOK'
  BY Zenon DEF JobsOK, Busy, InsertsOK
<1>2. LocksOK'
  BY Zenon DEF LocksOK, LocksBlob
<1> QED
  BY <1>1, <1>2

LEMMA MeterInit == AudioAssumption /\ Init => MeterInv
<1> SUFFICES ASSUME AudioAssumption, Init PROVE MeterInv
  OBVIOUS
<1>1. queue \in [Parts -> Entries]
  BY QueuedEntry DEF Init, States
<1>2. TypeOK
  <2>1. gc \in [at : {"idle", "object", "row"}, todo : SUBSET Hashes, blob : Hashes \cup {None}]
    BY DEF Init
  <2> QED
    BY <1>1, <2>1, NoJobType DEF Init, TypeOK, Steps
<1>3. JobsOK /\ LocksOK /\ InsertsOK
  BY DEF Init, JobsOK, LocksOK, InsertsOK, Busy, LocksBlob
<1>4. Meter
  BY FS_EmptySet DEF Init, Meter, Metered
<1>5. EntriesOK
  <2>1. \A p \in Parts : queue[p] = Queued("pending")
    BY DEF Init
  <2> QED
    BY Zenon, <2>1, QueuedEntry DEF EntriesOK, States
<1> QED
  BY <1>2, <1>3, <1>4, <1>5 DEF MeterInv

LEMMA AskMeters ==
    ASSUME MeterInv, NEW p \in Parts, NEW h \in Handlers, NEW x \in Hashes, Ask(p, h, x)
    PROVE  MeterInv'
<1>1. UNCHANGED <<tables, stored, gc, faults, giveups, sweeps>>
  BY DEF Ask
<1>2. PICK j : j = [NoJob EXCEPT !.part = p, !.hash = x]
  OBVIOUS
<1>3. j \in Jobs /\ j.part = p /\ j.hash = x
  BY <1>2, NoJobType DEF Jobs
<1>4. at' = [at EXCEPT ![h] = "blob"] /\ job' = [job EXCEPT ![h] = j] /\ "blob" \in Steps
  BY <1>2 DEF Ask, Steps
<1>5. at' \in [Handlers -> Steps] /\ job' \in [Handlers -> Jobs] /\ at'[h] = "blob"
  BY Zenon, <1>3, <1>4, HandlerMoves DEF MeterInv
<1>6. PICK e : e = [Queued("uploading") EXCEPT !.hash = x, !.asked = h]
  OBVIOUS
<1>7. e \in Entries /\ e.hash = x
  <2>1. Queued("uploading") \in Entries
    BY QueuedEntry DEF States
  <2> QED
    BY <2>1, <1>6 DEF Entries
<1>8. queue' \in [Parts -> Entries]
  BY <1>6, <1>7 DEF Ask, MeterInv, TypeOK
<1>9. tried' \subseteq Hashes /\ attempts' \in Nat
  BY DEF Ask, MeterInv, TypeOK
<1>10. TypeOK'
  BY Zenon, <1>1, <1>5, <1>8, <1>9 DEF MeterInv, TypeOK, tables
<1>11. \A y \in Hashes : ~LocksBlob(h, y)'
  BY <1>5 DEF LocksBlob
<1>12. JobsOK' /\ LocksOK' /\ InsertsOK'
  <2>1. blobs' = blobs
    BY <1>1 DEF tables
  <2>2. "blob" # "commit"
    OBVIOUS
  <2> QED
    BY Zenon, <1>3, <1>4, <1>11, <2>1, <2>2, LocksMove DEF MeterInv
<1>13. Meter'
  BY Zenon, <1>1 DEF MeterInv, Meter, Metered, tables
<1>14. EntriesOK'
  <2>1. queue' = [queue EXCEPT ![p] = e] /\ queue \in [Parts -> Entries]
    BY <1>6 DEF Ask, MeterInv, TypeOK
  <2>2. queue'[p] = e /\ \A q \in Parts : q # p => queue'[q] = queue[q]
    BY <2>1
  <2> QED
    BY Zenon, <1>7, <2>2 DEF MeterInv, EntriesOK
<1> QED
  BY <1>10, <1>12, <1>13, <1>14 DEF MeterInv

LEMMA ClientMeters ==
    ASSUME MeterInv, NEW p \in Parts, Put(p) \/ PutFails(p) \/ GiveUp(p) \/ Retry(p)
    PROVE  MeterInv'
<1>1. UNCHANGED <<blobs, ref, released, mapping, usage, at, job, gc, tried, attempts, sweeps>>
  BY DEF Put, PutFails, GiveUp, Retry, tables, history
<1>2. PICK s \in States : queue' = [queue EXCEPT ![p] = Queued(s)]
  BY DEF Put, PutFails, GiveUp, Retry, States
<1>3. /\ queue' \in [Parts -> Entries] /\ queue'[p] = Queued(s)
      /\ \A q \in Parts : q # p => queue'[q] = queue[q]
  BY <1>2, QueuedEntry DEF MeterInv, TypeOK
<1>4. faults' \in Nat /\ giveups' \in Nat
  BY DEF Put, PutFails, GiveUp, Retry, history, MeterInv, TypeOK
<1>5. stored' \subseteq Hashes
  <2>1. stored' = stored \/ (queue[p].url /\ stored' = stored \cup {queue[p].hash})
    BY Zenon DEF Put, PutFails, GiveUp, Retry
  <2>2. stored \subseteq Hashes /\ (queue[p].url => queue[p].hash \in Hashes)
    BY Zenon DEF MeterInv, TypeOK, EntriesOK
  <2> QED
    BY Zenon, <2>1, <2>2
<1>6. TypeOK'
  BY Zenon, <1>1, <1>3, <1>4, <1>5 DEF MeterInv, TypeOK
<1>7. JobsOK' /\ LocksOK' /\ InsertsOK'
  BY Zenon, <1>1, LocksStay DEF MeterInv
<1>8. EntriesOK'
  <2>1. ASSUME NEW q \in Parts, queue'[q].url \/ queue'[q].asked # None
        PROVE  queue'[q].hash \in Hashes
    <3>1. q # p
      <4>1. queue'[p].url = FALSE /\ queue'[p].asked = None
        BY <1>3, QueuedEntry
      <4> QED
        BY Zenon, <2>1, <4>1
    <3> QED
      BY Zenon, <1>3, <2>1, <3>1 DEF MeterInv, EntriesOK
  <2> QED
    BY Zenon, <2>1 DEF EntriesOK
<1>9. Meter'
  BY Zenon, <1>1 DEF MeterInv, Meter, Metered
<1> QED
  BY <1>6, <1>7, <1>8, <1>9 DEF MeterInv

(* A statement before the commit: what it does to the handler's own job and *)
(* which lock it takes.                                                     *)
LEMMA StatementMeters ==
    ASSUME MeterInv, NEW h \in Handlers, NEW from \in Steps, NEW to \in Steps \ {"idle"}, NEW j \in Jobs,
           from # "idle", Statement(h, from, to, j),
           j.part = job[h].part, j.hash = job[h].hash,
           \A x \in Hashes : LocksBlob(h, x)' => LocksBlob(h, x) \/ FreeBlob(h, x),
           to = "commit" /\ j.act = "insert" => j.hash \notin blobs
    PROVE  MeterInv'
<1>1. /\ UNCHANGED <<blobs, ref, released, mapping, usage, stored, queue, gc, tried, attempts, faults, giveups, sweeps>>
      /\ at' = [at EXCEPT ![h] = to] /\ job' = [job EXCEPT ![h] = j] /\ at[h] = from
  BY DEF Statement, tables, history
<1>2. at' \in [Handlers -> Steps] /\ job' \in [Handlers -> Jobs]
  BY Zenon, <1>1, HandlerMoves DEF MeterInv
<1>3. TypeOK'
  BY Zenon, <1>1, <1>2 DEF MeterInv, TypeOK
<1>4. j.part \in Parts /\ j.hash \in Hashes
  BY Zenon, <1>1 DEF MeterInv, JobsOK, Busy
<1>5. JobsOK' /\ LocksOK' /\ InsertsOK'
  BY Zenon, <1>1, <1>4, LocksMove DEF MeterInv
<1>6. EntriesOK' /\ Meter'
  BY Zenon, <1>1 DEF MeterInv, EntriesOK, Meter, Metered
<1> QED
  BY <1>3, <1>5, <1>6 DEF MeterInv

LEMMA PresignMeters ==
    ASSUME MeterInv, NEW h \in Handlers,
           ReadBlob(h) \/ ReadOld(h) \/ Repoint(h) \/ Map(h) \/ AddRef(h) \/ Insert(h)
    PROVE  MeterInv'
<1>1. job[h] \in Jobs /\ Busy(h)
  BY DEF MeterInv, TypeOK, Busy, ReadBlob, ReadOld, Repoint, Map, AddRef, Insert, Statement
<1>2. job[h].part \in Parts /\ job[h].hash \in Hashes
  BY <1>1 DEF MeterInv, JobsOK
<1>3. at \in [Handlers -> Steps] /\ job \in [Handlers -> Jobs]
  BY DEF MeterInv, TypeOK
<1>4. CASE ReadBlob(h)
  <2>1. PICK b \in BOOLEAN : b = (job[h].hash \in blobs)
    <3>1. PICK b \in BOOLEAN : b <=> job[h].hash \in blobs
      OBVIOUS
    <3> QED
      BY Zenon, <3>1
  <2>2. PICK j : j = [job[h] EXCEPT !.saw = b]
    OBVIOUS
  <2>3. j \in Jobs /\ j.part = job[h].part /\ j.hash = job[h].hash
    BY <1>1, <2>2 DEF Jobs
  <2>4. Statement(h, "blob", "old", j)
    BY <1>4, <2>1, <2>2 DEF ReadBlob
  <2>5. \A x \in Hashes : ~LocksBlob(h, x)'
    BY <1>3, <2>4 DEF Statement, LocksBlob
  <2>6. "blob" \in Steps /\ "blob" # "idle" /\ "old" \in Steps \ {"idle"} /\ "old" # "commit"
    BY DEF Steps
  <2> QED
    BY Zenon, <2>3, <2>4, <2>5, <2>6, StatementMeters
<1>5. CASE ReadOld(h)
  <2>1. PICK o \in Hashes \cup {None} : o = mapping[job[h].part]
    BY <1>2 DEF MeterInv, TypeOK
  <2>2. PICK j : j = [job[h] EXCEPT !.old = o]
    OBVIOUS
  <2>3. j \in Jobs /\ j.part = job[h].part /\ j.hash = job[h].hash
    BY <1>1, <2>2 DEF Jobs
  <2>4. Statement(h, "old", "repoint", j)
    BY <1>5, <2>1, <2>2 DEF ReadOld
  <2>5. \A x \in Hashes : ~LocksBlob(h, x)'
    BY <1>3, <2>4 DEF Statement, LocksBlob
  <2>6. "old" \in Steps /\ "old" # "idle" /\ "repoint" \in Steps \ {"idle"} /\ "repoint" # "commit"
    BY DEF Steps
  <2> QED
    BY Zenon, <2>3, <2>4, <2>5, <2>6, StatementMeters
<1>6. CASE Repoint(h)
  <2>1. PICK b \in BOOLEAN : b = (job[h].old \notin {None, job[h].hash} /\ job[h].old \in blobs)
    OBVIOUS
  <2>2. PICK j : j = [job[h] EXCEPT !.drop = b]
    OBVIOUS
  <2>3. /\ j \in Jobs /\ j.part = job[h].part /\ j.hash = job[h].hash /\ j.old = job[h].old
        /\ j.drop = b
    BY <1>1, <2>2 DEF Jobs
  <2>4. /\ Statement(h, "repoint", "map", j)
        /\ job[h].old \notin {None, job[h].hash} => FreeBlob(h, job[h].old)
    BY <1>6, <2>1, <2>2 DEF Repoint
  <2>5. at'[h] = "map" /\ job'[h] = j
    BY <1>3, <2>4 DEF Statement
  <2>6. ASSUME NEW x \in Hashes, LocksBlob(h, x)'
        PROVE  FreeBlob(h, x)
    <3>1. j.old = x /\ j.drop
      BY <2>5, <2>6 DEF LocksBlob
    <3> QED
      BY Zenon, <2>1, <2>3, <2>4, <3>1
  <2>7. "repoint" \in Steps /\ "repoint" # "idle" /\ "map" \in Steps \ {"idle"} /\ "map" # "commit"
    BY DEF Steps
  <2> QED
    BY Zenon, <2>3, <2>4, <2>6, <2>7, StatementMeters
<1>7. CASE Map(h)
  <2>1. Statement(h, "map", "ref", job[h])
    BY <1>7 DEF Map
  <2>2. at'[h] = "ref" /\ job'[h] = job[h] /\ at[h] = "map"
    BY <1>3, <2>1 DEF Statement
  <2>3. ASSUME NEW x \in Hashes, LocksBlob(h, x)'
        PROVE  LocksBlob(h, x)
    BY <2>2, <2>3 DEF LocksBlob
  <2>4. "map" \in Steps /\ "map" # "idle" /\ "ref" \in Steps \ {"idle"} /\ "ref" # "commit"
    BY DEF Steps
  <2> QED
    BY Zenon, <1>1, <2>1, <2>3, <2>4, StatementMeters
<1>8. CASE AddRef(h) \/ Insert(h)
  <2>1. PICK c \in {"none", "add", "insert"} :
          /\ Statement(h, "ref", "commit", [job[h] EXCEPT !.act = c])
          /\ c # "none" => FreeBlob(h, job[h].hash)
          /\ c = "insert" => job[h].hash \notin blobs
    <3>1. CASE AddRef(h)
      <4>1. PICK c \in {"none", "add"} : c = IF SamePartSameBlob(h) \/ job[h].hash \notin blobs
                                             THEN "none" ELSE "add"
        OBVIOUS
      <4>2. c # "none" => ~SamePartSameBlob(h)
        BY <4>1
      <4>3. Statement(h, "ref", "commit", [job[h] EXCEPT !.act = c])
        BY <3>1, <4>1 DEF AddRef
      <4>4. FreeBlob(h, job[h].hash) \/ (job[h].saw /\ SamePartSameBlob(h))
        BY <3>1 DEF AddRef
      <4> QED
        BY <4>2, <4>3, <4>4
    <3>2. CASE Insert(h)
      BY <3>2 DEF Insert
    <3> QED
      BY <1>8, <3>1, <3>2
  <2>2. PICK j : j = [job[h] EXCEPT !.act = c]
    OBVIOUS
  <2>3. /\ j \in Jobs /\ j.part = job[h].part /\ j.hash = job[h].hash /\ j.old = job[h].old
        /\ j.drop = job[h].drop /\ j.act = c
    BY <1>1, <2>2 DEF Jobs
  <2>4. Statement(h, "ref", "commit", j)
    BY <2>1, <2>2
  <2>5. at'[h] = "commit" /\ job'[h] = j /\ at[h] = "ref"
    BY <1>3, <2>4 DEF Statement
  <2>6. ASSUME NEW x \in Hashes, LocksBlob(h, x)'
        PROVE  LocksBlob(h, x) \/ FreeBlob(h, x)
    <3>1. (j.old = x /\ j.drop) \/ (j.hash = x /\ j.act # "none")
      BY <2>5, <2>6 DEF LocksBlob
    <3>2. at[h] \in {"map", "ref", "commit"}
      BY <2>5
    <3> QED
      BY Zenon, <2>1, <2>3, <3>1, <3>2 DEF LocksBlob
  <2>7. "ref" \in Steps /\ "ref" # "idle" /\ "commit" \in Steps \ {"idle"}
    BY DEF Steps
  <2> QED
    BY Zenon, <2>1, <2>3, <2>4, <2>6, <2>7, StatementMeters
<1> QED
  BY <1>4, <1>5, <1>6, <1>7, <1>8

(* The handler is done, by an answer or by nothing. *)
LEMMA EndMeters ==
    ASSUME MeterInv, AudioAssumption, NEW h \in Handlers, Head(h) \/ HeadFails(h) \/ Abort(h)
    PROVE  MeterInv'
<1>1. /\ UNCHANGED <<blobs, ref, released, mapping, usage, stored, gc, tried, attempts, giveups, sweeps>>
      /\ faults' \in Nat /\ End(h)
  <2>1. faults \in Nat
    BY DEF MeterInv, TypeOK
  <2>2. CASE Head(h)
    BY Zenon, <2>1, <2>2 DEF Head, tables, history
  <2>3. CASE HeadFails(h)
    BY <2>1, <2>3 DEF HeadFails, tables
  <2>4. CASE Abort(h)
    BY <2>1, <2>4 DEF Abort, tables
  <2> QED
    BY <2>2, <2>3, <2>4
<1>2. PICK s \in States, u \in BOOLEAN : queue' = Answer(h, s, u)
  <2>1. CASE Head(h)
    <3>1. CASE job[h].hash \in stored
      BY <2>1, <3>1 DEF Head, States
    <3>2. CASE job[h].hash \notin stored
      BY <2>1, <3>2 DEF Head, States
    <3> QED
      BY <3>1, <3>2
  <2>2. CASE HeadFails(h)
    BY <2>2 DEF HeadFails, States
  <2>3. CASE Abort(h)
    BY <2>3 DEF Abort, States
  <2> QED
    BY <2>1, <2>2, <2>3
<1>3. queue' \in [Parts -> Entries] /\ EntriesOK'
  BY Zenon, <1>2, Answered, AnsweredEntries DEF MeterInv
<1>4. at' = [at EXCEPT ![h] = "idle"] /\ job' = [job EXCEPT ![h] = NoJob] /\ "idle" \in Steps
  BY <1>1 DEF End, Steps
<1>5. at' \in [Handlers -> Steps] /\ job' \in [Handlers -> Jobs] /\ at'[h] = "idle"
  BY Zenon, <1>4, NoJobType, HandlerMoves DEF MeterInv
<1>6. TypeOK'
  BY Zenon, <1>1, <1>3, <1>5 DEF MeterInv, TypeOK
<1>7. \A x \in Hashes : ~LocksBlob(h, x)'
  BY <1>5 DEF LocksBlob
<1>8. "idle" # "commit"
  OBVIOUS
<1>9. JobsOK' /\ LocksOK' /\ InsertsOK'
  BY Zenon, <1>1, <1>4, <1>7, <1>8, NoJobType, LocksMove DEF MeterInv
<1>10. Meter'
  BY Zenon, <1>1 DEF MeterInv, Meter, Metered
<1> QED
  BY <1>3, <1>6, <1>9, <1>10 DEF MeterInv

LEMMA CountedType ==
    ASSUME TypeOK, NEW j \in Jobs
    PROVE  Counted(j) \in [Hashes -> Nat] /\ Dated(j) \in [Hashes -> {"no", "recent", "past"}]
BY DEF Counted, Dated, TypeOK

LEMMA CommitMeters ==
    ASSUME MeterInv, AudioAssumption, NEW h \in Handlers, Commit(h)
    PROVE  MeterInv'
<1>1. /\ at[h] = "commit" /\ ref' = Counted(job[h]) /\ released' = Dated(job[h])
      /\ mapping' = [mapping EXCEPT ![job[h].part] = job[h].hash]
      /\ UNCHANGED <<stored, gc, tried, attempts, faults, giveups, sweeps>>
  BY DEF Commit, history
<1>2. job[h] \in Jobs /\ job[h].part \in Parts /\ job[h].hash \in Hashes
  <2>1. Busy(h)
    BY <1>1 DEF Busy
  <2> QED
    BY <2>1 DEF MeterInv, TypeOK, JobsOK
<1>3. ref' \in [Hashes -> Nat] /\ released' \in [Hashes -> {"no", "recent", "past"}]
  BY Zenon, <1>1, <1>2, CountedType DEF MeterInv
<1>4. mapping' \in [Parts -> Hashes \cup {None}]
  BY <1>1, <1>2 DEF MeterInv, TypeOK
<1>5. CASE job[h].act = "insert"
  <2>1. /\ blobs' = blobs \cup {job[h].hash} /\ usage' = usage + 1
        /\ queue' = Answer(h, "uploading", TRUE)
        /\ at' = [at EXCEPT ![h] = "idle"] /\ job' = [job EXCEPT ![h] = NoJob]
    BY <1>5 DEF Commit
  <2>2. job[h].hash \notin blobs
    BY <1>1, <1>5 DEF MeterInv, InsertsOK
  <2>3. queue' \in [Parts -> Entries] /\ EntriesOK'
    <3>1. "uploading" \in States /\ TRUE \in BOOLEAN
      BY DEF States
    <3> QED
      BY Zenon, <2>1, <3>1, Answered, AnsweredEntries DEF MeterInv
  <2>4. /\ at' \in [Handlers -> Steps] /\ job' \in [Handlers -> Jobs] /\ at'[h] = "idle"
        /\ \A g \in Handlers : g # h => at'[g] = at[g] /\ job'[g] = job[g]
    <3>1. "idle" \in Steps
      BY DEF Steps
    <3> QED
      BY Zenon, <2>1, <3>1, NoJobType, HandlerMoves DEF MeterInv
  <2>5. blobs' \subseteq Hashes /\ usage' \in Nat
    BY <1>2, <2>1 DEF MeterInv, TypeOK
  <2>6. TypeOK'
    BY Zenon, <1>1, <1>3, <1>4, <2>3, <2>4, <2>5 DEF MeterInv, TypeOK
  <2>7. JobsOK'
    BY Zenon, <2>4 DEF MeterInv, JobsOK, Busy
  <2>8. ASSUME NEW g \in Handlers, NEW x \in Hashes, LocksBlob(g, x)'
        PROVE  g # h /\ LocksBlob(g, x)
    <3>1. g # h
      BY <2>4, <2>8 DEF LocksBlob
    <3> QED
      BY Zenon, <2>4, <2>8, <3>1 DEF LocksBlob
  <2>9. LocksOK'
    BY Zenon, <2>8 DEF MeterInv, LocksOK
  <2>10. InsertsOK'
    <3>1. ASSUME NEW g \in Handlers, at'[g] = "commit" /\ job'[g].act = "insert"
          PROVE  job'[g].hash \notin blobs'
      <4>1. g # h /\ at[g] = "commit" /\ job[g].act = "insert" /\ job'[g] = job[g]
        BY <2>4, <3>1
      <4>2. job[g].hash \notin blobs
        BY <4>1 DEF MeterInv, InsertsOK
      <4>3. job[g].hash # job[h].hash
        <5>1. LocksBlob(h, job[h].hash)
          BY <1>1, <1>5 DEF LocksBlob
        <5>2. LocksBlob(g, job[g].hash)
          BY <4>1 DEF LocksBlob
        <5> QED
          BY <1>2, <4>1, <5>1, <5>2 DEF MeterInv, LocksOK
      <4> QED
        BY <2>1, <4>1, <4>2, <4>3
    <3> QED
      BY Zenon, <3>1 DEF InsertsOK
  <2>11. Meter'
    BY <2>1, <2>2, FS_AddElement DEF MeterInv, Meter, Metered
  <2> QED
    BY <2>3, <2>6, <2>7, <2>9, <2>10, <2>11 DEF MeterInv
<1>6. CASE job[h].act # "insert"
  <2>1. at' = [at EXCEPT ![h] = "head"] /\ UNCHANGED <<blobs, usage, queue, job>>
    BY <1>6 DEF Commit
  <2>2. job' = [job EXCEPT ![h] = job[h]] /\ "head" \in Steps /\ "head" # "commit"
    BY <2>1 DEF MeterInv, TypeOK, Steps
  <2>3. at' \in [Handlers -> Steps] /\ job' \in [Handlers -> Jobs] /\ at'[h] = "head"
    BY Zenon, <1>2, <2>1, <2>2, HandlerMoves DEF MeterInv
  <2>4. TypeOK'
    BY Zenon, <1>1, <1>3, <1>4, <2>1, <2>3 DEF MeterInv, TypeOK
  <2>5. \A x \in Hashes : ~LocksBlob(h, x)'
    BY <2>3 DEF LocksBlob
  <2>6. JobsOK' /\ LocksOK' /\ InsertsOK'
    BY Zenon, <1>2, <2>1, <2>2, <2>5, LocksMove DEF MeterInv
  <2>7. EntriesOK' /\ Meter'
    BY Zenon, <2>1 DEF MeterInv, EntriesOK, Meter, Metered
  <2> QED
    BY <2>4, <2>6, <2>7 DEF MeterInv
<1> QED
  BY <1>5, <1>6

LEMMA SweptType ==
    ASSUME NEW S \in SUBSET Hashes
    PROVE  /\ Swept(S) \in [at : {"idle", "object", "row"}, todo : SUBSET Hashes, blob : Hashes \cup {None}]
           /\ Swept(S).todo = S /\ Swept(S).blob = None /\ Swept(S).at # "row"
BY DEF Swept

LEMMA GcMeters ==
    ASSUME MeterInv,
           \/ Scan \/ DeleteRow \/ GcCrash
           \/ \E x \in Hashes : Age(x) \/ DeleteObject(x) \/ DeleteFails(x)
    PROVE  MeterInv'
<1> DEFINE GcStates == [at : {"idle", "object", "row"}, todo : SUBSET Hashes, blob : Hashes \cup {None}]
<1>1. gc \in GcStates
  BY DEF MeterInv, TypeOK
<1>2. UNCHANGED <<mapping, at, job, queue, tried, attempts, giveups>> /\ faults' \in Nat /\ sweeps' \in Nat
  <2>1. faults \in Nat /\ sweeps \in Nat
    BY DEF MeterInv, TypeOK
  <2>2. CASE DeleteRow
    BY Zenon, <2>1, <2>2 DEF DeleteRow, history
  <2>3. CASE Scan
    BY <2>1, <2>3 DEF Scan, tables
  <2>4. CASE GcCrash
    BY <2>1, <2>4 DEF GcCrash, tables
  <2>5. CASE \E x \in Hashes : Age(x) \/ DeleteObject(x)
    BY Zenon, <2>1, <2>5 DEF Age, DeleteObject, tables, history
  <2>6. CASE \E x \in Hashes : DeleteFails(x)
    BY <2>1, <2>6 DEF DeleteFails, tables
  <2> QED
    BY <2>2, <2>3, <2>4, <2>5, <2>6
<1>3. gc' \in GcStates
  <2>1. CASE DeleteRow
    <3>1. gc.todo \in SUBSET Hashes /\ gc' = Swept(gc.todo)
      BY <1>1, <2>1 DEF DeleteRow
    <3> QED
      BY Zenon, <3>1, SweptType
  <2>2. CASE GcCrash
    <3>1. gc' = Swept({}) /\ {} \in SUBSET Hashes
      BY <2>2 DEF GcCrash
    <3> QED
      BY Zenon, <3>1, SweptType
  <2>3. CASE Scan
    BY <2>3 DEF Scan
  <2>4. ASSUME NEW x \in Hashes, Age(x) \/ DeleteObject(x)
        PROVE  gc' \in GcStates
    BY <1>1, <2>4 DEF Age, DeleteObject
  <2>5. ASSUME NEW x \in Hashes, DeleteFails(x)
        PROVE  gc' \in GcStates
    <3>1. gc' = Swept(gc.todo \ {x}) /\ gc.todo \ {x} \in SUBSET Hashes
      BY <1>1, <2>5 DEF DeleteFails
    <3> QED
      BY Zenon, <3>1, SweptType
  <2> QED
    BY <2>1, <2>2, <2>3, <2>4, <2>5
<1>4. stored' \subseteq Hashes
  BY DEF Scan, DeleteRow, GcCrash, Age, DeleteObject, DeleteFails, MeterInv, TypeOK
<1>5. CASE DeleteRow /\ Eligible(gc.blob)
  <2>1. gc.blob \in blobs /\ blobs \subseteq Hashes
    BY <1>5 DEF Eligible, MeterInv, TypeOK
  <2>2. /\ blobs' = blobs \ {gc.blob} /\ ref' = [ref EXCEPT ![gc.blob] = 0]
        /\ released' = [released EXCEPT ![gc.blob] = "no"]
        /\ usage' = IF usage = 0 THEN 0 ELSE usage - 1
    BY <1>5 DEF DeleteRow
  <2>3. /\ blobs' \subseteq Hashes /\ ref' \in [Hashes -> Nat] /\ usage' \in Nat
        /\ released' \in [Hashes -> {"no", "recent", "past"}]
    BY <2>1, <2>2 DEF MeterInv, TypeOK
  <2>4. TypeOK'
    BY Zenon, <1>2, <1>3, <1>4, <2>3 DEF MeterInv, TypeOK
  <2>5. JobsOK' /\ LocksOK' /\ InsertsOK'
    <3>1. blobs' \subseteq blobs
      BY <2>2
    <3> QED
      BY Zenon, <1>2, <3>1, LocksStay DEF MeterInv
  <2>6. EntriesOK'
    BY Zenon, <1>2 DEF MeterInv, EntriesOK
  <2>7. Meter'
    <3>1. IsFiniteSet(blobs) /\ usage = Cardinality(blobs) /\ usage \in Nat
      BY DEF MeterInv, Meter, Metered, TypeOK
    <3>2. IsFiniteSet(blobs') /\ Cardinality(blobs') = usage - 1
      BY <2>1, <2>2, <3>1, FS_RemoveElement
    <3>3. Cardinality(blobs') \in Nat
      BY <3>2, FS_CardinalityType
    <3> QED
      BY <2>2, <3>1, <3>2, <3>3 DEF Meter, Metered
  <2> QED
    BY <2>4, <2>5, <2>6, <2>7 DEF MeterInv
<1>6. CASE ~(DeleteRow /\ Eligible(gc.blob))
  <2>1. /\ UNCHANGED <<blobs, ref, usage>>
        /\ released' = released \/ \E x \in Hashes : released' = [released EXCEPT ![x] = "past"]
    <3>1. CASE DeleteRow
      BY <1>6, <3>1 DEF DeleteRow
    <3>2. CASE Scan \/ GcCrash
      BY <3>2 DEF Scan, GcCrash, tables
    <3>3. CASE \E x \in Hashes : Age(x)
      BY <3>3 DEF Age
    <3>4. CASE \E x \in Hashes : DeleteObject(x) \/ DeleteFails(x)
      BY <3>4 DEF DeleteObject, DeleteFails, tables
    <3> QED
      BY <3>1, <3>2, <3>3, <3>4
  <2>2. released' \in [Hashes -> {"no", "recent", "past"}]
    BY <2>1 DEF MeterInv, TypeOK
  <2>3. TypeOK'
    BY Zenon, <1>2, <1>3, <1>4, <2>1, <2>2 DEF MeterInv, TypeOK
  <2>4. JobsOK' /\ LocksOK' /\ InsertsOK'
    <3>1. blobs' \subseteq blobs
      BY <2>1
    <3> QED
      BY Zenon, <1>2, <3>1, LocksStay DEF MeterInv
  <2>5. EntriesOK' /\ Meter'
    BY Zenon, <1>2, <2>1 DEF MeterInv, EntriesOK, Meter, Metered
  <2> QED
    BY <2>3, <2>4, <2>5 DEF MeterInv
<1> QED
  BY <1>5, <1>6

LEMMA MeterStep ==
    ASSUME MeterInv, AudioAssumption, [Next]_vars
    PROVE  MeterInv'
<1>1. CASE UNCHANGED vars
  <2>1. UNCHANGED <<blobs, ref, released, mapping, usage, stored, at, job, queue, gc, tried, attempts,
                    faults, giveups, sweeps>>
    BY Zenon, <1>1 DEF vars, tables, history
  <2>2. TypeOK'
    BY Zenon, <2>1 DEF MeterInv, TypeOK
  <2>3. blobs' \subseteq blobs
    BY <2>1
  <2>4. JobsOK' /\ LocksOK' /\ InsertsOK'
    BY Zenon, <2>1, <2>3, LocksStay DEF MeterInv
  <2>5. EntriesOK' /\ Meter'
    BY Zenon, <2>1 DEF MeterInv, EntriesOK, Meter, Metered
  <2> QED
    BY <2>2, <2>4, <2>5 DEF MeterInv
<1>2. ASSUME NEW p \in Parts, NEW h \in Handlers, NEW x \in Hashes, Ask(p, h, x)
      PROVE  MeterInv'
  BY Zenon, <1>2, AskMeters
<1>3. ASSUME NEW p \in Parts, Put(p) \/ PutFails(p) \/ GiveUp(p) \/ Retry(p)
      PROVE  MeterInv'
  BY Zenon, <1>3, ClientMeters
<1>4. ASSUME NEW h \in Handlers, Presign(h) \/ HeadFails(h) \/ Abort(h)
      PROVE  MeterInv'
  <2>1. CASE ReadBlob(h) \/ ReadOld(h) \/ Repoint(h) \/ Map(h) \/ AddRef(h) \/ Insert(h)
    BY Zenon, <2>1, PresignMeters
  <2>2. CASE Commit(h)
    BY Zenon, <2>2, CommitMeters
  <2>3. CASE Head(h) \/ HeadFails(h) \/ Abort(h)
    BY Zenon, <2>3, EndMeters
  <2> QED
    BY Zenon, <1>4, <2>1, <2>2, <2>3 DEF Presign
<1>5. CASE \/ Sweep \/ GcCrash
           \/ \E x \in Hashes : Age(x) \/ DeleteFails(x)
  BY Zenon, <1>5, GcMeters DEF Sweep
<1> QED
  BY Zenon, <1>1, <1>2, <1>3, <1>4, <1>5 DEF Next

(* However presigns interleave, abort, are repeated or abandoned, and       *)
(* whatever the collector does beside them: the tenant's bytes are those of *)
(* the blob rows.                                                           *)
THEOREM MeteredHolds == Spec => [](TypeOK /\ Metered)
<1>1. Init => MeterInv
  BY Zenon, MeterInit, AudioAssumption DEF AudioAssumption
<1>2. MeterInv /\ [Next]_vars => MeterInv'
  BY Zenon, MeterStep, AudioAssumption DEF AudioAssumption
<1>3. MeterInv => TypeOK /\ Metered
  BY Zenon DEF MeterInv, Meter
<1> QED
  BY <1>1, <1>2, <1>3, PTL DEF Spec

-----------------------------------------------------------------------------
(* The books, while every presign is awaited.  A part has at most one       *)
(* handler at work, the one its entry waits for; so what the handler read   *)
(* of the part's mapping still holds when it commits.                       *)
Gathered == (gc.todo \cup {gc.blob}) \ {None}

AskedOK ==
    /\ \A h \in Handlers : Busy(h) =>
         queue[job[h].part].asked = h /\ queue[job[h].part].hash = job[h].hash
    /\ \A p \in Parts, h \in Handlers : queue[p].asked = h =>
         queue[p].state = "uploading" /\ queue[p].url = FALSE /\ Busy(h) /\ job[h].part = p
    /\ \A p \in Parts : queue[p].url => queue[p].state = "uploading" /\ mapping[p] = queue[p].hash

ReadBy(h) ==
    /\ at[h] \in {"old", "repoint", "map", "ref"} /\ job[h].saw => job[h].hash \in blobs
    /\ at[h] \in {"repoint", "map", "ref", "commit"} => job[h].old = mapping[job[h].part]
    /\ at[h] \in {"map", "ref", "commit"} =>
         (job[h].drop <=> job[h].old \notin {None, job[h].hash})
    /\ at[h] = "commit" => /\ job[h].act = "none" <=> job[h].old = job[h].hash
                           /\ job[h].act = "add" => job[h].hash \in blobs
    /\ at[h] = "head" => mapping[job[h].part] = job[h].hash
ReadOK == \A h \in Handlers : ReadBy(h)

CountOK ==
    /\ \A x \in blobs : ref[x] = Cardinality({p \in Parts : mapping[p] = x})
    /\ \A p \in Parts : mapping[p] # None => mapping[p] \in blobs

(* What the collector has in hand is neither mapped nor asked for, and the  *)
(* object is gone before the row.                                           *)
GcOK ==
    /\ \A x \in Gathered : /\ \A p \in Parts : mapping[p] # x
                           /\ \A h \in Handlers : Busy(h) => job[h].hash # x
    /\ gc.at = "row" => gc.blob \notin stored

KeptOK == DoneIsStored /\ NoOrphan
Books == AskedOK /\ ReadOK /\ CountOK /\ GcOK /\ KeptOK

(* An entry that waits is not pending, failed or done. *)
LEMMA Waiting ==
    ASSUME TypeOK, AskedOK, NEW p \in Parts, queue[p].state # "uploading" \/ queue[p].url
    PROVE  queue[p].asked = None
<1>1. queue[p].asked \in Handlers \cup {None}
  BY EntryFields DEF TypeOK
<1> QED
  BY Zenon, <1>1 DEF AskedOK

LEMMA AskBooks ==
    ASSUME MeterInv, Books, AudioAssumption, NEW p \in Parts, NEW h \in Handlers, NEW x \in Hashes,
           Ask(p, h, x), x \notin Gathered
    PROVE  Books'
<1>1. UNCHANGED <<blobs, ref, released, mapping, usage, stored, gc>> /\ ~Busy(h)
  BY DEF Ask, tables, Busy
<1>2. PICK j : j = [NoJob EXCEPT !.part = p, !.hash = x]
  OBVIOUS
<1>3. j \in Jobs /\ j.part = p /\ j.hash = x
  BY <1>2, NoJobType DEF Jobs
<1>4. /\ at'[h] = "blob" /\ job'[h] = j
      /\ \A g \in Handlers : g # h => at'[g] = at[g] /\ job'[g] = job[g]
  <2>1. at' = [at EXCEPT ![h] = "blob"] /\ job' = [job EXCEPT ![h] = j] /\ "blob" \in Steps
    BY <1>2 DEF Ask, Steps
  <2> QED
    BY Zenon, <1>3, <2>1, HandlerMoves DEF MeterInv
<1>5. PICK e : e = [Queued("uploading") EXCEPT !.hash = x, !.asked = h]
  OBVIOUS
<1>6. e.hash = x /\ e.asked = h /\ e.state = "uploading" /\ e.url = FALSE
  <2>1. Queued("uploading") \in Entries /\ Queued("uploading").state = "uploading" /\ Queued("uploading").url = FALSE
    BY QueuedEntry DEF States
  <2> QED
    BY <2>1, <1>5 DEF Entries
<1>7. queue'[p] = e /\ \A q \in Parts : q # p => queue'[q] = queue[q]
  BY <1>5 DEF Ask, MeterInv, TypeOK
<1>8. queue[p].asked = None /\ h # None
  <2>1. queue[p].state = "pending"
    BY DEF Ask
  <2>2. h # None
    BY DEF AudioAssumption
  <2> QED
    BY <2>1, <2>2, Waiting DEF Books, MeterInv
<1>9. ASSUME NEW g \in Handlers, g # h, Busy(g)
      PROVE  job[g].part \in Parts /\ job[g].part # p
  <2>1. queue[job[g].part].asked = g /\ job[g].part \in Parts
    BY <1>9 DEF Books, AskedOK, MeterInv, JobsOK
  <2>2. g # None
    BY DEF AudioAssumption
  <2> QED
    BY <1>8, <2>1, <2>2
<1>10. Busy(h)' /\ \A g \in Handlers : g # h => (Busy(g)' <=> Busy(g))
  BY <1>4 DEF Busy
<1>11. AskedOK'
  <2>1. ASSUME NEW g \in Handlers, Busy(g)'
        PROVE  queue'[job'[g].part].asked = g /\ queue'[job'[g].part].hash = job'[g].hash
    <3>1. CASE g = h
      BY <1>3, <1>4, <1>6, <1>7, <3>1
    <3>2. CASE g # h
      <4>1. Busy(g) /\ job'[g] = job[g]
        BY <1>4, <1>10, <2>1, <3>2
      <4>2. queue'[job[g].part] = queue[job[g].part]
        BY <1>7, <1>9, <3>2, <4>1
      <4>3. queue[job[g].part].asked = g /\ queue[job[g].part].hash = job[g].hash
        BY <4>1 DEF Books, AskedOK
      <4> QED
        BY <4>1, <4>2, <4>3
    <3> QED
      BY <3>1, <3>2
  <2>2. ASSUME NEW q \in Parts, NEW g \in Handlers, queue'[q].asked = g
        PROVE  queue'[q].state = "uploading" /\ queue'[q].url = FALSE /\ Busy(g)' /\ job'[g].part = q
    <3>1. CASE q = p
      <4>1. g = h /\ queue'[q].state = "uploading" /\ queue'[q].url = FALSE
        BY <1>6, <1>7, <2>2, <3>1
      <4> QED
        BY <1>3, <1>4, <1>10, <3>1, <4>1
    <3>2. CASE q # p
      <4>1. queue'[q] = queue[q]
        BY <1>7, <3>2
      <4>2. queue[q].state = "uploading" /\ queue[q].url = FALSE /\ Busy(g) /\ job[g].part = q
        BY Zenon, <2>2, <4>1 DEF Books, AskedOK
      <4>3. g # h
        BY <1>1, <4>2
      <4> QED
        BY <1>4, <1>10, <4>1, <4>2, <4>3
    <3> QED
      BY <3>1, <3>2
  <2>3. ASSUME NEW q \in Parts, queue'[q].url
        PROVE  queue'[q].state = "uploading" /\ mapping'[q] = queue'[q].hash
    <3>1. q # p
      BY Zenon, <1>6, <1>7, <2>3
    <3>2. queue'[q] = queue[q] /\ mapping' = mapping
      BY <1>1, <1>7, <3>1
    <3>3. queue[q].url => queue[q].state = "uploading" /\ mapping[q] = queue[q].hash
      BY Zenon DEF Books, AskedOK
    <3> QED
      BY Zenon, <2>3, <3>2, <3>3
  <2> QED
    BY Zenon, <2>1, <2>2, <2>3 DEF AskedOK
<1>12. ReadOK'
  <2>1. ASSUME NEW g \in Handlers, g # h
        PROVE  ReadBy(g)'
    <3>1. ReadBy(g) /\ at'[g] = at[g] /\ job'[g] = job[g]
      BY <1>4, <2>1 DEF Books, ReadOK
    <3> QED
      BY Zenon, <1>1, <3>1 DEF ReadBy
  <2>2. ReadBy(h)'
    BY <1>4 DEF ReadBy
  <2> QED
    BY Zenon, <2>1, <2>2 DEF ReadOK
<1>13. CountOK'
  BY Zenon, <1>1 DEF Books, CountOK
<1>14. GcOK'
  <2>1. Gathered' = Gathered
    BY <1>1 DEF Gathered
  <2>2. ASSUME NEW y \in Gathered, NEW g \in Handlers, Busy(g)'
        PROVE  job'[g].hash # y
    BY <1>3, <1>4, <1>10, <2>2 DEF Books, GcOK
  <2> QED
    BY Zenon, <1>1, <2>1, <2>2 DEF Books, GcOK
<1>15. KeptOK'
  <2>1. DoneIsStored'
    BY <1>1, <1>6, <1>7 DEF Books, KeptOK, DoneIsStored
  <2> QED
    BY Zenon, <1>1, <2>1 DEF Books, KeptOK, NoOrphan
<1> QED
  BY <1>11, <1>12, <1>13, <1>14, <1>15 DEF Books

LEMMA ClientBooks ==
    ASSUME MeterInv, Books, AudioAssumption, NEW p \in Parts, Put(p) \/ PutFails(p) \/ Retry(p)
    PROVE  Books'
<1>1. UNCHANGED <<blobs, ref, released, mapping, usage, at, job, gc>>
  BY DEF Put, PutFails, Retry, tables
<1>2. PICK s \in States : /\ queue' = [queue EXCEPT ![p] = Queued(s)]
                          /\ s = "done" => queue[p].url /\ queue[p].hash \in stored'
  <2>1. CASE Put(p)
    BY <2>1 DEF Put, States
  <2>2. CASE PutFails(p)
    BY <2>2 DEF PutFails, States
  <2>3. CASE Retry(p)
    BY <2>3 DEF Retry, States
  <2> QED
    BY <2>1, <2>2, <2>3
<1>3. /\ queue'[p].state = s /\ queue'[p].asked = None /\ ~queue'[p].url
      /\ \A q \in Parts : q # p => queue'[q] = queue[q]
  BY <1>2, QueuedEntry DEF MeterInv, TypeOK
<1>4. queue[p].asked = None
  <2>1. queue[p].state # "uploading" \/ queue[p].url
    BY Zenon DEF Put, PutFails, Retry
  <2> QED
    BY Zenon, <2>1, Waiting DEF Books, MeterInv
<1>5. \/ stored' = stored
      \/ /\ queue[p].url /\ stored' = stored \cup {queue[p].hash}
  BY Zenon DEF Put, PutFails, Retry
<1>6. queue[p].url => /\ queue[p].hash = mapping[p] /\ queue[p].hash \in Hashes
                      /\ queue[p].hash \in blobs /\ queue[p].hash # None
  <2> SUFFICES ASSUME queue[p].url PROVE /\ queue[p].hash = mapping[p] /\ queue[p].hash \in Hashes
                                         /\ queue[p].hash \in blobs /\ queue[p].hash # None
    OBVIOUS
  <2>1. queue[p].hash \in Hashes /\ queue[p].hash = mapping[p]
    BY Zenon DEF MeterInv, EntriesOK, Books, AskedOK
  <2>2. None \notin Hashes
    BY DEF AudioAssumption
  <2> QED
    BY Zenon, <2>1, <2>2 DEF Books, CountOK
<1>7. AskedOK'
  <2>1. ASSUME NEW g \in Handlers, Busy(g)
        PROVE  job[g].part # p /\ job[g].part \in Parts
    <3>1. queue[job[g].part].asked = g /\ g # None /\ job[g].part \in Parts
      BY <2>1 DEF Books, AskedOK, MeterInv, JobsOK, AudioAssumption
    <3> QED
      BY <1>4, <3>1
  <2>2. ASSUME NEW g \in Handlers, Busy(g)'
        PROVE  queue'[job'[g].part].asked = g /\ queue'[job'[g].part].hash = job'[g].hash
    <3>1. Busy(g) /\ job'[g] = job[g]
      BY <1>1, <2>2 DEF Busy
    <3>2. queue'[job[g].part] = queue[job[g].part]
      BY <1>3, <2>1, <3>1
    <3> QED
      BY <3>1, <3>2 DEF Books, AskedOK
  <2>3. ASSUME NEW q \in Parts, NEW g \in Handlers, queue'[q].asked = g
        PROVE  queue'[q].state = "uploading" /\ queue'[q].url = FALSE /\ Busy(g)' /\ job'[g].part = q
    <3>1. g # None
      BY DEF AudioAssumption
    <3>2. queue'[q] = queue[q]
      BY <1>3, <2>3, <3>1
    <3>3. queue[q].state = "uploading" /\ queue[q].url = FALSE /\ Busy(g) /\ job[g].part = q
      BY Zenon, <2>3, <3>2 DEF Books, AskedOK
    <3>4. Busy(g)' /\ job'[g] = job[g]
      BY <1>1, <3>3 DEF Busy
    <3> QED
      BY Zenon, <3>2, <3>3, <3>4
  <2>4. ASSUME NEW q \in Parts, queue'[q].url
        PROVE  queue'[q].state = "uploading" /\ mapping'[q] = queue'[q].hash
    <3>1. q # p
      BY Zenon, <1>3, <2>4
    <3>2. queue'[q] = queue[q] /\ mapping' = mapping
      BY <1>1, <1>3, <3>1
    <3>3. queue[q].url => queue[q].state = "uploading" /\ mapping[q] = queue[q].hash
      BY Zenon DEF Books, AskedOK
    <3> QED
      BY Zenon, <2>4, <3>2, <3>3
  <2> QED
    BY Zenon, <2>2, <2>3, <2>4 DEF AskedOK
<1>8. ReadOK' /\ CountOK'
  BY Zenon, <1>1 DEF Books, ReadOK, ReadBy, CountOK
<1>9. GcOK'
  <2>1. Gathered' = Gathered /\ gc' = gc
    BY <1>1 DEF Gathered
  <2>2. gc.at = "row" => gc.blob \notin stored'
    <3> SUFFICES ASSUME gc.at = "row", gc.blob \in stored' PROVE FALSE
      OBVIOUS
    <3>1. gc.blob \notin stored
      BY DEF Books, GcOK
    <3>2. queue[p].url /\ gc.blob = queue[p].hash
      BY <1>5, <3>1
    <3>3. gc.blob \in Gathered /\ gc.blob = mapping[p]
      BY <1>6, <3>2 DEF Gathered
    <3> QED
      BY Zenon, <3>3 DEF Books, GcOK
  <2> QED
    BY Zenon, <1>1, <2>1, <2>2 DEF Books, GcOK, Busy
<1>10. KeptOK'
  <2>1. stored \subseteq stored'
    BY <1>5
  <2>2. DoneIsStored'
    <3>1. ASSUME NEW q \in Parts, queue'[q].state = "done"
          PROVE  mapping'[q] \in stored'
      <4>1. CASE q = p
        BY Zenon, <1>1, <1>2, <1>3, <1>6, <3>1, <4>1
      <4>2. CASE q # p
        <5>1. queue[q].state = "done"
          BY <1>3, <3>1, <4>2
        <5>2. mapping[q] \in stored
          BY Zenon, <5>1 DEF Books, KeptOK, DoneIsStored
        <5> QED
          BY <1>1, <2>1, <5>2
      <4> QED
        BY <4>1, <4>2
    <3> QED
      BY Zenon, <3>1 DEF DoneIsStored
  <2>3. NoOrphan'
    BY <1>1, <1>5, <1>6 DEF Books, KeptOK, NoOrphan
  <2> QED
    BY <2>2, <2>3 DEF KeptOK
<1> QED
  BY <1>7, <1>8, <1>9, <1>10 DEF Books

(* A statement before the commit changes what its own handler has read. *)
LEMMA StatementBooks ==
    ASSUME MeterInv, Books, NEW h \in Handlers, NEW from \in Steps, NEW to \in Steps, NEW j \in Jobs,
           from # "idle", to # "idle", Statement(h, from, to, j),
           j.part = job[h].part, j.hash = job[h].hash,
           at'[h] = to /\ job'[h] = j => ReadBy(h)'
    PROVE  Books'
<1>1. /\ UNCHANGED <<blobs, ref, released, mapping, usage, stored, queue, gc>>
      /\ at' = [at EXCEPT ![h] = to] /\ job' = [job EXCEPT ![h] = j] /\ at[h] = from
  BY DEF Statement, tables
<1>2. /\ at'[h] = to /\ job'[h] = j
      /\ \A g \in Handlers : g # h => at'[g] = at[g] /\ job'[g] = job[g]
  BY Zenon, <1>1, HandlerMoves DEF MeterInv
<1>3. ASSUME NEW g \in Handlers
      PROVE  /\ Busy(g)' <=> Busy(g)
             /\ job'[g].part = job[g].part /\ job'[g].hash = job[g].hash
  BY Zenon, <1>1, <1>2 DEF Busy
<1>4. AskedOK'
  <2>1. ASSUME NEW g \in Handlers, Busy(g)'
        PROVE  queue'[job'[g].part].asked = g /\ queue'[job'[g].part].hash = job'[g].hash
    <3>1. queue[job[g].part].asked = g /\ queue[job[g].part].hash = job[g].hash
      BY Zenon, <1>3, <2>1 DEF Books, AskedOK
    <3> QED
      BY <1>1, <1>3, <3>1
  <2>2. ASSUME NEW q \in Parts, NEW g \in Handlers, queue'[q].asked = g
        PROVE  queue'[q].state = "uploading" /\ queue'[q].url = FALSE /\ Busy(g)' /\ job'[g].part = q
    BY Zenon, <1>1, <1>3, <2>2 DEF Books, AskedOK
  <2>3. \A q \in Parts : queue'[q].url => queue'[q].state = "uploading" /\ mapping'[q] = queue'[q].hash
    BY Zenon, <1>1 DEF Books, AskedOK
  <2> QED
    BY Zenon, <2>1, <2>2, <2>3 DEF AskedOK
<1>5. ReadOK'
  <2>1. ASSUME NEW g \in Handlers, g # h
        PROVE  ReadBy(g)'
    <3>1. ReadBy(g) /\ at'[g] = at[g] /\ job'[g] = job[g]
      BY <1>2, <2>1 DEF Books, ReadOK
    <3>2. blobs' = blobs /\ mapping' = mapping
      BY <1>1
    <3> QED
      BY Zenon, <3>1, <3>2 DEF ReadBy
  <2>2. ReadBy(h)'
    BY Zenon, <1>2
  <2> QED
    BY Zenon, <2>1, <2>2 DEF ReadOK
<1>6. CountOK' /\ KeptOK'
  BY Zenon, <1>1 DEF Books, CountOK, KeptOK, DoneIsStored, NoOrphan
<1>7. GcOK'
  <2>1. Gathered' = Gathered
    BY <1>1 DEF Gathered
  <2> QED
    BY Zenon, <1>1, <1>3, <2>1 DEF Books, GcOK
<1> QED
  BY <1>4, <1>5, <1>6, <1>7 DEF Books

LEMMA PresignBooks ==
    ASSUME MeterInv, Books, AudioAssumption, NEW h \in Handlers,
           ReadBlob(h) \/ ReadOld(h) \/ Repoint(h) \/ Map(h) \/ AddRef(h) \/ Insert(h)
    PROVE  Books'
<1>1. job[h] \in Jobs /\ Busy(h) /\ ReadBy(h)
  BY DEF MeterInv, TypeOK, Busy, Books, ReadOK, ReadBlob, ReadOld, Repoint, Map, AddRef, Insert, Statement
<1>2. job[h].part \in Parts /\ job[h].hash \in Hashes /\ job[h].hash # None
  <2>1. None \notin Hashes
    BY DEF AudioAssumption
  <2> QED
    BY <1>1, <2>1 DEF MeterInv, JobsOK
<1>3. blobs' = blobs /\ mapping' = mapping
  BY DEF ReadBlob, ReadOld, Repoint, Map, AddRef, Insert, Statement, tables
<1>4. CASE ReadBlob(h)
  <2>1. PICK b \in BOOLEAN : b = (job[h].hash \in blobs)
    <3>1. PICK b \in BOOLEAN : b <=> job[h].hash \in blobs
      OBVIOUS
    <3> QED
      BY Zenon, <3>1
  <2>2. PICK j : j = [job[h] EXCEPT !.saw = b]
    OBVIOUS
  <2>3. j \in Jobs /\ j.part = job[h].part /\ j.hash = job[h].hash /\ j.saw = b
    BY <1>1, <2>2 DEF Jobs
  <2>4. Statement(h, "blob", "old", j)
    BY <1>4, <2>1, <2>2 DEF ReadBlob
  <2>5. ASSUME at'[h] = "old", job'[h] = j PROVE ReadBy(h)'
    <3>1. job'[h].saw => job'[h].hash \in blobs'
      BY Zenon, <1>3, <2>1, <2>3, <2>5
    <3>2. /\ at'[h] \notin {"repoint", "map", "ref", "commit"} /\ at'[h] \notin {"map", "ref", "commit"}
          /\ at'[h] # "commit" /\ at'[h] # "head"
      BY <2>5
    <3> QED
      BY Zenon, <3>1, <3>2 DEF ReadBy
  <2>6. "blob" \in Steps /\ "blob" # "idle" /\ "old" \in Steps /\ "old" # "idle"
    BY DEF Steps
  <2> QED
    BY Zenon, <2>3, <2>4, <2>5, <2>6, StatementBooks
<1>5. CASE ReadOld(h)
  <2>1. PICK o \in Hashes \cup {None} : o = mapping[job[h].part]
    BY <1>2 DEF MeterInv, TypeOK
  <2>2. PICK j : j = [job[h] EXCEPT !.old = o]
    OBVIOUS
  <2>3. j \in Jobs /\ j.part = job[h].part /\ j.hash = job[h].hash /\ j.saw = job[h].saw /\ j.old = o
    BY <1>1, <2>2 DEF Jobs
  <2>4. Statement(h, "old", "repoint", j) /\ at[h] \in {"old", "repoint", "map", "ref"}
    BY <1>5, <2>1, <2>2 DEF ReadOld, Statement
  <2>5. ASSUME at'[h] = "repoint", job'[h] = j PROVE ReadBy(h)'
    <3>1. job'[h].saw => job'[h].hash \in blobs'
      BY Zenon, <1>1, <1>3, <2>3, <2>4, <2>5 DEF ReadBy
    <3>2. job'[h].old = mapping'[job'[h].part]
      BY Zenon, <1>3, <2>1, <2>3, <2>5
    <3>3. at'[h] \notin {"map", "ref", "commit"} /\ at'[h] # "commit" /\ at'[h] # "head"
      BY <2>5
    <3> QED
      BY Zenon, <3>1, <3>2, <3>3 DEF ReadBy
  <2>6. "old" \in Steps /\ "old" # "idle" /\ "repoint" \in Steps /\ "repoint" # "idle"
    BY DEF Steps
  <2> QED
    BY Zenon, <2>3, <2>4, <2>5, <2>6, StatementBooks
<1>6. CASE Repoint(h)
  <2>1. PICK b \in BOOLEAN : b = (job[h].old \notin {None, job[h].hash} /\ job[h].old \in blobs)
    OBVIOUS
  <2>2. PICK j : j = [job[h] EXCEPT !.drop = b]
    OBVIOUS
  <2>3. /\ j \in Jobs /\ j.part = job[h].part /\ j.hash = job[h].hash /\ j.saw = job[h].saw
        /\ j.old = job[h].old /\ j.drop = b
    BY <1>1, <2>2 DEF Jobs
  <2>4. Statement(h, "repoint", "map", j) /\ at[h] \in {"old", "repoint", "map", "ref"}
        /\ at[h] \in {"repoint", "map", "ref", "commit"}
    BY <1>6, <2>1, <2>2 DEF Repoint, Statement
  <2>5. job[h].old = mapping[job[h].part]
    BY Zenon, <1>1, <2>4 DEF ReadBy
  <2>6. job[h].old # None => job[h].old \in blobs
    BY Zenon, <1>2, <2>5 DEF Books, CountOK
  <2>7. b <=> job[h].old \notin {None, job[h].hash}
    BY Zenon, <2>1, <2>6
  <2>8. ASSUME at'[h] = "map", job'[h] = j PROVE ReadBy(h)'
    <3>1. job'[h].saw => job'[h].hash \in blobs'
      BY Zenon, <1>1, <1>3, <2>3, <2>4, <2>8 DEF ReadBy
    <3>2. job'[h].old = mapping'[job'[h].part]
      BY Zenon, <1>3, <2>3, <2>5, <2>8
    <3>3. job'[h].drop <=> job'[h].old \notin {None, job'[h].hash}
      BY Zenon, <2>3, <2>7, <2>8
    <3>4. at'[h] # "commit" /\ at'[h] # "head"
      BY <2>8
    <3> QED
      BY Zenon, <3>1, <3>2, <3>3, <3>4 DEF ReadBy
  <2>9. "repoint" \in Steps /\ "repoint" # "idle" /\ "map" \in Steps /\ "map" # "idle"
    BY DEF Steps
  <2> QED
    BY Zenon, <2>3, <2>4, <2>8, <2>9, StatementBooks
<1>7. CASE Map(h)
  <2>1. Statement(h, "map", "ref", job[h]) /\ at[h] = "map"
    BY <1>7 DEF Map, Statement
  <2>2. ASSUME at'[h] = "ref", job'[h] = job[h] PROVE ReadBy(h)'
    <3>1. /\ job[h].saw => job[h].hash \in blobs
          /\ job[h].old = mapping[job[h].part]
          /\ job[h].drop <=> job[h].old \notin {None, job[h].hash}
      BY Zenon, <1>1, <2>1 DEF ReadBy
    <3>2. at'[h] # "commit" /\ at'[h] # "head"
      BY <2>2
    <3> QED
      BY Zenon, <1>3, <2>2, <3>1, <3>2 DEF ReadBy
  <2>3. "map" \in Steps /\ "map" # "idle" /\ "ref" \in Steps /\ "ref" # "idle"
    BY DEF Steps
  <2> QED
    BY Zenon, <1>1, <2>1, <2>2, <2>3, StatementBooks
<1>8. CASE AddRef(h) \/ Insert(h)
  <2>1. at[h] = "ref"
    BY <1>8 DEF AddRef, Insert, Statement
  <2>2. /\ job[h].saw => job[h].hash \in blobs
        /\ job[h].old = mapping[job[h].part]
        /\ job[h].drop <=> job[h].old \notin {None, job[h].hash}
    BY Zenon, <1>1, <2>1 DEF ReadBy
  <2>3. job[h].old = job[h].hash => job[h].hash \in blobs
    BY Zenon, <1>2, <2>2 DEF Books, CountOK
  <2>4. PICK c \in {"none", "add", "insert"} :
          /\ Statement(h, "ref", "commit", [job[h] EXCEPT !.act = c])
          /\ c = "none" <=> job[h].old = job[h].hash
          /\ c = "add" => job[h].hash \in blobs
    <3>1. CASE AddRef(h)
      <4>1. job[h].hash \in blobs
        BY Zenon, <2>2, <3>1 DEF AddRef
      <4>2. Statement(h, "ref", "commit",
                      [job[h] EXCEPT !.act = IF SamePartSameBlob(h) \/ job[h].hash \notin blobs
                                             THEN "none" ELSE "add"])
        BY Zenon, <3>1 DEF AddRef
      <4>3. CASE SamePartSameBlob(h)
        <5>1. (IF SamePartSameBlob(h) \/ job[h].hash \notin blobs THEN "none" ELSE "add") = "none"
          BY <4>3
        <5> QED
          BY <4>2, <4>3, <5>1 DEF SamePartSameBlob
      <4>4. CASE ~SamePartSameBlob(h)
        <5>1. (IF SamePartSameBlob(h) \/ job[h].hash \notin blobs THEN "none" ELSE "add") = "add"
          BY <4>1, <4>4
        <5> QED
          BY <4>1, <4>2, <4>4, <5>1 DEF SamePartSameBlob
      <4> QED
        BY <4>3, <4>4
    <3>2. CASE Insert(h)
      BY <2>3, <3>2 DEF Insert
    <3> QED
      BY <1>8, <3>1, <3>2
  <2>5. PICK j : j = [job[h] EXCEPT !.act = c]
    OBVIOUS
  <2>6. /\ j \in Jobs /\ j.part = job[h].part /\ j.hash = job[h].hash /\ j.old = job[h].old
        /\ j.drop = job[h].drop /\ j.act = c
    BY <1>1, <2>5 DEF Jobs
  <2>7. ASSUME at'[h] = "commit", job'[h] = j PROVE ReadBy(h)'
    <3>1. at'[h] \notin {"old", "repoint", "map", "ref"} /\ at'[h] # "head"
      BY <2>7
    <3> QED
      BY Zenon, <1>3, <2>2, <2>4, <2>6, <2>7, <3>1 DEF ReadBy
  <2>8. "ref" \in Steps /\ "ref" # "idle" /\ "commit" \in Steps /\ "commit" # "idle"
    BY DEF Steps
  <2>9. Statement(h, "ref", "commit", j)
    BY <2>4, <2>5
  <2> QED
    BY Zenon, <2>6, <2>7, <2>8, <2>9, StatementBooks
<1> QED
  BY <1>4, <1>5, <1>6, <1>7, <1>8

(* The refcounts of a commit follow the mapping. *)
LEMMA CommitCounts ==
    ASSUME MeterInv, Books, AudioAssumption, NEW h \in Handlers, at[h] = "commit",
           ref' = Counted(job[h]), mapping' = [mapping EXCEPT ![job[h].part] = job[h].hash],
           NEW y \in Hashes, y \in blobs \/ (job[h].act = "insert" /\ y = job[h].hash)
    PROVE  ref'[y] = Cardinality({p \in Parts : mapping'[p] = y})
<1> DEFINE x == job[h].hash
           old == job[h].old
           n == Cardinality({p \in Parts : mapping[p] = y})
           m == Cardinality({p \in Parts : mapping'[p] = y})
<1>1. job[h].part \in Parts /\ x \in Hashes /\ None \notin Hashes
  <2>1. Busy(h)
    BY DEF Busy
  <2> QED
    BY <2>1 DEF MeterInv, JobsOK, AudioAssumption
<1>2. /\ old = mapping[job[h].part] /\ (job[h].drop <=> old \notin {None, x})
      /\ job[h].act = "none" <=> old = x
      /\ job[h].act \in {"none", "add", "insert"}
  <2>1. ReadBy(h) /\ job[h] \in Jobs
    BY DEF Books, ReadOK, MeterInv, TypeOK
  <2> QED
    BY <2>1, JobFields DEF ReadBy
<1>3. y \in blobs => ref[y] = n /\ ref[y] \in Nat
  BY DEF Books, CountOK, MeterInv, TypeOK
<1>4. job[h].act = "insert" => x \notin blobs
  BY DEF MeterInv, InsertsOK
<1>5. mapping \in [Parts -> Hashes \cup {None}] /\ IsFiniteSet(Parts)
  BY DEF MeterInv, TypeOK, AudioAssumption
<1>6. ref'[y] = IF y = old /\ job[h].drop THEN (IF ref[y] = 0 THEN 0 ELSE ref[y] - 1)
                ELSE IF y = x /\ job[h].act = "add" THEN ref[y] + 1
                ELSE IF y = x /\ job[h].act = "insert" THEN 1
                ELSE ref[y]
  BY DEF Counted
<1>7. CASE old = x
  <2>1. mapping' = mapping
    BY <1>1, <1>2, <1>5, <1>7
  <2>2. ~job[h].drop /\ job[h].act = "none"
    BY <1>2, <1>7
  <2>3. ref'[y] = ref[y]
    BY <1>6, <2>2
  <2> QED
    BY <1>3, <2>1, <2>2, <2>3
<1>8. CASE old # x
  <2>1. n \in Nat /\ m \in Nat /\ m = IF y = x THEN n + 1 ELSE IF y = old THEN n - 1 ELSE n
    <3> DEFINE S == {q \in Parts : mapping[q] = y}
               T == {q \in Parts : mapping'[q] = y}
               p == job[h].part
    <3>1. /\ p \in Parts /\ mapping[p] = old /\ mapping'[p] = x
          /\ \A q \in Parts : q # p => mapping'[q] = mapping[q]
      BY <1>1, <1>2, <1>5
    <3>2. IsFiniteSet(S) /\ IsFiniteSet(T)
      BY <1>5, FS_Subset
    <3>3. n \in Nat /\ m \in Nat
      BY <3>2, FS_CardinalityType
    <3>4. CASE y = x
      <4>1. T = S \cup {p} /\ p \notin S
        BY <1>8, <3>1, <3>4
      <4> QED
        <5>1. Cardinality(S \cup {p}) = Cardinality(S) + 1
          BY <3>2, <4>1, FS_AddElement
        <5> QED
          BY <3>3, <3>4, <4>1, <5>1
    <3>5. CASE y # x /\ y = old
      <4>1. T = S \ {p} /\ p \in S
        BY <3>1, <3>5
      <4> QED
        <5>1. Cardinality(S \ {p}) = Cardinality(S) - 1
          BY <3>2, <4>1, FS_RemoveElement
        <5> QED
          BY <3>3, <3>5, <4>1, <5>1
    <3>6. CASE y # x /\ y # old
      <4>1. T = S
        BY <3>1, <3>6
      <4> QED
        BY <3>3, <3>6, <4>1
    <3> QED
      BY <3>4, <3>5, <3>6
  <2>2. CASE y = x
    <3>1. CASE job[h].act = "insert"
      <4>1. {p \in Parts : mapping[p] = y} = {}
        BY <1>1, <1>4, <2>2, <3>1 DEF Books, CountOK
      <4>2. n = 0
        BY <4>1, FS_EmptySet
      <4> QED
        BY <1>6, <1>8, <2>1, <2>2, <3>1, <4>2
    <3>2. CASE job[h].act = "add"
      <4>1. y \in blobs
        BY <3>2
      <4>2. ref'[y] = ref[y] + 1
        BY <1>6, <1>8, <2>2, <3>2
      <4> QED
        BY <1>3, <2>1, <2>2, <4>1, <4>2
    <3> QED
      BY <1>2, <1>8, <3>1, <3>2
  <2>3. CASE y # x
    <3>1. y \in blobs
      BY <2>3
    <3>2. CASE y = old
      <4>1. job[h].drop
        BY <1>1, <1>2, <2>3, <3>2
      <4> QED
        BY <1>3, <1>6, <2>1, <2>3, <3>1, <3>2, <4>1
    <3>3. CASE y # old
      <4>1. ref'[y] = ref[y]
        BY <1>6, <2>3, <3>3
      <4> QED
        BY <1>3, <2>1, <2>3, <3>1, <3>3, <4>1
    <3> QED
      BY <3>2, <3>3
  <2> QED
    BY <2>2, <2>3
<1> QED
  BY <1>7, <1>8

(* What the commit leaves: its part maps to its blob, which has a row now,  *)
(* and the handler is done or goes on to the HEAD.                          *)
Committed(h, p, x) ==
    /\ p \in Parts /\ x \in Hashes /\ x # None /\ Busy(h)
    /\ queue[p].asked = h /\ queue[p].state = "uploading" /\ queue[p].url = FALSE
    /\ mapping'[p] = x /\ \A q \in Parts : q # p => mapping'[q] = mapping[q]
    /\ \A g \in Handlers : g # h => at'[g] = at[g] /\ job'[g] = job[g]
    /\ \A q \in Parts : q # p => queue'[q] = queue[q]
    /\ blobs \subseteq blobs' /\ x \in blobs'
    /\ \/ /\ at'[h] = "idle" /\ queue'[p].hash = x /\ queue'[p].state = "uploading"
          /\ queue'[p].asked = None
       \/ at'[h] = "head" /\ job'[h] = job[h] /\ queue'[p] = queue[p]

LEMMA CommitEffect ==
    ASSUME MeterInv, Books, AudioAssumption, NEW h \in Handlers, Commit(h)
    PROVE  \A p, x : p = job[h].part /\ x = job[h].hash => Committed(h, p, x)
<1> SUFFICES ASSUME NEW p, NEW x, p = job[h].part, x = job[h].hash
             PROVE  Committed(h, p, x)
  OBVIOUS
<1>1. at[h] = "commit" /\ mapping' = [mapping EXCEPT ![job[h].part] = job[h].hash]
  BY DEF Commit
<1>2. Busy(h) /\ p \in Parts /\ x \in Hashes /\ x # None
  <2>1. Busy(h)
    BY <1>1 DEF Busy
  <2> QED
    BY <2>1 DEF MeterInv, JobsOK, AudioAssumption
<1>3. queue[p].asked = h /\ queue[p].hash = x /\ queue[p].state = "uploading" /\ queue[p].url = FALSE
  BY Zenon, <1>2 DEF Books, AskedOK
<1>4. mapping'[p] = x /\ \A q \in Parts : q # p => mapping'[q] = mapping[q]
  BY <1>1, <1>2 DEF MeterInv, TypeOK
<1>5. \A q \in Parts : q # p => queue[q].asked # h
  BY Zenon DEF Books, AskedOK
<1>6. job[h].act \in {"none", "add", "insert"} /\ ReadBy(h)
  BY JobFields DEF MeterInv, TypeOK, Books, ReadOK
<1>7. CASE job[h].act = "insert"
  <2>1. /\ blobs' = blobs \cup {x} /\ queue' = Answer(h, "uploading", TRUE)
        /\ at' = [at EXCEPT ![h] = "idle"] /\ job' = [job EXCEPT ![h] = NoJob]
    BY <1>7 DEF Commit
  <2>2. /\ at'[h] = "idle" /\ \A g \in Handlers : g # h => at'[g] = at[g] /\ job'[g] = job[g]
    BY <2>1 DEF MeterInv, TypeOK
  <2>3. PICK s \in States, u \in BOOLEAN : s = "uploading" /\ queue' = Answer(h, s, u)
    BY <2>1 DEF States
  <2>4. ASSUME NEW q \in Parts
        PROVE  /\ queue'[q].hash = queue[q].hash
               /\ queue[q].asked = h => queue'[q].state = "uploading" /\ queue'[q].asked = None
               /\ queue[q].asked # h => queue'[q] = queue[q]
    <3>1. PICK e : e = Answer(h, s, u)[q]
      OBVIOUS
    <3>2. /\ e.hash = queue[q].hash
          /\ queue[q].asked = h => e.state = "uploading" /\ e.asked = None
          /\ queue[q].asked # h => e = queue[q]
      BY <2>3, <3>1, Answered DEF MeterInv
    <3>3. queue'[q] = e
      BY <2>3, <3>1
    <3> QED
      BY Zenon, <3>2, <3>3
  <2>5. /\ \A q \in Parts : q # p => queue'[q] = queue[q]
        /\ queue'[p].hash = x /\ queue'[p].state = "uploading" /\ queue'[p].asked = None
    BY Zenon, <1>2, <1>3, <1>5, <2>4
  <2>6. blobs \subseteq blobs' /\ x \in blobs'
    BY <2>1
  <2> QED
    BY Zenon, <1>2, <1>3, <1>4, <2>2, <2>5, <2>6 DEF Committed
<1>8. CASE job[h].act # "insert"
  <2>1. at' = [at EXCEPT ![h] = "head"] /\ UNCHANGED <<blobs, usage, queue, job>>
    BY <1>8 DEF Commit
  <2>2. at'[h] = "head" /\ \A g \in Handlers : g # h => at'[g] = at[g]
    BY <2>1 DEF MeterInv, TypeOK
  <2>3. x \in blobs
    <3>1. CASE job[h].act = "add"
      BY Zenon, <1>1, <1>6, <3>1 DEF ReadBy
    <3>2. CASE job[h].act = "none"
      <4>1. job[h].old = x /\ job[h].old = mapping[p]
        BY <1>1, <1>6, <3>2 DEF ReadBy
      <4> QED
        BY <1>2, <4>1 DEF Books, CountOK
    <3> QED
      BY <1>6, <1>8, <3>1, <3>2
  <2> QED
    BY <1>2, <1>3, <1>4, <2>1, <2>2, <2>3 DEF Committed
<1> QED
  BY <1>7, <1>8

LEMMA CommitBooks ==
    ASSUME MeterInv, Books, AudioAssumption, NEW h \in Handlers, Commit(h)
    PROVE  Books'
<1>1. PICK p : p = job[h].part
  OBVIOUS
<1>2. PICK x : x = job[h].hash
  OBVIOUS
<1>c. Committed(h, p, x)
  BY Zenon, <1>1, <1>2, CommitEffect
<1>3. /\ p \in Parts /\ x \in Hashes /\ x # None /\ Busy(h)
      /\ queue[p].asked = h /\ queue[p].state = "uploading" /\ queue[p].url = FALSE
      /\ mapping'[p] = x
      /\ blobs \subseteq blobs' /\ x \in blobs'
  BY Zenon, <1>c DEF Committed
<1>4. /\ \A g \in Handlers : g # h => at'[g] = at[g] /\ job'[g] = job[g]
      /\ \A q \in Parts : q # p => mapping'[q] = mapping[q] /\ queue'[q] = queue[q]
  BY Zenon, <1>c DEF Committed
<1>5. \/ /\ at'[h] = "idle" /\ queue'[p].hash = x /\ queue'[p].state = "uploading"
         /\ queue'[p].asked = None
      \/ at'[h] = "head" /\ job'[h] = job[h] /\ queue'[p] = queue[p]
  BY Zenon, <1>c DEF Committed
<1>6. UNCHANGED <<stored, gc>> /\ h # None
  BY DEF Commit, AudioAssumption
<1>7. ASSUME NEW g \in Handlers, Busy(g)'
      PROVE  /\ Busy(g) /\ job'[g] = job[g] /\ job[g].part \in Parts
             /\ g # h => job[g].part # p /\ at'[g] = at[g]
             /\ g = h => at'[g] = "head" /\ queue'[p] = queue[p]
  <2>1. CASE g = h
    <3>1. at'[h] = "head" /\ job'[h] = job[h] /\ queue'[p] = queue[p]
      BY <1>5, <1>7, <2>1 DEF Busy
    <3> QED
      BY Zenon, <1>1, <1>3, <2>1, <3>1
  <2>2. CASE g # h
    <3>1. Busy(g) /\ job'[g] = job[g] /\ at'[g] = at[g]
      BY <1>4, <1>7, <2>2 DEF Busy
    <3>2. queue[job[g].part].asked = g /\ job[g].part \in Parts
      BY <3>1 DEF Books, AskedOK, MeterInv, JobsOK
    <3> QED
      BY <1>3, <2>2, <3>1, <3>2
  <2> QED
    BY <2>1, <2>2
<1>8. AskedOK'
  <2>1. ASSUME NEW g \in Handlers, Busy(g)'
        PROVE  queue'[job'[g].part].asked = g /\ queue'[job'[g].part].hash = job'[g].hash
    <3>1. /\ Busy(g) /\ job'[g] = job[g] /\ job[g].part \in Parts
          /\ g # h => job[g].part # p
          /\ g = h => queue'[p] = queue[p]
      BY <1>7, <2>1
    <3>2. queue[job[g].part].asked = g /\ queue[job[g].part].hash = job[g].hash
      BY Zenon, <3>1 DEF Books, AskedOK
    <3>3. queue'[job[g].part] = queue[job[g].part]
      BY <1>1, <1>4, <3>1
    <3> QED
      BY <3>1, <3>2, <3>3
  <2>2. ASSUME NEW q \in Parts, NEW g \in Handlers, queue'[q].asked = g
        PROVE  queue'[q].state = "uploading" /\ queue'[q].url = FALSE /\ Busy(g)' /\ job'[g].part = q
    <3>1. g # None
      BY DEF AudioAssumption
    <3>2. queue'[q] = queue[q]
      BY <1>4, <1>5, <2>2, <3>1
    <3>3. queue[q].state = "uploading" /\ queue[q].url = FALSE /\ Busy(g) /\ job[g].part = q
      BY Zenon, <2>2, <3>2 DEF Books, AskedOK
    <3>4. CASE g = h
      <4>1. q = p
        BY <1>1, <3>3, <3>4
      <4>2. at'[h] = "head" /\ job'[h] = job[h]
        BY <1>5, <2>2, <3>1, <4>1
      <4>3. Busy(g)'
        BY <3>4, <4>2 DEF Busy
      <4> QED
        BY Zenon, <3>2, <3>3, <3>4, <4>2, <4>3
    <3>5. CASE g # h
      <4>1. Busy(g)' /\ job'[g] = job[g]
        BY <1>4, <3>3, <3>5 DEF Busy
      <4> QED
        BY Zenon, <3>2, <3>3, <4>1
    <3> QED
      BY <3>4, <3>5
  <2>3. ASSUME NEW q \in Parts, queue'[q].url
        PROVE  queue'[q].state = "uploading" /\ mapping'[q] = queue'[q].hash
    <3>1. CASE q = p
      <4>1. queue'[p].url
        BY Zenon, <2>3, <3>1
      <4> QED
        BY Zenon, <1>3, <1>5, <3>1, <4>1
    <3>2. CASE q # p
      <4>1. queue'[q] = queue[q] /\ mapping'[q] = mapping[q]
        BY <1>4, <3>2
      <4>2. queue[q].url => queue[q].state = "uploading" /\ mapping[q] = queue[q].hash
        BY Zenon DEF Books, AskedOK
      <4> QED
        BY Zenon, <2>3, <4>1, <4>2
    <3> QED
      BY <3>1, <3>2
  <2> QED
    BY Zenon, <2>1, <2>2, <2>3 DEF AskedOK
<1>9. ReadOK'
  <2>1. ASSUME NEW g \in Handlers, g = h
        PROVE  ReadBy(g)'
    BY <1>1, <1>2, <1>3, <1>5, <2>1 DEF ReadBy
  <2>2. ASSUME NEW g \in Handlers, g # h, ~Busy(g)
        PROVE  ReadBy(g)'
    BY <1>4, <2>2 DEF ReadBy, Busy
  <2>3. ASSUME NEW g \in Handlers, g # h, Busy(g)
        PROVE  ReadBy(g)'
    <3>1. at'[g] = at[g] /\ job'[g] = job[g] /\ ReadBy(g)
      BY <1>4, <2>3 DEF Books, ReadOK
    <3>2. mapping'[job[g].part] = mapping[job[g].part]
      <4>1. Busy(g)'
        BY <2>3, <3>1 DEF Busy
      <4> QED
        BY <1>4, <1>7, <2>3, <4>1
    <3>3. job[g].hash \in blobs => job[g].hash \in blobs'
      BY <1>3
    <3> QED
      BY Zenon, <3>1, <3>2, <3>3 DEF ReadBy
  <2> QED
    BY Zenon, <2>1, <2>2, <2>3 DEF ReadOK
<1>10. CountOK'
  <2>1. ASSUME NEW y \in blobs'
        PROVE  ref'[y] = Cardinality({q \in Parts : mapping'[q] = y})
    <3>1. /\ at[h] = "commit" /\ ref' = Counted(job[h])
          /\ mapping' = [mapping EXCEPT ![job[h].part] = job[h].hash]
      BY DEF Commit
    <3>2. y \in blobs \/ (job[h].act = "insert" /\ y = job[h].hash)
      BY <2>1 DEF Commit
    <3>3. y \in Hashes
      BY <1>2, <1>3, <3>2 DEF MeterInv, TypeOK
    <3> QED
      BY Zenon, <3>1, <3>2, <3>3, CommitCounts
  <2>2. \A q \in Parts : mapping'[q] # None => mapping'[q] \in blobs'
    BY <1>3, <1>4 DEF Books, CountOK
  <2> QED
    BY Zenon, <2>1, <2>2 DEF CountOK
<1>11. GcOK'
  <2>1. Gathered' = Gathered
    BY <1>6 DEF Gathered
  <2>2. ASSUME NEW y \in Gathered
        PROVE  /\ \A q \in Parts : mapping'[q] # y
               /\ \A g \in Handlers : Busy(g)' => job'[g].hash # y
    <3>1. /\ x # y /\ \A q \in Parts : mapping[q] # y
          /\ \A g \in Handlers : Busy(g) => job[g].hash # y
      BY Zenon, <1>2, <1>3 DEF Books, GcOK
    <3>2. \A q \in Parts : mapping'[q] # y
      BY Zenon, <1>3, <1>4, <3>1
    <3>3. \A g \in Handlers : Busy(g)' => job'[g].hash # y
      BY <1>7, <3>1
    <3> QED
      BY <3>2, <3>3
  <2> QED
    BY Zenon, <1>6, <2>1, <2>2 DEF Books, GcOK
<1>12. KeptOK'
  <2>1. ASSUME NEW q \in Parts, queue'[q].state = "done"
        PROVE  mapping'[q] \in stored'
    <3>1. q # p
      BY <1>3, <1>5, <2>1
    <3>2. queue[q].state = "done" /\ mapping'[q] = mapping[q]
      BY <1>4, <2>1, <3>1
    <3> QED
      BY <1>6, <3>2 DEF Books, KeptOK, DoneIsStored
  <2>2. NoOrphan'
    BY <1>3, <1>6 DEF Books, KeptOK, NoOrphan
  <2> QED
    BY Zenon, <2>1, <2>2 DEF KeptOK, DoneIsStored
<1> QED
  BY <1>8, <1>9, <1>10, <1>11, <1>12 DEF Books

(* An answer that says "done" has found the object, one with a URL finds    *)
(* the part mapped to the blob it is for.                                   *)
LEMMA EndBooks ==
    ASSUME MeterInv, Books, AudioAssumption, NEW h \in Handlers, Head(h) \/ HeadFails(h) \/ Abort(h)
    PROVE  Books'
<1>1. PICK p : p = job[h].part
  OBVIOUS
<1>2. UNCHANGED <<blobs, ref, released, mapping, usage, stored, gc>> /\ End(h) /\ at[h] # "idle"
  BY DEF Head, HeadFails, Abort, tables
<1>3. /\ p \in Parts /\ queue[p].asked = h /\ queue[p].hash = job[h].hash
      /\ at[h] = "head" => mapping[p] = job[h].hash
  BY Zenon, <1>1, <1>2 DEF Books, AskedOK, ReadOK, ReadBy, MeterInv, JobsOK, Busy
<1>4. /\ at'[h] = "idle"
      /\ \A g \in Handlers : g # h => at'[g] = at[g] /\ job'[g] = job[g]
  BY <1>2 DEF End, MeterInv, TypeOK
<1>5. PICK s \in States, u \in BOOLEAN :
        /\ queue' = Answer(h, s, u)
        /\ s = "done" => mapping[p] \in stored
        /\ u => s = "uploading" /\ mapping[p] = job[h].hash
  <2>1. CASE Head(h)
    <3>1. at[h] = "head"
      BY <2>1 DEF Head
    <3>2. CASE job[h].hash \in stored
      <4>1. queue' = Answer(h, "done", FALSE) /\ mapping[p] \in stored
        BY <1>3, <2>1, <3>1, <3>2 DEF Head
      <4> QED
        BY <4>1 DEF States
    <3>3. CASE job[h].hash \notin stored
      <4>1. queue' = Answer(h, "uploading", TRUE) /\ mapping[p] = job[h].hash
        BY <1>3, <2>1, <3>1, <3>3 DEF Head
      <4> QED
        BY <4>1 DEF States
    <3> QED
      BY <3>2, <3>3
  <2>2. CASE HeadFails(h)
    <3>1. queue' = Answer(h, "uploading", TRUE) /\ mapping[p] = job[h].hash
      BY <1>3, <2>2 DEF HeadFails
    <3> QED
      BY <3>1 DEF States
  <2>3. CASE Abort(h)
    BY <2>3 DEF Abort, States
  <2> QED
    BY <2>1, <2>2, <2>3
<1>6. ASSUME NEW q \in Parts
      PROVE  /\ queue'[q].hash = queue[q].hash
             /\ queue[q].asked = h =>
                  queue'[q].state = s /\ queue'[q].asked = None /\ queue'[q].url = u
             /\ queue[q].asked # h => queue'[q] = queue[q]
  <2>1. PICK e : e = Answer(h, s, u)[q]
    OBVIOUS
  <2>2. /\ e.hash = queue[q].hash
        /\ queue[q].asked = h => e.state = s /\ e.asked = None /\ e.url = u
        /\ queue[q].asked # h => e = queue[q]
    BY <2>1, Answered DEF MeterInv
  <2>3. queue'[q] = e
    BY <1>5, <2>1
  <2> QED
    BY Zenon, <2>2, <2>3
<1>7. /\ queue'[p].hash = job[h].hash /\ queue'[p].state = s /\ queue'[p].asked = None
      /\ queue'[p].url = u
      /\ \A q \in Parts : q # p => queue'[q] = queue[q]
  <2>1. \A q \in Parts : queue[q].asked = h => q = p
    BY Zenon, <1>1 DEF Books, AskedOK
  <2> QED
    BY Zenon, <1>3, <1>6, <2>1
<1>8. ASSUME NEW g \in Handlers, Busy(g)'
      PROVE  /\ g # h /\ Busy(g) /\ job'[g] = job[g] /\ at'[g] = at[g]
             /\ job[g].part \in Parts /\ job[g].part # p
  <2>1. g # h
    BY <1>4, <1>8 DEF Busy
  <2>2. Busy(g) /\ job'[g] = job[g] /\ at'[g] = at[g]
    BY <1>4, <1>8, <2>1 DEF Busy
  <2>3. job[g].part \in Parts /\ queue[job[g].part].asked = g
    BY <2>2 DEF Books, AskedOK, MeterInv, JobsOK
  <2> QED
    BY <1>3, <2>1, <2>2, <2>3
<1>9. AskedOK'
  <2>1. ASSUME NEW g \in Handlers, Busy(g)'
        PROVE  queue'[job'[g].part].asked = g /\ queue'[job'[g].part].hash = job'[g].hash
    <3>1. Busy(g) /\ job'[g] = job[g] /\ job[g].part \in Parts /\ job[g].part # p
      BY <1>8, <2>1
    <3>2. queue[job[g].part].asked = g /\ queue[job[g].part].hash = job[g].hash
      BY Zenon, <3>1 DEF Books, AskedOK
    <3>3. queue'[job[g].part] = queue[job[g].part]
      BY <1>7, <3>1
    <3> QED
      BY <3>1, <3>2, <3>3
  <2>2. ASSUME NEW q \in Parts, NEW g \in Handlers, queue'[q].asked = g
        PROVE  queue'[q].state = "uploading" /\ queue'[q].url = FALSE /\ Busy(g)' /\ job'[g].part = q
    <3>1. g # None
      BY DEF AudioAssumption
    <3>2. q # p /\ queue'[q] = queue[q]
      BY <1>7, <2>2, <3>1
    <3>3. queue[q].state = "uploading" /\ queue[q].url = FALSE /\ Busy(g) /\ job[g].part = q
      BY Zenon, <2>2, <3>2 DEF Books, AskedOK
    <3>4. g # h
      BY <1>1, <3>2, <3>3
    <3>5. Busy(g)' /\ job'[g] = job[g]
      BY <1>4, <3>3, <3>4 DEF Busy
    <3> QED
      BY Zenon, <3>2, <3>3, <3>5
  <2>3. ASSUME NEW q \in Parts, queue'[q].url
        PROVE  queue'[q].state = "uploading" /\ mapping'[q] = queue'[q].hash
    <3>1. mapping' = mapping
      BY <1>2
    <3>2. CASE q = p
      <4>1. u
        BY Zenon, <1>7, <2>3, <3>2
      <4> QED
        BY Zenon, <1>5, <1>7, <3>1, <3>2, <4>1
    <3>3. CASE q # p
      <4>1. queue'[q] = queue[q]
        BY <1>7, <3>3
      <4>2. queue[q].url => queue[q].state = "uploading" /\ mapping[q] = queue[q].hash
        BY Zenon DEF Books, AskedOK
      <4> QED
        BY Zenon, <2>3, <3>1, <4>1, <4>2
    <3> QED
      BY <3>2, <3>3
  <2> QED
    BY Zenon, <2>1, <2>2, <2>3 DEF AskedOK
<1>10. ReadOK'
  <2>1. ASSUME NEW g \in Handlers, g = h
        PROVE  ReadBy(g)'
    BY <1>4, <2>1 DEF ReadBy
  <2>2. ASSUME NEW g \in Handlers, g # h
        PROVE  ReadBy(g)'
    <3>1. at'[g] = at[g] /\ job'[g] = job[g] /\ ReadBy(g)
      BY <1>4, <2>2 DEF Books, ReadOK
    <3> QED
      BY Zenon, <1>2, <3>1 DEF ReadBy
  <2> QED
    BY Zenon, <2>1, <2>2 DEF ReadOK
<1>11. CountOK'
  BY Zenon, <1>2 DEF Books, CountOK
<1>12. GcOK'
  <2>1. Gathered' = Gathered
    BY <1>2 DEF Gathered
  <2>2. ASSUME NEW y \in Gathered, NEW g \in Handlers, Busy(g)'
        PROVE  job'[g].hash # y
    BY <1>8, <2>2 DEF Books, GcOK
  <2> QED
    BY Zenon, <1>2, <2>1, <2>2 DEF Books, GcOK
<1>13. KeptOK'
  <2>1. ASSUME NEW q \in Parts, queue'[q].state = "done"
        PROVE  mapping[q] \in stored
    <3>1. CASE q = p
      BY Zenon, <1>5, <1>7, <2>1, <3>1
    <3>2. CASE q # p
      BY Zenon, <1>7, <2>1, <3>2 DEF Books, KeptOK, DoneIsStored
    <3> QED
      BY <3>1, <3>2
  <2> QED
    BY Zenon, <1>2, <2>1 DEF Books, KeptOK, NoOrphan, DoneIsStored
<1> QED
  BY <1>9, <1>10, <1>11, <1>12, <1>13 DEF Books

(* The collector takes what nobody maps or asks for. *)
LEMMA SweepBooks ==
    ASSUME MeterInv, Books, AudioAssumption,
           \/ DeleteRow \/ GcCrash
           \/ \E x \in Hashes : Age(x) \/ DeleteObject(x) \/ DeleteFails(x)
           \/ Scan /\ \A h \in Handlers : Busy(h) => ~Eligible(job[h].hash)
    PROVE  Books'
<1>1. UNCHANGED <<mapping, at, job, queue>>
  BY Zenon DEF DeleteRow, GcCrash, Age, DeleteObject, DeleteFails, Scan, tables
<1>2. gc \in [at : {"idle", "object", "row"}, todo : SUBSET Hashes, blob : Hashes \cup {None}]
  BY DEF MeterInv, TypeOK
<1>3. None \notin Hashes
  BY DEF AudioAssumption
<1>4. AskedOK'
  BY Zenon, <1>1 DEF Books, AskedOK, Busy
<1>5. ASSUME NEW y \in Gathered
      PROVE  /\ \A p \in Parts : mapping[p] # y
             /\ \A h \in Handlers : Busy(h) => job[h].hash # y
  BY Zenon, <1>5 DEF Books, GcOK
<1>6. CASE DeleteRow /\ Eligible(gc.blob)
  <2> DEFINE x == gc.blob
  <2>1. gc.at = "row" /\ x \in blobs /\ x \in Gathered /\ x \in Hashes /\ x \notin stored
    <3>1. gc.at = "row" /\ x \in blobs
      BY <1>6 DEF DeleteRow, Eligible
    <3>2. x \in Hashes
      BY <3>1 DEF MeterInv, TypeOK
    <3> QED
      BY <1>3, <3>1, <3>2 DEF Gathered, Books, GcOK
  <2>2. /\ blobs' = blobs \ {x} /\ ref' = [ref EXCEPT ![x] = 0] /\ stored' = stored
        /\ gc' = Swept(gc.todo)
    BY <1>6 DEF DeleteRow
  <2>3. /\ \A p \in Parts : mapping[p] # x
        /\ \A h \in Handlers : Busy(h) => job[h].hash # x
    BY Zenon, <1>5, <2>1
  <2>4. ReadOK'
    <3>1. ASSUME NEW h \in Handlers
          PROVE  ReadBy(h)'
      <4>1. ReadBy(h) /\ at'[h] = at[h] /\ job'[h] = job[h] /\ mapping' = mapping
        BY <1>1 DEF Books, ReadOK
      <4>2. at[h] # "idle" => (job[h].hash \in blobs => job[h].hash \in blobs')
        BY <2>2, <2>3 DEF Busy
      <4>3. at[h] \in {"old", "repoint", "map", "ref"} \/ at[h] = "commit" => at[h] # "idle"
        OBVIOUS
      <4> QED
        BY Zenon, <4>1, <4>2, <4>3 DEF ReadBy
    <3> QED
      BY Zenon, <3>1 DEF ReadOK
  <2>5. CountOK'
    <3>1. ASSUME NEW y \in blobs'
          PROVE  ref'[y] = Cardinality({q \in Parts : mapping'[q] = y})
      <4>1. y \in blobs /\ ref'[y] = ref[y]
        BY <2>2, <3>1 DEF MeterInv, TypeOK
      <4> QED
        BY Zenon, <1>1, <4>1 DEF Books, CountOK
    <3>2. ASSUME NEW q \in Parts, mapping'[q] # None
          PROVE  mapping'[q] \in blobs'
      <4>1. mapping[q] \in blobs /\ mapping[q] # x
        BY Zenon, <1>1, <2>3, <3>2 DEF Books, CountOK
      <4> QED
        BY <1>1, <2>2, <4>1
    <3> QED
      BY Zenon, <3>1, <3>2 DEF CountOK
  <2>6. GcOK'
    <3>1. /\ gc'.todo = gc.todo /\ gc'.blob = None /\ gc'.at # "row"
      BY <1>2, <2>2, SweptType
    <3>2. Gathered' \subseteq Gathered
      BY <3>1 DEF Gathered
    <3> QED
      BY Zenon, <1>1, <1>5, <3>1, <3>2 DEF GcOK, Busy
  <2>7. KeptOK'
    <3>1. stored' \subseteq blobs'
      BY <2>1, <2>2 DEF Books, KeptOK, NoOrphan
    <3> QED
      BY Zenon, <1>1, <2>2, <3>1 DEF Books, KeptOK, NoOrphan, DoneIsStored
  <2> QED
    BY <1>4, <2>4, <2>5, <2>6, <2>7 DEF Books
<1>7. CASE ~(DeleteRow /\ Eligible(gc.blob))
  <2>1. blobs' = blobs /\ ref' = ref
    BY <1>7 DEF DeleteRow, GcCrash, Age, DeleteObject, DeleteFails, Scan, tables
  <2>2. ReadOK' /\ CountOK'
    BY Zenon, <1>1, <2>1 DEF Books, ReadOK, ReadBy, CountOK
  <2>3. CASE \E x \in Hashes : DeleteObject(x)
    <3>1. PICK x \in Hashes : DeleteObject(x)
      BY <2>3
    <3>2. /\ x \in gc.todo /\ stored' = stored \ {x}
          /\ gc' = [at |-> "row", todo |-> gc.todo \ {x}, blob |-> x]
      BY <3>1 DEF DeleteObject
    <3>3. Gathered' \subseteq Gathered /\ x \in Gathered
      BY <1>2, <1>3, <3>2 DEF Gathered
    <3>4. GcOK'
      <4>1. gc'.blob \notin stored'
        BY <3>2
      <4> QED
        BY Zenon, <1>1, <1>5, <3>3, <4>1 DEF GcOK, Busy
    <3>5. KeptOK'
      <4>1. \A p \in Parts : mapping[p] # x
        BY Zenon, <1>5, <3>3
      <4>2. stored' \subseteq blobs'
        BY <2>1, <3>2 DEF Books, KeptOK, NoOrphan
      <4>3. ASSUME NEW p \in Parts, queue'[p].state = "done"
            PROVE  mapping'[p] \in stored'
        <5>1. mapping[p] \in stored
          BY Zenon, <1>1, <4>3 DEF Books, KeptOK, DoneIsStored
        <5> QED
          BY <1>1, <3>2, <4>1, <5>1
      <4> QED
        BY Zenon, <4>2, <4>3 DEF KeptOK, NoOrphan, DoneIsStored
    <3> QED
      BY <1>4, <2>2, <3>4, <3>5 DEF Books
  <2>4. CASE ~\E x \in Hashes : DeleteObject(x)
    <3>1. stored' = stored
      BY <2>4 DEF DeleteRow, GcCrash, Age, DeleteFails, Scan
    <3>2. KeptOK'
      BY Zenon, <1>1, <2>1, <3>1 DEF Books, KeptOK, NoOrphan, DoneIsStored
    <3>3. GcOK'
      <4>1. CASE Scan /\ \A h \in Handlers : Busy(h) => ~Eligible(job[h].hash)
        <5>1. gc' = [at |-> "object", todo |-> {x \in Hashes : Eligible(x)}, blob |-> None]
          BY <4>1 DEF Scan
        <5>2. gc'.at # "row" /\ Gathered' = {x \in Hashes : Eligible(x)}
          BY <1>3, <5>1 DEF Gathered
        <5>3. ASSUME NEW y \in Gathered'
              PROVE  /\ \A p \in Parts : mapping[p] # y
                     /\ \A h \in Handlers : Busy(h) => job[h].hash # y
          <6>1. Eligible(y) /\ y \in blobs /\ ref[y] = 0
            BY <5>2, <5>3 DEF Eligible
          <6>2. Cardinality({p \in Parts : mapping[p] = y}) = 0
            BY Zenon, <6>1 DEF Books, CountOK
          <6>3. {p \in Parts : mapping[p] = y} = {}
            <7>1. IsFiniteSet({p \in Parts : mapping[p] = y})
              BY FS_Subset DEF AudioAssumption
            <7> QED
              BY <6>2, <7>1, FS_EmptySet
          <6> QED
            BY <4>1, <6>1, <6>3
        <5> QED
          BY Zenon, <1>1, <5>2, <5>3 DEF GcOK, Busy
      <4>2. CASE \/ DeleteRow \/ GcCrash
                 \/ \E x \in Hashes : Age(x) \/ DeleteFails(x)
        <5>1. gc' = gc \/ \E S \in SUBSET gc.todo : gc' = Swept(S)
          <6>1. CASE DeleteRow
            BY <6>1 DEF DeleteRow
          <6>2. CASE GcCrash
            BY <6>2 DEF GcCrash
          <6>3. CASE \E x \in Hashes : Age(x)
            BY <6>3 DEF Age
          <6>4. CASE \E x \in Hashes : DeleteFails(x)
            BY <6>4 DEF DeleteFails
          <6> QED
            BY <4>2, <6>1, <6>2, <6>3, <6>4
        <5>2. CASE gc' = gc
          <6>1. Gathered' = Gathered
            BY <5>2 DEF Gathered
          <6> QED
            BY Zenon, <1>1, <3>1, <5>2, <6>1 DEF Books, GcOK, Busy
        <5>3. CASE \E S \in SUBSET gc.todo : gc' = Swept(S)
          <6>1. PICK S \in SUBSET gc.todo : gc' = Swept(S)
            BY <5>3
          <6>2. gc'.todo = S /\ gc'.blob = None /\ gc'.at # "row"
            BY <1>2, <6>1, SweptType
          <6>3. Gathered' \subseteq Gathered
            BY <6>1, <6>2 DEF Gathered
          <6> QED
            BY Zenon, <1>1, <1>5, <6>2, <6>3 DEF GcOK, Busy
        <5> QED
          BY <5>1, <5>2, <5>3
      <4> QED
        BY Zenon, <2>4, <4>1, <4>2
    <3> QED
      BY <1>4, <2>2, <3>2, <3>3 DEF Books
  <2> QED
    BY <2>3, <2>4
<1> QED
  BY <1>6, <1>7

LEMMA BooksInit == MeterInv /\ Init => Books
<1> SUFFICES ASSUME MeterInv, Init PROVE Books
  OBVIOUS
<1>1. AskedOK
  <2>1. \A p \in Parts : queue[p].url = FALSE /\ queue[p].asked = None
    <3>1. \A p \in Parts : queue[p] = Queued("pending")
      BY DEF Init
    <3> QED
      BY Zenon, <3>1, QueuedEntry DEF States
  <2>2. \A h \in Handlers : ~Busy(h) /\ h # None
    BY AudioAssumption DEF Init, Busy, AudioAssumption
  <2> QED
    BY Zenon, <2>1, <2>2 DEF AskedOK
<1>2. ReadOK
  BY DEF Init, ReadOK, ReadBy
<1>3. CountOK
  BY DEF Init, CountOK
<1>4. GcOK
  BY DEF Init, GcOK, Gathered
<1>5. KeptOK
  <2>1. \A p \in Parts : queue[p].state # "done"
    <3>1. \A p \in Parts : queue[p] = Queued("pending")
      BY DEF Init
    <3>2. "pending" \in States /\ "pending" # "done"
      BY DEF States
    <3> QED
      BY Zenon, <3>1, <3>2, QueuedEntry
  <2> QED
    BY <2>1 DEF Init, KeptOK, DoneIsStored, NoOrphan
<1> QED
  BY <1>1, <1>2, <1>3, <1>4, <1>5 DEF Books

(* Two things the lane asks of its clients: a hash the collector has in     *)
(* hand is not presented, and it starts with no blob that is asked for.     *)
Untouched ==
    /\ \A p \in Parts, h \in Handlers, x \in Hashes : Ask(p, h, x) => x \notin Gathered
    /\ Scan => \A h \in Handlers : Busy(h) => ~Eligible(job[h].hash)

LEMMA BooksStep ==
    ASSUME MeterInv, AudioAssumption, Books, Untouched, [Next]_vars,
           \A p \in Parts : ~GiveUp(p)
    PROVE  Books'
<1>1. CASE UNCHANGED vars
  <2>1. UNCHANGED <<blobs, ref, released, mapping, usage, stored, at, job, queue, gc>>
    BY Zenon, <1>1 DEF vars, tables, history
  <2>2. Gathered' = Gathered
    BY <2>1 DEF Gathered
  <2>3. AskedOK'
    BY Zenon, <2>1 DEF Books, AskedOK, Busy
  <2>4. ReadOK' /\ CountOK'
    BY Zenon, <2>1 DEF Books, ReadOK, ReadBy, CountOK
  <2>5. GcOK' /\ KeptOK'
    BY Zenon, <2>1, <2>2 DEF Books, GcOK, KeptOK, DoneIsStored, NoOrphan, Busy
  <2> QED
    BY <2>3, <2>4, <2>5 DEF Books
<1>2. ASSUME NEW p \in Parts, NEW h \in Handlers, NEW x \in Hashes, Ask(p, h, x)
      PROVE  Books'
  BY Zenon, <1>2, AskBooks DEF Untouched
<1>3. ASSUME NEW p \in Parts, Put(p) \/ PutFails(p) \/ GiveUp(p) \/ Retry(p)
      PROVE  Books'
  BY Zenon, <1>3, ClientBooks
<1>4. ASSUME NEW h \in Handlers, Presign(h) \/ HeadFails(h) \/ Abort(h)
      PROVE  Books'
  <2>1. CASE ReadBlob(h) \/ ReadOld(h) \/ Repoint(h) \/ Map(h) \/ AddRef(h) \/ Insert(h)
    BY Zenon, <2>1, PresignBooks
  <2>2. CASE Commit(h)
    BY Zenon, <2>2, CommitBooks
  <2>3. CASE Head(h) \/ HeadFails(h) \/ Abort(h)
    BY Zenon, <2>3, EndBooks
  <2> QED
    BY Zenon, <1>4, <2>1, <2>2, <2>3 DEF Presign
<1>5. CASE \/ Sweep \/ GcCrash
           \/ \E x \in Hashes : Age(x) \/ DeleteFails(x)
  BY Zenon, <1>5, SweepBooks DEF Sweep, Untouched
<1> QED
  BY Zenon, <1>1, <1>2, <1>3, <1>4, <1>5 DEF Next

(* Every presign is awaited until one is given up, and that is remembered.  *)
Awaited == giveups = 0 => Books

LEMMA AwaitedStep ==
    ASSUME MeterInv, AudioAssumption, Awaited, Untouched, [Next]_vars
    PROVE  Awaited'
<1>1. giveups \in Nat
  BY DEF MeterInv, TypeOK
<1>2. CASE \E p \in Parts : GiveUp(p)
  <2>1. giveups' = giveups + 1
    BY <1>2 DEF GiveUp
  <2>2. giveups' # 0
    BY <1>1, <2>1
  <2> QED
    BY <2>2 DEF Awaited
<1>3. CASE ~\E p \in Parts : GiveUp(p)
  <2>1. giveups' = giveups
    <3>1. CASE UNCHANGED vars
      BY Zenon, <3>1 DEF vars, history
    <3>2. ASSUME NEW p \in Parts, \/ \E h \in Handlers, x \in Hashes : Ask(p, h, x)
                                  \/ Put(p) \/ PutFails(p) \/ Retry(p)
          PROVE  giveups' = giveups
      BY <3>2 DEF Ask, Put, PutFails, Retry, history
    <3>3. ASSUME NEW h \in Handlers, Presign(h) \/ HeadFails(h) \/ Abort(h)
          PROVE  giveups' = giveups
      BY <3>3 DEF Presign, ReadBlob, ReadOld, Repoint, Map, AddRef, Insert, Statement, Commit, Head,
                  HeadFails, Abort, history
    <3>4. CASE \/ Sweep \/ GcCrash
               \/ \E x \in Hashes : Age(x) \/ DeleteFails(x)
      BY <3>4 DEF Sweep, Scan, DeleteRow, DeleteObject, GcCrash, Age, DeleteFails, history
    <3> QED
      BY Zenon, <1>3, <3>1, <3>2, <3>3, <3>4 DEF Next
  <2> QED
    BY Zenon, <1>3, <2>1, BooksStep DEF Awaited
<1> QED
  BY <1>2, <1>3

LEMMA BooksKept == MeterInv /\ Awaited => BlobsSound
<1>1. Books => MappingCount /\ DoneIsStored /\ NoOrphan
  BY Zenon DEF Books, KeptOK, CountOK, MappingCount
<1> QED
  BY Zenon, <1>1 DEF MeterInv, Meter, Awaited, BlobsSound, KeptWhenAnswered

-----------------------------------------------------------------------------
(* Desktops: a hash is presented once.                                      *)
FreshBy(h) ==
    Busy(h) => /\ job[h].hash \in tried /\ job[h].hash \notin blobs
               /\ job[h].saw = FALSE /\ at[h] # "head"
               /\ at[h] = "commit" => job[h].act = "insert"
Fresh ==
    /\ blobs \subseteq tried /\ Gathered \subseteq tried
    /\ \A h \in Handlers : FreshBy(h)
    /\ \A h, g \in Handlers : Busy(h) /\ Busy(g) /\ job[h].hash = job[g].hash => h = g

LEMMA FreshUntouched ==
    ASSUME MeterInv, Fresh, Resealed
    PROVE  Untouched
<1>1. ASSUME NEW p \in Parts, NEW h \in Handlers, NEW x \in Hashes, Ask(p, h, x)
      PROVE  x \notin Gathered
  <2>1. attempts' # attempts /\ tried' = tried \cup {x}
    BY <1>1 DEF Ask, MeterInv, TypeOK
  <2>2. x \notin tried
    BY <2>1 DEF Resealed
  <2> QED
    BY <2>2 DEF Fresh
<1>2. ASSUME NEW h \in Handlers, Busy(h)
      PROVE  ~Eligible(job[h].hash)
  BY Zenon, <1>2 DEF Fresh, FreshBy, Eligible
<1> QED
  BY Zenon, <1>1, <1>2 DEF Untouched

LEMMA FreshStep ==
    ASSUME MeterInv, AudioAssumption, Fresh, [Next]_vars, Resealed
    PROVE  Fresh'
<1>1. at \in [Handlers -> Steps] /\ job \in [Handlers -> Jobs]
  BY DEF MeterInv, TypeOK
<1>2. \A h \in Handlers : job[h] \in Jobs /\ FreshBy(h)
  BY <1>1 DEF Fresh
<1>3. ASSUME NEW p \in Parts, NEW h \in Handlers, NEW x \in Hashes, Ask(p, h, x)
      PROVE  Fresh'
  <2>1. /\ tried' = tried \cup {x} /\ attempts' # attempts /\ blobs' = blobs /\ gc' = gc
        /\ at' = [at EXCEPT ![h] = "blob"]
        /\ job' = [job EXCEPT ![h] = [NoJob EXCEPT !.part = p, !.hash = x]]
    BY <1>3 DEF Ask, MeterInv, TypeOK, tables
  <2>2. x \notin tried
    BY <2>1 DEF Resealed
  <2>3. /\ at'[h] = "blob" /\ job'[h].hash = x /\ job'[h].saw = FALSE
        /\ \A g \in Handlers : g # h => at'[g] = at[g] /\ job'[g] = job[g]
    <3>1. PICK j : j = [NoJob EXCEPT !.part = p, !.hash = x]
      OBVIOUS
    <3>2. j.hash = x /\ j.saw = FALSE
      BY <3>1 DEF NoJob
    <3> QED
      BY <1>1, <2>1, <3>1, <3>2
  <2>4. Gathered' = Gathered
    BY <2>1 DEF Gathered
  <2>5. blobs' \subseteq tried' /\ Gathered' \subseteq tried' /\ tried \subseteq tried'
    BY <2>1, <2>4 DEF Fresh
  <2>6. x \in tried' /\ x \notin blobs
    BY <2>1, <2>2 DEF Fresh
  <2>7. ASSUME NEW g \in Handlers
        PROVE  FreshBy(g)'
    <3>1. CASE g = h
      BY <2>1, <2>3, <2>6, <3>1 DEF FreshBy
    <3>2. CASE g # h
      <4>1. (Busy(g)' <=> Busy(g)) /\ at'[g] = at[g] /\ job'[g] = job[g]
        BY <2>3, <3>2 DEF Busy
      <4>2. job[g].hash \in tried => job[g].hash \in tried'
        BY <2>5
      <4>3. job[g].hash \notin blobs => job[g].hash \notin blobs'
        BY <2>1
      <4> QED
        BY Zenon, <1>2, <4>1, <4>2, <4>3 DEF FreshBy
    <3> QED
      BY <3>1, <3>2
  <2>8. ASSUME NEW f \in Handlers, NEW g \in Handlers, Busy(f)', Busy(g)', job'[f].hash = job'[g].hash,
               f # g
        PROVE  FALSE
    <3>1. ASSUME NEW k \in Handlers, k # h, Busy(k)'
          PROVE  Busy(k) /\ job'[k].hash = job[k].hash /\ job[k].hash # x
      <4>1. Busy(k) /\ job'[k].hash = job[k].hash
        BY <2>3, <3>1 DEF Busy
      <4> QED
        BY <1>2, <2>2, <4>1 DEF FreshBy
    <3> QED
      BY Zenon, <2>3, <2>8, <3>1 DEF Fresh
  <2> QED
    BY Zenon, <2>5, <2>7, <2>8 DEF Fresh
<1>4. ASSUME blobs' \subseteq blobs, tried' = tried, Gathered' \subseteq tried,
             NEW h \in Handlers, \A g \in Handlers : g # h => at'[g] = at[g] /\ job'[g] = job[g],
             Busy(h)' => Busy(h) /\ job'[h].hash = job[h].hash, FreshBy(h)'
      PROVE  Fresh'
  <2>1. ASSUME NEW g \in Handlers, g # h
        PROVE  FreshBy(g)' /\ (Busy(g)' => Busy(g)) /\ job'[g].hash = job[g].hash
    <3>1. Busy(g)' <=> Busy(g)
      BY <1>4, <2>1 DEF Busy
    <3>2. job[g].hash \notin blobs => job[g].hash \notin blobs'
      BY <1>4
    <3> QED
      BY Zenon, <1>2, <1>4, <2>1, <3>1, <3>2 DEF FreshBy
  <2>2. \A f, g \in Handlers : Busy(f)' /\ Busy(g)' /\ job'[f].hash = job'[g].hash => f = g
    BY Zenon, <1>4, <2>1 DEF Fresh
  <2>3. blobs' \subseteq tried'
    BY <1>4 DEF Fresh
  <2> QED
    BY Zenon, <1>4, <2>1, <2>2, <2>3 DEF Fresh
<1>5. ASSUME blobs' \subseteq blobs, tried' = tried, Gathered' \subseteq tried, UNCHANGED <<at, job>>
      PROVE  Fresh'
  <2>1. ASSUME NEW g \in Handlers
        PROVE  FreshBy(g)'
    <3>1. job[g].hash \notin blobs => job[g].hash \notin blobs'
      BY <1>5
    <3> QED
      BY Zenon, <1>2, <1>5, <3>1 DEF FreshBy, Busy
  <2>2. blobs' \subseteq tried'
    BY <1>5 DEF Fresh
  <2> QED
    BY Zenon, <1>5, <2>1, <2>2 DEF Fresh, Busy
<1>6. Gathered \subseteq tried /\ blobs \subseteq tried
  BY DEF Fresh
<1>7. CASE UNCHANGED vars \/ \E p \in Parts : Put(p) \/ PutFails(p) \/ GiveUp(p) \/ Retry(p)
  <2>1. UNCHANGED <<at, job, gc, blobs, tried>>
    <3>1. CASE UNCHANGED vars
      BY Zenon, <3>1 DEF vars, tables, history
    <3>2. ASSUME NEW p \in Parts, Put(p) \/ PutFails(p) \/ GiveUp(p) \/ Retry(p)
          PROVE  UNCHANGED <<at, job, gc, blobs, tried>>
      BY <3>2 DEF Put, PutFails, GiveUp, Retry, tables, history
    <3> QED
      BY Zenon, <1>7, <3>1, <3>2
  <2>2. Gathered' = Gathered
    BY <2>1 DEF Gathered
  <2>3. blobs' \subseteq blobs /\ Gathered' \subseteq tried
    BY <1>6, <2>1, <2>2
  <2> QED
    BY Zenon, <1>5, <2>1, <2>3
<1>8. CASE Sweep \/ GcCrash \/ \E x \in Hashes : Age(x) \/ DeleteFails(x)
  <2>1. UNCHANGED <<at, job, tried>> /\ blobs' \subseteq blobs
    BY <1>8 DEF Sweep, Scan, DeleteRow, DeleteObject, GcCrash, Age, DeleteFails, tables, history
  <2>2. Gathered' \subseteq tried
    <3>1. gc.blob \in Hashes \cup {None}
      BY DEF MeterInv, TypeOK
    <3>2. CASE Scan
      BY <1>6, <3>2 DEF Scan, Gathered, Eligible
    <3>3. CASE \E x \in Hashes : DeleteObject(x)
      BY <1>6, <3>3 DEF DeleteObject, Gathered
    <3>4. CASE \E x \in Hashes : Age(x)
      BY <1>6, <3>4 DEF Age, Gathered
    <3>5. CASE DeleteRow \/ GcCrash \/ \E x \in Hashes : DeleteFails(x)
      <4>1. PICK S \in SUBSET gc.todo : gc' = Swept(S)
        <5>1. CASE DeleteRow
          BY <5>1 DEF DeleteRow
        <5>2. CASE GcCrash
          BY <5>2 DEF GcCrash
        <5>3. CASE \E x \in Hashes : DeleteFails(x)
          BY <5>3 DEF DeleteFails
        <5> QED
          BY <3>5, <5>1, <5>2, <5>3
      <4>2. S \in SUBSET Hashes /\ S \ {None} \subseteq Gathered
        BY <4>1 DEF MeterInv, TypeOK, Gathered
      <4>3. gc'.todo = S /\ gc'.blob = None
        BY <4>1, <4>2, SweptType
      <4> QED
        BY <1>6, <4>2, <4>3 DEF Gathered
    <3> QED
      BY Zenon, <1>8, <3>2, <3>3, <3>4, <3>5 DEF Sweep
  <2> QED
    BY Zenon, <1>5, <2>1, <2>2
<1>9. ASSUME NEW h \in Handlers, Presign(h) \/ HeadFails(h) \/ Abort(h)
      PROVE  Fresh'
  <2>1. tried' = tried /\ gc' = gc
    BY <1>9 DEF Presign, ReadBlob, ReadOld, Repoint, Map, AddRef, Insert, Statement, Commit, Head,
                HeadFails, Abort, tables, history
  <2>2. Gathered' \subseteq tried
    <3>1. Gathered' = Gathered
      BY <2>1 DEF Gathered
    <3> QED
      BY <1>6, <3>1
  <2>3. FreshBy(h)
    BY <1>2
  <2>4. CASE Commit(h)
    <3>1. job[h].act = "insert" /\ at[h] = "commit"
      BY Zenon, <2>3, <2>4 DEF Commit, FreshBy, Busy
    <3>2. Busy(h) /\ job[h].hash \in tried
      <4>1. Busy(h)
        BY <3>1 DEF Busy
      <4> QED
        BY Zenon, <2>3, <4>1 DEF FreshBy
    <3>3. /\ blobs' = blobs \cup {job[h].hash}
          /\ at' = [at EXCEPT ![h] = "idle"] /\ job' = [job EXCEPT ![h] = NoJob]
      BY <2>4, <3>1 DEF Commit
    <3>4. /\ at'[h] = "idle"
          /\ \A g \in Handlers : g # h => at'[g] = at[g] /\ job'[g] = job[g]
      BY <1>1, <3>3
    <3>5. ASSUME NEW g \in Handlers, Busy(g)'
          PROVE  FreshBy(g)' /\ Busy(g) /\ job'[g].hash = job[g].hash
      <4>1. g # h
        BY <3>4, <3>5 DEF Busy
      <4>2. Busy(g) /\ at'[g] = at[g] /\ job'[g] = job[g]
        BY <3>4, <3>5, <4>1 DEF Busy
      <4>3. job[g].hash # job[h].hash
        BY Zenon, <3>2, <4>1, <4>2 DEF Fresh
      <4>4. job[g].hash \notin blobs
        BY Zenon, <1>2, <4>2 DEF FreshBy
      <4>5. job[g].hash \notin blobs'
        BY <3>3, <4>3, <4>4
      <4> QED
        BY Zenon, <1>2, <2>1, <4>2, <4>5 DEF FreshBy
    <3>6. \A g \in Handlers : FreshBy(g)'
      BY Zenon, <3>5 DEF FreshBy
    <3>7. blobs' \subseteq tried'
      BY <1>6, <2>1, <3>2, <3>3
    <3> QED
      BY Zenon, <2>1, <2>2, <3>5, <3>6, <3>7 DEF Fresh
  <2>5. CASE ~Commit(h)
    <3>1. blobs' = blobs
      BY <1>9, <2>5 DEF Presign, ReadBlob, ReadOld, Repoint, Map, AddRef, Insert, Statement, Head,
                        HeadFails, Abort, tables
    <3>2. CASE Head(h) \/ HeadFails(h) \/ Abort(h)
      <4>1. /\ at'[h] = "idle"
            /\ \A g \in Handlers : g # h => at'[g] = at[g] /\ job'[g] = job[g]
        BY <1>1, <3>2 DEF Head, HeadFails, Abort, End
      <4>2. ~Busy(h)'
        BY <4>1 DEF Busy
      <4>3. FreshBy(h)'
        BY Zenon, <4>2 DEF FreshBy
      <4>4. blobs' \subseteq blobs
        BY <3>1
      <4> QED
        BY Zenon, <1>4, <2>1, <2>2, <4>1, <4>2, <4>3, <4>4
    <3>3. CASE ReadBlob(h) \/ ReadOld(h) \/ Repoint(h) \/ Map(h) \/ AddRef(h) \/ Insert(h)
      <4>1. Busy(h)
        BY <3>3 DEF ReadBlob, ReadOld, Repoint, Map, AddRef, Insert, Statement, Busy
      <4>2. /\ job[h].hash \in tried /\ job[h].hash \notin blobs /\ job[h].saw = FALSE
            /\ job[h] \in Jobs
        BY Zenon, <1>2, <4>1 DEF FreshBy
      <4>3. ~AddRef(h)
        BY Zenon, <4>2 DEF AddRef
      <4>4. PICK to \in Steps \ {"idle", "head"}, j \in Jobs :
              /\ at' = [at EXCEPT ![h] = to] /\ job' = [job EXCEPT ![h] = j]
              /\ j.hash = job[h].hash /\ j.saw = FALSE
              /\ to = "commit" => j.act = "insert"
        <5>1. CASE ReadBlob(h)
          <6>1. PICK j : j = [job[h] EXCEPT !.saw = FALSE]
            OBVIOUS
          <6>2. (job[h].hash \in blobs) = FALSE
            BY <4>2
          <6>3. job' = [job EXCEPT ![h] = j] /\ at' = [at EXCEPT ![h] = "old"]
            BY <5>1, <6>1, <6>2 DEF ReadBlob, Statement
          <6>4. j \in Jobs /\ j.hash = job[h].hash /\ j.saw = FALSE
            BY <4>2, <6>1 DEF Jobs
          <6>5. "old" \in Steps \ {"idle", "head"} /\ "old" # "commit"
            BY DEF Steps
          <6> QED
            BY Zenon, <6>3, <6>4, <6>5
        <5>2. CASE ReadOld(h)
          <6>1. PICK o \in Hashes \cup {None} : o = mapping[job[h].part]
            BY <4>1 DEF MeterInv, TypeOK, JobsOK
          <6>2. PICK j : j = [job[h] EXCEPT !.old = o]
            OBVIOUS
          <6>3. job' = [job EXCEPT ![h] = j] /\ at' = [at EXCEPT ![h] = "repoint"]
            BY <5>2, <6>1, <6>2 DEF ReadOld, Statement
          <6>4. j \in Jobs /\ j.hash = job[h].hash /\ j.saw = FALSE
            BY <4>2, <6>2 DEF Jobs
          <6>5. "repoint" \in Steps \ {"idle", "head"} /\ "repoint" # "commit"
            BY DEF Steps
          <6> QED
            BY Zenon, <6>3, <6>4, <6>5
        <5>3. CASE Repoint(h)
          <6>1. PICK b \in BOOLEAN : b = (job[h].old \notin {None, job[h].hash} /\ job[h].old \in blobs)
            OBVIOUS
          <6>2. PICK j : j = [job[h] EXCEPT !.drop = b]
            OBVIOUS
          <6>3. job' = [job EXCEPT ![h] = j] /\ at' = [at EXCEPT ![h] = "map"]
            BY <5>3, <6>1, <6>2 DEF Repoint, Statement
          <6>4. j \in Jobs /\ j.hash = job[h].hash /\ j.saw = FALSE
            BY <4>2, <6>2 DEF Jobs
          <6>5. "map" \in Steps \ {"idle", "head"} /\ "map" # "commit"
            BY DEF Steps
          <6> QED
            BY Zenon, <6>3, <6>4, <6>5
        <5>4. CASE Map(h)
          <6>1. job' = [job EXCEPT ![h] = job[h]] /\ at' = [at EXCEPT ![h] = "ref"]
            BY <5>4 DEF Map, Statement
          <6>2. "ref" \in Steps \ {"idle", "head"} /\ "ref" # "commit"
            BY DEF Steps
          <6> QED
            BY Zenon, <4>2, <6>1, <6>2
        <5>5. CASE Insert(h)
          <6>1. PICK j : j = [job[h] EXCEPT !.act = "insert"]
            OBVIOUS
          <6>2. job' = [job EXCEPT ![h] = j] /\ at' = [at EXCEPT ![h] = "commit"]
            BY <5>5, <6>1 DEF Insert, Statement
          <6>3. j \in Jobs /\ j.hash = job[h].hash /\ j.saw = FALSE /\ j.act = "insert"
            BY <4>2, <6>1 DEF Jobs
          <6>4. "commit" \in Steps \ {"idle", "head"}
            BY DEF Steps
          <6> QED
            BY Zenon, <6>2, <6>3, <6>4
        <5> QED
          BY Zenon, <3>3, <4>3, <5>1, <5>2, <5>3, <5>4, <5>5
      <4>5. /\ at'[h] = to /\ job'[h] = j
            /\ \A g \in Handlers : g # h => at'[g] = at[g] /\ job'[g] = job[g]
        BY <1>1, <4>4
      <4>6. FreshBy(h)'
        <5>1. at'[h] # "head"
          BY <4>5
        <5>2. at'[h] = "commit" => job'[h].act = "insert"
          BY Zenon, <4>4, <4>5
        <5>3. job'[h].saw = FALSE /\ job'[h].hash = job[h].hash
          BY Zenon, <4>4, <4>5
        <5>4. job'[h].hash \in tried' /\ job'[h].hash \notin blobs'
          BY <2>1, <3>1, <4>2, <5>3
        <5> QED
          BY Zenon, <5>1, <5>2, <5>3, <5>4 DEF FreshBy
      <4>7. blobs' \subseteq blobs /\ job'[h].hash = job[h].hash
        BY <3>1, <4>4, <4>5
      <4> QED
        BY Zenon, <1>4, <2>1, <2>2, <4>1, <4>5, <4>6, <4>7
    <3> QED
      BY Zenon, <1>9, <2>5, <3>2, <3>3 DEF Presign
  <2> QED
    BY <2>4, <2>5
<1> QED
  BY Zenon, <1>3, <1>7, <1>8, <1>9 DEF Next

(* The other population: the collector is at rest. *)
AtRest == sweeps = 0 /\ gc.at = "idle" /\ gc.todo = {} /\ gc.blob = None

LEMMA RestStep ==
    ASSUME MeterInv, AtRest, [Next]_vars, sweeps' = 0
    PROVE  AtRest' /\ Untouched
<1>1. ~Scan
  BY DEF Scan, AtRest
<1>2. gc' = gc
  <2>1. CASE UNCHANGED vars
    BY Zenon, <2>1 DEF vars
  <2>2. ASSUME NEW p \in Parts, \/ \E h \in Handlers, x \in Hashes : Ask(p, h, x)
                                \/ Put(p) \/ PutFails(p) \/ GiveUp(p) \/ Retry(p)
        PROVE  gc' = gc
    BY <2>2 DEF Ask, Put, PutFails, GiveUp, Retry
  <2>3. ASSUME NEW h \in Handlers, Presign(h) \/ HeadFails(h) \/ Abort(h)
        PROVE  gc' = gc
    BY <2>3 DEF Presign, ReadBlob, ReadOld, Repoint, Map, AddRef, Insert, Statement, Commit, Head,
                HeadFails, Abort
  <2>4. CASE Sweep \/ GcCrash \/ \E x \in Hashes : Age(x) \/ DeleteFails(x)
    BY <1>1, <2>4 DEF Sweep, DeleteRow, DeleteObject, GcCrash, Age, DeleteFails, AtRest
  <2> QED
    BY Zenon, <2>1, <2>2, <2>3, <2>4 DEF Next
<1>3. AtRest'
  BY <1>2 DEF AtRest
<1>4. Untouched
  <2>1. \A x \in Hashes : x \notin Gathered
    BY DEF Gathered, AtRest
  <2> QED
    BY Zenon, <1>1, <2>1 DEF Untouched
<1> QED
  BY <1>3, <1>4

(* Desktops that reseal every attempt, with the collector at work, and      *)
(* clients that present the same hashes again, with the collector at rest:  *)
(* as long as every presign is awaited, refcounts are mapping counts, what  *)
(* is done can be downloaded and no object is without a row; the tenant is  *)
(* charged for its blob rows always.                                        *)
THEOREM BlobsSoundHolds ==
    (DesktopSpec => []BlobsSound) /\ (SharedSpec => []BlobsSound)
<1>1. Init => MeterInv /\ Fresh /\ AtRest /\ Awaited
  <2> SUFFICES ASSUME Init PROVE MeterInv /\ Fresh /\ AtRest /\ Awaited
    OBVIOUS
  <2>1. MeterInv
    BY Zenon, MeterInit, AudioAssumption DEF AudioAssumption
  <2>2. Fresh /\ AtRest
    BY DEF Init, Fresh, FreshBy, Busy, Gathered, AtRest
  <2>3. Awaited
    BY Zenon, <2>1, BooksInit DEF Awaited
  <2> QED
    BY <2>1, <2>2, <2>3
<1>2. MeterInv /\ Fresh /\ Awaited /\ [Next /\ Resealed]_vars => (MeterInv /\ Fresh /\ Awaited)'
  <2> SUFFICES ASSUME MeterInv, Fresh, Awaited, [Next /\ Resealed]_vars
               PROVE  (MeterInv /\ Fresh /\ Awaited)'
    OBVIOUS
  <2>1. [Next]_vars /\ Resealed
    BY DEF Resealed, vars, history
  <2>2. MeterInv' /\ Fresh'
    BY Zenon, <2>1, MeterStep, FreshStep, AudioAssumption DEF AudioAssumption
  <2>3. Awaited'
    BY Zenon, <2>1, FreshUntouched, AwaitedStep, AudioAssumption DEF AudioAssumption
  <2> QED
    BY <2>2, <2>3
<1>3. MeterInv /\ AtRest /\ Awaited /\ [Next /\ sweeps' = 0]_vars => (MeterInv /\ AtRest /\ Awaited)'
  <2> SUFFICES ASSUME MeterInv, AtRest, Awaited, [Next /\ sweeps' = 0]_vars
               PROVE  (MeterInv /\ AtRest /\ Awaited)'
    OBVIOUS
  <2>1. [Next]_vars /\ sweeps' = 0
    BY DEF AtRest, vars, history
  <2>2. MeterInv'
    BY Zenon, <2>1, MeterStep, AudioAssumption DEF AudioAssumption
  <2>3. AtRest' /\ Untouched
    BY Zenon, <2>1, RestStep
  <2>4. Awaited'
    BY Zenon, <2>1, <2>3, AwaitedStep, AudioAssumption DEF AudioAssumption
  <2> QED
    BY <2>2, <2>3, <2>4
<1>4. MeterInv /\ Awaited => BlobsSound
  BY BooksKept
<1>5. DesktopSpec => []BlobsSound
  BY <1>1, <1>2, <1>4, PTL DEF DesktopSpec
<1>6. SharedSpec => []BlobsSound
  BY <1>1, <1>3, <1>4, PTL DEF SharedSpec
<1> QED
  BY <1>5, <1>6
=============================================================================
