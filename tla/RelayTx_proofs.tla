--------------------------- MODULE RelayTx_proofs ---------------------------
(***************************************************************************)
(* Proofs about RelayTx, for any number of handlers, devices and requests. *)
(*                                                                         *)
(* A row lock is a fact about two handlers: LocksHeld says which of them   *)
(* exclude each other.  Everything else a handler relies on after a        *)
(* statement is a fact about the row it locked there: JobOK says, step by  *)
(* step, what its job still has in common with the committed tables.  The  *)
(* second follows from the first, and the properties from the second.      *)
(***************************************************************************)
EXTENDS RelayTx, FiniteSetTheorems, WellFoundedInduction, TLAPS

(* The handlers that hold a row lock exclude each other.                   *)
LocksHeld ==
    /\ \A g, h \in Handlers : OwnsSeq(g) /\ OwnsSeq(h) => g = h
    /\ \A g, h \in Handlers : OwnsUsage(g) /\ OwnsUsage(h) => g = h
    /\ \A g, h \in Handlers : OwnsFloor(g) /\ (OwnsFloor(h) \/ SharesFloor(h)) => g = h
    /\ \A g, h \in Handlers, c \in Clients : LocksDevice(g, c) /\ LocksDevice(h, c) => g = h

(* The committed log: finite, within the floor, each pair once, and no     *)
(* cursor past its end.                                                    *)
LogOK ==
    /\ IsFiniteSet(rows)
    /\ \A r \in rows : LevelOf[r.entry.ct] <= floor.required
    /\ \A r, q \in rows : SamePair(r.entry, q.entry) => r = q
    /\ \A c \in Clients : cursor[c] < nextSeq

PushSteps  == {"push_caller", "push_floor", "push_seq", "push_walk", "push_meter", "push_commit"}
FloorSteps == {"push_seq", "push_walk", "push_meter", "push_commit",
               "pull_stamp", "pull_read", "pull_commit",
               "raise_caller", "raise_check", "raise_commit"}

(* The rows a push has numbered are what its batch adds to the log.        *)
Numbered(j) ==
    /\ ~Clash(j.batch)
    /\ IsFiniteSet(j.fresh)
    /\ {r.entry : r \in j.fresh} = j.batch \ StoredEntries
    /\ {r.seq : r \in j.fresh} = j.next .. (j.next + Cardinality(j.fresh) - 1)
    /\ \A r, q \in j.fresh : r.seq = q.seq \/ r.entry = q.entry => r = q

(* A page is the part of the log between the cursor and its last row.      *)
PageOK(j) ==
    j.page # {} =>
        \E n \in {r.seq : r \in j.page} :
            j.page = {r \in rows : j.since < r.seq /\ r.seq <= n}

(* What job j of a handler at step s still shares with the tables.         *)
JobOK(s, j) ==
    /\ s # "idle" => j.client \in Clients
    /\ s \in PushSteps => IsFiniteSet(j.batch) /\ \A e \in j.batch : LevelOf[e.ct] <= j.level
    /\ s \in FloorSteps => j.floor = floor.required
    /\ s \in {"push_seq", "push_walk", "push_meter", "push_commit"} => j.level <= j.floor
    /\ s \in {"push_walk", "push_meter", "push_commit"} => j.next = nextSeq
    /\ s \in {"push_meter", "push_commit"} => Numbered(j)
    /\ s = "push_commit" => usage + Cardinality(j.fresh) <= Quota
    /\ s = "push_wake" => /\ IsFiniteSet(j.fresh)
                          /\ 0 < j.next
                          /\ j.next + Cardinality(j.fresh) <= nextSeq
    /\ s = "audio_commit" => usage + 1 <= Quota
    /\ s \in {"pull_read", "pull_commit"} => j.floor <= j.level
    /\ s = "pull_commit" => PageOK(j)
    /\ s \in {"raise_check", "raise_commit"} => dev[j.client].status = "active"
    /\ s = "raise_commit" =>
          (j.free => \A c \in j.members : dev[c].seen /\ dev[c].level < j.target =>
                                             c = j.client /\ j.stamp)

Inv ==
    /\ TypeOK /\ Dense /\ LogOK /\ CursorComplete /\ HintCommitted /\ QuotaKept
    /\ LocksHeld
    /\ \A h \in Handlers : JobOK(at[h], job[h])

-----------------------------------------------------------------------------
(* A set of naturals that is not empty has a least element.                *)
LEMMA LeastOf ==
    ASSUME NEW S \in SUBSET Nat, S # {}
    PROVE  \E m \in S : \A n \in S : m <= n
<1>1. PICK m \in S : \A n \in S : ~(<<n, m>> \in OpToRel(<, Nat))
  BY NatLessThanWellFounded, WFMin
<1>2. \A n \in S : ~(n < m)
  BY <1>1 DEF OpToRel
<1> QED
  BY <1>2

(* With an upper bound it has a greatest one.                              *)
LEMMA GreatestOf ==
    ASSUME NEW S \in SUBSET Nat, S # {}, NEW b \in Nat, \A n \in S : n <= b
    PROVE  \E m \in S : \A n \in S : n <= m
<1> DEFINE T == {b - n : n \in S}
<1>1. T \in SUBSET Nat /\ T # {}
  <2>1. \A n \in S : b - n \in Nat
    OBVIOUS
  <2> QED
    BY <2>1
<1>2. PICK t \in T : \A u \in T : t <= u
  <2> HIDE DEF T
  <2> QED
    BY <1>1, LeastOf
<1>3. PICK m \in S : t = b - m
  OBVIOUS
<1>4. \A n \in S : b - m <= b - n
  BY <1>2, <1>3
<1> QED
  BY <1>3, <1>4

(* A finite set of naturals has an upper bound: a least size without one   *)
(* would be the size of a set whose rest has one.                          *)
LEMMA FiniteBounded ==
    ASSUME NEW S \in SUBSET Nat, IsFiniteSet(S)
    PROVE  \E b \in Nat : \A n \in S : n <= b
<1> DEFINE Bounded(A) == \E b \in Nat : \A n \in A : n <= b
           Bad == {k \in Nat : \E A \in SUBSET Nat : /\ IsFiniteSet(A)
                                                      /\ Cardinality(A) = k
                                                      /\ ~Bounded(A)}
<1> SUFFICES ASSUME ~Bounded(S) PROVE FALSE
  OBVIOUS
<1>1. Cardinality(S) \in Bad
  BY FS_CardinalityType
<1>2. PICK k \in Bad : \A i \in Bad : k <= i
  <2>1. Bad \in SUBSET Nat
    OBVIOUS
  <2> HIDE DEF Bad
  <2> QED
    BY <1>1, <2>1, LeastOf
<1>3. PICK A \in SUBSET Nat : IsFiniteSet(A) /\ Cardinality(A) = k /\ ~Bounded(A)
  OBVIOUS
<1>4. A # {}
  BY <1>3
<1>5. PICK x \in A : TRUE
  BY <1>4
<1>6. IsFiniteSet(A \ {x}) /\ Cardinality(A \ {x}) = k - 1
  BY <1>3, <1>5, FS_RemoveElement
<1>7. k \in Nat /\ k - 1 \in Nat /\ k - 1 < k
  <2>1. k \in Nat
    BY <1>2
  <2>2. k - 1 \in Nat
    BY <1>6, FS_CardinalityType
  <2> QED
    BY <2>1, <2>2
<1>8. k - 1 \notin Bad
  <2> HIDE DEF Bad
  <2> QED
    BY <1>2, <1>7
<1>9. Bounded(A \ {x})
  BY <1>6, <1>7, <1>8
<1>10. PICK b \in Nat : \A n \in A \ {x} : n <= b
  BY <1>9
<1>11. \A n \in A : n <= b + x
  BY <1>10
<1> QED
  BY <1>3, <1>5, <1>10, <1>11

(* The level a push declares is that of its most demanding changeset.      *)
LEMMA BatchLevel ==
    ASSUME NEW batch \in Batches
    PROVE  /\ LevelOfBatch(batch) \in Levels
           /\ \A e \in batch : LevelOf[e.ct] <= LevelOfBatch(batch)
<1> DEFINE S == {LevelOf[e.ct] : e \in batch}
<1>1. IsFiniteSet(batch) /\ batch # {} /\ batch \in SUBSET Entries
  BY DEF Batches
<1>2. \A e \in batch : LevelOf[e.ct] \in Nat /\ LevelOf[e.ct] \in Levels
  BY <1>1, RelayAssumption DEF Entries, Levels
<1>3. S \in SUBSET Nat /\ S # {}
  BY <1>1, <1>2
<1>4. IsFiniteSet(S)
  <2> DEFINE f == [e \in batch |-> LevelOf[e.ct]]
  <2>1. f \in Surjection(batch, S)
    BY DEF Surjection
  <2> HIDE DEF f, S
  <2> QED
    BY <1>1, <2>1, FS_Surjection
<1>5. PICK m \in S : \A n \in S : n <= m
  <2> HIDE DEF S
  <2> QED
    BY <1>3, <1>4, FiniteBounded, GreatestOf
<1>6. /\ m \in Levels
      /\ \A e \in batch : LevelOf[e.ct] <= m
      /\ \E e \in batch : LevelOf[e.ct] = m
  BY <1>2, <1>5
<1> QED
  BY <1>6 DEF LevelOfBatch

(* A page holds every row between the cursor and its last row.             *)
LEMMA PageIsRange ==
    ASSUME rows \subseteq Rows, IsFiniteSet(rows), NEW since \in Nat, Page(since) # {}
    PROVE  \E n \in {r.seq : r \in Page(since)} :
               Page(since) = {r \in rows : since < r.seq /\ r.seq <= n}
<1> DEFINE P == Page(since)
           S == {r.seq : r \in P}
           Upto(r) == {q \in rows : since < q.seq /\ q.seq <= r.seq}
<1>1. P \subseteq rows /\ \A r \in rows : r.seq \in Nat
  BY DEF Page, Rows
<1>2. S \in SUBSET Nat /\ S # {}
  BY <1>1
<1>3. IsFiniteSet(S)
  <2> DEFINE f == [r \in P |-> r.seq]
  <2>1. f \in Surjection(P, S)
    BY DEF Surjection
  <2>2. IsFiniteSet(P)
    BY <1>1, FS_Subset
  <2> HIDE DEF f, S, P
  <2> QED
    BY <2>1, <2>2, FS_Surjection
<1>4. PICK n \in S : \A m \in S : m <= n
  <2> HIDE DEF S
  <2> QED
    BY <1>2, <1>3, FiniteBounded, GreatestOf
<1>5. PICK top \in P : top.seq = n
  BY <1>4
<1>6. \A r \in P : since < r.seq /\ r.seq <= n
  <2>1. \A r \in P : r.seq > since
    BY DEF Page
  <2> QED
    BY <1>1, <1>4, <2>1
<1>7. ASSUME NEW r \in rows, since < r.seq, r.seq <= n PROVE r \in P
  <2>1. Upto(r) \subseteq Upto(top)
    BY <1>1, <1>5, <1>7
  <2>2. IsFiniteSet(Upto(top)) /\ IsFiniteSet(Upto(r))
    BY FS_Subset
  <2>3. Cardinality(Upto(r)) <= Cardinality(Upto(top))
    <3> HIDE DEF Upto
    <3> QED
      BY <2>1, <2>2, FS_Subset
  <2>4. Cardinality(Upto(top)) <= MaxLimit
    BY <1>5 DEF Page
  <2>5. Cardinality(Upto(r)) <= MaxLimit
    <3>1. Cardinality(Upto(r)) \in Nat /\ Cardinality(Upto(top)) \in Nat /\ MaxLimit \in Nat
      BY <2>2, FS_CardinalityType, RelayAssumption
    <3> HIDE DEF Upto
    <3> QED
      BY <2>3, <2>4, <3>1
  <2> QED
    BY <1>1, <1>7, <2>5 DEF Page
<1>8. P = {r \in rows : since < r.seq /\ r.seq <= n}
  BY <1>1, <1>6, <1>7
<1> QED
  BY <1>4, <1>8

(* Numbering the new entries of a batch gives each one number and each     *)
(* number of the range one entry.                                          *)
LEMMA NumberingOK ==
    ASSUME NEW new \in SUBSET Entries, IsFiniteSet(new), NEW next \in Nat,
           NEW F \in Numberings(new, next)
    PROVE  /\ F \subseteq Rows
           /\ IsFiniteSet(F)
           /\ Cardinality(F) = Cardinality(new)
           /\ {r.entry : r \in F} = new
           /\ {r.seq : r \in F} = next .. (next + Cardinality(F) - 1)
           /\ \A r, q \in F : r.seq = q.seq \/ r.entry = q.entry => r = q
<1> DEFINE n == Cardinality(new)
           R == next .. (next + n - 1)
<1>1. PICK f \in Bijection(new, R) : F = {[seq |-> f[e], entry |-> e] : e \in new}
  BY DEF Numberings
<1>2. n \in Nat
  BY FS_CardinalityType
<1>3. /\ f \in [new -> R]
      /\ \A a, b \in new : f[a] = f[b] => a = b
      /\ \A i \in R : \E e \in new : f[e] = i
  BY <1>1 DEF Bijection, Injection, Surjection, IsInjective
<1> DEFINE g == [e \in new |-> [seq |-> f[e], entry |-> e]]
<1>4. \A e \in new : g[e] \in F /\ g[e].entry = e /\ g[e].seq = f[e]
  BY <1>1
<1>5. \A r \in F : r.entry \in new /\ r = g[r.entry] /\ r.seq = f[r.entry]
  BY <1>1
<1>6. g \in Bijection(new, F)
  <2>1. g \in [new -> F]
    BY <1>4
  <2>2. \A a, b \in new : g[a] = g[b] => a = b
    BY <1>4
  <2>3. \A r \in F : \E e \in new : g[e] = r
    BY <1>5
  <2> HIDE DEF g
  <2> QED
    BY <2>1, <2>2, <2>3 DEF Bijection, Injection, Surjection, IsInjective
<1>7. IsFiniteSet(F) /\ Cardinality(F) = n
  <2>1. ExistsBijection(new, F)
    BY <1>6 DEF ExistsBijection
  <2> QED
    BY <2>1, FS_Bijection
<1>8. F \subseteq Rows
  <2>1. R \subseteq Nat
    BY <1>2
  <2>2. \A e \in new : f[e] \in Nat
    BY <1>3, <2>1
  <2> QED
    BY <1>1, <2>2 DEF Rows
<1> HIDE DEF g
<1>9. {r.entry : r \in F} = new
  BY <1>4, <1>5
<1>10. {r.seq : r \in F} = R
  <2>1. \A r \in F : r.seq \in R
    BY <1>3, <1>5
  <2>2. \A i \in R : \E r \in F : r.seq = i
    BY <1>3, <1>4
  <2> QED
    BY <2>1, <2>2
<1>11. \A r, q \in F : r.seq = q.seq \/ r.entry = q.entry => r = q
  BY <1>3, <1>5
<1> QED
  BY <1>7, <1>8, <1>9, <1>10, <1>11

-----------------------------------------------------------------------------
(* A handler at step s with job j would share no lock with another one.    *)
Alone(h, s, j) ==
    \A g \in Others(h) :
        /\ s \in {"push_walk", "push_meter", "push_commit"} => ~OwnsSeq(g)
        /\ s \in {"push_commit", "audio_commit"} => ~OwnsUsage(g)
        /\ s \in FloorSteps => ~OwnsFloor(g)
        /\ s \in {"raise_caller", "raise_check", "raise_commit"} => ~SharesFloor(g)
        /\ \/ s \in {"pull_read", "pull_commit"} /\ j.stamp
           \/ s \in {"raise_check", "raise_commit"}
           => ~LocksDevice(g, j.client)

(* A handler where it is shares none.                                      *)
LEMMA StandsAlone ==
    ASSUME LocksHeld, NEW h \in Handlers, at[h] # "idle" => job[h].client \in Clients
    PROVE  Alone(h, at[h], job[h])
BY DEF LocksHeld, Alone, Others, OwnsSeq, OwnsUsage, OwnsFloor, SharesFloor, LocksDevice, FloorSteps

(* Taking a step where it shares none keeps the locks exclusive.           *)
LEMMA LockStep ==
    ASSUME TypeOK, LocksHeld, NEW h \in Handlers, NEW s \in Steps, NEW j \in Jobs,
           Alone(h, s, j), Goto(h, s), Note(h, j)
    PROVE  LocksHeld'
<1>1. /\ at' \in [Handlers -> Steps] /\ job' \in [Handlers -> Jobs]
      /\ at'[h] = s /\ job'[h] = j
      /\ \A g \in Others(h) : at'[g] = at[g] /\ job'[g] = job[g]
  BY DEF TypeOK, Goto, Note, Others
<1>2. \A g \in Others(h) :
         /\ OwnsSeq(g)' <=> OwnsSeq(g)
         /\ OwnsUsage(g)' <=> OwnsUsage(g)
         /\ OwnsFloor(g)' <=> OwnsFloor(g)
         /\ SharesFloor(g)' <=> SharesFloor(g)
         /\ \A c \in Clients : LocksDevice(g, c)' <=> LocksDevice(g, c)
  BY <1>1 DEF OwnsSeq, OwnsUsage, OwnsFloor, SharesFloor, LocksDevice
<1>3. /\ OwnsSeq(h)' <=> s \in {"push_walk", "push_meter", "push_commit"}
      /\ OwnsUsage(h)' <=> s \in {"push_commit", "audio_commit"}
      /\ OwnsFloor(h)' <=> s \in {"raise_caller", "raise_check", "raise_commit"}
      /\ OwnsFloor(h)' \/ SharesFloor(h)' => s \in FloorSteps
      /\ \A c \in Clients : LocksDevice(h, c)' =>
            /\ c = j.client
            /\ \/ s \in {"pull_read", "pull_commit"} /\ j.stamp
               \/ s \in {"raise_check", "raise_commit"}
  BY <1>1 DEF OwnsSeq, OwnsUsage, OwnsFloor, SharesFloor, LocksDevice, FloorSteps
<1>4. \A g \in Handlers : g = h \/ g \in Others(h)
  BY DEF Others
<1>5. \A g \in Others(h) :
         /\ ~(OwnsSeq(h)' /\ OwnsSeq(g)')
         /\ ~(OwnsUsage(h)' /\ OwnsUsage(g)')
         /\ ~(OwnsFloor(h)' /\ (OwnsFloor(g)' \/ SharesFloor(g)'))
         /\ ~((OwnsFloor(h)' \/ SharesFloor(h)') /\ OwnsFloor(g)')
  BY <1>2, <1>3 DEF Alone, FloorSteps
<1>6. \A g \in Others(h), c \in Clients : ~(LocksDevice(h, c)' /\ LocksDevice(g, c)')
  BY <1>2, <1>3 DEF Alone
<1>7. \A g, k \in Others(h) :
         /\ OwnsSeq(g)' /\ OwnsSeq(k)' => g = k
         /\ OwnsUsage(g)' /\ OwnsUsage(k)' => g = k
         /\ OwnsFloor(g)' /\ (OwnsFloor(k)' \/ SharesFloor(k)') => g = k
         /\ \A c \in Clients : LocksDevice(g, c)' /\ LocksDevice(k, c)' => g = k
  BY <1>2 DEF LocksHeld, Others
<1>8. SUFFICES ASSUME NEW x \in Handlers, NEW y \in Handlers
               PROVE  /\ OwnsSeq(x)' /\ OwnsSeq(y)' => x = y
                      /\ OwnsUsage(x)' /\ OwnsUsage(y)' => x = y
                      /\ OwnsFloor(x)' /\ (OwnsFloor(y)' \/ SharesFloor(y)') => x = y
                      /\ \A c \in Clients : LocksDevice(x, c)' /\ LocksDevice(y, c)' => x = y
  BY DEF LocksHeld
<1>9. CASE x = h
  BY <1>4, <1>5, <1>6, <1>9
<1>10. CASE y = h
  BY <1>4, <1>5, <1>6, <1>10
<1>11. CASE x # h /\ y # h
  BY <1>4, <1>7, <1>11
<1> QED
  BY <1>9, <1>10, <1>11

(* The idle handler shares none.                                           *)
LEMMA IdleAlone ==
    ASSUME NEW h \in Handlers, NEW j
    PROVE  Alone(h, "idle", j) /\ JobOK("idle", j)
BY DEF Alone, JobOK, FloorSteps, PushSteps

(* What a statement leaves of the job it rewrites.                         *)
LEMMA JobFloor ==
    ASSUME NEW j \in Jobs, NEW l \in Levels
    PROVE  LET k == [j EXCEPT !.floor = l]
           IN /\ k \in Jobs /\ k.floor = l
              /\ k.client = j.client /\ k.level = j.level /\ k.stamp = j.stamp /\ k.batch = j.batch
              /\ k.next = j.next /\ k.fresh = j.fresh /\ k.since = j.since /\ k.page = j.page
              /\ k.target = j.target /\ k.members = j.members /\ k.free = j.free
BY DEF Jobs

LEMMA JobNext ==
    ASSUME NEW j \in Jobs, NEW n \in Nat
    PROVE  LET k == [j EXCEPT !.next = n]
           IN /\ k \in Jobs /\ k.next = n
              /\ k.client = j.client /\ k.level = j.level /\ k.floor = j.floor /\ k.stamp = j.stamp
              /\ k.batch = j.batch /\ k.fresh = j.fresh /\ k.since = j.since /\ k.page = j.page
              /\ k.target = j.target /\ k.members = j.members /\ k.free = j.free
BY DEF Jobs

LEMMA JobFresh ==
    ASSUME NEW j \in Jobs, NEW F \in SUBSET Rows
    PROVE  LET k == [j EXCEPT !.fresh = F]
           IN /\ k \in Jobs /\ k.fresh = F
              /\ k.client = j.client /\ k.level = j.level /\ k.floor = j.floor /\ k.stamp = j.stamp
              /\ k.batch = j.batch /\ k.next = j.next /\ k.since = j.since /\ k.page = j.page
              /\ k.target = j.target /\ k.members = j.members /\ k.free = j.free
BY DEF Jobs

LEMMA JobPage ==
    ASSUME NEW j \in Jobs, NEW F \in SUBSET Rows
    PROVE  LET k == [j EXCEPT !.page = F]
           IN /\ k \in Jobs /\ k.page = F
              /\ k.client = j.client /\ k.level = j.level /\ k.floor = j.floor /\ k.stamp = j.stamp
              /\ k.batch = j.batch /\ k.next = j.next /\ k.fresh = j.fresh /\ k.since = j.since
              /\ k.target = j.target /\ k.members = j.members /\ k.free = j.free
BY DEF Jobs

LEMMA JobStamp ==
    ASSUME NEW j \in Jobs, NEW b \in BOOLEAN
    PROVE  LET k == [j EXCEPT !.stamp = b]
           IN /\ k \in Jobs /\ k.stamp = b
              /\ k.client = j.client /\ k.level = j.level /\ k.floor = j.floor /\ k.batch = j.batch
              /\ k.next = j.next /\ k.fresh = j.fresh /\ k.since = j.since /\ k.page = j.page
              /\ k.target = j.target /\ k.members = j.members /\ k.free = j.free
BY DEF Jobs

LEMMA NewJobTypes ==
    /\ NoJob \in Jobs
    /\ \A c \in Clients :
          /\ \A b \in SUBSET Entries, l \in Levels :
                [NoJob EXCEPT !.client = c, !.batch = b, !.level = l] \in Jobs
          /\ \A l \in Levels, n \in Nat :
                [NoJob EXCEPT !.client = c, !.level = l, !.since = n] \in Jobs
          /\ \A l \in Levels, t \in Levels :
                [NoJob EXCEPT !.client = c, !.level = l, !.target = t] \in Jobs
          /\ [NoJob EXCEPT !.client = c] \in Jobs
<1>1. 0 \in Levels
  BY DEF Levels
<1>2. NoJob \in Jobs
  BY <1>1 DEF NoJob, Jobs
<1> QED
  BY <1>2 DEF Jobs

(* A statement that changes only what its own handler knows.               *)
LEMMA LocalStep ==
    ASSUME Inv, NEW h \in Handlers, NEW s \in Steps, NEW j \in Jobs,
           Alone(h, s, j), JobOK(s, j), Goto(h, s), Note(h, j),
           UNCHANGED <<tables, hint, devices, audio>>, begun' \in Nat, changes' \in Nat
    PROVE  Inv'
<1>1. TypeOK'
  BY DEF Inv, TypeOK, Goto, Note, tables, devices
<1>2. Dense' /\ LogOK' /\ CursorComplete' /\ HintCommitted' /\ QuotaKept'
  BY DEF Inv, Dense, LogOK, CursorComplete, HintCommitted, QuotaKept, tables, devices, SamePair
<1>3. LocksHeld'
  BY LockStep DEF Inv
<1>4. ASSUME NEW t, NEW k PROVE JobOK(t, k) <=> JobOK(t, k)'
  BY DEF JobOK, Numbered, PageOK, Clash, StoredEntries, SamePair, tables
<1>5. \A g \in Handlers : JobOK(at[g], job[g])'
  <2> SUFFICES ASSUME NEW g \in Handlers PROVE JobOK(at[g], job[g])'
    OBVIOUS
  <2>1. CASE g = h
    BY <1>4, <2>1 DEF Inv, TypeOK, Goto, Note
  <2>2. CASE g # h
    <3>1. at'[g] = at[g] /\ job'[g] = job[g]
      BY <2>2 DEF Inv, TypeOK, Goto, Note
    <3> QED
      BY <1>4, <3>1 DEF Inv
  <2> QED
    BY <2>1, <2>2
<1> QED
  BY <1>1, <1>2, <1>3, <1>5 DEF Inv

(* What the invariant says of one handler.                                 *)
LEMMA HandlerFacts ==
    ASSUME Inv, NEW h \in Handlers
    PROVE  /\ job[h] \in Jobs /\ at[h] \in Steps
           /\ JobOK(at[h], job[h])
           /\ at[h] # "idle" => job[h].client \in Clients
           /\ Alone(h, at[h], job[h])
           /\ floor.required \in Levels /\ floor.requested \in Levels
           /\ Levels \subseteq Nat
           /\ nextSeq \in Nat \ {0} /\ usage \in Nat /\ Quota \in Nat
<1>1. job[h] \in Jobs /\ at[h] \in Steps /\ JobOK(at[h], job[h])
  BY DEF Inv, TypeOK
<1>2. at[h] # "idle" => job[h].client \in Clients
  BY <1>1 DEF JobOK
<1>3. Alone(h, at[h], job[h])
  BY <1>2, StandsAlone DEF Inv
<1>4. Levels \subseteq Nat
  BY RelayAssumption DEF Levels
<1> QED
  BY <1>1, <1>2, <1>3, <1>4, RelayAssumption DEF Inv, TypeOK

-----------------------------------------------------------------------------
(* One lemma for each statement that leaves the tables alone.              *)
LEMMA BeginKeeps ==
    ASSUME Inv, NEW h \in Handlers, NEW s \in {"push_caller", "pull_floor", "raise_floor", "audio_meter"},
           NEW j \in Jobs, j.client \in Clients,
           s = "push_caller" => IsFiniteSet(j.batch) /\ \A e \in j.batch : LevelOf[e.ct] <= j.level,
           Begin(h, s, j)
    PROVE  Inv'
<1>1. s \in Steps /\ Alone(h, s, j)
  BY DEF Steps, Alone, FloorSteps
<1>2. JobOK(s, j)
  BY DEF JobOK, FloorSteps, PushSteps
<1>3. Goto(h, s) /\ Note(h, j) /\ UNCHANGED <<tables, hint, devices, audio>>
      /\ begun' \in Nat /\ changes' \in Nat
  BY DEF Begin, Inv, TypeOK
<1> QED
  BY <1>1, <1>2, <1>3, LocalStep

LEMMA ArriveKeeps ==
    ASSUME Inv, NEW h \in Handlers, Arrive(h)
    PROVE  Inv'
<1>1. PICK c \in Clients : ArriveFrom(h, c, Batches, Levels)
  BY DEF Arrive
<1>2. ASSUME NEW batch \in Batches, BeginPush(h, c, batch) PROVE Inv'
  <2> DEFINE j == [NoJob EXCEPT !.client = c, !.batch = batch, !.level = LevelOfBatch(batch)]
  <2>1. batch \in SUBSET Entries /\ IsFiniteSet(batch)
    BY DEF Batches
  <2>2. j \in Jobs /\ j.client = c /\ j.batch = batch /\ j.level = LevelOfBatch(batch)
    BY <2>1, BatchLevel, NewJobTypes DEF NoJob
  <2>3. Begin(h, "push_caller", j)
    BY <1>2 DEF BeginPush
  <2> HIDE DEF j
  <2> QED
    BY <2>1, <2>2, <2>3, BatchLevel, BeginKeeps
<1>3. ASSUME NEW l \in Levels, BeginPull(h, c, l) PROVE Inv'
  <2> DEFINE j == [NoJob EXCEPT !.client = c, !.level = l, !.since = cursor[c]]
  <2>1. j \in Jobs /\ j.client = c
    BY NewJobTypes DEF NoJob, Inv, TypeOK
  <2>2. Begin(h, "pull_floor", j)
    BY <1>3 DEF BeginPull
  <2> HIDE DEF j
  <2> QED
    BY <2>1, <2>2, BeginKeeps
<1>4. ASSUME NEW l \in Levels, NEW t \in Levels, BeginRaise(h, c, l, t) PROVE Inv'
  <2> DEFINE j == [NoJob EXCEPT !.client = c, !.level = l, !.target = t]
  <2>1. j \in Jobs /\ j.client = c
    BY NewJobTypes DEF NoJob
  <2>2. Begin(h, "raise_floor", j)
    BY <1>4 DEF BeginRaise
  <2> HIDE DEF j
  <2> QED
    BY <2>1, <2>2, BeginKeeps
<1>5. CASE BeginAudio(h, c)
  <2> DEFINE j == [NoJob EXCEPT !.client = c]
  <2>1. j \in Jobs /\ j.client = c
    BY NewJobTypes DEF NoJob
  <2>2. Begin(h, "audio_meter", j)
    BY <1>5 DEF BeginAudio
  <2> HIDE DEF j
  <2> QED
    BY <2>1, <2>2, BeginKeeps
<1> QED
  BY <1>1, <1>2, <1>3, <1>4, <1>5 DEF ArriveFrom

LEMMA RollbackKeeps ==
    ASSUME Inv, NEW h \in Handlers, Rollback(h)
    PROVE  Inv'
<1>1. "idle" \in Steps
  BY DEF Steps
<1>2. /\ Goto(h, "idle") /\ Note(h, NoJob) /\ UNCHANGED <<tables, hint, devices, audio>>
      /\ begun' \in Nat /\ changes' \in Nat
  BY DEF Rollback, Done, Inv, TypeOK
<1> QED
  BY <1>1, <1>2, NewJobTypes, IdleAlone, LocalStep

(* The same for a statement: only its new job has to be looked at.         *)
LEMMA OnlyKeeps ==
    ASSUME Inv, NEW h \in Handlers, NEW s \in Steps, NEW j \in Jobs,
           Alone(h, s, j), JobOK(s, j), Only(h, s, j)
    PROVE  Inv'
<1>1. /\ Goto(h, s) /\ Note(h, j) /\ UNCHANGED <<tables, hint, devices, audio>>
      /\ begun' \in Nat /\ changes' \in Nat
  BY DEF Only, Inv, TypeOK
<1> QED
  BY <1>1, LocalStep

LEMMA PushCallerKeeps ==
    ASSUME Inv, NEW h \in Handlers, PushCaller(h)
    PROVE  Inv'
<1>1. Alone(h, "push_floor", job[h]) /\ "push_floor" \in Steps
  BY DEF Alone, FloorSteps, Steps
<1>2. JobOK("push_floor", job[h])
  BY HandlerFacts DEF PushCaller, JobOK, PushSteps, FloorSteps
<1> QED
  BY <1>1, <1>2, HandlerFacts, OnlyKeeps DEF PushCaller

LEMMA PushFloorKeeps ==
    ASSUME Inv, NEW h \in Handlers, PushFloor(h)
    PROVE  Inv'
<1> DEFINE j == [job[h] EXCEPT !.floor = floor.required]
<1>1. /\ j \in Jobs /\ j.floor = floor.required /\ j.client = job[h].client
      /\ j.batch = job[h].batch /\ j.level = job[h].level
  BY HandlerFacts, JobFloor
<1>2. /\ Only(h, "push_seq", j) /\ at[h] = "push_floor"
      /\ job[h].level <= floor.required
      /\ \A g \in Others(h) : ~OwnsFloor(g)
  BY DEF PushFloor, LockFloorShare, Admitted
<1> HIDE DEF j
<1>3. Alone(h, "push_seq", j) /\ "push_seq" \in Steps
  BY <1>2 DEF Alone, Steps
<1>4. JobOK("push_seq", j)
  BY <1>1, <1>2, HandlerFacts DEF JobOK, PushSteps, FloorSteps
<1> QED
  BY <1>1, <1>2, <1>3, <1>4, OnlyKeeps

LEMMA PushLockKeeps ==
    ASSUME Inv, NEW h \in Handlers, PushLock(h)
    PROVE  Inv'
<1> DEFINE j == [job[h] EXCEPT !.next = nextSeq]
<1>1. /\ j \in Jobs /\ j.next = nextSeq /\ j.client = job[h].client /\ j.floor = job[h].floor
      /\ j.batch = job[h].batch /\ j.level = job[h].level
  BY HandlerFacts, JobNext
<1>2. /\ Only(h, "push_walk", j) /\ at[h] = "push_seq"
      /\ \A g \in Others(h) : ~OwnsSeq(g)
  BY DEF PushLock
<1> HIDE DEF j
<1>3. Alone(h, "push_walk", j) /\ "push_walk" \in Steps
  BY <1>2, HandlerFacts DEF Alone, Steps, FloorSteps
<1>4. JobOK("push_walk", j)
  BY <1>1, <1>2, HandlerFacts DEF JobOK, PushSteps, FloorSteps
<1> QED
  BY <1>1, <1>2, <1>3, <1>4, OnlyKeeps

LEMMA PushWalkKeeps ==
    ASSUME Inv, NEW h \in Handlers, PushWalk(h)
    PROVE  Inv'
<1> DEFINE new == job[h].batch \ StoredEntries
<1>1. at[h] = "push_walk" /\ ~Clash(job[h].batch)
  BY DEF PushWalk
<1>2. PICK F \in Numberings(new, job[h].next) :
         Only(h, "push_meter", [job[h] EXCEPT !.fresh = F])
  BY DEF PushWalk
<1>3. new \in SUBSET Entries /\ IsFiniteSet(new) /\ job[h].next \in Nat
  <2>1. job[h].batch \in SUBSET Entries /\ job[h].next \in Nat
    BY HandlerFacts DEF Jobs
  <2>2. IsFiniteSet(job[h].batch)
    BY <1>1, HandlerFacts DEF JobOK, PushSteps
  <2> QED
    BY <2>1, <2>2, FS_Subset
<1> DEFINE j == [job[h] EXCEPT !.fresh = F]
<1> HIDE DEF new
<1>4. /\ F \subseteq Rows
      /\ IsFiniteSet(F)
      /\ {r.entry : r \in F} = new
      /\ {r.seq : r \in F} = job[h].next .. (job[h].next + Cardinality(F) - 1)
      /\ \A r, q \in F : r.seq = q.seq \/ r.entry = q.entry => r = q
  BY <1>2, <1>3, NumberingOK
<1>5. /\ j \in Jobs /\ j.fresh = F /\ j.next = job[h].next /\ j.client = job[h].client
      /\ j.floor = job[h].floor /\ j.batch = job[h].batch /\ j.level = job[h].level
  <2>1. job[h] \in Jobs /\ F \in SUBSET Rows
    BY <1>4, HandlerFacts
  <2> QED
    BY <2>1, JobFresh
<1> HIDE DEF j
<1>6. Numbered(j)
  BY <1>1, <1>4, <1>5 DEF Numbered, new
<1>7. Alone(h, "push_meter", j) /\ "push_meter" \in Steps
  BY <1>1, HandlerFacts DEF Alone, Steps, FloorSteps
<1>8. JobOK("push_meter", j)
  BY <1>1, <1>5, <1>6, HandlerFacts DEF JobOK, PushSteps, FloorSteps
<1> QED
  BY <1>2, <1>5, <1>7, <1>8, OnlyKeeps DEF j

LEMMA PushMeterKeeps ==
    ASSUME Inv, NEW h \in Handlers, PushMeter(h)
    PROVE  Inv'
<1>1. /\ at[h] = "push_meter" /\ Only(h, "push_commit", job[h])
      /\ usage + Cardinality(job[h].fresh) <= Quota
      /\ \A g \in Others(h) : ~OwnsUsage(g)
  BY DEF PushMeter, Meter, CanMeter, WithinQuota
<1>2. Alone(h, "push_commit", job[h]) /\ "push_commit" \in Steps
  BY <1>1, HandlerFacts DEF Alone, Steps, FloorSteps
<1>3. JobOK("push_commit", job[h])
  BY <1>1, HandlerFacts DEF JobOK, PushSteps, FloorSteps
<1> QED
  BY <1>1, <1>2, <1>3, HandlerFacts, OnlyKeeps

LEMMA AudioMeterKeeps ==
    ASSUME Inv, NEW h \in Handlers, AudioMeter(h)
    PROVE  Inv'
<1>1. /\ at[h] = "audio_meter" /\ Only(h, "audio_commit", job[h])
      /\ usage + 1 <= Quota
      /\ \A g \in Others(h) : ~OwnsUsage(g)
  BY DEF AudioMeter, Meter, CanMeter, WithinQuota
<1>2. Alone(h, "audio_commit", job[h]) /\ "audio_commit" \in Steps
  BY <1>1 DEF Alone, Steps, FloorSteps
<1>3. JobOK("audio_commit", job[h])
  BY <1>1, HandlerFacts DEF JobOK, PushSteps, FloorSteps
<1> QED
  BY <1>1, <1>2, <1>3, HandlerFacts, OnlyKeeps

LEMMA PullFloorKeeps ==
    ASSUME Inv, NEW h \in Handlers, PullFloor(h)
    PROVE  Inv'
<1> DEFINE j == [job[h] EXCEPT !.floor = floor.required]
<1>1. j \in Jobs /\ j.floor = floor.required /\ j.client = job[h].client
  BY HandlerFacts, JobFloor
<1>2. /\ Only(h, "pull_stamp", j) /\ at[h] = "pull_floor"
      /\ \A g \in Others(h) : ~OwnsFloor(g)
  BY DEF PullFloor, LockFloorShare
<1> HIDE DEF j
<1>3. Alone(h, "pull_stamp", j) /\ "pull_stamp" \in Steps
  BY <1>2 DEF Alone, Steps
<1>4. JobOK("pull_stamp", j)
  BY <1>1, <1>2, HandlerFacts DEF JobOK, PushSteps, FloorSteps
<1> QED
  BY <1>1, <1>2, <1>3, <1>4, OnlyKeeps

LEMMA PullStampKeeps ==
    ASSUME Inv, NEW h \in Handlers, PullStamp(h)
    PROVE  Inv'
<1>1. at[h] = "pull_stamp" /\ job[h].floor <= job[h].level
  BY DEF PullStamp
<1>2. PICK b \in BOOLEAN : /\ b => CanStamp(h)
                           /\ Only(h, "pull_read", [job[h] EXCEPT !.stamp = b])
  BY DEF PullStamp
<1> DEFINE j == [job[h] EXCEPT !.stamp = b]
<1>3. /\ j \in Jobs /\ j.stamp = b /\ j.client = job[h].client
      /\ j.floor = job[h].floor /\ j.level = job[h].level
  BY HandlerFacts, JobStamp
<1> HIDE DEF j
<1>4. Alone(h, "pull_read", j) /\ "pull_read" \in Steps
  BY <1>1, <1>2, <1>3, HandlerFacts DEF Alone, Steps, FloorSteps, CanStamp
<1>5. JobOK("pull_read", j)
  BY <1>1, <1>3, HandlerFacts DEF JobOK, PushSteps, FloorSteps
<1> QED
  BY <1>2, <1>3, <1>4, <1>5, OnlyKeeps DEF j

LEMMA PullReadKeeps ==
    ASSUME Inv, NEW h \in Handlers, PullRead(h)
    PROVE  Inv'
<1> DEFINE P == Page(job[h].since)
           j == [job[h] EXCEPT !.page = P]
<1>1. rows \subseteq Rows /\ IsFiniteSet(rows) /\ P \subseteq rows /\ job[h].since \in Nat
  BY HandlerFacts DEF Inv, TypeOK, LogOK, Page, Jobs
<1>2. /\ j \in Jobs /\ j.page = P /\ j.client = job[h].client /\ j.since = job[h].since
      /\ j.floor = job[h].floor /\ j.level = job[h].level /\ j.stamp = job[h].stamp
  <2> HIDE DEF P
  <2> QED
    BY <1>1, HandlerFacts, JobPage
<1>3. Only(h, "pull_commit", j) /\ at[h] = "pull_read"
  BY DEF PullRead
<1>4. PageOK(j)
  <2> HIDE DEF j
  <2> QED
    BY <1>1, <1>2, PageIsRange DEF PageOK
<1> HIDE DEF P, j
<1>5. Alone(h, "pull_commit", j) /\ "pull_commit" \in Steps
  BY <1>2, <1>3, HandlerFacts DEF Alone, Steps, FloorSteps
<1>6. JobOK("pull_commit", j)
  BY <1>2, <1>3, <1>4, HandlerFacts DEF JobOK, PushSteps, FloorSteps
<1> QED
  BY <1>2, <1>3, <1>5, <1>6, OnlyKeeps

LEMMA RaiseFloorKeeps ==
    ASSUME Inv, NEW h \in Handlers, RaiseFloor(h)
    PROVE  Inv'
<1> DEFINE j == [job[h] EXCEPT !.floor = floor.required]
<1>1. j \in Jobs /\ j.floor = floor.required /\ j.client = job[h].client
  BY HandlerFacts, JobFloor
<1>2. /\ Only(h, "raise_caller", j) /\ at[h] = "raise_floor"
      /\ \A g \in Others(h) : ~OwnsFloor(g) /\ ~SharesFloor(g)
  BY DEF RaiseFloor, LockFloorUpdate
<1> HIDE DEF j
<1>3. Alone(h, "raise_caller", j) /\ "raise_caller" \in Steps
  BY <1>2 DEF Alone, Steps
<1>4. JobOK("raise_caller", j)
  BY <1>1, <1>2, HandlerFacts DEF JobOK, PushSteps, FloorSteps
<1> QED
  BY <1>1, <1>2, <1>3, <1>4, OnlyKeeps

LEMMA RaiseCallerKeeps ==
    ASSUME Inv, NEW h \in Handlers, RaiseCaller(h)
    PROVE  Inv'
<1>1. /\ at[h] = "raise_caller" /\ CanStamp(h)
      /\ dev[job[h].client].status = "active"
  BY DEF RaiseCaller
<1>2. PICK b \in BOOLEAN : Only(h, "raise_check", [job[h] EXCEPT !.stamp = b])
  BY DEF RaiseCaller
<1> DEFINE j == [job[h] EXCEPT !.stamp = b]
<1>3. j \in Jobs /\ j.client = job[h].client /\ j.floor = job[h].floor
  BY HandlerFacts, JobStamp
<1> HIDE DEF j
<1>4. Alone(h, "raise_check", j) /\ "raise_check" \in Steps
  BY <1>1, <1>3, HandlerFacts DEF Alone, Steps, FloorSteps, CanStamp
<1>5. JobOK("raise_check", j)
  BY <1>1, <1>3, HandlerFacts DEF JobOK, PushSteps, FloorSteps
<1> QED
  BY <1>2, <1>3, <1>4, <1>5, OnlyKeeps DEF j

(* A stamp changes the level and the date of one device, never its status. *)
LEMMA StampedFacts ==
    ASSUME TypeOK, NEW j \in Jobs, j.client \in Clients
    PROVE  /\ Stamped(j) \in [Clients -> DeviceRows]
           /\ \A c \in Clients : Stamped(j)[c].status = dev[c].status
           /\ \A c \in Clients : c # j.client \/ ~j.stamp => Stamped(j)[c] = dev[c]
<1>1. dev \in [Clients -> DeviceRows] /\ j.level \in Levels
  BY DEF TypeOK, Jobs
<1>2. CASE ~j.stamp
  BY <1>1, <1>2 DEF Stamped
<1>3. CASE j.stamp
  <2> DEFINE d == [dev EXCEPT ![j.client].level = j.level, ![j.client].seen = TRUE]
             r == [dev[j.client] EXCEPT !.level = j.level, !.seen = TRUE]
  <2>1. dev[j.client] \in DeviceRows
    BY <1>1
  <2>2. r \in DeviceRows /\ r.status = dev[j.client].status
    BY <1>1, <2>1 DEF DeviceRows
  <2>3. d = [dev EXCEPT ![j.client] = r]
    BY <1>1, <2>1 DEF DeviceRows
  <2>4. Stamped(j) = d
    BY <1>3 DEF Stamped
  <2> HIDE DEF d, r
  <2> QED
    BY <1>1, <1>3, <2>2, <2>3, <2>4
<1> QED
  BY <1>2, <1>3

LEMMA RaiseCheckKeeps ==
    ASSUME Inv, NEW h \in Handlers, RaiseCheck(h)
    PROVE  Inv'
<1> DEFINE D == Stamped(job[h])
           m == {c \in Clients : D[c].status # "revoked"}
           b == \A c \in Clients : ~Blocks(D[c], job[h].target)
           j == [job[h] EXCEPT !.members = m, !.free = b]
<1>1. at[h] = "raise_check" /\ Only(h, "raise_commit", j)
  BY DEF RaiseCheck
<1>2. /\ \A c \in Clients : D[c].status = dev[c].status
      /\ \A c \in Clients : c # job[h].client \/ ~job[h].stamp => D[c] = dev[c]
  BY <1>1, HandlerFacts, StampedFacts DEF Inv
<1>3. m \in SUBSET Clients /\ \E x \in BOOLEAN : x = b
  OBVIOUS
<1>4. /\ j \in Jobs /\ j.members = m /\ j.free = b
      /\ j.client = job[h].client /\ j.floor = job[h].floor /\ j.stamp = job[h].stamp
      /\ j.target = job[h].target
  <2>1. PICK x \in BOOLEAN : x = b
    BY <1>3
  <2>2. j = [job[h] EXCEPT !.members = m, !.free = x]
    BY <2>1
  <2>3. job[h] \in Jobs
    BY HandlerFacts
  <2> HIDE DEF m, b, j
  <2>4. /\ j \in Jobs /\ j.members = m /\ j.free = x
        /\ j.client = job[h].client /\ j.floor = job[h].floor /\ j.stamp = job[h].stamp
        /\ j.target = job[h].target
    BY <1>3, <2>1, <2>2, <2>3 DEF Jobs
  <2> QED
    BY <2>1, <2>4
<1> HIDE DEF j, D
<1>5. b => \A c \in m : dev[c].seen /\ dev[c].level < job[h].target =>
                            c = job[h].client /\ job[h].stamp
  BY <1>2 DEF Blocks
<1> HIDE DEF m, b
<1>6. j.free => \A c \in j.members : dev[c].seen /\ dev[c].level < j.target =>
                                        c = j.client /\ j.stamp
  BY <1>4, <1>5
<1>7. Alone(h, "raise_commit", j) /\ "raise_commit" \in Steps
  BY <1>1, <1>4, HandlerFacts DEF Alone, Steps, FloorSteps
<1>8. JobOK("raise_commit", j)
  BY <1>1, <1>4, <1>6, HandlerFacts DEF JobOK, PushSteps, FloorSteps
<1> QED
  BY <1>1, <1>4, <1>7, <1>8, OnlyKeeps

-----------------------------------------------------------------------------
(* One lemma for each statement that commits something.  A step to idle    *)
(* gives up every lock; what the other handlers rely on is the rest.       *)
LEMMA DoneStep ==
    ASSUME Inv, NEW h \in Handlers, Done(h)
    PROVE  /\ at' \in [Handlers -> Steps] /\ job' \in [Handlers -> Jobs]
           /\ LocksHeld'
           /\ JobOK(at[h], job[h])'
           /\ \A g \in Others(h) : at'[g] = at[g] /\ job'[g] = job[g]
<1>1. "idle" \in Steps /\ NoJob \in Jobs /\ Alone(h, "idle", NoJob)
  BY NewJobTypes, IdleAlone DEF Steps
<1>2. Goto(h, "idle") /\ Note(h, NoJob)
  BY DEF Done
<1>3. /\ at' \in [Handlers -> Steps] /\ job' \in [Handlers -> Jobs]
      /\ at'[h] = "idle" /\ job'[h] = NoJob
      /\ \A g \in Others(h) : at'[g] = at[g] /\ job'[g] = job[g]
  BY <1>1, <1>2 DEF Inv, TypeOK, Goto, Note, Others
<1>4. LocksHeld'
  BY <1>1, <1>2, LockStep DEF Inv
<1>5. JobOK(at[h], job[h])'
  BY <1>3 DEF JobOK, PushSteps, FloorSteps
<1> QED
  BY <1>3, <1>4, <1>5

(* Where a commit of another handler leaves a job alone.                   *)
LEMMA JobFrame ==
    ASSUME NEW s, NEW j, JobOK(s, j), UNCHANGED <<rows, nextSeq>>,
           s \in FloorSteps => floor'.required = floor.required,
           s \in {"push_commit", "audio_commit"} => usage' = usage,
           s \in {"raise_check", "raise_commit"} => dev'[j.client].status = "active",
           s = "raise_commit" =>
              (j.free => \A c \in j.members : dev'[c].seen /\ dev'[c].level < j.target =>
                                                 c = j.client /\ j.stamp)
    PROVE  JobOK(s, j)'
<1>1. Numbered(j)' <=> Numbered(j)
  BY DEF Numbered, Clash, StoredEntries, SamePair
<1>2. PageOK(j)' <=> PageOK(j)
  BY DEF PageOK
<1> QED
  BY <1>1, <1>2 DEF JobOK

LEMMA PushWakeKeeps ==
    ASSUME Inv, NEW h \in Handlers, PushWake(h)
    PROVE  Inv'
<1> DEFINE n == Cardinality(job[h].fresh)
<1>1. /\ at[h] = "push_wake" /\ Done(h) /\ hint' = job[h].next + n - 1
      /\ UNCHANGED <<tables, devices, audio, begun, changes>>
  BY DEF PushWake
<1>2. /\ IsFiniteSet(job[h].fresh) /\ job[h].next \in Nat /\ 0 < job[h].next
      /\ job[h].next + n <= nextSeq
  BY <1>1, HandlerFacts DEF JobOK, Jobs
<1>3. n \in Nat
  BY <1>2, FS_CardinalityType
<1> HIDE DEF n
<1>4. hint' \in Nat /\ hint' < nextSeq
  BY <1>1, <1>2, <1>3, HandlerFacts
<1>5. TypeOK'
  BY <1>1, <1>4, DoneStep DEF Inv, TypeOK, tables, devices
<1>6. Dense' /\ LogOK' /\ CursorComplete' /\ HintCommitted' /\ QuotaKept'
  BY <1>1, <1>4 DEF Inv, Dense, LogOK, CursorComplete, HintCommitted, QuotaKept, tables, devices, SamePair
<1>7. ASSUME NEW g \in Others(h) PROVE JobOK(at[g], job[g])'
  <2>1. JobOK(at[g], job[g]) /\ at'[g] = at[g] /\ job'[g] = job[g]
    BY <1>1, DoneStep DEF Inv, Others
  <2> QED
    BY <1>1, <2>1, JobFrame DEF JobOK, tables
<1> QED
  BY <1>1, <1>5, <1>6, <1>7, DoneStep DEF Inv, Others

LEMMA AudioCommitKeeps ==
    ASSUME Inv, NEW h \in Handlers, AudioCommit(h)
    PROVE  Inv'
<1>1. /\ at[h] = "audio_commit" /\ Done(h) /\ usage' = usage + 1 /\ audio' = audio + 1
      /\ UNCHANGED <<rows, nextSeq, floor, dev, hint, devices, begun, changes>>
  BY DEF AudioCommit
<1>2. usage + 1 <= Quota
  BY <1>1, HandlerFacts DEF JobOK
<1>3. TypeOK'
  BY <1>1, DoneStep DEF Inv, TypeOK, devices
<1>4. Dense' /\ LogOK' /\ CursorComplete' /\ HintCommitted'
  BY <1>1 DEF Inv, Dense, LogOK, CursorComplete, HintCommitted, devices, SamePair
<1>5. QuotaKept'
  <2>1. IsFiniteSet(rows) /\ Cardinality(rows) \in Nat /\ audio \in Nat /\ usage \in Nat
    BY FS_CardinalityType DEF Inv, LogOK, TypeOK
  <2> QED
    BY <1>1, <1>2, <2>1 DEF Inv, QuotaKept
<1>6. ASSUME NEW g \in Others(h) PROVE JobOK(at[g], job[g])'
  <2>1. JobOK(at[g], job[g]) /\ at'[g] = at[g] /\ job'[g] = job[g]
    BY <1>1, DoneStep DEF Inv, Others
  <2>2. at[g] \notin {"push_commit", "audio_commit"}
    BY <1>1, HandlerFacts DEF Alone, OwnsUsage
  <2> QED
    BY <1>1, <2>1, <2>2, JobFrame DEF JobOK
<1> QED
  BY <1>1, <1>3, <1>4, <1>5, <1>6, DoneStep DEF Inv, Others

(* What a commit of a push does to the log.                                *)
LEMMA PushGrows ==
    ASSUME Inv, NEW h \in Handlers, PushCommit(h)
    PROVE  /\ IsFiniteSet(rows) /\ IsFiniteSet(job[h].fresh)
           /\ Cardinality(job[h].fresh) \in Nat
           /\ job[h].fresh \in SUBSET Rows
           /\ \A r \in job[h].fresh : /\ r.entry \in job[h].batch /\ r.entry \notin StoredEntries
                                      /\ nextSeq <= r.seq
                                      /\ LevelOf[r.entry.ct] <= floor.required
           /\ {r.seq : r \in job[h].fresh} = nextSeq .. (nextSeq + Cardinality(job[h].fresh) - 1)
           /\ \A r \in rows : 0 < r.seq /\ r.seq < nextSeq
           /\ rows \cap job[h].fresh = {}
           /\ ~Clash(job[h].batch)
           /\ job[h].next = nextSeq
           /\ rows \subseteq Rows
<1> DEFINE F == job[h].fresh
           n == Cardinality(F)
<1>1. at[h] = "push_commit"
  BY DEF PushCommit
<1>2. /\ IsFiniteSet(F) /\ {r.entry : r \in F} = job[h].batch \ StoredEntries
      /\ {r.seq : r \in F} = nextSeq .. (nextSeq + n - 1)
      /\ ~Clash(job[h].batch)
      /\ job[h].next = nextSeq
      /\ job[h].level <= floor.required
      /\ \A e \in job[h].batch : LevelOf[e.ct] <= job[h].level
  BY <1>1, HandlerFacts DEF JobOK, Numbered, PushSteps, FloorSteps
<1>3. n \in Nat
  BY <1>2, FS_CardinalityType
<1>4. /\ F \in SUBSET Rows /\ rows \subseteq Rows /\ IsFiniteSet(rows)
      /\ job[h].level \in Nat /\ floor.required \in Nat /\ job[h].batch \in SUBSET Entries
  BY HandlerFacts DEF Jobs, Inv, LogOK, TypeOK
<1>5. \A r \in F : r.entry \in job[h].batch /\ r.entry \notin StoredEntries
  BY <1>2
<1>6. \A r \in F : nextSeq <= r.seq
  <2>1. \A r \in F : r.seq \in nextSeq .. (nextSeq + n - 1)
    BY <1>2
  <2> HIDE DEF n, F
  <2> QED
    BY <2>1, <1>3, HandlerFacts
<1>7. \A r \in F : LevelOf[r.entry.ct] <= floor.required
  <2>1. \A e \in job[h].batch : LevelOf[e.ct] \in Nat
    BY <1>4, RelayAssumption DEF Entries
  <2> QED
    BY <1>2, <1>4, <1>5, <2>1
<1>8. \A r \in rows : 0 < r.seq /\ r.seq < nextSeq
  <2>1. \A r \in rows : r.seq \in 1 .. (nextSeq - 1)
    BY DEF Inv, Dense
  <2> QED
    BY <2>1, HandlerFacts
<1>9. rows \cap F = {}
  BY <1>4, <1>6, <1>8, HandlerFacts DEF Rows
<1> QED
  BY <1>2, <1>3, <1>4, <1>5, <1>6, <1>7, <1>8, <1>9

LEMMA PushCommitKeeps ==
    ASSUME Inv, NEW h \in Handlers, PushCommit(h)
    PROVE  Inv'
<1> DEFINE F == job[h].fresh
           n == Cardinality(F)
<1>1. /\ at[h] = "push_commit" /\ Goto(h, "push_wake")
      /\ rows' = rows \cup F /\ nextSeq' = nextSeq + n /\ usage' = usage + n
      /\ UNCHANGED <<floor, dev, hint, job, devices, audio, begun, changes>>
  BY DEF PushCommit
<1>2. /\ IsFiniteSet(rows) /\ IsFiniteSet(F) /\ n \in Nat /\ F \in SUBSET Rows
      /\ \A r \in F : /\ r.entry \in job[h].batch /\ r.entry \notin StoredEntries
                      /\ nextSeq <= r.seq /\ LevelOf[r.entry.ct] <= floor.required
      /\ {r.seq : r \in F} = nextSeq .. (nextSeq + n - 1)
      /\ \A r \in rows : 0 < r.seq /\ r.seq < nextSeq
      /\ rows \cap F = {} /\ ~Clash(job[h].batch) /\ job[h].next = nextSeq
      /\ rows \subseteq Rows
  BY PushGrows
<1>3. /\ usage + n <= Quota
      /\ \A r, q \in F : r.seq = q.seq \/ r.entry = q.entry => r = q
  BY <1>1, HandlerFacts DEF JobOK, Numbered
<1> HIDE DEF F, n
<1>4. nextSeq \in Nat \ {0} /\ usage \in Nat /\ Quota \in Nat /\ audio \in Nat
      /\ Cardinality(rows) \in Nat
  BY <1>2, HandlerFacts, FS_CardinalityType DEF Inv, TypeOK
<1>5. TypeOK'
  <2>1. "push_wake" \in Steps
    BY DEF Steps
  <2> QED
    BY <1>1, <1>2, <1>4, <2>1 DEF Inv, TypeOK, Goto, devices
<1>6. Dense'
  <2>1. {r.seq : r \in rows} = 1 .. (nextSeq - 1)
    BY DEF Inv, Dense
  <2>2. {r.seq : r \in rows'} = {r.seq : r \in rows} \cup {r.seq : r \in F}
    BY <1>1
  <2>3. (1 .. (nextSeq - 1)) \cup (nextSeq .. (nextSeq + n - 1)) = 1 .. (nextSeq' - 1)
    BY <1>1, <1>2, <1>4
  <2>4. {r.seq : r \in rows'} = 1 .. (nextSeq' - 1)
    BY <1>2, <2>1, <2>2, <2>3
  <2>5. \A r, q \in rows' : r.seq = q.seq => r = q
    <3>1. \A r, q \in rows : r.seq = q.seq => r = q
      BY DEF Inv, Dense
    <3>2. \A r \in rows, q \in F : r.seq # q.seq
      BY <1>2, <1>4 DEF Rows
    <3> QED
      BY <1>1, <1>3, <3>1, <3>2
  <2> QED
    BY <2>4, <2>5 DEF Dense
<1>7. LogOK'
  <2>1. IsFiniteSet(rows')
    BY <1>1, <1>2, FS_Union
  <2>2. \A r \in rows' : LevelOf[r.entry.ct] <= floor'.required
    BY <1>1, <1>2 DEF Inv, LogOK
  <2>3. \A r, q \in rows' : SamePair(r.entry, q.entry) => r = q
    <3>1. \A r \in F : r.entry \in Entries
      BY <1>2 DEF Rows
    <3>2. \A r \in rows : r.entry \in Entries /\ r.entry \in StoredEntries
      BY <1>2 DEF Rows, StoredEntries
    <3>3. \A r \in F, q \in rows \cup F : SamePair(r.entry, q.entry) => r.entry.ct = q.entry.ct
      BY <1>2, <3>2 DEF Clash
    <3>4. \A d, e \in Entries : SamePair(d, e) /\ d.ct = e.ct => d = e
      BY DEF Entries, SamePair
    <3>5. \A d, e \in Entries : SamePair(d, e) => SamePair(e, d)
      BY DEF SamePair
    <3>6. \A r \in F, q \in F : SamePair(r.entry, q.entry) => r = q
      BY <1>3, <3>1, <3>3, <3>4
    <3>7. \A r \in F, q \in rows : ~SamePair(r.entry, q.entry)
      BY <1>2, <3>1, <3>2, <3>3, <3>4
    <3>8. \A r \in rows, q \in rows : SamePair(r.entry, q.entry) => r = q
      BY DEF Inv, LogOK
    <3> QED
      BY <1>1, <3>1, <3>2, <3>5, <3>6, <3>7, <3>8
  <2>4. \A c \in Clients : cursor'[c] < nextSeq'
    <3>1. \A c \in Clients : cursor[c] \in Nat /\ cursor[c] < nextSeq
      BY DEF Inv, TypeOK, LogOK
    <3> QED
      BY <1>1, <1>2, <1>4, <3>1 DEF devices
  <2>5. \A r, q \in rows' : SamePair(r.entry, q.entry)' => r = q
    BY <2>3 DEF SamePair
  <2> QED
    BY <2>1, <2>2, <2>4, <2>5 DEF LogOK
<1>8. CursorComplete'
  <2> SUFFICES ASSUME NEW c \in Clients PROVE got'[c] = {r \in rows' : r.seq <= cursor'[c]}
    BY DEF CursorComplete
  <2>1. got'[c] = got[c] /\ cursor'[c] = cursor[c]
    BY <1>1 DEF devices
  <2>2. got[c] = {r \in rows : r.seq <= cursor[c]} /\ cursor[c] \in Nat /\ cursor[c] < nextSeq
    BY DEF Inv, CursorComplete, TypeOK, LogOK
  <2>3. \A r \in F : ~(r.seq <= cursor[c])
    BY <1>2, <1>4, <2>2 DEF Rows
  <2> QED
    BY <1>1, <2>1, <2>2, <2>3
<1>9. HintCommitted'
  BY <1>1, <1>2, <1>4 DEF Inv, HintCommitted, TypeOK
<1>10. QuotaKept'
  <2>1. Cardinality(rows \cup F) = Cardinality(rows) + n
    <3>1. Cardinality(rows \cup F) = Cardinality(rows) + Cardinality(F) - Cardinality(rows \cap F)
      BY <1>2, FS_Union
    <3>2. Cardinality(rows \cap F) = 0 /\ Cardinality(F) = n
      BY <1>2, FS_EmptySet DEF n
    <3> QED
      BY <1>2, <1>4, <3>1, <3>2
  <2> QED
    BY <1>1, <1>2, <1>3, <1>4, <2>1 DEF Inv, QuotaKept
<1>11. LocksHeld'
  <2>1. Alone(h, "push_wake", job[h]) /\ "push_wake" \in Steps
    BY DEF Alone, FloorSteps, Steps
  <2>2. Note(h, job[h])
    BY <1>1 DEF Note, Inv, TypeOK
  <2> QED
    BY <1>1, <2>1, <2>2, HandlerFacts, LockStep DEF Inv
<1>12. ASSUME NEW g \in Handlers PROVE JobOK(at[g], job[g])'
  <2>1. CASE g = h
    <3>1. at'[g] = "push_wake" /\ job'[g] = job[h] /\ job[h].client \in Clients
      BY <1>1, <2>1, HandlerFacts DEF Inv, TypeOK, Goto
    <3>2. /\ IsFiniteSet(job[h].fresh) /\ 0 < job[h].next
          /\ job[h].next + Cardinality(job[h].fresh) <= nextSeq'
      BY <1>1, <1>2, <1>4 DEF F, n
    <3> QED
      BY <3>1, <3>2 DEF JobOK, PushSteps, FloorSteps
  <2>2. CASE g # h
    <3>1. JobOK(at[g], job[g]) /\ at'[g] = at[g] /\ job'[g] = job[g] /\ job[g] \in Jobs
      BY <1>1, <2>2 DEF Inv, TypeOK, Goto
    <3>2. at[g] \notin {"push_walk", "push_meter", "push_commit", "audio_commit"}
      BY <1>1, <2>2, HandlerFacts DEF Alone, OwnsUsage, OwnsSeq, Others
    <3>3. at[g] = "push_wake" => job[g].next + Cardinality(job[g].fresh) <= nextSeq'
      <4>1. ASSUME at[g] = "push_wake"
            PROVE  /\ Cardinality(job[g].fresh) \in Nat /\ job[g].next \in Nat
                   /\ job[g].next + Cardinality(job[g].fresh) <= nextSeq
        BY <3>1, <4>1, FS_CardinalityType DEF JobOK, Jobs
      <4> QED
        BY <1>1, <1>2, <1>4, <4>1
    <3>4. at[g] = "pull_commit" => PageOK(job[g])'
      <4> SUFFICES ASSUME at[g] = "pull_commit", job[g].page # {} PROVE PageOK(job[g])'
        BY <3>1 DEF PageOK
      <4>1. PICK m \in {r.seq : r \in job[g].page} :
               job[g].page = {r \in rows : job[g].since < r.seq /\ r.seq <= m}
        BY <3>1 DEF JobOK, PageOK
      <4>2. m \in Nat /\ m < nextSeq
        BY <1>2, <4>1 DEF Rows
      <4>3. \A r \in F : ~(r.seq <= m)
        BY <1>2, <1>4, <4>2 DEF Rows
      <4>4. job[g].page = {r \in rows' : job[g].since < r.seq /\ r.seq <= m}
        BY <1>1, <4>1, <4>3
      <4> QED
        BY <3>1, <4>1, <4>4 DEF PageOK
    <3> QED
      BY <1>1, <3>1, <3>2, <3>3, <3>4 DEF JobOK
  <2> QED
    BY <2>1, <2>2
<1> QED
  BY <1>5, <1>6, <1>7, <1>8, <1>9, <1>10, <1>11, <1>12 DEF Inv

(* A commit that writes a device's stamp, and for a raise the floor.       *)
LEMMA StampStep ==
    ASSUME Inv, NEW h \in Handlers, NEW k \in Jobs, k.client \in Clients,
           at[h] \in {"pull_stamp", "pull_commit", "raise_caller", "raise_commit"},
           Done(h), dev' = Stamped(k), UNCHANGED <<rows, nextSeq, usage, hint, audio, begun, changes>>,
           floor' \in [required : Levels, requested : Levels],
           floor.required <= floor'.required,
           at[h] # "raise_commit" => floor'.required = floor.required,
           cursor' \in [Clients -> Nat], got' \in [Clients -> SUBSET Rows],
           \A c \in Clients : cursor'[c] < nextSeq,
           CursorComplete'
    PROVE  Inv'
<1>1. /\ dev' \in [Clients -> DeviceRows]
      /\ \A c \in Clients : dev'[c].status = dev[c].status
  BY StampedFacts DEF Inv
<1>2. TypeOK'
  BY <1>1, DoneStep DEF Inv, TypeOK
<1>3. Dense' /\ HintCommitted' /\ QuotaKept'
  BY DEF Inv, Dense, HintCommitted, QuotaKept
<1>4. LogOK'
  <2>1. \A r \in rows : LevelOf[r.entry.ct] <= floor'.required
    <3>1. \A r \in rows : LevelOf[r.entry.ct] \in Nat /\ LevelOf[r.entry.ct] <= floor.required
      BY RelayAssumption DEF Inv, LogOK, TypeOK, Rows, Entries
    <3>2. floor.required \in Nat /\ floor'.required \in Nat
      BY HandlerFacts
    <3> QED
      BY <3>1, <3>2
  <2> QED
    BY <2>1 DEF Inv, LogOK, SamePair
<1>5. ASSUME NEW g \in Others(h) PROVE JobOK(at[g], job[g])'
  <2>1. JobOK(at[g], job[g]) /\ at'[g] = at[g] /\ job'[g] = job[g]
    BY DoneStep DEF Inv, Others
  <2>2. at[g] \notin {"raise_caller", "raise_check", "raise_commit"}
    BY HandlerFacts DEF Alone, OwnsFloor, FloorSteps
  <2>3. at[g] \in FloorSteps => floor'.required = floor.required
    <3>1. at[h] = "raise_commit" => ~SharesFloor(g)
      BY HandlerFacts DEF Alone
    <3> QED
      BY <2>2, <3>1 DEF FloorSteps, SharesFloor
  <2> QED
    BY <2>1, <2>2, <2>3, JobFrame
<1> QED
  BY <1>2, <1>3, <1>4, <1>5, DoneStep DEF Inv, Others

LEMMA PullRefusedKeeps ==
    ASSUME Inv, NEW h \in Handlers, PullRefused(h)
    PROVE  Inv'
<1>1. /\ at[h] = "pull_stamp" /\ Done(h)
      /\ UNCHANGED <<rows, nextSeq, floor, usage, hint, devices, audio, begun, changes>>
  BY DEF PullRefused
<1>2. PICK b \in BOOLEAN : dev' = Stamped([job[h] EXCEPT !.stamp = b])
  BY DEF PullRefused
<1> DEFINE k == [job[h] EXCEPT !.stamp = b]
<1>3. k \in Jobs /\ k.client \in Clients /\ dev' = Stamped(k)
  BY <1>1, <1>2, HandlerFacts, JobStamp
<1> HIDE DEF k
<1>4. /\ floor' \in [required : Levels, requested : Levels]
      /\ floor'.required = floor.required /\ floor.required <= floor'.required
      /\ cursor' \in [Clients -> Nat] /\ got' \in [Clients -> SUBSET Rows]
      /\ \A c \in Clients : cursor'[c] < nextSeq
      /\ CursorComplete'
  BY <1>1, HandlerFacts DEF Inv, TypeOK, LogOK, CursorComplete, devices
<1> QED
  BY <1>1, <1>3, <1>4, StampStep

LEMMA RaiseNoopKeeps ==
    ASSUME Inv, NEW h \in Handlers, RaiseNoop(h)
    PROVE  Inv'
<1>1. /\ at[h] = "raise_caller" /\ Done(h)
      /\ UNCHANGED <<rows, nextSeq, floor, usage, hint, devices, audio, begun, changes>>
  BY DEF RaiseNoop
<1>2. PICK b \in BOOLEAN : dev' = Stamped([job[h] EXCEPT !.stamp = b])
  BY DEF RaiseNoop
<1> DEFINE k == [job[h] EXCEPT !.stamp = b]
<1>3. k \in Jobs /\ k.client \in Clients /\ dev' = Stamped(k)
  BY <1>1, <1>2, HandlerFacts, JobStamp
<1> HIDE DEF k
<1>4. /\ floor' \in [required : Levels, requested : Levels]
      /\ floor'.required = floor.required /\ floor.required <= floor'.required
      /\ cursor' \in [Clients -> Nat] /\ got' \in [Clients -> SUBSET Rows]
      /\ \A c \in Clients : cursor'[c] < nextSeq
      /\ CursorComplete'
  BY <1>1, HandlerFacts DEF Inv, TypeOK, LogOK, CursorComplete, devices
<1> QED
  BY <1>1, <1>3, <1>4, StampStep

LEMMA RaiseCommitKeeps ==
    ASSUME Inv, NEW h \in Handlers, RaiseCommit(h)
    PROVE  Inv'
<1>1. /\ at[h] = "raise_commit" /\ Done(h) /\ dev' = Stamped(job[h])
      /\ floor' = IF job[h].free
                  THEN [floor EXCEPT !.required = Greatest(@, job[h].target)]
                  ELSE [floor EXCEPT !.requested = Greatest(@, job[h].target)]
      /\ UNCHANGED <<rows, nextSeq, usage, hint, devices, audio, begun, changes>>
  BY DEF RaiseCommit
<1>2. /\ job[h] \in Jobs /\ job[h].client \in Clients /\ job[h].target \in Levels
      /\ floor \in [required : Levels, requested : Levels] /\ Levels \subseteq Nat
  BY <1>1, HandlerFacts DEF Jobs, Inv, TypeOK
<1>3. /\ floor' \in [required : Levels, requested : Levels]
      /\ floor.required <= floor'.required
  BY <1>1, <1>2 DEF Greatest
<1>4. /\ cursor' \in [Clients -> Nat] /\ got' \in [Clients -> SUBSET Rows]
      /\ \A c \in Clients : cursor'[c] < nextSeq
      /\ CursorComplete'
  BY <1>1 DEF Inv, TypeOK, LogOK, CursorComplete, devices
<1> QED
  BY <1>1, <1>2, <1>3, <1>4, StampStep

LEMMA PullCommitKeeps ==
    ASSUME Inv, NEW h \in Handlers, PullCommit(h)
    PROVE  Inv'
<1> DEFINE c == job[h].client
           P == job[h].page
           n == job[h].since
           e == PageEnd(P, n)
<1>1. /\ at[h] = "pull_commit" /\ Done(h) /\ dev' = Stamped(job[h])
      /\ UNCHANGED <<rows, nextSeq, floor, usage, hint, audio, begun, changes>>
      /\ \/ /\ cursor[c] = n
            /\ cursor' = [cursor EXCEPT ![c] = e]
            /\ got' = [got EXCEPT ![c] = @ \cup P]
         \/ UNCHANGED devices
  BY DEF PullCommit
<1>2. /\ job[h] \in Jobs /\ c \in Clients /\ P \in SUBSET Rows /\ n \in Nat /\ PageOK(job[h])
      /\ rows \subseteq Rows
      /\ floor \in [required : Levels, requested : Levels]
      /\ cursor \in [Clients -> Nat] /\ got \in [Clients -> SUBSET Rows]
      /\ \A d \in Clients : cursor[d] < nextSeq
      /\ \A d \in Clients : got[d] = {r \in rows : r.seq <= cursor[d]}
      /\ nextSeq \in Nat
      /\ \A r \in rows : r.seq \in Nat /\ r.seq < nextSeq
  <2>1. job[h] \in Jobs /\ c \in Clients /\ PageOK(job[h])
    BY <1>1, HandlerFacts DEF JobOK
  <2>2. \A r \in rows : r.seq \in 1 .. (nextSeq - 1)
    BY DEF Inv, Dense
  <2>3. \A r \in rows : r.seq \in Nat /\ r.seq < nextSeq
    BY <2>2, HandlerFacts
  <2>4. P \in SUBSET Rows /\ n \in Nat
    BY <2>1 DEF Jobs
  <2> QED
    BY <2>1, <2>3, <2>4, HandlerFacts DEF Inv, TypeOK, LogOK, CursorComplete
<1>3. CASE /\ cursor[c] = n /\ cursor' = [cursor EXCEPT ![c] = e]
           /\ got' = [got EXCEPT ![c] = @ \cup P]
  <2>1. e \in Nat /\ e < nextSeq /\ got[c] \cup P = {r \in rows : r.seq <= e}
    <3>1. CASE P = {}
      <4>1. e = n
        BY <3>1 DEF PageEnd
      <4> QED
        BY <1>2, <1>3, <3>1, <4>1
    <3>2. CASE P # {}
      <4>1. PICK m \in {r.seq : r \in P} : P = {r \in rows : n < r.seq /\ r.seq <= m}
        BY <1>2, <3>2 DEF PageOK
      <4>2. P \subseteq rows /\ m \in Nat /\ n < m /\ m < nextSeq /\ \A r \in P : r.seq <= m
        BY <1>2, <4>1
      <4>3. /\ e \in {r.seq : r \in P} /\ \A r \in P : r.seq <= e
        BY <3>2, <4>1, <4>2 DEF PageEnd
      <4>4. e \in Nat /\ e <= m /\ m <= e
        BY <1>2, <4>1, <4>2, <4>3
      <4>5. e = m
        BY <4>2, <4>4
      <4>6. got[c] \cup P = {r \in rows : r.seq <= m}
        BY <1>2, <1>3, <4>1, <4>2
      <4> HIDE DEF e, P, n, c
      <4> QED
        BY <4>2, <4>5, <4>6
    <3> QED
      BY <3>1, <3>2
  <2> HIDE DEF e, P, n, c
  <2>2. /\ cursor' \in [Clients -> Nat] /\ got' \in [Clients -> SUBSET Rows]
        /\ \A d \in Clients : cursor'[d] < nextSeq
    BY <1>2, <1>3, <2>1
  <2>3. \A d \in Clients : got'[d] = {r \in rows : r.seq <= cursor'[d]}
    <3> SUFFICES ASSUME NEW d \in Clients PROVE got'[d] = {r \in rows : r.seq <= cursor'[d]}
      OBVIOUS
    <3>1. CASE d = c
      BY <1>2, <1>3, <2>1, <3>1
    <3>2. CASE d # c
      BY <1>2, <1>3, <3>2
    <3> QED
      BY <3>1, <3>2
  <2>4. CursorComplete'
    BY <1>1, <2>3 DEF CursorComplete
  <2>5. /\ floor' \in [required : Levels, requested : Levels]
        /\ floor'.required = floor.required /\ floor.required <= floor'.required
        /\ job[h].client \in Clients
    BY <1>1, <1>2, HandlerFacts DEF c
  <2>6. UNCHANGED <<rows, nextSeq, usage, hint, audio, begun, changes>>
    BY <1>1
  <2> QED
    BY <1>1, <1>2, <2>2, <2>4, <2>5, <2>6, StampStep
<1>4. CASE UNCHANGED devices
  <2>1. /\ cursor' \in [Clients -> Nat] /\ got' \in [Clients -> SUBSET Rows]
        /\ \A d \in Clients : cursor'[d] < nextSeq
        /\ CursorComplete'
    BY <1>1, <1>2, <1>4 DEF CursorComplete, devices
  <2>2. /\ floor' \in [required : Levels, requested : Levels]
        /\ floor'.required = floor.required /\ floor.required <= floor'.required
    BY <1>1, <1>2, HandlerFacts
  <2>3. UNCHANGED <<rows, nextSeq, usage, hint, audio, begun, changes>>
    BY <1>1
  <2> QED
    BY <1>1, <1>2, <2>1, <2>2, <2>3, StampStep
<1> QED
  BY <1>1, <1>3, <1>4

(* Status changes and expiries: a device row that a raise has checked is   *)
(* locked, and losing a stamp blocks nothing.                              *)
LEMMA AroundKeeps ==
    ASSUME Inv, NEW c \in Clients, Around(c)
    PROVE  Inv'
<1>1. /\ UNCHANGED <<rows, nextSeq, floor, usage, hint, at, job, devices, audio, begun>>
      /\ changes' = changes + 1
      /\ \/ \E s \in {"active", "revoked"} : /\ \A h \in Handlers : ~LocksDevice(h, c)
                                             /\ dev' = [dev EXCEPT ![c].status = s]
         \/ dev' = [dev EXCEPT ![c].seen = FALSE]
  BY DEF Around, SetStatus, Expire
<1>2. dev \in [Clients -> DeviceRows]
  BY DEF Inv, TypeOK
<1>3. /\ dev' \in [Clients -> DeviceRows]
      /\ \A d \in Clients : dev'[d].level = dev[d].level /\ (dev'[d].seen => dev[d].seen)
      /\ \A h \in Handlers : LocksDevice(h, c) => dev'[c].status = dev[c].status
      /\ \A d \in Clients : d # c => dev'[d] = dev[d]
  <2>1. ASSUME NEW s \in {"active", "revoked"}, dev' = [dev EXCEPT ![c].status = s],
               \A h \in Handlers : ~LocksDevice(h, c)
        PROVE  <1>3!:
    <3>1. [dev[c] EXCEPT !.status = s] \in DeviceRows
      BY <1>2 DEF DeviceRows
    <3> QED
      BY <1>2, <2>1, <3>1 DEF DeviceRows
  <2>2. ASSUME dev' = [dev EXCEPT ![c].seen = FALSE]
        PROVE  <1>3!:
    <3>1. [dev[c] EXCEPT !.seen = FALSE] \in DeviceRows
      BY <1>2 DEF DeviceRows
    <3> QED
      BY <1>2, <2>2, <3>1 DEF DeviceRows
  <2> QED
    BY <1>1, <2>1, <2>2
<1>4. TypeOK'
  BY <1>1, <1>3 DEF Inv, TypeOK, devices
<1>5. Dense' /\ LogOK' /\ CursorComplete' /\ HintCommitted' /\ QuotaKept'
  BY <1>1 DEF Inv, Dense, LogOK, CursorComplete, HintCommitted, QuotaKept, devices, SamePair
<1>6. LocksHeld'
  BY <1>1 DEF Inv, LocksHeld, OwnsSeq, OwnsUsage, OwnsFloor, SharesFloor, LocksDevice
<1>7. ASSUME NEW g \in Handlers PROVE JobOK(at[g], job[g])'
  <2>1. JobOK(at[g], job[g]) /\ at'[g] = at[g] /\ job'[g] = job[g] /\ job[g] \in Jobs
    BY <1>1 DEF Inv, TypeOK
  <2>2. at[g] \in {"raise_check", "raise_commit"} =>
           dev'[job[g].client].status = "active"
    <3> SUFFICES ASSUME at[g] \in {"raise_check", "raise_commit"}
                 PROVE  dev'[job[g].client].status = "active"
      OBVIOUS
    <3>1. job[g].client \in Clients /\ dev[job[g].client].status = "active"
      BY <2>1 DEF JobOK
    <3>2. LocksDevice(g, job[g].client)
      BY DEF LocksDevice
    <3> QED
      BY <1>3, <3>1, <3>2
  <2>3. at[g] = "raise_commit" =>
           (job[g].free => \A d \in job[g].members :
               dev'[d].seen /\ dev'[d].level < job[g].target => d = job[g].client /\ job[g].stamp)
    <3>1. job[g].members \subseteq Clients
      BY <2>1 DEF Jobs
    <3> QED
      BY <1>3, <2>1, <3>1 DEF JobOK
  <2> QED
    BY <1>1, <2>1, <2>2, <2>3, JobFrame
<1> QED
  BY <1>4, <1>5, <1>6, <1>7 DEF Inv

-----------------------------------------------------------------------------
LEMMA InitInv == Init => Inv
<1> SUFFICES ASSUME Init PROVE Inv
  OBVIOUS
<1> USE DEF Init
<1>1. TypeOK
  <2>1. 0 \in Levels /\ "idle" \in Steps
    BY DEF Levels, Steps
  <2>2. dev \in [Clients -> DeviceRows]
    BY <2>1 DEF DeviceRows
  <2>3. floor \in [required : Levels, requested : Levels]
    BY <2>1
  <2>4. NoJob \in Jobs
    BY NewJobTypes
  <2>5. at \in [Handlers -> Steps] /\ job \in [Handlers -> Jobs]
    BY <2>1, <2>4
  <2> QED
    BY <2>2, <2>3, <2>5 DEF TypeOK
<1>2. Dense /\ CursorComplete /\ HintCommitted
  BY DEF Dense, CursorComplete, HintCommitted
<1>3. QuotaKept
  BY FS_EmptySet, RelayAssumption DEF QuotaKept
<1>4. LogOK
  BY FS_EmptySet DEF LogOK
<1>5. LocksHeld
  BY DEF LocksHeld, OwnsSeq, OwnsUsage, OwnsFloor, SharesFloor, LocksDevice
<1>6. \A h \in Handlers : JobOK(at[h], job[h])
  BY IdleAlone
<1> QED
  BY <1>1, <1>2, <1>3, <1>4, <1>5, <1>6 DEF Inv

LEMMA NextInv == Inv /\ [Next]_vars => Inv'
<1> SUFFICES ASSUME Inv, [Next]_vars PROVE Inv'
  OBVIOUS
<1>1. ASSUME NEW h \in Handlers, Arrive(h) PROVE Inv'
  BY <1>1, ArriveKeeps
<1>2. ASSUME NEW h \in Handlers, Push(h) PROVE Inv'
  BY <1>2, PushCallerKeeps, PushFloorKeeps, PushLockKeeps, PushWalkKeeps, RollbackKeeps,
     PushMeterKeeps, PushCommitKeeps, PushWakeKeeps DEF Push, PushRetried
<1>3. ASSUME NEW h \in Handlers, Pull(h) PROVE Inv'
  BY <1>3, PullFloorKeeps, PullStampKeeps, PullRefusedKeeps, PullReadKeeps, PullCommitKeeps DEF Pull
<1>4. ASSUME NEW h \in Handlers, Raise(h) PROVE Inv'
  BY <1>4, RaiseFloorKeeps, RaiseCallerKeeps, RaiseNoopKeeps, RaiseCheckKeeps, RaiseCommitKeeps
     DEF Raise
<1>5. ASSUME NEW h \in Handlers, Audio(h) PROVE Inv'
  BY <1>5, AudioMeterKeeps, AudioCommitKeeps DEF Audio
<1>6. ASSUME NEW h \in Handlers, Refuse(h) \/ Abort(h) PROVE Inv'
  BY <1>6, RollbackKeeps DEF Refuse, Abort
<1>7. ASSUME NEW c \in Clients, Around(c) PROVE Inv'
  BY <1>7, AroundKeeps
<1>8. CASE UNCHANGED vars
  <2>1. UNCHANGED <<rows, nextSeq, floor, dev, usage, hint, at, job, cursor, got, audio, begun, changes>>
    BY <1>8 DEF vars, tables, devices
  <2>2. TypeOK' /\ Dense' /\ LogOK' /\ CursorComplete' /\ HintCommitted' /\ QuotaKept'
    BY <2>1 DEF Inv, TypeOK, Dense, LogOK, CursorComplete, HintCommitted, QuotaKept, SamePair
  <2>3. LocksHeld'
    BY <2>1 DEF Inv, LocksHeld, OwnsSeq, OwnsUsage, OwnsFloor, SharesFloor, LocksDevice
  <2>4. ASSUME NEW g \in Handlers PROVE JobOK(at[g], job[g])'
    <3>1. JobOK(at[g], job[g]) /\ at'[g] = at[g] /\ job'[g] = job[g]
      BY <2>1 DEF Inv
    <3> QED
      BY <2>1, <3>1, JobFrame DEF JobOK
  <2> QED
    BY <2>2, <2>3, <2>4 DEF Inv
<1> QED
  BY <1>1, <1>2, <1>3, <1>4, <1>5, <1>6, <1>7, <1>8 DEF Next, Serve

(* The inductive invariant of the relay holds in every reachable state.    *)
THEOREM Invariance == Spec => []Inv
BY InitInv, NextInv, PTL DEF Spec

(* push.rs, pull.rs, choke.rs: whatever pushes, pulls and presigns overlap *)
(* or die at any statement, changeset_seq is dense and unique, a device    *)
(* has every changeset up to its watermark, a wake-up names a committed    *)
(* changeset, and the stored bytes are exactly the metered ones and within *)
(* the quota.                                                              *)
THEOREM LogCompleteHolds == Spec => []LogComplete
<1>1. Inv => LogComplete
  BY DEF Inv, LogComplete
<1> QED
  BY <1>1, Invariance, PTL

(* capability.rs: a page never holds a changeset its reader cannot handle, *)
(* and a raise of the floor commits for an active caller over members of   *)
(* which none reports less, although check and use are different           *)
(* statements.                                                             *)
THEOREM FloorSoundHolds == Spec => []FloorSound
<1>1. Inv => ReadersHandle
  <2> SUFFICES ASSUME Inv, NEW h \in Handlers, at[h] = "pull_commit", NEW r \in job[h].page
               PROVE  LevelOf[r.entry.ct] <= job[h].level
    BY DEF ReadersHandle
  <2>1. /\ JobOK(at[h], job[h]) /\ job[h] \in Jobs /\ floor.required \in Nat
        /\ job[h].level \in Nat
    BY HandlerFacts DEF Jobs
  <2>2. /\ PageOK(job[h]) /\ floor.required <= job[h].level
    BY <2>1 DEF JobOK, FloorSteps
  <2>3. r \in rows
    BY <2>2 DEF PageOK
  <2>4. LevelOf[r.entry.ct] <= floor.required /\ LevelOf[r.entry.ct] \in Nat
    BY <2>3, RelayAssumption DEF Inv, LogOK, TypeOK, Rows, Entries
  <2> QED
    BY <2>1, <2>2, <2>4
<1>2. Inv => RaiseSound
  <2> SUFFICES ASSUME Inv, NEW h \in Handlers, at[h] = "raise_commit"
               PROVE  /\ dev[job[h].client].status = "active"
                      /\ job[h].free => \A c \in job[h].members :
                            dev[c].seen /\ dev[c].level < job[h].target =>
                                c = job[h].client /\ job[h].stamp
    BY DEF RaiseSound
  <2> QED
    BY HandlerFacts DEF JobOK
<1>3. Inv => FloorSound
  BY <1>1, <1>2 DEF FloorSound
<1> QED
  BY <1>3, Invariance, PTL

(* With any number of requests no lock order is ever reversed: a handler     *)
(* that is past its last lock waits for nobody; with none of those, no usage *)
(* row is owned, then no sequence row, no device row, and at last no floor.  *)
THEOREM NobodyCorneredHolds == Spec => []NobodyCornered
<1>1. Inv => NobodyCornered
  <2> SUFFICES ASSUME Inv, NEW f \in Handlers, at[f] # "idle" PROVE \E h \in Handlers : MayGoOn(h)
    BY DEF NobodyCornered
  <2> DEFINE Some(S) == \E h \in Handlers : at[h] \in S
             Past    == {"push_caller", "push_walk", "push_commit", "push_wake", "pull_read", "pull_commit",
                         "raise_check", "raise_commit", "audio_commit"}
             Meters  == {"push_meter", "audio_meter"}
             Stamps  == {"pull_stamp", "raise_caller"}
             Floors  == {"push_floor", "pull_floor", "raise_floor"}
  <2>1. \A h \in Handlers : at[h] \in Steps
    BY DEF Inv, TypeOK
  <2>2. CASE Some(Past)
    <3>1. PICK h \in Handlers : at[h] \in Past
      BY <2>2
    <3> QED
      BY <3>1 DEF MayGoOn, WaitsFor
  <2>3. CASE ~Some(Past) /\ Some(Meters)
    <3>1. PICK h \in Handlers : at[h] \in Meters
      BY <2>3
    <3>2. \A g \in Handlers : ~OwnsUsage(g)
      BY <2>3 DEF OwnsUsage
    <3> QED
      BY <3>1, <3>2 DEF MayGoOn, WaitsFor, Others
  <2>4. CASE ~Some(Past) /\ ~Some(Meters) /\ Some({"push_seq"})
    <3>1. PICK h \in Handlers : at[h] = "push_seq"
      BY <2>4
    <3>2. \A g \in Handlers : ~OwnsSeq(g)
      BY <2>4 DEF OwnsSeq
    <3> QED
      BY <3>1, <3>2 DEF MayGoOn, WaitsFor, Others
  <2>5. CASE ~Some(Past) /\ Some(Stamps)
    <3>1. PICK h \in Handlers : at[h] \in Stamps
      BY <2>5
    <3>2. \A g \in Handlers : \A c : ~LocksDevice(g, c)
      BY <2>5 DEF LocksDevice
    <3> QED
      BY <3>1, <3>2 DEF MayGoOn, WaitsFor, Others
  <2>6. CASE ~Some(Past) /\ ~Some(Meters) /\ ~Some({"push_seq"}) /\ ~Some(Stamps)
    <3>1. at[f] \in Floors
      BY <2>1, <2>6 DEF Steps
    <3>2. \A g \in Handlers : ~OwnsFloor(g) /\ ~SharesFloor(g)
      BY <2>6 DEF OwnsFloor, SharesFloor
    <3> QED
      BY <3>1, <3>2 DEF MayGoOn, WaitsFor, Others
  <2> QED
    BY <2>2, <2>3, <2>4, <2>5, <2>6
<1> QED
  BY <1>1, Invariance, PTL

-----------------------------------------------------------------------------
(* A dense set of rows, by number, is an abstract log.                     *)
LogOf(R, n) == [i \in 1 .. (n - 1) |-> (CHOOSE r \in R : r.seq = i).entry]

LEMMA LogOfRows ==
    ASSUME NEW R \in SUBSET Rows, NEW n \in Nat \ {0},
           {r.seq : r \in R} = 1 .. (n - 1),
           \A r, q \in R : r.seq = q.seq => r = q
    PROVE  /\ LogOf(R, n) \in Seq(Entries)
           /\ Len(LogOf(R, n)) = n - 1
           /\ DOMAIN LogOf(R, n) = 1 .. (n - 1)
           /\ \A r \in R : r.seq \in 1 .. (n - 1) /\ LogOf(R, n)[r.seq] = r.entry
           /\ \A i \in 1 .. (n - 1) : \E r \in R : r.seq = i /\ LogOf(R, n)[i] = r.entry
<1> DEFINE l == LogOf(R, n)
<1>1. \A i \in 1 .. (n - 1) : \E r \in R : r.seq = i
  OBVIOUS
<1>2. \A r \in R : r.seq \in 1 .. (n - 1)
  OBVIOUS
<1>3. ASSUME NEW r \in R PROVE l[r.seq] = r.entry
  <2>1. (CHOOSE q \in R : q.seq = r.seq) = r
    OBVIOUS
  <2> QED
    BY <1>2, <2>1 DEF LogOf
<1>4. \A i \in 1 .. (n - 1) : \E r \in R : r.seq = i /\ l[i] = r.entry
  BY <1>1, <1>3
<1>5. \A r \in R : r.entry \in Entries
  BY DEF Rows
<1>6. l \in [1 .. (n - 1) -> Entries] /\ DOMAIN l = 1 .. (n - 1)
  BY <1>4, <1>5 DEF LogOf
<1>7. n - 1 \in Nat
  OBVIOUS
<1> HIDE DEF l
<1>8. l \in Seq(Entries) /\ Len(l) = n - 1
  BY <1>6, <1>7
<1> QED
  BY <1>2, <1>3, <1>4, <1>6, <1>8 DEF l

(* A step that leaves the rows alone leaves the abstract log alone.        *)
LEMMA LogUnchanged ==
    ASSUME UNCHANGED <<rows, nextSeq>>
    PROVE  UNCHANGED logOfRows
BY DEF logOfRows

(* The commit of a push is one atomic append.                              *)
LEMMA PushAppends ==
    ASSUME Inv, NEW h \in Handlers, PushCommit(h)
    PROVE  Log!Next
<1> DEFINE F == job[h].fresh
           n == Cardinality(F)
           l == logOfRows
<1>1. Inv'
  BY PushCommitKeeps
<1>2. /\ rows' = rows \cup F /\ nextSeq' = nextSeq + n /\ n \in Nat /\ nextSeq \in Nat \ {0}
      /\ {r.seq : r \in F} = nextSeq .. (nextSeq + n - 1)
      /\ \A r \in F : r.entry \in job[h].batch /\ r.entry \notin StoredEntries
      /\ ~Clash(job[h].batch)
      /\ \A r \in F : nextSeq <= r.seq
      /\ F \in SUBSET Rows
  BY PushGrows, HandlerFacts DEF PushCommit
<1>3. /\ {r.entry : r \in F} = job[h].batch \ StoredEntries
      /\ \A r, q \in F : r.entry = q.entry => r = q
  <2>1. at[h] = "push_commit"
    BY DEF PushCommit
  <2> QED
    BY <2>1, HandlerFacts DEF JobOK, Numbered
<1>4. /\ l \in Seq(Log!Entries) /\ Len(l) = nextSeq - 1 /\ DOMAIN l = 1 .. (nextSeq - 1)
      /\ \A r \in rows : l[r.seq] = r.entry
      /\ \A i \in 1 .. (nextSeq - 1) : \E r \in rows : r.seq = i /\ l[i] = r.entry
      /\ Log!Stored = StoredEntries
  <2>1. rows \in SUBSET Rows /\ Dense /\ logOfRows = LogOf(rows, nextSeq)
    BY DEF Inv, TypeOK, logOfRows, LogOf
  <2>2. /\ l \in Seq(Entries) /\ Len(l) = nextSeq - 1 /\ DOMAIN l = 1 .. (nextSeq - 1)
        /\ \A r \in rows : r.seq \in 1 .. (nextSeq - 1) /\ l[r.seq] = r.entry
        /\ \A i \in 1 .. (nextSeq - 1) : \E r \in rows : r.seq = i /\ l[i] = r.entry
    <3>1. /\ {r.seq : r \in rows} = 1 .. (nextSeq - 1)
          /\ \A r, q \in rows : r.seq = q.seq => r = q
      BY <2>1 DEF Dense
    <3>2. rows \in SUBSET Rows /\ nextSeq \in Nat \ {0}
      BY <1>2, <2>1
    <3>3. /\ LogOf(rows, nextSeq) \in Seq(Entries) /\ Len(LogOf(rows, nextSeq)) = nextSeq - 1
          /\ DOMAIN LogOf(rows, nextSeq) = 1 .. (nextSeq - 1)
          /\ \A r \in rows : /\ r.seq \in 1 .. (nextSeq - 1)
                             /\ LogOf(rows, nextSeq)[r.seq] = r.entry
          /\ \A i \in 1 .. (nextSeq - 1) :
                \E r \in rows : r.seq = i /\ LogOf(rows, nextSeq)[i] = r.entry
      BY <3>1, <3>2, LogOfRows, Zenon
    <3> QED
      BY <2>1, <3>3
  <2>3. Log!Stored = {l[i] : i \in DOMAIN l}
    BY DEF Log!Stored
  <2> HIDE DEF l
  <2>4. {l[i] : i \in DOMAIN l} = StoredEntries
    BY <2>2 DEF StoredEntries
  <2> QED
    BY <2>2, <2>3, <2>4 DEF Entries, Log!Entries
<1>5. /\ l' \in Seq(Log!Entries) /\ Len(l') = nextSeq' - 1
      /\ \A r \in rows' : l'[r.seq] = r.entry
  <2>1. /\ rows' \in SUBSET Rows /\ nextSeq' \in Nat \ {0}
        /\ {r.seq : r \in rows'} = 1 .. (nextSeq' - 1)
        /\ \A r, q \in rows' : r.seq = q.seq => r = q
    BY <1>1 DEF Inv, TypeOK, Dense
  <2>2. l' = LogOf(rows', nextSeq')
    BY DEF logOfRows, LogOf
  <2> HIDE DEF l
  <2> QED
    BY <2>1, <2>2, LogOfRows DEF Entries, Log!Entries
<1> HIDE DEF F, n, l
<1>6. Len(l) <= Len(l') /\ Len(l') = nextSeq + n - 1
  BY <1>2, <1>4, <1>5
<1>7. \A i \in DOMAIN l : l'[i] = l[i]
  BY <1>2, <1>4, <1>5
<1>8. \A i \in nextSeq .. (nextSeq + n - 1) : \E r \in F : r.seq = i /\ l'[i] = r.entry
  BY <1>2, <1>5
<1>9. (Len(l) + 1) .. Len(l') = nextSeq .. (nextSeq + n - 1)
  BY <1>2, <1>4, <1>6
<1>10. {l'[i] : i \in (Len(l) + 1) .. Len(l')} = {r.entry : r \in F}
  <2>1. \A r \in F : r.seq \in nextSeq .. (nextSeq + n - 1) /\ l'[r.seq] = r.entry
    BY <1>2, <1>5
  <2>2. \A x : (\E i \in nextSeq .. (nextSeq + n - 1) : x = l'[i]) <=> (\E r \in F : x = r.entry)
    BY <1>8, <2>1
  <2> QED
    BY <1>9, <2>2
<1>11. Log!Added = {r.entry : r \in F}
  BY <1>10 DEF Log!Added, l
<1>12. ASSUME NEW i \in (Len(l) + 1) .. Len(l'), NEW j \in (Len(l) + 1) .. Len(l'), l'[i] = l'[j]
       PROVE  i = j
  <2>1. PICK r \in F : r.seq = i /\ l'[i] = r.entry
    BY <1>8, <1>9
  <2>2. PICK q \in F : q.seq = j /\ l'[j] = q.entry
    BY <1>8, <1>9
  <2> QED
    BY <1>3, <1>12, <2>1, <2>2
<1>13. Log!Coherent(Log!Added) /\ ~Log!Conflict(Log!Added)
  <2>1. \A r \in F : r.entry \in Entries
    BY <1>2 DEF Rows
  <2>2. \A d, e \in Entries : d.client = e.client /\ d.cseq = e.cseq /\ d.ct = e.ct => d = e
    BY DEF Entries
  <2>3. \A r \in F : \A e \in StoredEntries \cup job[h].batch :
           r.entry.client = e.client /\ r.entry.cseq = e.cseq => r.entry.ct = e.ct
    BY <1>2 DEF Clash, SamePair
  <2>4. Log!Coherent(Log!Added)
    BY <1>2, <1>11, <2>1, <2>2, <2>3 DEF Log!Coherent, Log!SamePair
  <2>5. ~Log!Conflict(Log!Added)
    BY <1>4, <1>11, <2>3 DEF Log!Conflict, Log!SamePair
  <2> QED
    BY <2>4, <2>5
<1>14. Log!Fresh(Log!Added) = Log!Added
  BY <1>2, <1>4, <1>11 DEF Log!Fresh
<1> QED
  BY <1>5, <1>6, <1>7, <1>12, <1>13, <1>14 DEF Log!Next, Log!Admit, l

(* push.rs: the handlers, interleaved and aborted at any statement,        *)
(* implement the atomic append-only log that the sync engine is built on.  *)
THEOREM Refinement == Spec => LogSpec
<1>1. Init => Log!Init
  <2> SUFFICES ASSUME Init PROVE logOfRows = << >>
    BY DEF Log!Init
  <2>1. 1 .. (nextSeq - 1) = {}
    BY DEF Init
  <2> QED
    BY <2>1 DEF logOfRows
<1>2. Inv /\ [Next]_vars => [Log!Next]_logOfRows
  <2> SUFFICES ASSUME Inv, [Next]_vars PROVE Log!Next \/ UNCHANGED logOfRows
    OBVIOUS
  <2>1. ASSUME NEW h \in Handlers, PushCommit(h) PROVE Log!Next
    BY <2>1, PushAppends
  <2>2. ASSUME ~\E h \in Handlers : PushCommit(h) PROVE UNCHANGED <<rows, nextSeq>>
    <3>1. ASSUME NEW h \in Handlers, Arrive(h) PROVE UNCHANGED <<rows, nextSeq>>
      BY <3>1 DEF Arrive, ArriveFrom, BeginPush, BeginPull, BeginRaise, BeginAudio, Begin, tables
    <3>2. ASSUME NEW h \in Handlers, Push(h) PROVE UNCHANGED <<rows, nextSeq>>
      <4>1. ~PushCommit(h)
        BY <2>2
      <4> QED
        BY <3>2, <4>1 DEF Push, PushCaller, PushFloor, PushLock, PushWalk, PushRetried, PushMeter,
           PushWake, LockFloorShare, Meter, Only, Rollback, tables
    <3>3. ASSUME NEW h \in Handlers, Pull(h) PROVE UNCHANGED <<rows, nextSeq>>
      BY <3>3 DEF Pull, PullFloor, PullStamp, PullRefused, PullRead, PullCommit, LockFloorShare,
         Only, tables
    <3>4. ASSUME NEW h \in Handlers, Raise(h) PROVE UNCHANGED <<rows, nextSeq>>
      BY <3>4 DEF Raise, RaiseFloor, RaiseCaller, RaiseNoop, RaiseCheck, RaiseCommit,
         LockFloorUpdate, Only, tables
    <3>5. ASSUME NEW h \in Handlers, Audio(h) \/ Refuse(h) \/ Abort(h)
          PROVE  UNCHANGED <<rows, nextSeq>>
      BY <3>5 DEF Audio, AudioMeter, AudioCommit, Refuse, Abort, Meter, Only, Rollback, tables
    <3>6. ASSUME NEW c \in Clients, Around(c) PROVE UNCHANGED <<rows, nextSeq>>
      BY <3>6 DEF Around, SetStatus, Expire
    <3>7. CASE UNCHANGED vars
      BY <3>7 DEF vars, tables
    <3> QED
      BY <3>1, <3>2, <3>3, <3>4, <3>5, <3>6, <3>7 DEF Next, Serve
  <2> QED
    BY <2>1, <2>2, LogUnchanged
<1> QED
  BY <1>1, <1>2, Invariance, PTL DEF Spec, LogSpec, Log!Spec
=============================================================================
