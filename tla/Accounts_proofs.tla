--------------------------- MODULE Accounts_proofs ---------------------------
(* Theorems about what an account's devices keep: the session at rest, the   *)
(* roster each device trusts, the snapshots the relay keeps for a join, and  *)
(* the lanes that fetch and upload audio.                                    *)
EXTENDS MC_Accounts, SequenceTheorems, FiniteSetTheorems, WellFoundedInduction, TLAPS

(* The session at rest.  A writer that is past the lock holds it, so what it *)
(* read of the file and the entry is still so when it writes.                *)
Under == {"key", "load", "seal", "entry", "remove", "forget"}
StorePlaces == Under \cup {"idle", "lock", "publish", "adopt", "mint"}
Sessions == [v : Nat, id : Nat, epoch : Epochs, key : Nat]
Jobs == [at : StorePlaces, kind : {"none", "store", "update", "clear", "identity"}, s : Sessions]

StoreFields ==
  /\ sealed \in Sessions /\ entry \in Sessions /\ identity \in Nat
  /\ cached \in [loaded : BOOLEAN, v : Nat, id : Nat]
  /\ storeLock \in Writers \cup {NoOne} /\ job \in [Writers -> Jobs]
  /\ minted \in [key : Nat, id : Nat, v : Nat]
  /\ kept \in Nat /\ out \in BOOLEAN
  /\ storeUsed \in [write : Nat, fault : Nat, death : Nat]

Counted ==
  /\ sealed.key <= minted.key /\ entry.key <= minted.key
  /\ sealed.v <= minted.v /\ kept <= minted.v
  /\ cached.v <= minted.v /\ cached.id <= minted.id /\ identity <= minted.id

AtRestOK ==
  /\ entry # Nothing => entry.key >= 1
  /\ kept # 0 => /\ entry # Nothing /\ sealed # Nothing /\ sealed.v >= kept
                 /\ sealed.key = entry.key /\ sealed.epoch = entry.epoch
  /\ out => sealed = Nothing \/ entry = Nothing \/ storeUsed.fault >= 2

JobOK(w) ==
  /\ job[w].at \in Under <=> storeLock = w
  /\ job[w].s.key <= minted.key /\ job[w].s.v <= minted.v
  /\ job[w].at \in Under => job[w].s.v >= kept /\ job[w].s.v >= 1
  /\ job[w].at \in {"seal", "entry"} =>
       job[w].s.key >= 1 /\ (entry # Nothing => job[w].s.key = entry.key)
  /\ job[w].at = "entry" => sealed = job[w].s /\ ~out
  /\ job[w].at = "forget" => kept = 0 /\ (sealed = Nothing \/ storeUsed.fault >= 1)

StoreInv == StoreFields /\ Counted /\ AtRestOK /\ \A w \in Writers : JobOK(w)

LEMMA NothingType == Nothing \in Sessions /\ Nothing.v = 0 /\ Nothing.id = 0 /\ Nothing.key = 0 /\ Nothing.epoch = 0
BY StoreAssumption DEF Nothing, Sessions

LEMMA NoJobType == NoJob \in Jobs /\ NoJob.at = "idle" /\ NoJob.s = Nothing
BY NothingType DEF NoJob, Jobs, StorePlaces

LEMMA LockedOut ==
    ASSUME StoreInv, NEW w \in Writers, job[w].at \in Under
    PROVE  storeLock = w /\ w # NoOne /\ \A x \in Writers \ {w} : job[x].at \notin Under
BY StoreAssumption DEF StoreInv, JobOK, NoOne

(* A step of the writer that holds the lock leaves the others waiting. *)
LEMMA OthersWait ==
    ASSUME StoreInv, NEW w \in Writers, job[w].at \in Under, storeLock' \in {w, NoOne},
           minted.key <= minted'.key, minted.v <= minted'.v, minted' \in [key : Nat, id : Nat, v : Nat],
           NEW x \in Writers, x # w, job'[x] = job[x]
    PROVE  JobOK(x)'
<1>1. job[x].at \notin Under /\ storeLock' # x
  BY LockedOut, StoreAssumption DEF NoOne
<1>2. job[x].s.key <= minted.key /\ job[x].s.v <= minted.v /\ job[x].s.key \in Nat /\ job[x].s.v \in Nat
  BY DEF StoreInv, JobOK, StoreFields, Jobs, Sessions
<1>3. minted.key \in Nat /\ minted.v \in Nat /\ minted'.key \in Nat /\ minted'.v \in Nat
  BY DEF StoreInv, StoreFields
<1>4. job[x].s.key <= minted'.key /\ job[x].s.v <= minted'.v
  BY <1>2, <1>3
<1> QED
  BY <1>1, <1>4 DEF JobOK, Under

(* One that does not hold it writes nothing that is at rest. *)
LEMMA OthersGoOn ==
    ASSUME StoreInv, NEW x \in Writers, job'[x] = job[x], storeLock' = storeLock,
           minted'.key = minted.key, minted'.v = minted.v,
           UNCHANGED <<sealed, entry, kept, out>>, storeUsed.fault <= storeUsed'.fault,
           storeUsed'.fault \in Nat
    PROVE  JobOK(x)'
<1>1. JobOK(x) /\ storeUsed.fault \in Nat
  BY DEF StoreInv, StoreFields
<1>2. storeUsed.fault >= 1 => storeUsed'.fault >= 1
  BY <1>1
<1> QED
  BY <1>1, <1>2 DEF JobOK

LEMMA FaultCount ==
    ASSUME StoreFields, Works \/ Fails
    PROVE  /\ storeUsed' \in [write : Nat, fault : Nat, death : Nat] /\ storeUsed.fault <= storeUsed'.fault
           /\ Fails => storeUsed'.fault = storeUsed.fault + 1
           /\ storeUsed.fault \in Nat /\ storeUsed'.fault \in Nat
<1>1. storeUsed.fault \in Nat
  BY DEF StoreFields
<1> QED
  BY <1>1 DEF StoreFields, Works, Fails

LEMMA OpensType ==
    ASSUME StoreInv
    PROVE  Opens \in Nat /\ Opens <= minted.v
BY DEF StoreInv, StoreFields, Counted, Opens, Sessions

LEMMA WriteKeeps ==
    ASSUME StoreInv, NEW w \in Writers, Write(w)
    PROVE  StoreInv'
<1>1. PICK kind \in {"store", "update", "clear"}, id \in Nat, e \in Epochs : Begins(w, kind, id, e)
  BY StoreAssumption DEF Write, StoreInv, StoreFields, Sessions
<1> DEFINE t == [Nothing EXCEPT !.id = id, !.epoch = e]
           j == [at |-> "lock", kind |-> kind, s |-> t]
<1>2. t \in Sessions /\ t.key = 0 /\ t.v = 0
  BY NothingType DEF Sessions
<1>3. job' = [job EXCEPT ![w] = j]
  BY <1>1 DEF Begins
<1> HIDE DEF t
<1>4. j \in Jobs /\ j.at = "lock" /\ j.s = t
  BY <1>2 DEF Jobs, StorePlaces
<1> HIDE DEF j
<1>5. job' \in [Writers -> Jobs] /\ job'[w] = j /\ \A x \in Writers \ {w} : job'[x] = job[x]
  BY <1>3, <1>4 DEF StoreInv, StoreFields
<1>6. storeUsed' \in [write : Nat, fault : Nat, death : Nat] /\ storeUsed'.fault = storeUsed.fault
  BY DEF Write, StoreInv, StoreFields
<1>7. UNCHANGED <<atRest, cached, storeLock, minted, kept, out>>
  BY DEF Write
<1>8. StoreFields' /\ Counted' /\ AtRestOK'
  BY <1>5, <1>6, <1>7 DEF StoreInv, StoreFields, Counted, AtRestOK, atRest
<1>9. JobOK(w)'
  <2>1. storeLock # w
    BY DEF StoreInv, JobOK, Write, Under
  <2>2. minted.key \in Nat /\ minted.v \in Nat
    BY DEF StoreInv, StoreFields
  <2> QED
    BY <1>2, <1>4, <1>5, <1>7, <2>1, <2>2 DEF JobOK, Under
<1>10. ASSUME NEW x \in Writers, x # w PROVE JobOK(x)'
  <2>1. storeUsed.fault \in Nat
    BY DEF StoreInv, StoreFields
  <2> QED
    BY <1>5, <1>6, <1>7, <1>10, <2>1, OthersGoOn DEF atRest
<1> QED
  BY <1>8, <1>9, <1>10 DEF StoreInv

LEMMA LockKeeps ==
    ASSUME StoreInv, NEW w \in Writers, Lock(w)
    PROVE  StoreInv'
<1> DEFINE a == CASE job[w].kind = "store" -> "key" [] job[w].kind = "update" -> "load" [] OTHER -> "remove"
           t == [job[w].s EXCEPT !.v = minted.v + 1]
           j == [[job[w] EXCEPT !.at = a] EXCEPT !.s = t]
<1>1. a \in {"key", "load", "remove"}
  OBVIOUS
<1> HIDE DEF a
<1>2. /\ job[w] \in Jobs /\ job[w].s \in Sessions /\ minted.v \in Nat /\ minted.key \in Nat /\ kept \in Nat
      /\ kept <= minted.v /\ job[w].s.key <= minted.key
  BY DEF StoreInv, StoreFields, Counted, JobOK, Jobs
<1>3. t \in Sessions /\ t.v = minted.v + 1 /\ t.key = job[w].s.key
  BY <1>2 DEF Sessions
<1>4. job' = [job EXCEPT ![w] = j]
  <2>1. job' = [job EXCEPT ![w].at = a, ![w].s.v = minted.v + 1]
    BY DEF Lock, Entered, a
  <2>2. job \in [Writers -> Jobs]
    BY DEF StoreInv, StoreFields
  <2>3. job' = [job EXCEPT ![w] = job'[w]]
    BY <2>1, <2>2
  <2>4. job'[w] = j
    BY <2>1, <2>2
  <2> QED
    BY <2>3, <2>4
<1> HIDE DEF t
<1>5. j \in Jobs /\ j.at = a /\ j.s = t
  BY <1>1, <1>2, <1>3 DEF Jobs, StorePlaces, Under
<1> HIDE DEF j
<1>6. job' \in [Writers -> Jobs] /\ job'[w] = j /\ \A x \in Writers \ {w} : job'[x] = job[x]
  BY <1>4, <1>5 DEF StoreInv, StoreFields
<1>7. /\ UNCHANGED <<atRest, cached, kept, out, storeUsed>> /\ storeLock' = w /\ storeLock = NoOne
      /\ minted' = [minted EXCEPT !.v = minted.v + 1]
  BY DEF Lock, Entered
<1>8. minted' \in [key : Nat, id : Nat, v : Nat] /\ minted'.v = minted.v + 1 /\ minted'.key = minted.key /\ minted'.id = minted.id
  BY <1>7 DEF StoreInv, StoreFields
<1>9. StoreFields' /\ AtRestOK'
  BY <1>6, <1>7, <1>8 DEF StoreInv, StoreFields, AtRestOK, atRest
<1>10. Counted'
  BY <1>2, <1>7, <1>8 DEF StoreInv, StoreFields, Counted, atRest, Sessions
<1>11. JobOK(w)'
  <2>1. t.key <= minted'.key /\ t.v <= minted'.v /\ t.v >= kept /\ t.v >= 1
    BY <1>2, <1>3, <1>8
  <2> QED
    BY <1>1, <1>5, <1>6, <1>7, <2>1 DEF JobOK, Under
<1>12. ASSUME NEW x \in Writers, x # w PROVE JobOK(x)'
  <2>1. JobOK(x) /\ x # NoOne
    BY StoreAssumption DEF StoreInv, NoOne
  <2>2. job[x].at \notin Under /\ job'[x] = job[x] /\ storeLock' # x
    BY <1>6, <1>7, <1>12, <2>1 DEF JobOK
  <2>3. job[x].s.v \in Nat /\ job[x].s.v <= minted.v /\ job[x].s.key <= minted.key
    BY <2>1 DEF JobOK, StoreInv, StoreFields, Jobs, Sessions
  <2>4. job[x].s.v <= minted'.v /\ job[x].s.key <= minted'.key
    BY <1>2, <1>8, <2>3
  <2> QED
    BY <2>2, <2>4 DEF JobOK, Under
<1> QED
  BY <1>9, <1>10, <1>11, <1>12 DEF StoreInv

(* A writer gives up, with or without the lock. *)
LEMMA GivesUp ==
    ASSUME StoreInv, NEW w \in Writers, job[w].at \in Under, Done(w), Unlocks(w),
           UNCHANGED <<atRest, cached, minted, kept, out>>, Works \/ Fails
    PROVE  StoreInv'
<1>1. job' \in [Writers -> Jobs] /\ job'[w] = NoJob /\ \A x \in Writers \ {w} : job'[x] = job[x]
  BY NoJobType DEF Done, StoreInv, StoreFields
<1>2. storeLock' = NoOne /\ NoOne # w
  BY LockedOut DEF Unlocks
<1>3. StoreFields' /\ Counted'
  BY <1>1, <1>2, FaultCount DEF StoreInv, StoreFields, Counted, atRest
<1>4. AtRestOK'
  <2>1. storeUsed.fault >= 2 => storeUsed'.fault >= 2
    BY FaultCount DEF StoreInv
  <2> QED
    BY <2>1 DEF StoreInv, AtRestOK, atRest
<1>5. JobOK(w)'
  <2>1. 0 <= minted.key /\ 0 <= minted.v
    BY DEF StoreInv, StoreFields
  <2> QED
    BY <1>1, <1>2, <2>1, NoJobType, NothingType DEF JobOK, Under
<1>6. ASSUME NEW x \in Writers, x # w PROVE JobOK(x)'
  <2>1. minted' \in [key : Nat, id : Nat, v : Nat] /\ minted' = minted /\ minted.key <= minted'.key /\ minted.v <= minted'.v
    BY DEF StoreInv, StoreFields
  <2> QED
    BY <1>1, <1>2, <1>6, <2>1, OthersWait
<1> QED
  BY <1>3, <1>4, <1>5, <1>6 DEF StoreInv

(* A writer that takes the next place under the lock and writes nothing. *)
LEMMA GoesOn ==
    ASSUME StoreInv, NEW w \in Writers, job[w].at \in Under, NEW j \in Jobs, job' = [job EXCEPT ![w] = j],
           j.at \in {"key", "seal"}, j.s.v = job[w].s.v, j.s.key <= minted'.key,
           j.at = "seal" => j.s.key >= 1 /\ (entry # Nothing => j.s.key = entry.key),
           minted' \in [key : Nat, id : Nat, v : Nat], minted'.v = minted.v, minted'.id = minted.id,
           minted.key <= minted'.key,
           UNCHANGED <<atRest, cached, storeLock, kept, out, storeUsed>>
    PROVE  StoreInv'
<1>1. job' \in [Writers -> Jobs] /\ job'[w] = j /\ \A x \in Writers \ {w} : job'[x] = job[x]
  BY DEF StoreInv, StoreFields
<1>2. StoreFields' /\ AtRestOK'
  BY <1>1 DEF StoreInv, StoreFields, AtRestOK, atRest
<1>3. Counted'
  BY DEF StoreInv, StoreFields, Counted, atRest, Sessions
<1>4. JobOK(w)'
  <2>1. JobOK(w) /\ storeLock' = w /\ minted'.v = minted.v
    BY LockedOut DEF StoreInv
  <2> QED
    BY <1>1, <2>1 DEF JobOK, Under, atRest
<1>5. ASSUME NEW x \in Writers, x # w PROVE JobOK(x)'
  <2>1. storeLock' = w /\ minted.v <= minted'.v
    BY LockedOut DEF StoreInv, StoreFields
  <2> QED
    BY <1>1, <1>5, <2>1, OthersWait
<1> QED
  BY <1>2, <1>3, <1>4, <1>5 DEF StoreInv

LEMMA LoadKeeps ==
    ASSUME StoreInv, NEW w \in Writers, LoadForUpdate(w)
    PROVE  StoreInv'
<1>1. job[w].at \in Under
  BY DEF LoadForUpdate, Under
<1>2. CASE Done(w) /\ Unlocks(w) /\ (Works \/ Fails)
  BY <1>1, <1>2, GivesUp DEF LoadForUpdate
<1>3. CASE /\ Works /\ UNCHANGED storeLock
           /\ job' = [job EXCEPT ![w].at = "key", ![w].s.epoch = sealed.epoch, ![w].s.id = sealed.id]
  <2> DEFINE t == [[job[w].s EXCEPT !.epoch = sealed.epoch] EXCEPT !.id = sealed.id]
             j == [[job[w] EXCEPT !.at = "key"] EXCEPT !.s = t]
  <2>1. job \in [Writers -> Jobs] /\ job[w] \in Jobs /\ job[w].s \in Sessions /\ sealed \in Sessions
    BY DEF StoreInv, StoreFields, Jobs
  <2>2. t \in Sessions /\ t.v = job[w].s.v /\ t.key = job[w].s.key
    BY <2>1 DEF Sessions
  <2>3. job' = [job EXCEPT ![w] = job'[w]] /\ job'[w] = j
    <3>1. job' = [job EXCEPT ![w] = job'[w]]
      BY <1>3, <2>1
    <3>2. job'[w] = j
      BY <1>3, <2>1
    <3> QED
      BY <3>1, <3>2
  <2> HIDE DEF t
  <2>4. j \in Jobs /\ j.at = "key" /\ j.s = t
    BY <2>1, <2>2 DEF Jobs, StorePlaces, Under
  <2> HIDE DEF j
  <2>5. j.s.key <= minted.key /\ minted.key \in Nat /\ minted \in [key : Nat, id : Nat, v : Nat]
    BY <2>2, <2>4 DEF StoreInv, JobOK, StoreFields
  <2>6. UNCHANGED <<atRest, cached, storeLock, minted, kept, out, storeUsed>>
    BY <1>3 DEF LoadForUpdate, Works
  <2>7. minted.key <= minted'.key /\ j.s.key <= minted'.key /\ minted'.v = minted.v /\ minted'.id = minted.id
    BY <2>5, <2>6
  <2> QED
    BY <1>1, <2>2, <2>3, <2>4, <2>5, <2>6, <2>7, GoesOn
<1> QED
  BY <1>2, <1>3 DEF LoadForUpdate

LEMMA TakeKeyKeeps ==
    ASSUME StoreInv, NEW w \in Writers, TakeKey(w)
    PROVE  StoreInv'
<1>1. job[w].at \in Under
  BY DEF TakeKey, Under
<1>2. CASE Fails /\ Done(w) /\ Unlocks(w) /\ UNCHANGED minted
  BY <1>1, <1>2, GivesUp DEF TakeKey
<1>3. ASSUME NEW k \in Nat, k >= 1, entry # Nothing => k = entry.key, k <= minted'.key,
             minted' \in [key : Nat, id : Nat, v : Nat], minted'.v = minted.v, minted'.id = minted.id,
             minted.key <= minted'.key, Works, UNCHANGED storeLock,
             job' = [job EXCEPT ![w].at = "seal", ![w].s.key = k]
      PROVE  StoreInv'
  <2> DEFINE t == [job[w].s EXCEPT !.key = k]
             j == [[job[w] EXCEPT !.at = "seal"] EXCEPT !.s = t]
  <2>1. job \in [Writers -> Jobs] /\ job[w] \in Jobs /\ job[w].s \in Sessions
    BY DEF StoreInv, StoreFields, Jobs
  <2>2. t \in Sessions /\ t.v = job[w].s.v /\ t.key = k
    BY <2>1 DEF Sessions
  <2>3. job' = [job EXCEPT ![w] = job'[w]] /\ job'[w] = j
    <3>1. job' = [job EXCEPT ![w] = job'[w]]
      BY <1>3, <2>1
    <3>2. job'[w] = j
      BY <1>3, <2>1
    <3> QED
      BY <3>1, <3>2
  <2> HIDE DEF t
  <2>4. j \in Jobs /\ j.at = "seal" /\ j.s = t
    BY <2>1, <2>2 DEF Jobs, StorePlaces, Under
  <2> HIDE DEF j
  <2>6. UNCHANGED <<atRest, cached, storeLock, kept, out, storeUsed>>
    BY <1>3 DEF TakeKey, Works
  <2>7. /\ job' = [job EXCEPT ![w] = j] /\ j.at \in {"key", "seal"} /\ j.s.v = job[w].s.v /\ j.s.key <= minted'.key
        /\ j.at = "seal" => j.s.key >= 1 /\ (entry # Nothing => j.s.key = entry.key)
    <3>1. job' = [job EXCEPT ![w] = j]
      BY <2>3
    <3>2. j.s.key = k /\ j.s.v = job[w].s.v
      BY <2>2, <2>4
    <3> QED
      BY <1>3, <2>4, <3>1, <3>2
  <2> QED
    BY <1>1, <1>3, <2>4, <2>6, <2>7, GoesOn
<1>4. CASE /\ Works /\ entry # Nothing /\ UNCHANGED <<storeLock, minted>>
           /\ job' = [job EXCEPT ![w].at = "seal", ![w].s.key = entry.key]
  <2>1. entry.key \in Nat /\ entry.key >= 1 /\ entry.key <= minted.key /\ minted \in [key : Nat, id : Nat, v : Nat]
    BY <1>4 DEF StoreInv, StoreFields, Sessions, Counted, AtRestOK
  <2>2. minted.key <= minted'.key
    BY <1>4, <2>1
  <2> QED
    BY <1>3, <1>4, <2>1, <2>2
<1>5. CASE /\ Works /\ entry = Nothing /\ UNCHANGED storeLock
           /\ job' = [job EXCEPT ![w].at = "seal", ![w].s.key = minted.key + 1]
           /\ minted' = [minted EXCEPT !.key = minted.key + 1]
  <2>1. minted \in [key : Nat, id : Nat, v : Nat]
    BY DEF StoreInv, StoreFields
  <2>2. /\ minted' \in [key : Nat, id : Nat, v : Nat] /\ minted'.v = minted.v /\ minted'.id = minted.id
        /\ minted'.key = minted.key + 1 /\ minted.key \in Nat
    BY <1>5, <2>1
  <2>3. minted.key <= minted'.key /\ minted.key + 1 <= minted'.key /\ minted.key + 1 >= 1 /\ minted.key + 1 \in Nat
    BY <2>2
  <2> QED
    BY <1>3, <1>5, <2>2, <2>3
<1> QED
  BY <1>2, <1>4, <1>5 DEF TakeKey

(* A step of the lock's holder that writes. *)
LEMMA HolderKeeps ==
    ASSUME StoreInv, NEW w \in Writers, job[w].at \in Under, storeLock' \in {w, NoOne},
           minted' = minted, StoreFields', Counted', AtRestOK', JobOK(w)',
           \A x \in Writers \ {w} : job'[x] = job[x]
    PROVE  StoreInv'
<1>1. ASSUME NEW x \in Writers, x # w PROVE JobOK(x)'
  <2>1. minted' \in [key : Nat, id : Nat, v : Nat] /\ minted.key <= minted'.key /\ minted.v <= minted'.v
    BY DEF StoreInv, StoreFields
  <2> QED
    BY <1>1, <2>1, OthersWait
<1> QED
  BY <1>1 DEF StoreInv

LEMMA ToType ==
    ASSUME StoreFields, NEW w \in Writers, NEW a \in StorePlaces, To(w, a)
    PROVE  /\ job' \in [Writers -> Jobs] /\ job'[w] \in Jobs /\ job'[w].at = a /\ job'[w].s = job[w].s
           /\ \A x \in Writers \ {w} : job'[x] = job[x]
BY DEF StoreFields, To, Jobs

LEMMA WriteBlobKeeps ==
    ASSUME StoreInv, NEW w \in Writers, WriteBlob(w)
    PROVE  StoreInv'
<1>1. job[w].at \in Under /\ job[w].at = "seal"
  BY DEF WriteBlob, Under
<1>2. CASE Fails /\ Done(w) /\ Unlocks(w) /\ UNCHANGED <<sealed, kept, out>>
  BY <1>1, <1>2, GivesUp DEF WriteBlob, atRest
<1>3. CASE /\ Works /\ sealed' = job[w].s /\ To(w, "entry") /\ UNCHANGED storeLock
           /\ kept' = IF entry # Nothing /\ entry.epoch # job[w].s.epoch THEN 0 ELSE kept
           /\ out' = FALSE
  <2>1. /\ job' \in [Writers -> Jobs] /\ job'[w].at = "entry" /\ job'[w].s = job[w].s
        /\ \A x \in Writers \ {w} : job'[x] = job[x]
    BY <1>3, ToType DEF StoreInv, StorePlaces, Under
  <2>2. UNCHANGED <<entry, identity, cached, minted, storeLock, storeUsed>> /\ out' = FALSE /\ kept' \in {0, kept}
    BY <1>3 DEF WriteBlob, Works
  <2>3. storeLock' = w /\ JobOK(w) /\ job[w].s \in Sessions
    BY <1>1, <2>2, LockedOut DEF StoreInv, StoreFields, Jobs
  <2>4. StoreFields'
    BY <1>3, <2>1, <2>2, <2>3 DEF StoreInv, StoreFields
  <2>5. Counted'
    BY <1>1, <1>3, <2>2, <2>3 DEF StoreInv, StoreFields, Counted, JobOK
  <2>6. AtRestOK'
    <3>1. job[w].s # Nothing
      BY <1>1, <2>3, NothingType DEF JobOK, Sessions
    <3>2. kept' # 0 => kept' = kept /\ entry # Nothing /\ entry.epoch = job[w].s.epoch /\ entry.key = job[w].s.key
      BY <1>1, <1>3, <2>3 DEF StoreInv, AtRestOK, JobOK
    <3>3. job[w].s.v >= kept
      BY <1>1, <2>3 DEF JobOK
    <3> QED
      BY <1>3, <2>2, <3>1, <3>2, <3>3 DEF StoreInv, AtRestOK
  <2>7. JobOK(w)'
    <3>1. job[w].s.v >= kept'
      BY <1>1, <2>2, <2>3 DEF JobOK, Sessions
    <3> QED
      BY <1>1, <1>3, <2>1, <2>2, <2>3, <3>1 DEF JobOK, Under
  <2> QED
    BY <1>1, <2>1, <2>2, <2>3, <2>4, <2>5, <2>6, <2>7, HolderKeeps
<1> QED
  BY <1>2, <1>3 DEF WriteBlob

LEMMA SetKeyKeeps ==
    ASSUME StoreInv, NEW w \in Writers, SetKey(w)
    PROVE  StoreInv'
<1>1. job[w].at \in Under /\ job[w].at = "entry"
  BY DEF SetKey, Under
<1>2. CASE Fails /\ Done(w) /\ UNCHANGED <<entry, kept>>
  BY <1>1, <1>2, GivesUp DEF SetKey, atRest
<1>3. CASE Works /\ entry' = [job[w].s EXCEPT !.v = 0, !.id = 0] /\ To(w, "publish") /\ kept' = job[w].s.v
  <2>1. /\ job' \in [Writers -> Jobs] /\ job'[w].at = "publish" /\ job'[w].s = job[w].s
        /\ \A x \in Writers \ {w} : job'[x] = job[x]
    BY <1>3, ToType DEF StoreInv, StorePlaces
  <2>2. UNCHANGED <<sealed, identity, cached, minted, out, storeUsed>> /\ storeLock' = NoOne /\ w # NoOne
    BY <1>1, <1>3, LockedOut DEF SetKey, Works, Unlocks
  <2>3. JobOK(w) /\ job[w].s \in Sessions
    BY DEF StoreInv, StoreFields, Jobs
  <2>4. entry' \in Sessions /\ entry'.key = job[w].s.key /\ entry'.epoch = job[w].s.epoch
    BY <1>3, <2>3 DEF Sessions
  <2>5. StoreFields'
    <3>1. kept' \in Nat
      BY <1>3, <2>3 DEF Sessions
    <3> QED
      BY <2>1, <2>2, <2>4, <3>1 DEF StoreInv, StoreFields
  <2>6. Counted'
    BY <1>1, <1>3, <2>2, <2>3, <2>4 DEF StoreInv, StoreFields, Counted, JobOK
  <2>7. AtRestOK'
    <3>1. job[w].s.key >= 1 /\ sealed = job[w].s /\ ~out
      BY <1>1, <2>3 DEF JobOK
    <3>2. entry' # Nothing /\ sealed # Nothing
      BY <2>3, <2>4, <3>1, NothingType DEF Sessions
    <3>3. sealed.v >= kept'
      BY <1>3, <2>3, <3>1 DEF Sessions
    <3> QED
      BY <2>2, <2>4, <3>1, <3>2, <3>3 DEF AtRestOK
  <2>8. JobOK(w)'
    BY <2>1, <2>2, <2>3 DEF JobOK, Under
  <2> QED
    BY <1>1, <2>1, <2>2, <2>5, <2>6, <2>7, <2>8, HolderKeeps
<1> QED
  BY <1>2, <1>3 DEF SetKey

LEMMA RemoveBlobKeeps ==
    ASSUME StoreInv, NEW w \in Writers, RemoveBlob(w)
    PROVE  StoreInv'
<1>1. job[w].at \in Under /\ job[w].at = "remove"
  BY DEF RemoveBlob, Under
<1>2. /\ job' \in [Writers -> Jobs] /\ job'[w].at = "forget" /\ job'[w].s = job[w].s
      /\ \A x \in Writers \ {w} : job'[x] = job[x]
  BY ToType DEF RemoveBlob, StoreInv, StorePlaces, Under
<1>3. /\ UNCHANGED <<entry, identity, cached, storeLock, minted>> /\ kept' = 0 /\ out' = FALSE
      /\ storeLock' = w /\ JobOK(w)
  BY <1>1, LockedOut DEF RemoveBlob, StoreInv
<1>4. sealed' = Nothing \/ (sealed' = sealed /\ storeUsed'.fault >= 1)
  BY FaultCount DEF RemoveBlob, StoreInv
<1>5. StoreFields'
  <2>1. storeUsed' \in [write : Nat, fault : Nat, death : Nat] /\ sealed' \in Sessions
    BY <1>4, FaultCount, NothingType DEF RemoveBlob, StoreInv, StoreFields
  <2>2. out' \in BOOLEAN /\ kept' \in Nat
    BY <1>3
  <2> QED
    BY <1>2, <1>3, <2>1, <2>2 DEF StoreInv, StoreFields
<1>6. Counted'
  BY <1>3, <1>4, NothingType DEF StoreInv, StoreFields, Counted
<1>7. AtRestOK'
  BY <1>3 DEF StoreInv, AtRestOK
<1>8. JobOK(w)'
  <2>1. job[w].s.v >= 1 /\ job[w].s.v >= 0
    BY <1>1, <1>3 DEF JobOK, StoreInv, StoreFields, Jobs, Sessions
  <2> QED
    BY <1>2, <1>3, <1>4, <2>1 DEF JobOK, Under
<1> QED
  BY <1>1, <1>2, <1>3, <1>5, <1>6, <1>7, <1>8, HolderKeeps

LEMMA DeleteKeyKeeps ==
    ASSUME StoreInv, NEW w \in Writers, DeleteKey(w)
    PROVE  StoreInv'
<1>1. job[w].at \in Under /\ job[w].at = "forget"
  BY DEF DeleteKey, Under
<1>2. /\ job' \in [Writers -> Jobs] /\ job'[w].at = "publish" /\ job'[w].s = job[w].s
      /\ \A x \in Writers \ {w} : job'[x] = job[x]
  BY ToType DEF DeleteKey, StoreInv, StorePlaces
<1>3. /\ UNCHANGED <<sealed, identity, cached, minted, kept>> /\ storeLock' = NoOne /\ w # NoOne
      /\ JobOK(w) /\ kept = 0 /\ (sealed = Nothing \/ storeUsed.fault >= 1)
  BY <1>1, LockedOut DEF DeleteKey, StoreInv, Unlocks, JobOK
<1>4. entry' = Nothing \/ (entry' = entry /\ storeUsed'.fault = storeUsed.fault + 1)
  BY FaultCount DEF DeleteKey, StoreInv
<1>5. StoreFields'
  <2>1. out' \in BOOLEAN
    BY DEF DeleteKey
  <2> QED
    BY <1>2, <1>3, <1>4, <2>1, FaultCount, NothingType DEF DeleteKey, StoreInv, StoreFields
<1>6. Counted'
  BY <1>3, <1>4, NothingType DEF StoreInv, StoreFields, Counted
<1>7. AtRestOK'
  <2>1. sealed' = Nothing \/ entry' = Nothing \/ storeUsed'.fault >= 2
    BY <1>3, <1>4, FaultCount DEF StoreInv, DeleteKey
  <2> QED
    BY <1>3, <1>4, <2>1 DEF StoreInv, AtRestOK
<1>8. JobOK(w)'
  BY <1>2, <1>3 DEF JobOK, Under
<1> QED
  BY <1>1, <1>2, <1>3, <1>5, <1>6, <1>7, <1>8, HolderKeeps

(* Readers, and the writers that only touch the cache or the identity. *)
LEMMA FreeStep ==
    ASSUME StoreInv, NEW w \in Writers, job[w].at \notin Under, job' \in [Writers -> Jobs],
           job'[w].at \notin Under, job'[w].s.key <= minted.key, job'[w].s.v <= minted.v,
           \A x \in Writers \ {w} : job'[x] = job[x],
           UNCHANGED <<sealed, entry, storeLock, kept, out>>,
           minted' \in [key : Nat, id : Nat, v : Nat], minted'.key = minted.key, minted'.v = minted.v,
           storeUsed' \in [write : Nat, fault : Nat, death : Nat], storeUsed.fault <= storeUsed'.fault,
           identity' \in Nat, identity' <= minted'.id,
           cached' \in [loaded : BOOLEAN, v : Nat, id : Nat], cached'.v <= minted.v, cached'.id <= minted'.id
    PROVE  StoreInv'
<1>1. StoreFields'
  BY DEF StoreInv, StoreFields
<1>2. Counted'
  BY DEF StoreInv, Counted
<1>3. storeUsed.fault \in Nat /\ storeUsed'.fault \in Nat
  BY DEF StoreInv, StoreFields
<1>4. AtRestOK'
  <2>1. storeUsed.fault >= 2 => storeUsed'.fault >= 2
    BY <1>3
  <2> QED
    BY <2>1 DEF StoreInv, AtRestOK
<1>5. JobOK(w)'
  <2>1. storeLock # w
    BY DEF StoreInv, JobOK
  <2> QED
    BY <2>1 DEF JobOK, Under
<1>6. ASSUME NEW x \in Writers, x # w PROVE JobOK(x)'
  BY <1>3, <1>6, OthersGoOn
<1> QED
  BY <1>1, <1>2, <1>4, <1>5, <1>6 DEF StoreInv

LEMMA EnsureType ==
    ASSUME StoreInv, Ensure
    PROVE  /\ cached' \in [loaded : BOOLEAN, v : Nat, id : Nat] /\ cached'.v <= minted.v /\ cached'.id <= minted.id
           /\ storeUsed' \in [write : Nat, fault : Nat, death : Nat] /\ storeUsed.fault <= storeUsed'.fault
<1>1. Works \/ Fails
  BY DEF Ensure
<1>2. StoreFields /\ Opens \in Nat /\ Opens <= minted.v /\ identity \in Nat /\ identity <= minted.id
  BY OpensType DEF StoreInv, StoreFields, Counted
<1>3. 0 <= minted.v /\ 0 <= minted.id
  BY DEF StoreInv, StoreFields
<1>4. cached \in [loaded : BOOLEAN, v : Nat, id : Nat] /\ cached.v <= minted.v /\ cached.id <= minted.id
  BY DEF StoreInv, StoreFields, Counted
<1>5. cached' \in {cached, [loaded |-> TRUE, v |-> Opens, id |-> identity], Cold, [Cold EXCEPT !.v = Opens], [Cold EXCEPT !.id = identity]}
  BY DEF Ensure, Loaded
<1>6. cached' \in [loaded : BOOLEAN, v : Nat, id : Nat] /\ cached'.v <= minted.v /\ cached'.id <= minted.id
  <2>1. CASE cached' = cached
    BY <1>4, <2>1
  <2>2. CASE cached' = [loaded |-> TRUE, v |-> Opens, id |-> identity]
    <3> DEFINE v == Opens
    <3>1. v \in Nat /\ v <= minted.v /\ cached' = [loaded |-> TRUE, v |-> v, id |-> identity]
      BY <1>2, <2>2
    <3> HIDE DEF v
    <3> QED
      BY <1>2, <3>1
  <2>3. CASE cached' = Cold
    BY <1>3, <2>3 DEF Cold
  <2>4. CASE cached' = [Cold EXCEPT !.v = Opens]
    <3> DEFINE v == Opens
    <3>1. v \in Nat /\ v <= minted.v /\ cached' = [loaded |-> FALSE, v |-> v, id |-> 0]
      BY <1>2, <2>4 DEF Cold
    <3> HIDE DEF v
    <3> QED
      BY <1>3, <3>1
  <2>5. CASE cached' = [Cold EXCEPT !.id = identity]
    <3>1. cached' = [loaded |-> FALSE, v |-> 0, id |-> identity]
      BY <2>5 DEF Cold
    <3> QED
      BY <1>2, <1>3, <3>1
  <2> QED
    BY <1>5, <2>1, <2>2, <2>3, <2>4, <2>5
<1> QED
  BY <1>1, <1>2, <1>6, FaultCount

LEMMA PollKeeps ==
    ASSUME StoreInv, Poll
    PROVE  StoreInv'
<1>1. /\ UNCHANGED <<sealed, entry, identity, storeLock, job, minted, kept, out>> /\ Ensure
  BY DEF Poll, atRest
<1>2. StoreFields' /\ Counted'
  BY <1>1, EnsureType DEF StoreInv, StoreFields, Counted
<1>3. storeUsed.fault \in Nat /\ storeUsed'.fault \in Nat /\ storeUsed.fault <= storeUsed'.fault
  BY <1>1, EnsureType DEF StoreInv, StoreFields
<1>4. AtRestOK'
  <2>1. storeUsed.fault >= 2 => storeUsed'.fault >= 2
    BY <1>3
  <2> QED
    BY <1>1, <2>1 DEF StoreInv, AtRestOK
<1>5. ASSUME NEW x \in Writers PROVE JobOK(x)'
  BY <1>1, <1>3, OthersGoOn
<1> QED
  BY <1>2, <1>4, <1>5 DEF StoreInv

LEMMA PublishKeeps ==
    ASSUME StoreInv, NEW w \in Writers, Publish(w)
    PROVE  StoreInv'
<1>1. job[w].at \notin Under /\ UNCHANGED <<sealed, entry, identity, storeLock, minted, kept, out, storeUsed>>
  BY DEF Publish, Under, atRest
<1>2. job' \in [Writers -> Jobs] /\ job'[w] = NoJob /\ \A x \in Writers \ {w} : job'[x] = job[x]
  BY NoJobType DEF Publish, Done, StoreInv, StoreFields
<1>3. job'[w].at \notin Under /\ job'[w].s.key <= minted.key /\ job'[w].s.v <= minted.v
  <2>1. 0 <= minted.key /\ 0 <= minted.v
    BY DEF StoreInv, StoreFields
  <2> QED
    BY <1>2, <2>1, NoJobType, NothingType DEF Under
<1>4. cached' \in [loaded : BOOLEAN, v : Nat, id : Nat] /\ cached'.v <= minted.v /\ cached'.id <= minted.id
  <2> DEFINE v == IF job[w].kind = "clear" THEN 0 ELSE job[w].s.v
  <2>1. v \in Nat /\ v <= minted.v
    BY DEF StoreInv, StoreFields, JobOK, Jobs, Sessions
  <2>2. cached' = [cached EXCEPT !.loaded = TRUE, !.v = v]
    BY DEF Publish
  <2> HIDE DEF v
  <2>3. cached.id <= minted.id /\ cached \in [loaded : BOOLEAN, v : Nat, id : Nat]
    BY DEF StoreInv, StoreFields, Counted
  <2> QED
    BY <2>1, <2>2, <2>3
<1>5. /\ minted' \in [key : Nat, id : Nat, v : Nat] /\ storeUsed' \in [write : Nat, fault : Nat, death : Nat]
      /\ storeUsed.fault <= storeUsed'.fault /\ identity' \in Nat /\ identity' <= minted'.id
  BY <1>1 DEF StoreInv, StoreFields, Counted
<1> QED
  BY <1>1, <1>2, <1>3, <1>4, <1>5, FreeStep

LEMMA FindIdentityKeeps ==
    ASSUME StoreInv, NEW w \in Writers, FindIdentity(w)
    PROVE  StoreInv'
<1>1. job[w].at \notin Under /\ UNCHANGED <<sealed, entry, identity, storeLock, minted, kept, out>> /\ Ensure
  BY DEF FindIdentity, Under, atRest
<1> DEFINE j == [NoJob EXCEPT !.at = "adopt", !.kind = "identity"]
<1>2. j \in Jobs /\ j.at = "adopt" /\ j.s = Nothing
  BY NoJobType DEF Jobs, StorePlaces
<1>3. job' = [job EXCEPT ![w] = j]
  BY DEF FindIdentity
<1> HIDE DEF j
<1>4. job' \in [Writers -> Jobs] /\ job'[w] = j /\ \A x \in Writers \ {w} : job'[x] = job[x]
  BY <1>2, <1>3 DEF StoreInv, StoreFields
<1>5. job'[w].at \notin Under /\ job'[w].s.key <= minted.key /\ job'[w].s.v <= minted.v
  <2>1. 0 <= minted.key /\ 0 <= minted.v
    BY DEF StoreInv, StoreFields
  <2> QED
    BY <1>2, <1>4, <2>1, NothingType DEF Under
<1>6. /\ minted' \in [key : Nat, id : Nat, v : Nat] /\ identity' \in Nat /\ identity' <= minted'.id
  BY <1>1 DEF StoreInv, StoreFields, Counted
<1> QED
  BY <1>1, <1>4, <1>5, <1>6, EnsureType, FreeStep

LEMMA AdoptIdentityKeeps ==
    ASSUME StoreInv, NEW w \in Writers, AdoptIdentity(w)
    PROVE  StoreInv'
<1>1. job[w].at \notin Under /\ UNCHANGED <<sealed, entry, identity, storeLock, minted, kept, out>> /\ Ensure
  BY DEF AdoptIdentity, Under, atRest
<1> DEFINE id == IF cached'.v # 0 THEN sealed.id ELSE minted.id + 1
           t == [job[w].s EXCEPT !.id = id]
           j == [[job[w] EXCEPT !.at = "mint"] EXCEPT !.s = t]
<1>2. job \in [Writers -> Jobs] /\ job[w] \in Jobs /\ job[w].s \in Sessions /\ id \in Nat
  BY DEF StoreInv, StoreFields, Jobs, Sessions
<1>3. job' = [job EXCEPT ![w].at = "mint", ![w].s.id = id]
  BY DEF AdoptIdentity
<1> HIDE DEF id
<1>4. t \in Sessions /\ t.v = job[w].s.v /\ t.key = job[w].s.key
  BY <1>2 DEF Sessions
<1>5. job' \in [Writers -> Jobs] /\ job'[w] = j /\ \A x \in Writers \ {w} : job'[x] = job[x]
  <2>1. job'[w] = j /\ \A x \in Writers \ {w} : job'[x] = job[x]
    BY <1>2, <1>3
  <2> HIDE DEF t
  <2>2. j \in Jobs
    BY <1>2, <1>4 DEF Jobs, StorePlaces
  <2>3. job' = [job EXCEPT ![w] = job'[w]]
    BY <1>2, <1>3
  <2> HIDE DEF j
  <2> QED
    BY <1>2, <2>1, <2>2, <2>3
<1>6. job'[w].at \notin Under /\ job'[w].s.key <= minted.key /\ job'[w].s.v <= minted.v
  <2>1. job[w].s.key <= minted.key /\ job[w].s.v <= minted.v
    BY DEF StoreInv, JobOK
  <2> HIDE DEF t
  <2>2. j.at = "mint" /\ j.s = t
    BY <1>2 DEF Jobs
  <2> HIDE DEF j
  <2> QED
    BY <1>4, <1>5, <2>1, <2>2 DEF Under
<1>7. /\ minted' \in [key : Nat, id : Nat, v : Nat] /\ identity' \in Nat /\ identity' <= minted'.id
  BY <1>1 DEF StoreInv, StoreFields, Counted
<1> QED
  BY <1>1, <1>5, <1>6, <1>7, EnsureType, FreeStep

LEMMA StoreIdentityKeeps ==
    ASSUME StoreInv, NEW w \in Writers, StoreIdentity(w)
    PROVE  StoreInv'
<1>1. job[w].at \notin Under /\ UNCHANGED <<sealed, entry, storeLock, kept, out>>
  BY DEF StoreIdentity, Under
<1>2. job' \in [Writers -> Jobs] /\ job'[w] = NoJob /\ \A x \in Writers \ {w} : job'[x] = job[x]
  BY NoJobType DEF StoreIdentity, Done, StoreInv, StoreFields
<1>3. job'[w].at \notin Under /\ job'[w].s.key <= minted.key /\ job'[w].s.v <= minted.v
  <2>1. 0 <= minted.key /\ 0 <= minted.v
    BY DEF StoreInv, StoreFields
  <2> QED
    BY <1>2, <2>1, NoJobType, NothingType DEF Under
<1>4. storeUsed' \in [write : Nat, fault : Nat, death : Nat] /\ storeUsed.fault <= storeUsed'.fault
  BY FaultCount DEF StoreIdentity, StoreInv
<1>5. /\ minted \in [key : Nat, id : Nat, v : Nat] /\ identity \in Nat /\ identity <= minted.id
      /\ cached \in [loaded : BOOLEAN, v : Nat, id : Nat] /\ cached.v <= minted.v /\ cached.id <= minted.id
      /\ job[w].s.id \in Nat
  BY DEF StoreInv, StoreFields, Counted, Jobs, Sessions
<1>6. CASE Fails /\ UNCHANGED <<identity, minted, cached>>
  BY <1>1, <1>2, <1>3, <1>4, <1>5, <1>6, FreeStep
<1>7. CASE /\ identity' = job[w].s.id /\ minted' = [minted EXCEPT !.id = IF minted.id < identity' THEN identity' ELSE minted.id]
           /\ cached' = [cached EXCEPT !.loaded = TRUE, !.id = identity']
  <2> DEFINE n == IF minted.id < identity' THEN identity' ELSE minted.id
  <2>1. identity' \in Nat /\ n \in Nat /\ identity' <= n
    BY <1>5, <1>7
  <2>2. minted' = [minted EXCEPT !.id = n]
    BY <1>7
  <2> HIDE DEF n
  <2>3. /\ minted' \in [key : Nat, id : Nat, v : Nat] /\ minted'.id = n
        /\ minted'.key = minted.key /\ minted'.v = minted.v
    BY <1>5, <2>1, <2>2
  <2>4. cached' \in [loaded : BOOLEAN, v : Nat, id : Nat] /\ cached'.v = cached.v /\ cached'.id = identity'
    BY <1>5, <1>7, <2>1
  <2> QED
    BY <1>1, <1>2, <1>3, <1>4, <1>5, <2>1, <2>3, <2>4, FreeStep
<1> QED
  BY <1>6, <1>7 DEF StoreIdentity

LEMMA DieKeeps ==
    ASSUME StoreInv, Die
    PROVE  StoreInv'
<1>1. /\ cached' = Cold /\ storeLock' = NoOne /\ job' = [w \in Writers |-> NoJob]
      /\ UNCHANGED <<sealed, entry, identity, minted, kept, out>>
      /\ storeUsed' \in [write : Nat, fault : Nat, death : Nat] /\ storeUsed'.fault = storeUsed.fault
  BY DEF Die, atRest, StoreInv, StoreFields
<1>2. job' \in [Writers -> Jobs] /\ \A w \in Writers : job'[w] = NoJob
  BY <1>1, NoJobType
<1>3. Cold \in [loaded : BOOLEAN, v : Nat, id : Nat] /\ Cold.v = 0 /\ Cold.id = 0
  BY DEF Cold
<1>4. StoreFields'
  BY <1>1, <1>2, <1>3 DEF StoreInv, StoreFields
<1>5. Counted'
  <2>1. 0 <= minted.v /\ 0 <= minted.id
    BY DEF StoreInv, StoreFields
  <2> QED
    BY <1>1, <1>3, <2>1 DEF StoreInv, Counted
<1>6. AtRestOK'
  BY <1>1 DEF StoreInv, AtRestOK
<1>7. ASSUME NEW w \in Writers PROVE JobOK(w)'
  <2>1. 0 <= minted.v /\ 0 <= minted.key /\ storeLock' # w
    BY <1>1, StoreAssumption DEF StoreInv, StoreFields, NoOne
  <2> QED
    BY <1>1, <1>2, <2>1, NoJobType, NothingType DEF JobOK, Under
<1> QED
  BY <1>4, <1>5, <1>6, <1>7 DEF StoreInv

(* However the drain's refresh and the commands write the sealed file and    *)
(* its keychain entry (sync.rs, store_session_wrapped_locked and             *)
(* clear_session_wrapped), wherever the process dies and whichever calls     *)
(* fail: a session whose store completed opens again, and after a sign-out   *)
(* of which at most one call failed nothing opens.                           *)
THEOREM StoreSoundHolds == StoreSpec => []StoreSound
<1>1. StoreInit => StoreInv
  <2> SUFFICES ASSUME StoreInit PROVE StoreInv
    OBVIOUS
  <2>1. job \in [Writers -> Jobs] /\ \A w \in Writers : job[w] = NoJob
    BY NoJobType DEF StoreInit
  <2>2. cached \in [loaded : BOOLEAN, v : Nat, id : Nat] /\ cached.v = 0 /\ cached.id = 0
    BY DEF StoreInit, Cold
  <2>3. /\ minted \in [key : Nat, id : Nat, v : Nat] /\ minted.key = 0 /\ minted.v = 0 /\ minted.id = 0
        /\ storeUsed \in [write : Nat, fault : Nat, death : Nat]
    BY DEF StoreInit
  <2>4. StoreFields
    BY <2>1, <2>2, <2>3, NothingType DEF StoreInit, StoreFields
  <2>5. Counted /\ AtRestOK
    BY <2>2, <2>3, NothingType DEF StoreInit, Counted, AtRestOK
  <2>6. ASSUME NEW w \in Writers PROVE JobOK(w)
    BY <2>1, <2>3, NoJobType, NothingType, StoreAssumption DEF StoreInit, JobOK, Under, NoOne
  <2> QED
    BY <2>4, <2>5, <2>6 DEF StoreInv
<1>2. StoreInv /\ [StoreNext]_storeVars => StoreInv'
  <2> SUFFICES ASSUME StoreInv, [StoreNext]_storeVars PROVE StoreInv'
    OBVIOUS
  <2>1. CASE UNCHANGED storeVars
    BY <2>1 DEF storeVars, StoreInv, StoreFields, Counted, AtRestOK, JobOK
  <2>2. CASE Poll \/ Die
    BY <2>2, PollKeeps, DieKeeps
  <2>3. ASSUME NEW w \in Writers,
               \/ Write(w) \/ Lock(w) \/ LoadForUpdate(w) \/ TakeKey(w) \/ WriteBlob(w) \/ SetKey(w)
               \/ RemoveBlob(w) \/ DeleteKey(w) \/ Publish(w) \/ FindIdentity(w) \/ AdoptIdentity(w)
               \/ StoreIdentity(w)
        PROVE  StoreInv'
    BY <2>3, WriteKeeps, LockKeeps, LoadKeeps, TakeKeyKeeps, WriteBlobKeeps, SetKeyKeeps, RemoveBlobKeeps,
       DeleteKeyKeeps, PublishKeeps, FindIdentityKeeps, AdoptIdentityKeeps, StoreIdentityKeeps
  <2> QED
    BY <2>1, <2>2, <2>3 DEF StoreNext
<1>3. StoreInv => StoreSound
  <2> SUFFICES ASSUME StoreInv PROVE StoreSound
    OBVIOUS
  <2>1. StoreTypeOK
    BY DEF StoreInv, StoreFields, Counted, StoreTypeOK, Sessions
  <2>2. StoreSurvives
    BY DEF StoreInv, AtRestOK, StoreSurvives, Opens
  <2>3. SignOutEffective
    <3>1. storeUsed.fault <= 1 => ~(storeUsed.fault >= 2)
      BY DEF StoreInv, StoreFields
    <3> QED
      BY <3>1 DEF StoreInv, AtRestOK, SignOutEffective, Opens
  <2> QED
    BY <2>1, <2>2, <2>3 DEF StoreSound
<1> QED
  BY <1>1, <1>2, <1>3, PTL DEF StoreSpec

------------------------------------------------------------------------------
(* The roster.  A command that is about to sign has seen the list the relay  *)
(* serves, or its counter is behind; whom it adds has a row; and the one in  *)
(* its commit holds the roster row.                                          *)
Lists == [counter : Nat, members : SUBSET Devices]
RosterRows  == [status : {"none", "pending", "active", "revoked"}, grant : BOOLEAN, waiver : BOOLEAN, family : BOOLEAN]
Calls == [at : {"idle", "ask", "verify", "enrol", "finish", "anchor", "devices", "put", "commit", "gate", "change"},
          kind : {"none", "login", "recover", "approve", "remove", "change", "reset"},
          target : Devices \cup {NoDevice}, key : Nat, tries : Nat, nonce : BOOLEAN, seen : Lists]

RosterFields ==
  /\ roster \in Lists /\ rosterRow \in Devices \cup {NoDevice} /\ row \in [Devices -> RosterRows]
  /\ password \in Nat /\ call \in [Devices -> Calls] /\ anchor \in [Devices -> Int]
  /\ \A d \in Devices : anchor[d] >= -1
  /\ removed \subseteq Devices

CallOK(d, c) ==
  /\ c.seen.counter <= roster.counter
  /\ c.at \in {"devices", "put", "commit"} /\ c.seen.counter = roster.counter
       => c.seen.members = roster.members
  /\ c.at \in {"anchor", "devices"} => c.kind \in {"approve", "remove"}
  /\ c.at \in {"put", "commit"} => c.kind \in {"approve", "remove", "recover"}
  /\ c.kind \in {"approve", "remove"} => c.target \in Devices
  /\ c.at \in {"put", "commit"} /\ c.kind = "approve" => row[c.target].status # "none"
  /\ c.at \in {"put", "commit"} /\ c.kind = "recover" => row[d].status # "none"
  /\ c.at = "commit" => rosterRow = d /\ c.seen.counter = roster.counter
  /\ c.at = "change" => row[d].status = "active" \/ row[d].waiver = FALSE

RosterInv ==
  /\ RosterFields /\ ActiveIsListed /\ AnchorBehind /\ KeylessByMember
  /\ \A d \in Devices : CallOK(d, call[d])

LEMMA NoCallType == NoCall \in Calls /\ NoCall.at = "idle" /\ NoCall.seen.counter = 0 /\ NoCall.kind = "none"
BY DEF NoCall, Calls, Lists

LEMMA NoCallOK ==
    ASSUME RosterFields, NEW d \in Devices
    PROVE  CallOK(d, NoCall)
<1>1. 0 <= roster.counter
  BY DEF RosterFields, Lists
<1> QED
  BY <1>1, NoCallType DEF CallOK

(* What other devices' calls rest on survives a step that keeps rows known   *)
(* and, unless it is the commit, the list.                                   *)
LEMMA CallSurvives ==
    ASSUME RosterInv, RosterFields', NEW x \in Devices, NEW c \in Calls, CallOK(x, c),
           roster' = roster \/ (c.at # "commit" /\ roster.counter < roster'.counter),
           c.at = "commit" => rosterRow' = rosterRow,
           \A y \in Devices : row[y].status # "none" => row'[y].status # "none",
           c.at = "change" /\ (row[x].status = "active" \/ row[x].waiver = FALSE)
             => row'[x].status = "active" \/ row'[x].waiver = FALSE
    PROVE  CallOK(x, c)'
<1>1. /\ roster.counter \in Nat /\ roster'.counter \in Nat /\ c.seen.counter \in Nat
      /\ c.seen.counter <= roster.counter
  BY DEF RosterInv, RosterFields, Lists, Calls, CallOK
<1>2. /\ c.seen.counter <= roster'.counter
      /\ c.seen.counter = roster'.counter => roster' = roster
  BY <1>1
<1> QED
  BY <1>2 DEF CallOK

(* A step of one device that leaves the relay's rows alone. *)
LEMMA OwnStep ==
    ASSUME RosterInv, NEW d \in Devices, NEW c \in Calls, call' = [call EXCEPT ![d] = c], CallOK(d, c),
           UNCHANGED relayRows, anchor' \in [Devices -> Int],
           \A x \in Devices : anchor'[x] >= -1 /\ anchor'[x] <= roster.counter
    PROVE  RosterInv'
<1>1. UNCHANGED <<roster, rosterRow, row, password, removed, keyless>>
  BY DEF relayRows
<1>2. call' \in [Devices -> Calls] /\ call'[d] = c /\ \A x \in Devices \ {d} : call'[x] = call[x]
  BY DEF RosterInv, RosterFields
<1>3. RosterFields' /\ ActiveIsListed' /\ AnchorBehind' /\ KeylessByMember'
  BY <1>1, <1>2 DEF RosterInv, RosterFields, ActiveIsListed, AnchorBehind, KeylessByMember
<1>4. ASSUME NEW x \in Devices PROVE CallOK(x, call[x])'
  <2>1. CallOK(x, call'[x])
    BY <1>2 DEF RosterInv
  <2> QED
    BY <1>1, <2>1 DEF CallOK
<1> QED
  BY <1>3, <1>4 DEF RosterInv

LEMMA SameAnchor ==
    ASSUME RosterInv, anchor' = anchor
    PROVE  anchor' \in [Devices -> Int] /\ \A x \in Devices : anchor'[x] >= -1 /\ anchor'[x] <= roster.counter
BY DEF RosterInv, RosterFields, AnchorBehind

LEMMA BeginKeeps ==
    ASSUME RosterInv, NEW d \in Devices, Begin(d)
    PROVE  RosterInv'
<1>1. PICK kind \in {"login", "recover", "approve", "remove", "change", "reset"}, t \in Devices \ {d} :
        call' = [call EXCEPT ![d] = [NoCall EXCEPT
            !.at = CASE kind = "login" -> "ask" [] kind = "recover" -> "enrol"
                     [] kind \in {"approve", "remove"} -> "anchor" [] OTHER -> "gate",
            !.kind = kind, !.target = t, !.key = password]]
  BY ZenonT(60) DEF Begin
<1> DEFINE a == CASE kind = "login" -> "ask" [] kind = "recover" -> "enrol"
                  [] kind \in {"approve", "remove"} -> "anchor" [] OTHER -> "gate"
           c == [NoCall EXCEPT !.at = a, !.kind = kind, !.target = t, !.key = password]
<1>2. a \in {"ask", "enrol", "anchor", "gate"} /\ (a = "anchor" => kind \in {"approve", "remove"})
  OBVIOUS
<1>3. call' = [call EXCEPT ![d] = c]
  BY <1>1
<1> HIDE DEF a
<1>4. c \in Calls /\ c.at = a /\ c.kind = kind /\ c.target = t /\ c.seen.counter = 0
  <2>1. password \in Nat
    BY DEF RosterInv, RosterFields
  <2> QED
    BY <1>2, <2>1, NoCallType DEF Calls
<1> HIDE DEF c
<1>5. CallOK(d, c)
  <2>1. 0 <= roster.counter
    BY DEF RosterInv, RosterFields, Lists
  <2> QED
    BY <1>2, <1>4, <2>1 DEF CallOK
<1> QED
  BY <1>3, <1>4, <1>5, SameAnchor, OwnStep DEF Begin

LEMMA EndsKeeps ==
    ASSUME RosterInv, NEW d \in Devices, Ends(d), UNCHANGED relayRows, anchor' = anchor
    PROVE  RosterInv'
BY NoCallType, NoCallOK, SameAnchor, OwnStep DEF Ends, RosterInv

LEMMA CallField ==
    ASSUME RosterInv, NEW d \in Devices
    PROVE  /\ call[d] \in Calls /\ CallOK(d, call[d]) /\ call \in [Devices -> Calls]
           /\ call[d].tries \in Nat /\ call[d].seen \in Lists /\ call[d].seen.counter \in Nat
BY DEF RosterInv, RosterFields, Calls, Lists

LEMMA LoginStepsKeep ==
    ASSUME RosterInv, NEW d \in Devices, LoginBegin(d) \/ NonceExpires(d) \/ LoginVerify(d) \/ LoginPop(d)
    PROVE  RosterInv'
<1>1. UNCHANGED relayRows /\ anchor' = anchor
  BY DEF LoginBegin, NonceExpires, LoginVerify, LoginPop
<1>2. ASSUME NEW c \in Calls, call' = [call EXCEPT ![d] = c], CallOK(d, c)
      PROVE  RosterInv'
  BY <1>1, <1>2, SameAnchor, OwnStep
<1>3. CASE Ends(d)
  BY <1>1, <1>3, EndsKeeps
<1>4. CASE LoginBegin(d)
  <2> DEFINE c == [call[d] EXCEPT !.at = "verify", !.nonce = TRUE]
  <2>1. call' = [call EXCEPT ![d] = c]
    BY <1>4, CallField DEF LoginBegin
  <2>2. c \in Calls /\ c.at = "verify" /\ c.seen = call[d].seen /\ c.kind = call[d].kind /\ c.target = call[d].target
    BY CallField DEF Calls
  <2> HIDE DEF c
  <2>3. CallOK(d, c)
    BY <2>2, CallField DEF CallOK
  <2> QED
    BY <1>2, <2>1, <2>2, <2>3
<1>5. CASE NonceExpires(d)
  <2> DEFINE c == [call[d] EXCEPT !.nonce = FALSE]
  <2>1. call' = [call EXCEPT ![d] = c]
    BY <1>5, CallField DEF NonceExpires
  <2>2. c \in Calls /\ c.at = call[d].at /\ c.seen = call[d].seen /\ c.kind = call[d].kind /\ c.target = call[d].target
    BY CallField DEF Calls
  <2> HIDE DEF c
  <2>3. CallOK(d, c)
    <3>1. CallOK(d, call[d])
      BY CallField
    <3> QED
      BY <2>2, <3>1, Zenon DEF CallOK
  <2> QED
    BY <1>2, <2>1, <2>2, <2>3
<1>6. CASE call' = [call EXCEPT ![d].at = "ask", ![d].tries = 1, ![d].nonce = FALSE]
  <2> DEFINE c == [call[d] EXCEPT !.at = "ask", !.tries = 1, !.nonce = FALSE]
  <2>1. call' = [call EXCEPT ![d] = c]
    BY <1>6, CallField
  <2>2. c \in Calls /\ c.at = "ask" /\ c.seen = call[d].seen /\ c.kind = call[d].kind /\ c.target = call[d].target
    BY CallField DEF Calls
  <2> HIDE DEF c
  <2>3. CallOK(d, c)
    BY <2>2, CallField DEF CallOK
  <2> QED
    BY <1>2, <2>1, <2>2, <2>3
<1>7. CASE Goes(d, "enrol")
  <2> DEFINE c == [call[d] EXCEPT !.at = "enrol"]
  <2>1. call' = [call EXCEPT ![d] = c]
    BY <1>7, CallField DEF Goes
  <2>2. c \in Calls /\ c.at = "enrol" /\ c.seen = call[d].seen /\ c.kind = call[d].kind /\ c.target = call[d].target
    BY CallField DEF Calls
  <2> HIDE DEF c
  <2>3. CallOK(d, c)
    BY <2>2, CallField DEF CallOK
  <2> QED
    BY <1>2, <2>1, <2>2, <2>3
<1>8. CASE call' = [call EXCEPT ![d].at = "finish", ![d].nonce = FALSE, ![d].seen = roster]
  <2> DEFINE c == [call[d] EXCEPT !.at = "finish", !.nonce = FALSE, !.seen = roster]
  <2>1. call' = [call EXCEPT ![d] = c]
    BY <1>8, CallField
  <2>2. roster \in Lists /\ roster.counter <= roster.counter
    BY DEF RosterInv, RosterFields, Lists
  <2>3. c \in Calls /\ c.at = "finish" /\ c.seen = roster /\ c.kind = call[d].kind /\ c.target = call[d].target
    BY <2>2, CallField DEF Calls
  <2> HIDE DEF c
  <2>4. CallOK(d, c)
    BY <2>2, <2>3, CallField DEF CallOK
  <2> QED
    BY <1>2, <2>1, <2>3, <2>4
<1> QED
  BY <1>3, <1>4, <1>5, <1>6, <1>7, <1>8 DEF LoginVerify, LoginPop, LoginRefused

LEMMA ReanchorKeeps ==
    ASSUME RosterInv, NEW d \in Devices, Reanchor(d)
    PROVE  RosterInv'
<1>1. UNCHANGED relayRows
  BY DEF Reanchor
<1>2. CASE Ends(d) /\ UNCHANGED anchor
  BY <1>1, <1>2, EndsKeeps
<1>3. CASE /\ anchor' = [anchor EXCEPT ![d] = roster.counter]
           /\ call' = [call EXCEPT ![d].seen = roster,
                                   ![d].at = IF call[d].kind = "approve" THEN "devices" ELSE "put"]
           /\ call[d].at = "anchor"
  <2> DEFINE a == IF call[d].kind = "approve" THEN "devices" ELSE "put"
             c == [call[d] EXCEPT !.seen = roster, !.at = a]
  <2>1. call' = [call EXCEPT ![d] = c]
    BY <1>3, CallField
  <2>2. roster \in Lists /\ roster.counter <= roster.counter /\ roster.counter \in Nat
    BY DEF RosterInv, RosterFields, Lists
  <2>3. call[d].kind \in {"approve", "remove"} /\ call[d].target \in Devices
    BY <1>3, CallField DEF CallOK
  <2>4. a \in {"devices", "put"} /\ (a = "put" => call[d].kind = "remove")
    BY <2>3
  <2> HIDE DEF a
  <2>5. c \in Calls /\ c.at = a /\ c.seen = roster /\ c.kind = call[d].kind /\ c.target = call[d].target
    BY <2>2, <2>4, CallField DEF Calls
  <2> HIDE DEF c
  <2>6. CallOK(d, c)
    BY <2>2, <2>3, <2>4, <2>5 DEF CallOK
  <2>7. anchor' \in [Devices -> Int] /\ \A x \in Devices : anchor'[x] >= -1 /\ anchor'[x] <= roster.counter
    BY <1>3, <2>2 DEF RosterInv, RosterFields, AnchorBehind
  <2> QED
    BY <1>1, <2>1, <2>5, <2>6, <2>7, OwnStep
<1> QED
  BY <1>2, <1>3 DEF Reanchor

LEMMA GatesKeep ==
    ASSUME RosterInv, NEW d \in Devices, PickPending(d) \/ PasswordGate(d)
    PROVE  RosterInv'
<1>1. UNCHANGED relayRows /\ anchor' = anchor
  BY DEF PickPending, PasswordGate
<1>2. CASE Ends(d)
  BY <1>1, <1>2, EndsKeeps
<1>3. ASSUME NEW a \in {"put", "change"}, Goes(d, a),
             a = "put" => call[d].at = "devices" /\ row[call[d].target].status = "pending",
             a = "change" => row[d].status = "active"
      PROVE  RosterInv'
  <2> DEFINE c == [call[d] EXCEPT !.at = a]
  <2>1. call' = [call EXCEPT ![d] = c]
    BY <1>3, CallField DEF Goes
  <2>2. c \in Calls /\ c.at = a /\ c.seen = call[d].seen /\ c.kind = call[d].kind /\ c.target = call[d].target
    BY CallField DEF Calls
  <2> HIDE DEF c
  <2>3. CallOK(d, c)
    <3>1. CallOK(d, call[d])
      BY CallField
    <3>2. c.seen.counter <= roster.counter /\ (c.kind \in {"approve", "remove"} => c.target \in Devices)
      BY <2>2, <3>1 DEF CallOK
    <3>3. CASE a = "put"
      <4>1. c.kind \in {"approve", "remove"} /\ (c.seen.counter = roster.counter => c.seen.members = roster.members)
        BY <1>3, <2>2, <3>1, <3>3 DEF CallOK
      <4> QED
        BY <1>3, <2>2, <3>2, <3>3, <4>1 DEF CallOK
    <3>4. CASE a = "change"
      BY <1>3, <2>2, <3>2, <3>4 DEF CallOK
    <3> QED
      BY <3>3, <3>4
  <2> QED
    BY <1>1, <2>1, <2>2, <2>3, SameAnchor, OwnStep
<1> QED
  BY <1>2, <1>3 DEF PickPending, PasswordGate

LEMMA SessionEndsKeeps ==
    ASSUME RosterInv, NEW d \in Devices, SessionEnds(d)
    PROVE  RosterInv'
BY DEF SessionEnds, relayRows, RosterInv, RosterFields, ActiveIsListed, AnchorBehind, KeylessByMember, CallOK

LEMMA PutChecksKeeps ==
    ASSUME RosterInv, NEW d \in Devices, PutChecks(d)
    PROVE  RosterInv'
<1>1. UNCHANGED <<roster, row, password, removed, keyless, anchor>> /\ call[d].at = "put" /\ rosterRow = NoDevice
  BY DEF PutChecks
<1>2. CASE Ends(d) /\ UNCHANGED rosterRow
  BY <1>1, <1>2, EndsKeeps DEF relayRows
<1>3. CASE call' = [call EXCEPT ![d].at = "anchor", ![d].tries = call[d].tries + 1] /\ UNCHANGED rosterRow
           /\ call[d].kind # "recover"
  <2> DEFINE c == [call[d] EXCEPT !.at = "anchor", !.tries = call[d].tries + 1]
  <2>1. call' = [call EXCEPT ![d] = c]
    BY <1>3, CallField
  <2>2. c \in Calls /\ c.at = "anchor" /\ c.seen = call[d].seen /\ c.kind = call[d].kind /\ c.target = call[d].target
    <3>1. call[d].tries + 1 \in Nat /\ call[d] \in Calls
      BY CallField
    <3> QED
      BY <3>1 DEF Calls
  <2> HIDE DEF c
  <2>3. CallOK(d, c)
    BY <1>1, <1>3, <2>2, CallField DEF CallOK
  <2> QED
    BY <1>1, <1>3, <2>1, <2>2, <2>3, SameAnchor, OwnStep DEF relayRows
<1>4. CASE Newer(d) /\ rosterRow' = d /\ Goes(d, "commit")
  <2> DEFINE c == [call[d] EXCEPT !.at = "commit"]
  <2>1. call' = [call EXCEPT ![d] = c]
    BY <1>4, CallField DEF Goes
  <2>2. c \in Calls /\ c.at = "commit" /\ c.seen = call[d].seen /\ c.kind = call[d].kind /\ c.target = call[d].target
    BY CallField DEF Calls
  <2> HIDE DEF c
  <2>3. call' \in [Devices -> Calls] /\ call'[d] = c /\ \A x \in Devices \ {d} : call'[x] = call[x]
    BY <2>1, <2>2, CallField
  <2>4. RosterFields'
    BY <1>1, <1>4, <2>3 DEF RosterInv, RosterFields
  <2>5. ActiveIsListed' /\ AnchorBehind' /\ KeylessByMember'
    BY <1>1 DEF RosterInv, ActiveIsListed, AnchorBehind, KeylessByMember
  <2>6. c.seen.counter = roster.counter
    <3>1. c.seen.counter <= roster.counter /\ c.seen.counter + 1 > roster.counter
      BY <1>4, <2>2, CallField DEF CallOK, Newer
    <3>2. c.seen.counter \in Nat /\ roster.counter \in Nat
      BY <2>2, CallField DEF RosterInv, RosterFields, Lists
    <3> QED
      BY <3>1, <3>2
  <2>7. CallOK(d, call[d])'
    <3>1. CallOK(d, call[d])
      BY CallField
    <3>2. c.kind \in {"approve", "remove", "recover"} /\ (c.kind \in {"approve", "remove"} => c.target \in Devices)
      BY <1>1, <2>2, <3>1 DEF CallOK
    <3>3. c.kind = "approve" => row[c.target].status # "none"
      BY <1>1, <2>2, <3>1 DEF CallOK
    <3>4. c.kind = "recover" => row[d].status # "none"
      BY <1>1, <2>2, <3>1 DEF CallOK
    <3>5. c.seen.members = roster.members /\ c.seen.counter <= roster.counter
      BY <1>1, <2>2, <2>6, <3>1 DEF CallOK
    <3> QED
      BY <1>1, <1>4, <2>2, <2>3, <2>6, <3>2, <3>3, <3>4, <3>5 DEF CallOK
  <2>8. ASSUME NEW x \in Devices, x # d PROVE CallOK(x, call[x])'
    <3>1. call[x].at # "commit" /\ CallOK(x, call[x]) /\ call'[x] = call[x]
      BY <1>1, <2>3, <2>8, RosterAssumption DEF RosterInv, CallOK
    <3> QED
      BY <1>1, <3>1 DEF CallOK
  <2> QED
    BY <2>4, <2>5, <2>7, <2>8 DEF RosterInv
<1> QED
  BY <1>2, <1>3, <1>4 DEF PutChecks

(* A step that writes device rows but neither the list nor who is active. *)
LEMMA RowStep ==
    ASSUME RosterInv, NEW d \in Devices, UNCHANGED <<roster, rosterRow, removed>>,
           row' \in [Devices -> RosterRows], password' \in Nat, KeylessByMember',
           \A x \in Devices : /\ row'[x].status = "active" <=> row[x].status = "active"
                              /\ row[x].status # "none" => row'[x].status # "none",
           \A x \in Devices \ {d} : row[x].waiver = FALSE => row'[x].waiver = FALSE,
           call' \in [Devices -> Calls], \A x \in Devices \ {d} : call'[x] = call[x],
           CallOK(d, call[d])',
           anchor' \in [Devices -> Int], \A x \in Devices : anchor'[x] >= -1 /\ anchor'[x] <= roster.counter
    PROVE  RosterInv'
<1>1. RosterFields'
  BY DEF RosterInv, RosterFields
<1>2. ActiveIsListed' /\ AnchorBehind'
  BY DEF RosterInv, ActiveIsListed, AnchorBehind
<1>3. ASSUME NEW x \in Devices, x # d PROVE CallOK(x, call[x])'
  <2>1. call'[x] = call[x] /\ call[x] \in Calls /\ CallOK(x, call[x])
    BY <1>3, CallField
  <2>2. ASSUME NEW c \in Calls, c = call[x] PROVE CallOK(x, c)'
    <3>1. CallOK(x, c)
      BY <2>1, <2>2
    <3>2. c.at = "change" /\ (row[x].status = "active" \/ row[x].waiver = FALSE)
            => row'[x].status = "active" \/ row'[x].waiver = FALSE
      BY <1>3
    <3> QED
      BY <1>1, <3>1, <3>2, CallSurvives
  <2> QED
    BY <2>1, <2>2 DEF CallOK
<1> QED
  BY <1>1, <1>2, <1>3 DEF RosterInv

LEMMA EndsType ==
    ASSUME RosterInv, NEW d \in Devices, Ends(d), UNCHANGED roster
    PROVE  /\ call' \in [Devices -> Calls] /\ \A x \in Devices \ {d} : call'[x] = call[x]
           /\ CallOK(d, call[d])'
<1>1. call'[d] = NoCall /\ call' \in [Devices -> Calls] /\ \A x \in Devices \ {d} : call'[x] = call[x]
  BY NoCallType DEF Ends, RosterInv, RosterFields
<1>2. 0 <= roster'.counter
  BY DEF RosterInv, RosterFields, Lists
<1> QED
  BY <1>1, <1>2, NoCallType DEF CallOK

LEMMA KeepsType ==
    ASSUME RosterInv, NEW d \in Devices, NEW r \in Lists, Keeps(d, r), r.counter <= roster.counter
    PROVE  anchor' \in [Devices -> Int] /\ \A x \in Devices : anchor'[x] >= -1 /\ anchor'[x] <= roster.counter
BY DEF RosterInv, RosterFields, AnchorBehind, Keeps, Lists

LEMMA EnrolledRow ==
    ASSUME RosterInv, NEW d \in Devices, NEW r \in {EnrolledByLogin(d), EnrolledByRecovery(d)},
           row' = [row EXCEPT ![d] = r]
    PROVE  /\ row' \in [Devices -> RosterRows] /\ row'[d].status # "none"
           /\ \A x \in Devices : /\ row'[x].status = "active" <=> row[x].status = "active"
                                 /\ row[x].status # "none" => row'[x].status # "none"
           /\ \A x \in Devices \ {d} : row'[x] = row[x]
<1> DEFINE st == IF row[d].status \in {"none", "revoked"} THEN "pending" ELSE row[d].status
           e == [row[d] EXCEPT !.status = st, !.family = TRUE]
           g == row[d].status # "revoked"
           f == [e EXCEPT !.grant = g, !.waiver = TRUE]
<1>1. row[d] \in RosterRows /\ row \in [Devices -> RosterRows]
  BY DEF RosterInv, RosterFields
<1>2. st \in {"pending", "active"} /\ (st = "active" <=> row[d].status = "active")
  BY <1>1 DEF RosterRows
<1>3. EnrolledByLogin(d) = e /\ EnrolledByRecovery(d) = f
  BY DEF EnrolledByLogin, EnrolledByRecovery
<1>4. g \in BOOLEAN
  OBVIOUS
<1> HIDE DEF st, g
<1>5. e \in RosterRows /\ e.status = st
  BY <1>1, <1>2 DEF RosterRows
<1>6. f \in RosterRows /\ f.status = st
  BY <1>4, <1>5 DEF RosterRows
<1> HIDE DEF e, f
<1>7. r \in RosterRows /\ r.status = st
  BY <1>3, <1>5, <1>6
<1>8. row' \in [Devices -> RosterRows] /\ row'[d] = r /\ \A x \in Devices \ {d} : row'[x] = row[x]
  BY <1>1, <1>7
<1> QED
  BY <1>2, <1>7, <1>8

LEMMA LoginFinishKeeps ==
    ASSUME RosterInv, NEW d \in Devices, LoginFinish(d)
    PROVE  RosterInv'
<1>1. UNCHANGED <<roster, rosterRow, password, removed, keyless>> /\ row' = [row EXCEPT ![d] = EnrolledByLogin(d)] /\ Ends(d)
  BY DEF LoginFinish, Unanswered
<1>2. anchor' \in [Devices -> Int] /\ \A x \in Devices : anchor'[x] >= -1 /\ anchor'[x] <= roster.counter
  <2>1. call[d].seen \in Lists /\ call[d].seen.counter <= roster.counter
    BY CallField DEF CallOK
  <2>2. CASE Keeps(d, call[d].seen)
    BY <2>1, <2>2, KeepsType
  <2>3. CASE anchor' = anchor
    BY <2>3, SameAnchor
  <2> QED
    BY <2>2, <2>3 DEF LoginFinish, Unanswered
<1>3. password' \in Nat /\ KeylessByMember'
  BY <1>1 DEF RosterInv, RosterFields, KeylessByMember
<1>4. /\ row' \in [Devices -> RosterRows] 
      /\ \A x \in Devices : /\ row'[x].status = "active" <=> row[x].status = "active"
                            /\ row[x].status # "none" => row'[x].status # "none"
      /\ \A x \in Devices \ {d} : row[x].waiver = FALSE => row'[x].waiver = FALSE
  BY <1>1, EnrolledRow
<1> QED
  BY <1>1, <1>2, <1>3, <1>4, EndsType, RowStep

LEMMA RecoverKeeps ==
    ASSUME RosterInv, NEW d \in Devices, Recover(d)
    PROVE  RosterInv'
<1>1. UNCHANGED <<roster, rosterRow, password, removed, keyless>> /\ row' = [row EXCEPT ![d] = EnrolledByRecovery(d)]
  BY DEF Recover
<1>2. roster \in Lists /\ roster.counter <= roster.counter
  BY DEF RosterInv, RosterFields, Lists
<1>3. anchor' \in [Devices -> Int] /\ \A x \in Devices : anchor'[x] >= -1 /\ anchor'[x] <= roster.counter
  <2>2. CASE Keeps(d, roster)
    BY <1>2, <2>2, KeepsType
  <2>3. CASE anchor' = anchor
    BY <2>3, SameAnchor
  <2> QED
    BY <2>2, <2>3 DEF Recover, Unanswered
<1>4. password' \in Nat /\ KeylessByMember'
  BY <1>1 DEF RosterInv, RosterFields, KeylessByMember
<1>5. /\ row' \in [Devices -> RosterRows] /\ row'[d].status # "none"
      /\ \A x \in Devices : /\ row'[x].status = "active" <=> row[x].status = "active"
                            /\ row[x].status # "none" => row'[x].status # "none"
      /\ \A x \in Devices \ {d} : row[x].waiver = FALSE => row'[x].waiver = FALSE
  BY <1>1, EnrolledRow
<1>6. /\ call' \in [Devices -> Calls] /\ \A x \in Devices \ {d} : call'[x] = call[x]
      /\ CallOK(d, call[d])'
  <2>1. CASE Ends(d)
    BY <1>1, <2>1, EndsType
  <2>2. CASE call' = [call EXCEPT ![d].at = "put", ![d].seen = roster] /\ call[d].kind = "recover"
    <3> DEFINE c == [call[d] EXCEPT !.at = "put", !.seen = roster]
    <3>1. call' = [call EXCEPT ![d] = c]
      BY <2>2, CallField
    <3>2. c \in Calls /\ c.at = "put" /\ c.seen = roster /\ c.kind = "recover"
      BY <1>2, <2>2, CallField DEF Calls
    <3> HIDE DEF c
    <3>3. call' \in [Devices -> Calls] /\ call'[d] = c /\ \A x \in Devices \ {d} : call'[x] = call[x]
      BY <3>1, <3>2, CallField
    <3> QED
      BY <1>1, <1>2, <1>5, <3>2, <3>3 DEF CallOK
  <2> QED
    BY <2>1, <2>2 DEF Recover, Unanswered
<1> QED
  BY <1>1, <1>3, <1>4, <1>5, <1>6, RowStep

LEMMA PasswordChangesKeeps ==
    ASSUME RosterInv, NEW d \in Devices, PasswordChanges(d)
    PROVE  RosterInv'
<1>1. UNCHANGED <<roster, rosterRow, anchor, removed>> /\ Ends(d) /\ call[d].at = "change"
  BY DEF PasswordChanges
<1>2. CASE UNCHANGED <<password, row, keyless>>
  BY <1>1, <1>2, EndsKeeps DEF relayRows
<1>3. CASE /\ IF call[d].kind = "reset" THEN row[d].waiver ELSE call[d].key = password
           /\ password' = password + 1
           /\ row' = [x \in Devices |-> IF x = d THEN [row[x] EXCEPT !.waiver = FALSE]
                                                 ELSE [row[x] EXCEPT !.family = FALSE]]
           /\ keyless' = IF call[d].kind = "reset" THEN row[d].status ELSE keyless
  <2>1. ASSUME NEW x \in Devices
        PROVE  row'[x] \in RosterRows /\ row'[x].status = row[x].status /\ (x # d => row'[x].waiver = row[x].waiver)
    <3>1. row[x] \in RosterRows
      BY DEF RosterInv, RosterFields
    <3>2. row'[x] = IF x = d THEN [row[x] EXCEPT !.waiver = FALSE] ELSE [row[x] EXCEPT !.family = FALSE]
      BY <1>3
    <3> QED
      BY <3>1, <3>2 DEF RosterRows
  <2>2. row' \in [Devices -> RosterRows]
    <3>1. row' = [x \in Devices |-> row'[x]]
      BY <1>3
    <3> QED
      BY <2>1, <3>1
  <2>3. password' \in Nat
    BY <1>3 DEF RosterInv, RosterFields
  <2>4. KeylessByMember'
    <3>1. row[d].status = "active" \/ row[d].waiver = FALSE
      BY <1>1, CallField DEF CallOK
    <3>2. call[d].kind = "reset" => row[d].status = "active"
      BY <1>3, <3>1
    <3> QED
      BY <1>3, <3>2 DEF RosterInv, KeylessByMember
  <2>5. \A x \in Devices : /\ row'[x].status = "active" <=> row[x].status = "active"
                           /\ row[x].status # "none" => row'[x].status # "none"
    BY <2>1
  <2>6. \A x \in Devices \ {d} : row[x].waiver = FALSE => row'[x].waiver = FALSE
    BY <2>1
  <2> QED
    BY <1>1, <2>2, <2>3, <2>4, <2>5, <2>6, SameAnchor, EndsType, RowStep
<1> QED
  BY <1>2, <1>3 DEF PasswordChanges

LEMMA StampsExpireKeeps ==
    ASSUME RosterInv, NEW d \in Devices, StampsExpire(d)
    PROVE  RosterInv'
<1>1. UNCHANGED <<roster, rosterRow, password, call, anchor, removed, keyless>>
  BY DEF StampsExpire
<1> DEFINE r == [row[d] EXCEPT !.grant = FALSE, !.waiver = FALSE]
<1>2. row[d] \in RosterRows /\ row \in [Devices -> RosterRows]
  BY DEF RosterInv, RosterFields
<1>3. row' = [row EXCEPT ![d] = r]
  BY <1>2 DEF StampsExpire
<1>4. r \in RosterRows /\ r.status = row[d].status /\ r.waiver = FALSE
  BY <1>2 DEF RosterRows
<1> HIDE DEF r
<1>5. row' \in [Devices -> RosterRows] /\ row'[d] = r /\ \A x \in Devices \ {d} : row'[x] = row[x]
  BY <1>2, <1>3, <1>4
<1>6. \A x \in Devices : /\ row'[x].status = "active" <=> row[x].status = "active"
                         /\ row[x].status # "none" => row'[x].status # "none"
  BY <1>4, <1>5
<1>7. /\ call' \in [Devices -> Calls] /\ \A x \in Devices \ {d} : call'[x] = call[x]
      /\ password' \in Nat /\ KeylessByMember'
  BY <1>1 DEF RosterInv, RosterFields, KeylessByMember
<1>8. CallOK(d, call[d])'
  <2>1. CallOK(d, call[d]) /\ call' = call
    BY <1>1, CallField
  <2>2. CallOK(d, call[d])' =
          LET c == call[d] IN
          /\ c.seen.counter <= roster.counter
          /\ c.at \in {"devices", "put", "commit"} /\ c.seen.counter = roster.counter
               => c.seen.members = roster.members
          /\ c.at \in {"anchor", "devices"} => c.kind \in {"approve", "remove"}
          /\ c.at \in {"put", "commit"} => c.kind \in {"approve", "remove", "recover"}
          /\ c.kind \in {"approve", "remove"} => c.target \in Devices
          /\ c.at \in {"put", "commit"} /\ c.kind = "approve" => row'[c.target].status # "none"
          /\ c.at \in {"put", "commit"} /\ c.kind = "recover" => row'[d].status # "none"
          /\ c.at = "commit" => rosterRow = d /\ c.seen.counter = roster.counter
          /\ c.at = "change" => row'[d].status = "active" \/ row'[d].waiver = FALSE
    BY <1>1 DEF CallOK
  <2> QED
    BY <1>4, <1>5, <1>6, <2>1, <2>2 DEF CallOK
<1> QED
  BY <1>1, <1>5, <1>6, <1>7, <1>8, SameAnchor, RowStep

LEMMA PutCommitsKeeps ==
    ASSUME RosterInv, NEW d \in Devices, PutCommits(d)
    PROVE  RosterInv'
<1>1. /\ call[d].at = "commit" /\ rosterRow' = NoDevice /\ Ends(d) /\ Anchored(d) /\ UNCHANGED <<password, keyless>>
      /\ roster' = [counter |-> call[d].seen.counter + 1, members |-> Signed(d)]
      /\ row' = [x \in Devices |-> Indexed(d, x)]
      /\ removed' = (removed \cup Revokes(d)) \ (IF call[d].kind = "approve" THEN {call[d].target} ELSE {})
  BY DEF PutCommits
<1>2. /\ call[d].kind \in {"approve", "remove", "recover"} /\ rosterRow = d
      /\ call[d].seen.counter = roster.counter /\ call[d].seen.members = roster.members
      /\ call[d].kind # "recover" => call[d].target \in Devices
      /\ call[d].kind = "approve" => row[call[d].target].status # "none"
      /\ call[d].kind = "recover" => row[d].status # "none"
  BY <1>1, CallField DEF CallOK
<1>3. /\ roster.counter \in Nat /\ roster.members \subseteq Devices /\ row \in [Devices -> RosterRows]
      /\ \A x \in Devices : x \in roster.members <=> row[x].status = "active"
  BY DEF RosterInv, RosterFields, Lists, ActiveIsListed
<1>4. /\ Signed(d) \subseteq Devices /\ Revokes(d) \subseteq Devices /\ Signed(d) \cap Revokes(d) = {}
      /\ \A x \in Signed(d) : row[x].status # "none"
      /\ \A x \in roster.members : x \in Signed(d) \cup Revokes(d)
  <2>1. CASE call[d].kind = "approve"
    BY <1>2, <1>3, <2>1 DEF Signed, Revokes, Membership
  <2>2. CASE call[d].kind = "remove"
    BY <1>2, <1>3, <2>2 DEF Signed, Revokes, WithoutTarget
  <2>3. CASE call[d].kind = "recover"
    BY <1>2, <1>3, <2>3 DEF Signed, Revokes, WithSelf
  <2> QED
    BY <1>2, <2>1, <2>2, <2>3
<1>5. ASSUME NEW x \in Devices
      PROVE  /\ row'[x] \in RosterRows
             /\ row'[x].status = "active" <=> x \in Signed(d)
             /\ row[x].status # "none" => row'[x].status # "none"
             /\ row[x].waiver = FALSE => row'[x].waiver = FALSE
             /\ row[x].status = "active" => row'[x].status = "active" \/ row'[x].waiver = FALSE
  <2>0. row[x] \in RosterRows /\ row'[x] = Indexed(d, x)
    BY <1>1, <1>3
  <2>1. CASE x \in Revokes(d)
    <3>1. row'[x] = [row[x] EXCEPT !.status = "revoked", !.grant = FALSE, !.waiver = FALSE, !.family = FALSE]
      BY <1>4, <2>0, <2>1 DEF Indexed
    <3>2. row'[x] \in RosterRows /\ row'[x].status = "revoked" /\ row'[x].waiver = FALSE
      BY <2>0, <3>1 DEF RosterRows
    <3> QED
      BY <1>4, <2>1, <3>2
  <2>2. CASE x \in Signed(d)
    <3>1. row'[x] = [row[x] EXCEPT !.status = "active", !.grant = FALSE]
      BY <1>4, <2>0, <2>2 DEF Indexed
    <3>2. row'[x] \in RosterRows /\ row'[x].status = "active" /\ row'[x].waiver = row[x].waiver
      BY <2>0, <3>1 DEF RosterRows
    <3> QED
      BY <2>2, <3>2
  <2>3. CASE x \notin Revokes(d) /\ x \notin Signed(d)
    <3>1. row'[x] = row[x] \/ row'[x] = [row[x] EXCEPT !.grant = FALSE]
      BY <2>0, <2>3 DEF Indexed
    <3>2. row'[x] \in RosterRows /\ row'[x].status = row[x].status /\ row'[x].waiver = row[x].waiver
      <4>1. CASE row'[x] = row[x]
        BY <2>0, <4>1
      <4>2. CASE row'[x] = [row[x] EXCEPT !.grant = FALSE]
        BY <2>0, <4>2 DEF RosterRows
      <4> QED
        BY <3>1, <4>1, <4>2
    <3>3. row[x].status # "active"
      BY <1>3, <1>4, <2>3
    <3> QED
      BY <2>3, <3>2, <3>3
  <2> QED
    BY <2>1, <2>2, <2>3
<1>6. row' \in [Devices -> RosterRows]
  <2>1. row' = [x \in Devices |-> row'[x]]
    BY <1>1
  <2> QED
    BY <1>5, <2>1
<1>7. roster' \in Lists /\ roster'.counter = roster.counter + 1 /\ roster'.members = Signed(d)
  BY <1>1, <1>2, <1>3, <1>4 DEF Lists
<1>8. call'[d] = NoCall /\ call' \in [Devices -> Calls] /\ \A x \in Devices \ {d} : call'[x] = call[x]
  BY <1>1, NoCallType DEF Ends, RosterInv, RosterFields
<1>9. anchor' \in [Devices -> Int] /\ \A x \in Devices : anchor'[x] >= -1 /\ anchor'[x] <= roster'.counter
  <2>1. anchor' = anchor \/ anchor' = [anchor EXCEPT ![d] = roster.counter + 1]
    BY <1>1, <1>2 DEF Anchored
  <2>2. anchor \in [Devices -> Int] /\ \A x \in Devices : anchor[x] >= -1 /\ anchor[x] <= roster.counter
    BY DEF RosterInv, RosterFields, AnchorBehind
  <2> QED
    BY <1>3, <1>7, <2>1, <2>2
<1>10. RosterFields'
  <2>1. removed' \subseteq Devices /\ password' \in Nat
    BY <1>1, <1>4 DEF RosterInv, RosterFields
  <2> QED
    BY <1>1, <1>6, <1>7, <1>8, <1>9, <2>1 DEF RosterFields
<1>11. ActiveIsListed' /\ AnchorBehind' /\ KeylessByMember'
  <2>1. ActiveIsListed'
    BY <1>4, <1>5, <1>7 DEF ActiveIsListed
  <2>2. AnchorBehind'
    BY <1>9 DEF AnchorBehind
  <2>3. KeylessByMember'
    BY <1>1 DEF RosterInv, KeylessByMember
  <2> QED
    BY <2>1, <2>2, <2>3
<1>12. CallOK(d, call[d])'
  <2>1. 0 <= roster'.counter
    BY <1>3, <1>7
  <2> QED
    BY <1>8, <2>1, NoCallType DEF CallOK
<1>13. ASSUME NEW x \in Devices, x # d PROVE CallOK(x, call[x])'
  <2>1. call'[x] = call[x] /\ call[x] \in Calls /\ CallOK(x, call[x]) /\ call[x].at # "commit"
    BY <1>2, <1>8, <1>13, CallField DEF CallOK
  <2>2. roster.counter < roster'.counter
    BY <1>3, <1>7
  <2>3. ASSUME NEW c \in Calls, c = call[x] PROVE CallOK(x, c)'
    <3>1. CallOK(x, c) /\ c.at # "commit"
      BY <2>1, <2>3
    <3>2. /\ \A y \in Devices : row[y].status # "none" => row'[y].status # "none"
          /\ (row[x].status = "active" \/ row[x].waiver = FALSE)
               => row'[x].status = "active" \/ row'[x].waiver = FALSE
      BY <1>5
    <3> QED
      BY <1>10, <2>2, <3>1, <3>2, CallSurvives
  <2> QED
    BY <2>1, <2>3 DEF CallOK
<1> QED
  BY <1>10, <1>11, <1>12, <1>13 DEF RosterInv

(* Whatever sign-ins, recoveries, approvals, removals and password changes   *)
(* of any number of devices interleave (devices.rs put_roster, auth.rs):     *)
(* the devices the relay lets write are the members of the signed list, no   *)
(* client's anchor passes the relay's counter, and only a member changes the *)
(* password without its key.                                                 *)
THEOREM RosterSoundHolds == RosterSpec => []RosterSound
<1>1. RosterInit => RosterInv
  <2> SUFFICES ASSUME RosterInit PROVE RosterInv
    OBVIOUS
  <2>1. roster \in Lists /\ roster.counter = 0 /\ roster.members = {First}
    BY RosterAssumption DEF RosterInit, Lists
  <2>2. /\ row \in [Devices -> RosterRows]
        /\ \A d \in Devices : row[d].status = IF d = First THEN "active" ELSE "none"
    BY DEF RosterInit, NoRow, RosterRows
  <2>3. call \in [Devices -> Calls] /\ \A d \in Devices : call[d] = NoCall
    BY NoCallType DEF RosterInit
  <2>4. anchor \in [Devices -> Int] /\ \A d \in Devices : anchor[d] >= -1 /\ anchor[d] <= 0
    BY DEF RosterInit, SignedUp
  <2>5. RosterFields
    BY <2>1, <2>2, <2>3, <2>4 DEF RosterInit, RosterFields
  <2>6. ActiveIsListed
    BY <2>1, <2>2, RosterAssumption DEF ActiveIsListed
  <2>7. AnchorBehind /\ KeylessByMember
    BY <2>1, <2>4 DEF RosterInit, AnchorBehind, KeylessByMember
  <2>8. ASSUME NEW d \in Devices PROVE CallOK(d, call[d])
    BY <2>3, <2>5, NoCallOK
  <2> QED
    BY <2>5, <2>6, <2>7, <2>8 DEF RosterInv
<1>2. RosterInv /\ [RosterNext]_rosterVars => RosterInv'
  <2> SUFFICES ASSUME RosterInv, [RosterNext]_rosterVars PROVE RosterInv'
    OBVIOUS
  <2>1. CASE UNCHANGED rosterVars
    BY <2>1 DEF rosterVars, RosterInv, RosterFields, ActiveIsListed, AnchorBehind, KeylessByMember, CallOK
  <2>2. ASSUME NEW d \in Devices,
               \/ Begin(d) \/ LoginBegin(d) \/ NonceExpires(d) \/ LoginVerify(d) \/ LoginPop(d)
               \/ LoginFinish(d) \/ Recover(d) \/ Reanchor(d) \/ PickPending(d) \/ PutChecks(d)
               \/ PutCommits(d) \/ PasswordGate(d) \/ PasswordChanges(d) \/ StampsExpire(d) \/ SessionEnds(d)
        PROVE  RosterInv'
    BY <2>2, BeginKeeps, LoginStepsKeep, LoginFinishKeeps, RecoverKeeps, ReanchorKeeps, GatesKeep,
       PutChecksKeeps, PutCommitsKeeps, PasswordChangesKeeps, StampsExpireKeeps, SessionEndsKeeps
  <2> QED
    BY <2>1, <2>2 DEF RosterNext
<1>3. RosterInv => RosterSound
  BY DEF RosterInv, RosterFields, RosterSound, RosterTypeOK, Lists, RosterRows
<1> QED
  BY <1>1, <1>2, <1>3, PTL DEF RosterSpec

------------------------------------------------------------------------------
(* The snapshots.  A row holds a seal with its own baseline, no level above  *)
(* the floor, and is paid for byte by byte; a call past its gate presents a  *)
(* level the floor admits, and what a joiner was given stays there.          *)
Links  == [seal : Seals \cup {NoSeal}, baseline : Seals \cup {NoSeal}]
Publishes  == [at : {"idle", "gate", "read", "insert", "head", "swap", "put"},
           seal : Seals \cup {NoSeal}, gen : Nat, found : Seals \cup {NoSeal}]
Joins  == [at : {"idle", "head", "joined"}, gen : Nat, row : Links]
Bytes(g, n) == {g} \X (1..n)
Admitted(s) == s \in Seals /\ SealLevel[s] <= snapFloor

RowsOK ==
  /\ \A g \in Recorded : snapRows[g] = RowOf(snapRows[g].seal) /\ Admitted(snapRows[g].seal)
  /\ \E b \in Nat : \A g \in Recorded : g <= b
PublishOK(c) ==
  /\ c.at # "idle" => c.seal \in Seals /\ c.gen \in Generations
  /\ c.at \notin {"idle", "gate"} => Admitted(c.seal)
  /\ c.at \in {"head", "swap"} => c.found \in Seals
JoinOK ==
  joiner.at # "idle" => /\ joiner.row = RowOf(joiner.row.seal) /\ Admitted(joiner.row.seal)
                        /\ joiner.at = "joined" => joiner.row.seal \in objects
BytesPaid == IsFiniteSet(Pinned) /\ RowsMetered
SnapInv   == SnapTypeOK /\ RowsOK /\ (\A d \in Seeds : PublishOK(seedCalls[d])) /\ JoinOK /\ BytesPaid

LEMMA RowBytes ==
    ASSUME NEW g, NEW n \in Nat
    PROVE  IsFiniteSet(Bytes(g, n)) /\ Cardinality(Bytes(g, n)) = n
<1>1. IsFiniteSet({g}) /\ Cardinality({g}) = 1
  BY FS_Singleton
<1>2. IsFiniteSet(1..n) /\ Cardinality(1..n) = n
  BY FS_Interval
<1>3. IsFiniteSet({g} \X (1..n)) /\ Cardinality({g} \X (1..n)) = Cardinality({g}) * Cardinality(1..n)
  BY <1>1, <1>2, FS_Product
<1>4. 1 * n = n
  OBVIOUS
<1> QED
  BY <1>1, <1>2, <1>3, <1>4 DEF Bytes

LEMMA HighestOf ==
    ASSUME NEW S \in SUBSET Nat, S # {}, NEW b \in Nat, \A n \in S : n <= b
    PROVE  Max(S) \in S
<1> DEFINE T == {b - n : n \in S}
<1>1. T \in SUBSET Nat /\ T # {}
  <2>1. \A n \in S : b - n \in Nat
    OBVIOUS
  <2> QED
    BY <2>1
<1>2. PICK t \in T : \A u \in T : ~(<<u, t>> \in OpToRel(<, Nat))
  BY <1>1, NatLessThanWellFounded, WFMin
<1>3. \A u \in T : ~(u < t)
  BY <1>1, <1>2 DEF OpToRel
<1>4. PICK m \in S : t = b - m
  OBVIOUS
<1>5. m \in Nat
  BY <1>4
<1>6. \A n \in S : m >= n
  <2> SUFFICES ASSUME NEW n \in S PROVE m >= n
    OBVIOUS
  <2>1. b - n \in T /\ n \in Nat
    OBVIOUS
  <2>2. ~(b - n < b - m)
    BY <1>3, <1>4, <2>1
  <2> HIDE DEF T
  <2> QED
    BY <1>5, <2>1, <2>2
<1> HIDE DEF T
<1> QED
  BY <1>4, <1>6 DEF Max

(* The one way a row changes: to a seal the floor admits, paid for by what   *)
(* it pins more than the row before it.                                      *)
LEMMA RowWritten ==
    ASSUME SnapInv, NEW g \in Generations, NEW s \in Seals, NEW before \in Nat, NEW paid \in Nat,
           Admitted(s), snapRows' = [snapRows EXCEPT ![g] = RowOf(s)],
           IF g \in Recorded THEN before = SealSize[snapRows[g].seal] ELSE before = 0,
           SealSize[s] <= before + paid,
           storedBytes' = storedBytes + paid, storedBytes' <= Quota, UNCHANGED snapFloor
    PROVE  /\ snapRows' \in [Generations -> Links] /\ storedBytes' \in 0..Quota
           /\ RowsOK' /\ BytesPaid'
<1>0. /\ snapRows \in [Generations -> Links] /\ storedBytes \in Nat /\ Quota \in Nat
      /\ SealSize \in [Seals -> Nat] /\ g \in Nat /\ NoSeal \notin Seals
  BY SnapAssumption DEF SnapInv, SnapTypeOK, Links, SnapAssumption
<1>1. RowOf(s) \in Links /\ RowOf(s) # Vacant /\ RowOf(s).seal = s
  BY <1>0 DEF RowOf, Links, Vacant
<1>2. snapRows' \in [Generations -> Links] /\ snapRows'[g] = RowOf(s)
      /\ \A h \in Generations \ {g} : snapRows'[h] = snapRows[h]
  BY <1>0, <1>1
<1>3. Recorded' = Recorded \cup {g}
  BY <1>1, <1>2 DEF Recorded
<1>4. RowsOK'
  <2>1. \A h \in Recorded : snapRows[h] = RowOf(snapRows[h].seal) /\ Admitted(snapRows[h].seal)
    BY DEF SnapInv, RowsOK
  <2>2. \A h \in Recorded' : snapRows'[h] = RowOf(snapRows'[h].seal)
    BY <1>1, <1>2, <1>3, <2>1 DEF Recorded
  <2>3. \A h \in Recorded' : snapRows'[h].seal \in Seals /\ SealLevel[snapRows'[h].seal] <= snapFloor'
    BY <1>1, <1>2, <1>3, <2>1 DEF Recorded, Admitted
  <2>4. PICK b \in Nat : \A h \in Recorded : h <= b
    BY DEF SnapInv, RowsOK
  <2>5. PICK top \in Nat : top = IF g <= b THEN b ELSE g
    BY <1>0
  <2>6. \A h \in Recorded' : h \in Nat /\ h <= top
    <3>1. \A h \in Recorded : h \in Nat
      BY SnapAssumption DEF Recorded, SnapAssumption
    <3> QED
      BY <1>0, <1>3, <2>4, <2>5, <3>1
  <2> QED
    BY <2>2, <2>3, <2>6 DEF RowsOK, Admitted
<1>5. SealSize[s] \in Nat
  BY <1>0
<1>6. Pinned' = (Pinned \ Bytes(g, before)) \cup Bytes(g, SealSize[s])
  <2>1. \A h \in Recorded' : snapRows'[h].seal = IF h = g THEN s ELSE snapRows[h].seal
    BY <1>1, <1>2, <1>3 DEF Recorded
  <2>2. Pinned' = UNION {Bytes(h, SealSize[snapRows'[h].seal]) : h \in Recorded'}
    BY DEF Pinned, Bytes
  <2>3. Pinned = UNION {Bytes(h, SealSize[snapRows[h].seal]) : h \in Recorded}
    BY DEF Pinned, Bytes
  <2>4. \A x, h, n : x \in Bytes(h, n) => x[1] = h
    BY DEF Bytes
  <2>5. \A x : x \in Pinned' <=> \E h \in Recorded' : x \in Bytes(h, SealSize[snapRows'[h].seal])
    BY <2>2
  <2>6. \A x : x \in Pinned <=> \E h \in Recorded : x \in Bytes(h, SealSize[snapRows[h].seal])
    BY <2>3
  <2>7. \A x : x \in Bytes(g, SealSize[s]) => x \in Pinned'
    BY <1>3, <2>1, <2>5
  <2>8. \A x \in Pinned : x \in Bytes(g, before) \/ x \in Pinned'
    BY <1>3, <2>1, <2>5, <2>6
  <2>9. \A x \in Pinned' : x \in Bytes(g, SealSize[s]) \/ (x \in Pinned /\ x \notin Bytes(g, before))
    BY <1>3, <2>1, <2>4, <2>5, <2>6
  <2> QED
    BY <2>7, <2>8, <2>9
<1>7. Bytes(g, before) \subseteq Pinned
  BY DEF Pinned, Bytes
<1>8. (Pinned \ Bytes(g, before)) \cap Bytes(g, SealSize[s]) = {}
  <2>1. \A x \in Pinned : x[1] = g => x \in Bytes(g, before)
    BY DEF Pinned, Bytes
  <2>2. \A x \in Bytes(g, SealSize[s]) : x[1] = g
    BY DEF Bytes
  <2> QED
    BY <2>1, <2>2
<1>9. IsFiniteSet(Pinned') /\ Cardinality(Pinned') = Cardinality(Pinned) - before + SealSize[s]
  <2>1. IsFiniteSet(Bytes(g, before)) /\ Cardinality(Bytes(g, before)) = before
    BY RowBytes
  <2>2. IsFiniteSet(Bytes(g, SealSize[s])) /\ Cardinality(Bytes(g, SealSize[s])) = SealSize[s]
    BY <1>5, RowBytes
  <2>3. IsFiniteSet(Pinned)
    BY DEF SnapInv, BytesPaid
  <2> DEFINE Rest == Pinned \ Bytes(g, before)
             New  == Bytes(g, SealSize[s])
  <2>4. Pinned \cap Bytes(g, before) = Bytes(g, before) /\ Rest \cap New = {}
    BY <1>7, <1>8
  <2>5. IsFiniteSet(Rest) /\ Cardinality(Rest) = Cardinality(Pinned) - Cardinality(Pinned \cap Bytes(g, before))
    BY <2>3, FS_Difference
  <2>6. Cardinality(Rest) = Cardinality(Pinned) - before
    BY <2>1, <2>4, <2>5
  <2>7. IsFiniteSet(New)
    BY <2>2
  <2>8. Pinned' = Rest \cup New
    BY <1>6
  <2> HIDE DEF Rest, New
  <2>9. /\ IsFiniteSet(Rest \cup New)
        /\ Cardinality(Rest \cup New) = Cardinality(Rest) + Cardinality(New) - Cardinality(Rest \cap New)
    BY <2>5, <2>7, FS_Union
  <2>10. Cardinality(Rest \cap New) = 0
    BY <2>4, FS_EmptySet
  <2>11. Cardinality(New) = SealSize[s]
    BY <2>2 DEF New
  <2>12. Cardinality(Pinned) \in Nat
    BY <2>3, FS_CardinalityType
  <2> QED
    BY <1>5, <2>6, <2>8, <2>9, <2>10, <2>11, <2>12
<1>10. BytesPaid'
  <2>1. Cardinality(Pinned) \in Nat /\ Cardinality(Pinned) <= storedBytes
    BY FS_CardinalityType DEF SnapInv, BytesPaid, RowsMetered
  <2> QED
    BY <1>0, <1>5, <1>9, <2>1 DEF BytesPaid, RowsMetered
<1> QED
  BY <1>0, <1>2, <1>4, <1>10

------------------------------------------------------------------------------
(* What a step leaves alone stays sound, under a floor that only rises.      *)
LEMMA RowsStay ==
    ASSUME SnapInv, UNCHANGED <<snapRows, storedBytes>>, snapFloor' \in Nat, snapFloor <= snapFloor'
    PROVE  RowsOK' /\ BytesPaid'
<1>1. SealLevel \in [Seals -> Nat] /\ snapFloor \in Nat
  BY SnapAssumption DEF SnapInv, SnapTypeOK, SnapAssumption
<1>2. Recorded' = Recorded
  BY DEF Recorded
<1>3. RowsOK'
  <2>1. \A g \in Recorded : snapRows[g] = RowOf(snapRows[g].seal) /\ snapRows[g].seal \in Seals
                            /\ SealLevel[snapRows[g].seal] <= snapFloor
    BY DEF SnapInv, RowsOK, Admitted
  <2>2. \A g \in Recorded : SealLevel[snapRows[g].seal] <= snapFloor'
    BY <1>1, <2>1
  <2>3. \E b \in Nat : \A g \in Recorded : g <= b
    BY DEF SnapInv, RowsOK
  <2> QED
    BY <1>2, <2>1, <2>2, <2>3 DEF RowsOK, Admitted
<1>4. BytesPaid'
  <2>1. Pinned' = Pinned
    BY <1>2 DEF Pinned
  <2> QED
    BY <2>1 DEF SnapInv, BytesPaid, RowsMetered
<1> QED
  BY <1>3, <1>4

LEMMA PublishesStay ==
    ASSUME SnapInv, UNCHANGED seedCalls, snapFloor' \in Nat, snapFloor <= snapFloor'
    PROVE  \A e \in Seeds : PublishOK(seedCalls[e])'
<1>1. SealLevel \in [Seals -> Nat] /\ snapFloor \in Nat
  BY SnapAssumption DEF SnapInv, SnapTypeOK, SnapAssumption
<1> TAKE e \in Seeds
<1>2. PublishOK(seedCalls[e])
  BY DEF SnapInv
<1>3. Admitted(seedCalls[e].seal) => seedCalls[e].seal \in Seals /\ SealLevel[seedCalls[e].seal] <= snapFloor'
  BY <1>1 DEF Admitted
<1> QED
  BY <1>2, <1>3 DEF PublishOK, Admitted

LEMMA JoinStays ==
    ASSUME SnapInv, UNCHANGED joiner, objects \subseteq objects', snapFloor' \in Nat, snapFloor <= snapFloor'
    PROVE  JoinOK'
<1>1. SealLevel \in [Seals -> Nat] /\ snapFloor \in Nat
  BY SnapAssumption DEF SnapInv, SnapTypeOK, SnapAssumption
<1>2. JoinOK
  BY DEF SnapInv
<1>3. Admitted(joiner.row.seal) => joiner.row.seal \in Seals /\ SealLevel[joiner.row.seal] <= snapFloor'
  BY <1>1 DEF Admitted
<1> QED
  BY <1>2, <1>3 DEF JoinOK, Admitted

(* One call of a seed moves on. *)
LEMMA CallMoves ==
    ASSUME SnapInv, NEW d \in Seeds, NEW c \in Publishes, PublishOK(c),
           seedCalls' = [seedCalls EXCEPT ![d] = c], UNCHANGED snapFloor
    PROVE  seedCalls' \in [Seeds -> Publishes] /\ \A e \in Seeds : PublishOK(seedCalls[e])'
<1>1. seedCalls \in [Seeds -> Publishes] /\ \A e \in Seeds : PublishOK(seedCalls[e])
  BY DEF SnapInv, SnapTypeOK, Publishes
<1>2. seedCalls' \in [Seeds -> Publishes] /\ seedCalls'[d] = c /\ \A e \in Seeds \ {d} : seedCalls'[e] = seedCalls[e]
  BY <1>1
<1> QED
  BY <1>1, <1>2 DEF PublishOK, Admitted

LEMMA CallReturns ==
    ASSUME SnapInv, NEW d \in Seeds, Returned(d), UNCHANGED snapFloor
    PROVE  seedCalls' \in [Seeds -> Publishes] /\ \A e \in Seeds : PublishOK(seedCalls[e])'
<1>1. Quiet \in Publishes /\ PublishOK(Quiet)
  BY DEF Quiet, Publishes, PublishOK
<1> QED
  BY <1>1, CallMoves DEF Returned

LEMMA CallProceeds ==
    ASSUME SnapInv, NEW d \in Seeds, NEW to \in {"read", "insert", "head", "swap", "put"}, Moved(d, to),
           seedCalls[d].at # "idle", Admitted(seedCalls[d].seal),
           to \in {"head", "swap"} => seedCalls[d].found \in Seals, UNCHANGED snapFloor
    PROVE  seedCalls' \in [Seeds -> Publishes] /\ \A e \in Seeds : PublishOK(seedCalls[e])'
<1>1. seedCalls \in [Seeds -> Publishes] /\ PublishOK(seedCalls[d])
  BY DEF SnapInv, SnapTypeOK, Publishes
<1> PICK c : c = [seedCalls[d] EXCEPT !.at = to]
  OBVIOUS
<1>2. c \in Publishes /\ c.at = to /\ c.seal = seedCalls[d].seal /\ c.gen = seedCalls[d].gen /\ c.found = seedCalls[d].found
  BY <1>1 DEF Publishes
<1>3. PublishOK(c)
  BY <1>1, <1>2 DEF PublishOK
<1>4. seedCalls' = [seedCalls EXCEPT ![d] = c]
  BY <1>1 DEF Moved
<1> QED
  BY <1>2, <1>3, <1>4, CallMoves

(* What an upload reported done adds to the history. *)
LEMMA ToldType ==
    ASSUME SnapInv, NEW d \in Seeds, seedCalls[d].at # "idle",
           told' = [told EXCEPT ![seedCalls[d].gen] = @ \cup {seedCalls[d].seal}]
    PROVE  told' \in [Generations -> SUBSET Seals]
<1>1. seedCalls[d].seal \in Seals /\ seedCalls[d].gen \in Generations
  BY DEF SnapInv, PublishOK
<1> QED
  BY <1>1 DEF SnapInv, SnapTypeOK

(* The steps of a call that write no row. *)
LEMMA CallSteps ==
    ASSUME SnapInv, NEW d \in Seeds,
           \/ \E s \in Seals, g \in Generations : BeginPublish(d, s, g)
           \/ PresignGate(d) \/ PresignRead(d) \/ PresignHead(d) \/ PutDone(d) \/ PutCut(d)
    PROVE  SnapInv'
<1>0. /\ SnapTypeOK /\ snapFloor \in Nat /\ seedCalls[d] \in Publishes /\ PublishOK(seedCalls[d])
      /\ Generations \subseteq Nat /\ NoSeal \notin Seals
  BY SnapAssumption DEF SnapInv, SnapTypeOK, Publishes, SnapAssumption
<1>1. UNCHANGED <<snapRows, storedBytes, snapFloor, joiner>> /\ objects \subseteq objects'
  BY DEF BeginPublish, PresignGate, PresignRead, PresignHead, PutDone, PutCut
<1>2. RowsOK' /\ BytesPaid' /\ JoinOK'
  BY <1>0, <1>1, RowsStay, JoinStays
<1>3. objects' \subseteq Seals /\ flying' \subseteq Seals /\ told' \in [Generations -> SUBSET Seals]
  <2>1. CASE PutDone(d)
    BY <1>0, <2>1, ToldType DEF PutDone, Succeeds, SnapTypeOK, PublishOK
  <2>2. CASE PutCut(d)
    BY <1>0, <2>2 DEF PutCut, SnapTypeOK, PublishOK
  <2>3. CASE PresignHead(d)
    BY <1>0, <2>3, ToldType DEF PresignHead, Succeeds, SnapTypeOK
  <2>4. CASE (\E s \in Seals, g \in Generations : BeginPublish(d, s, g)) \/ PresignGate(d) \/ PresignRead(d)
    BY <1>0, <2>4 DEF BeginPublish, PresignGate, PresignRead, SnapTypeOK
  <2> QED
    BY <2>1, <2>2, <2>3, <2>4
<1>4. seedCalls' \in [Seeds -> Publishes] /\ \A e \in Seeds : PublishOK(seedCalls[e])'
  <2>1. ASSUME NEW s \in Seals, NEW g \in Generations, BeginPublish(d, s, g)
        PROVE  seedCalls' \in [Seeds -> Publishes] /\ \A e \in Seeds : PublishOK(seedCalls[e])'
    <3> PICK c : c = [at |-> "gate", seal |-> s, gen |-> g, found |-> NoSeal]
      OBVIOUS
    <3>1. c \in Publishes /\ PublishOK(c)
      BY <1>0 DEF Publishes, PublishOK
    <3> QED
      BY <1>1, <2>1, <3>1, CallMoves DEF BeginPublish
  <2>2. CASE PresignGate(d)
    <3>1. CASE Publishable(seedCalls[d].seal)
      <4>1. Moved(d, "read") /\ seedCalls[d].at # "idle" /\ Admitted(seedCalls[d].seal)
        BY <1>0, <2>2, <3>1 DEF PresignGate, Publishable, Admitted, PublishOK
      <4> QED
        BY <1>1, <4>1, CallProceeds
    <3>2. CASE ~Publishable(seedCalls[d].seal)
      BY <1>1, <2>2, <3>2, CallReturns DEF PresignGate
    <3> QED
      BY <3>1, <3>2
  <2>3. CASE PresignRead(d)
    <3> DEFINE found == snapRows[seedCalls[d].gen].seal
    <3> PICK c : c = [seedCalls[d] EXCEPT !.found = found, !.at = IF found = NoSeal THEN "insert" ELSE "head"]
      OBVIOUS
    <3>1. seedCalls[d].at = "read" /\ seedCalls[d].seal \in Seals /\ seedCalls[d].gen \in Generations
          /\ Admitted(seedCalls[d].seal)
      BY <1>0, <2>3 DEF PresignRead, PublishOK
    <3>2. found \in Seals \cup {NoSeal}
      BY <1>0, <3>1 DEF SnapTypeOK
    <3>3. /\ c \in Publishes /\ c.seal = seedCalls[d].seal /\ c.gen = seedCalls[d].gen
          /\ c.found = found /\ c.at = IF found = NoSeal THEN "insert" ELSE "head"
      BY <1>0, <3>2 DEF Publishes
    <3>4. PublishOK(c)
      BY <3>1, <3>2, <3>3 DEF PublishOK
    <3>5. seedCalls' = [seedCalls EXCEPT ![d] = c]
      BY <1>0, <2>3 DEF PresignRead, SnapTypeOK
    <3> QED
      BY <1>1, <3>3, <3>4, <3>5, CallMoves
  <2>4. CASE PresignHead(d)
    <3>1. seedCalls[d].at = "head" /\ Admitted(seedCalls[d].seal) /\ seedCalls[d].found \in Seals
      BY <1>0, <2>4 DEF PresignHead, PublishOK
    <3>2. Returned(d) \/ Moved(d, "put") \/ Moved(d, "swap")
      BY <2>4 DEF PresignHead, Succeeds
    <3> QED
      BY <1>1, <3>1, <3>2, CallProceeds, CallReturns
  <2>5. CASE PutDone(d) \/ PutCut(d)
    BY <1>1, <2>5, CallReturns DEF PutDone, PutCut, Succeeds
  <2> QED
    BY <2>1, <2>2, <2>3, <2>4, <2>5
<1> QED
  BY <1>0, <1>1, <1>2, <1>3, <1>4 DEF SnapInv, SnapTypeOK, Publishes

(* The two transactions that write a row. *)
LEMMA RowSteps ==
    ASSUME SnapInv, NEW d \in Seeds, PresignInsert(d) \/ PresignSwap(d)
    PROVE  SnapInv'
<1> PICK c : c = seedCalls[d]
  OBVIOUS
<1>0. /\ SnapTypeOK /\ snapFloor \in Nat /\ storedBytes \in Nat /\ Quota \in Nat /\ c \in Publishes
      /\ Generations \subseteq Nat /\ NoSeal \notin Seals /\ SealSize \in [Seals -> Nat]
  BY SnapAssumption DEF SnapInv, SnapTypeOK, Publishes, SnapAssumption
<1>1. UNCHANGED <<snapFloor, joiner, objects, flying, told, snapUsed>>
  BY DEF PresignInsert, PresignSwap
<1>2. JoinOK'
  BY <1>0, <1>1, JoinStays
<1>3. c.at \in {"insert", "swap"} /\ c.seal \in Seals /\ c.gen \in Generations /\ Admitted(c.seal)
      /\ (c.at = "swap" => c.found \in Seals)
  BY DEF SnapInv, PresignInsert, PresignSwap, PublishOK
<1>4. CASE Returned(d) /\ UNCHANGED <<snapRows, storedBytes>>
  <2>1. RowsOK' /\ BytesPaid'
    BY <1>0, <1>1, <1>4, RowsStay
  <2>2. seedCalls' \in [Seeds -> Publishes] /\ \A e \in Seeds : PublishOK(seedCalls[e])'
    BY <1>1, <1>4, CallReturns
  <2> QED
    BY <1>0, <1>1, <1>2, <1>4, <2>1, <2>2 DEF SnapInv, SnapTypeOK, Publishes
<1>5. ASSUME NEW before \in Nat, NEW paid \in Nat, Charged(paid), Moved(d, "put"),
             snapRows' = [snapRows EXCEPT ![c.gen] = RowOf(c.seal)],
             IF c.gen \in Recorded THEN before = SealSize[snapRows[c.gen].seal] ELSE before = 0,
             SealSize[c.seal] <= before + paid
      PROVE  SnapInv'
  <2>1. storedBytes' = storedBytes + paid /\ storedBytes' <= Quota
    BY <1>5 DEF Charged
  <2>2. snapRows' \in [Generations -> Links] /\ storedBytes' \in 0..Quota /\ RowsOK' /\ BytesPaid'
    BY <1>1, <1>3, <1>5, <2>1, RowWritten
  <2>3. seedCalls' \in [Seeds -> Publishes] /\ \A e \in Seeds : PublishOK(seedCalls[e])'
    BY <1>1, <1>3, <1>5, CallProceeds
  <2> QED
    BY <1>0, <1>1, <1>2, <2>2, <2>3 DEF SnapInv, SnapTypeOK, Publishes, Links
<1>6. CASE PresignInsert(d)
  <2>1. CASE snapRows[c.gen] = Vacant /\ Charged(SealSize[c.seal])
             /\ snapRows' = [snapRows EXCEPT ![c.gen] = RowOf(c.seal)] /\ Moved(d, "put")
    <3>1. c.gen \notin Recorded
      BY <2>1 DEF Recorded
    <3>2. SealSize[c.seal] \in Nat /\ SealSize[c.seal] <= 0 + SealSize[c.seal]
      BY <1>0, <1>3
    <3> QED
      BY <1>5, <2>1, <3>1, <3>2
  <2> QED
    BY <1>4, <1>6, <2>1 DEF PresignInsert
<1>7. CASE PresignSwap(d)
  <2>1. CASE snapRows[c.gen].seal = c.found /\ Charged(GrowthOver(c.seal, c.found))
             /\ snapRows' = [snapRows EXCEPT ![c.gen] = RowOf(c.seal)] /\ Moved(d, "put")
    <3>1. c.found \in Seals
      BY <1>3, <1>7 DEF PresignSwap
    <3>2. c.gen \in Recorded
      BY <1>0, <1>3, <2>1, <3>1 DEF Recorded, Vacant
    <3>3. SealSize[c.seal] \in Nat /\ SealSize[c.found] \in Nat
      BY <1>0, <1>3, <3>1
    <3>4. GrowthOver(c.seal, c.found) \in Nat
          /\ SealSize[c.seal] <= SealSize[c.found] + GrowthOver(c.seal, c.found)
      BY <3>3 DEF GrowthOver
    <3> QED
      BY <1>5, <2>1, <3>2, <3>3, <3>4
  <2> QED
    BY <1>4, <1>7, <2>1 DEF PresignSwap
<1> QED
  BY <1>6, <1>7

(* The object store, the floor and the joiner. *)
LEMMA StoreSideSteps ==
    ASSUME SnapInv, (\E s \in Seals : PutLands(s)) \/ RaiseFloor \/ HeadRow \/ HeadObject \/ JoinAgain
    PROVE  SnapInv'
<1>0. SnapTypeOK /\ snapFloor \in Nat /\ Generations \subseteq Nat /\ NoSeal \notin Seals
  BY SnapAssumption DEF SnapInv, SnapTypeOK, SnapAssumption
<1>1. /\ UNCHANGED <<snapRows, storedBytes, seedCalls, told>> /\ objects \subseteq objects'
      /\ snapFloor' \in Nat /\ snapFloor <= snapFloor'
  BY <1>0 DEF PutLands, RaiseFloor, HeadRow, HeadObject, JoinAgain
<1>2. RowsOK' /\ BytesPaid' /\ \A e \in Seeds : PublishOK(seedCalls[e])'
  BY <1>1, RowsStay, PublishesStay
<1>3. objects' \subseteq Seals /\ flying' \subseteq Seals
  BY <1>0 DEF SnapTypeOK, PutLands, RaiseFloor, HeadRow, HeadObject, JoinAgain
<1>4. joiner' \in Joins /\ JoinOK'
  <2>0. joiner \in Joins /\ JoinOK
    BY <1>0 DEF SnapInv, SnapTypeOK, Joins, Links
  <2>1. CASE UNCHANGED joiner
    BY <1>1, <2>0, <2>1, JoinStays
  <2>2. CASE joiner' = Outside
    BY <2>2 DEF Outside, Joins, Links, Vacant, JoinOK
  <2>3. CASE HeadRow
    <3>1. PICK g : g = Max(Recorded)
      OBVIOUS
    <3>2. g \in Recorded
      <4>1. PICK b \in Nat : \A h \in Recorded : h <= b
        BY DEF SnapInv, RowsOK
      <4>2. Recorded \in SUBSET Nat /\ Recorded # {}
        BY <1>0, <2>3 DEF Recorded, HeadRow
      <4> QED
        BY <3>1, <4>1, <4>2, HighestOf
    <3>3. snapRows[g] = RowOf(snapRows[g].seal) /\ Admitted(snapRows[g].seal) /\ snapRows[g] \in Links /\ g \in Nat
      BY <1>0, <3>2 DEF SnapInv, RowsOK, SnapTypeOK, Recorded, Links
    <3>4. joiner' = [at |-> "head", gen |-> g, row |-> snapRows[g]] /\ UNCHANGED snapFloor
      BY <2>3, <3>1 DEF HeadRow
    <3> QED
      BY <3>3, <3>4 DEF Joins, JoinOK, Admitted
  <2>4. CASE HeadObject
    <3>1. PICK present \in BOOLEAN : HeadAnswers(joiner.row.seal, present)
                                     /\ joiner' = IF present THEN [joiner EXCEPT !.at = "joined"] ELSE Outside
      BY <2>4 DEF HeadObject
    <3>2. CASE present
      <4>1. joiner.row.seal \in objects /\ UNCHANGED <<objects, snapFloor>>
        BY <2>4, <3>1, <3>2 DEF HeadAnswers, HeadObject
      <4>2. joiner' = [joiner EXCEPT !.at = "joined"] /\ joiner.at = "head"
        BY <2>4, <3>1, <3>2 DEF HeadObject
      <4>3. joiner' \in Joins /\ joiner'.row = joiner.row
        BY <2>0, <4>2 DEF Joins
      <4> QED
        BY <2>0, <4>1, <4>2, <4>3 DEF JoinOK, Admitted
    <3> QED
      BY <2>2, <3>1, <3>2
  <2> QED
    BY <2>1, <2>2, <2>3, <2>4 DEF PutLands, RaiseFloor, JoinAgain
<1> QED
  BY <1>0, <1>1, <1>2, <1>3, <1>4 DEF SnapInv, SnapTypeOK, Joins, Links

LEMMA SnapStart ==
    ASSUME SnapInit
    PROVE  SnapInv
<1>0. {Quota} \subseteq Nat
  BY SnapAssumption DEF SnapAssumption
<1>1. SnapTypeOK
  BY <1>0 DEF SnapInit, SnapTypeOK, Vacant, Quiet, Outside
<1>2. Recorded = {} /\ Pinned = {}
  BY DEF SnapInit, Recorded, Pinned
<1>3. RowsOK
  BY <1>2 DEF RowsOK
<1>4. BytesPaid
  BY <1>2, FS_EmptySet DEF BytesPaid, RowsMetered, SnapInit
<1>5. (\A d \in Seeds : PublishOK(seedCalls[d])) /\ JoinOK
  BY DEF SnapInit, PublishOK, JoinOK, Quiet, Outside
<1> QED
  BY <1>1, <1>3, <1>4, <1>5 DEF SnapInv

LEMMA SnapSafe ==
    ASSUME SnapInv
    PROVE  SnapshotsSound
BY DEF SnapInv, SnapshotsSound, JoinComplete, JoinOK, RowOf, Admitted, BytesPaid

(* A joiner that is given a snapshot finds its bytes, resumes at their own   *)
(* baseline and meets nothing above the floor it passed; and what the rows   *)
(* pin is metered, through every race of presign's outside reads.            *)
THEOREM SnapshotsSoundHolds == SnapSpec => []SnapshotsSound
<1>1. SnapInit => SnapInv
  BY SnapStart
<1>2. SnapInv /\ [SnapNext]_snapVars => SnapInv'
  <2> SUFFICES ASSUME SnapInv, [SnapNext]_snapVars PROVE SnapInv'
    OBVIOUS
  <2>1. CASE UNCHANGED snapVars
    <3>1. RowsOK' /\ BytesPaid' /\ JoinOK' /\ \A e \in Seeds : PublishOK(seedCalls[e])'
      BY <2>1, RowsStay, PublishesStay, JoinStays DEF snapVars, SnapInv, SnapTypeOK
    <3> QED
      BY <2>1, <3>1 DEF snapVars, SnapInv, SnapTypeOK
  <2>2. CASE SnapNext
    BY <2>2, CallSteps, RowSteps, StoreSideSteps DEF SnapNext
  <2> QED
    BY <2>1, <2>2
<1>3. SnapInv => SnapshotsSound
  BY SnapSafe
<1> QED
  BY <1>1, <1>2, <1>3, PTL DEF SnapSpec

------------------------------------------------------------------------------
(* The fetch registry.  A part waits at most once; what waits has a task     *)
(* that waits and a slot; a task past its work has left an outcome on the    *)
(* slot it took.                                                             *)
Waiting == [task : Tasks, part : Parts, high : BOOLEAN]
Outcomes == {"none", "absent", "nospace", "retry", "tampered", "cancelled", "fetched"}
TaskStates == [at : {"new", "queued", "start", "work", "finish", "remove", "release", "over"},
               part : Parts \cup {"none"}, slot : Tasks \cup {None}, result : Outcomes]
SlotStates == [queued : BOOLEAN, outcome : Outcomes, cancel : BOOLEAN]
Once(q) == \A i, j \in 1..Len(q) : q[i].part = q[j].part => i = j

(* What becomes of a queue q: r is q without its entry at k, with e put in    *)
(* before k, without the part p, with e in some place, with all who wait in   *)
(* some order.                                                                *)
TakenOf(q, k, r) ==
  /\ r \in Seq(Waiting) /\ Len(r) = Len(q) - 1
  /\ \A i \in 1..(k - 1) : r[i] = q[i]
  /\ \A i \in k..(Len(q) - 1) : r[i] = q[i + 1]
PutAt(q, k, e, r) ==
  /\ r \in Seq(Waiting) /\ Len(r) = Len(q) + 1 /\ r[k] = e
  /\ \A i \in 1..(k - 1) : r[i] = q[i]
  /\ \A i \in (k + 1)..(Len(q) + 1) : r[i] = q[i - 1]
LeftOut(q, p, r) ==
  /\ r \in Seq(Waiting) /\ Once(r) /\ (r # <<>> => q # <<>>)
  /\ \A i \in 1..Len(r) : r[i].part # p /\ \E j \in 1..Len(q) : r[i] = q[j]
  /\ \A j \in 1..Len(q) : q[j].part # p => \E i \in 1..Len(r) : r[i] = q[j]
Joined(q, e, r) ==
  /\ r \in Seq(Waiting) /\ Once(r)
  /\ \A i \in 1..Len(r) : r[i] = e \/ \E j \in 1..Len(q) : r[i] = q[j]
  /\ \A j \in 1..Len(q) : \E i \in 1..Len(r) : r[i] = q[j]
  /\ \E i \in 1..Len(r) : r[i] = e
Reordered(q, r) ==
  /\ r \in Seq(Waiting) /\ Once(r) /\ (r # <<>> => q # <<>>)
  /\ \A i \in 1..Len(r) : \E j \in 1..Len(q) : r[i].task = q[j].task /\ r[i].part = q[j].part
  /\ \A j \in 1..Len(q) : \E i \in 1..Len(r) : r[i].part = q[j].part

LEMMA TakenOut ==
    ASSUME NEW q \in Seq(Waiting), NEW k \in 1..Len(q)
    PROVE  TakenOf(q, k, RemoveAt(q, k))
<1>0. Len(q) \in Nat /\ k \in Int /\ \A i \in 1..Len(q) : q[i] \in Waiting
  BY LenProperties
<1>a. PICK a : a = SubSeq(q, 1, k - 1)
  OBVIOUS
<1>b. PICK b : b = SubSeq(q, k + 1, Len(q))
  OBVIOUS
<1>1. a \in Seq(Waiting) /\ Len(a) = k - 1 /\ \A i \in 1..(k - 1) : a[i] = q[i]
  BY <1>0, <1>a, SubSeqProperties
<1>2. b \in Seq(Waiting) /\ Len(b) = Len(q) - k /\ \A i \in 1..(Len(q) - k) : b[i] = q[k + i]
  <2>1. k + 1 \in Int /\ Len(q) \in Int /\ \A i \in (k + 1)..Len(q) : q[i] \in Waiting
    BY <1>0
  <2>2. /\ b \in Seq(Waiting) /\ Len(b) = IF k + 1 <= Len(q) THEN Len(q) - (k + 1) + 1 ELSE 0
        /\ \A i \in 1..(Len(q) - (k + 1) + 1) : b[i] = q[(k + 1) + i - 1]
    BY <1>b, <2>1, SubSeqProperties
  <2>3. Len(b) = Len(q) - k /\ Len(q) - (k + 1) + 1 = Len(q) - k
    BY <1>0, <2>2
  <2>4. \A i \in 1..(Len(q) - k) : (k + 1) + i - 1 = k + i
    BY <1>0
  <2> QED
    BY <2>2, <2>3, <2>4
<1>3. RemoveAt(q, k) = a \o b
  BY <1>a, <1>b DEF RemoveAt
<1>4. /\ a \o b \in Seq(Waiting) /\ Len(a \o b) = Len(a) + Len(b)
      /\ \A i \in 1..(Len(a) + Len(b)) : (a \o b)[i] = IF i <= Len(a) THEN a[i] ELSE b[i - Len(a)]
  BY <1>1, <1>2, ConcatProperties
<1>5. \A i \in 1..(k - 1) : (a \o b)[i] = q[i]
  BY <1>0, <1>1, <1>2, <1>4
<1>6. \A i \in k..(Len(q) - 1) : (a \o b)[i] = q[i + 1]
  <2> SUFFICES ASSUME NEW i \in k..(Len(q) - 1) PROVE (a \o b)[i] = q[i + 1]
    OBVIOUS
  <2>1. i \in 1..(Len(a) + Len(b)) /\ ~(i <= Len(a)) /\ i - Len(a) \in 1..(Len(q) - k)
    BY <1>0, <1>1, <1>2
  <2>2. k + (i - Len(a)) = i + 1
    BY <1>0, <1>1
  <2> QED
    BY <1>2, <1>4, <2>1, <2>2
<1>r. PICK r : r = a \o b
  OBVIOUS
<1>7. r \in Seq(Waiting) /\ Len(r) = Len(q) - 1
  BY <1>r, <1>0, <1>1, <1>2, <1>4
<1>8. TakenOf(q, k, r)
  BY <1>r, <1>5, <1>6, <1>7 DEF TakenOf
<1> QED
  BY <1>r, <1>3, <1>8

LEMMA PutIn ==
    ASSUME NEW q \in Seq(Waiting), NEW k \in 1..(Len(q) + 1), NEW e \in Waiting
    PROVE  PutAt(q, k, e, InsertAt(q, k, e))
<1>0. Len(q) \in Nat /\ k \in Int /\ \A i \in 1..Len(q) : q[i] \in Waiting
  BY LenProperties
<1>a. PICK a : a = SubSeq(q, 1, k - 1)
  OBVIOUS
<1>b. PICK b : b = SubSeq(q, k, Len(q))
  OBVIOUS
<1>c. PICK c : c = <<e>>
  OBVIOUS
<1>1. a \in Seq(Waiting) /\ Len(a) = k - 1 /\ \A i \in 1..(k - 1) : a[i] = q[i]
  BY <1>0, <1>a, SubSeqProperties
<1>2. b \in Seq(Waiting) /\ Len(b) = Len(q) - k + 1 /\ \A i \in 1..(Len(q) - k + 1) : b[i] = q[k + i - 1]
  <2>1. Len(q) \in Int /\ \A i \in k..Len(q) : q[i] \in Waiting
    BY <1>0
  <2>2. /\ b \in Seq(Waiting) /\ Len(b) = IF k <= Len(q) THEN Len(q) - k + 1 ELSE 0
        /\ \A i \in 1..(Len(q) - k + 1) : b[i] = q[k + i - 1]
    BY <1>0, <1>b, <2>1, SubSeqProperties
  <2> QED
    BY <1>0, <2>2
<1>3. c \in Seq(Waiting) /\ Len(c) = 1 /\ c[1] = e
  BY <1>c
<1>d. PICK d : d = a \o c
  OBVIOUS
<1>4. /\ d \in Seq(Waiting) /\ Len(d) = Len(a) + Len(c)
      /\ \A i \in 1..(Len(a) + Len(c)) : d[i] = IF i <= Len(a) THEN a[i] ELSE c[i - Len(a)]
  BY <1>1, <1>3, <1>d, ConcatProperties
<1>5. d \in Seq(Waiting) /\ Len(d) = k /\ d[k] = e /\ \A i \in 1..(k - 1) : d[i] = q[i]
  <2>1. k \in 1..(Len(a) + Len(c)) /\ ~(k <= Len(a)) /\ k - Len(a) = 1 /\ Len(a) + Len(c) = k
    BY <1>0, <1>1, <1>3
  <2>2. d[k] = e
    BY <1>3, <1>4, <2>1
  <2>3. \A i \in 1..(k - 1) : i \in 1..(Len(a) + Len(c)) /\ i <= Len(a)
    BY <1>0, <1>1, <1>3
  <2> QED
    BY <1>1, <1>4, <2>1, <2>2, <2>3
<1>6. /\ d \o b \in Seq(Waiting) /\ Len(d \o b) = Len(d) + Len(b)
      /\ \A i \in 1..(Len(d) + Len(b)) : (d \o b)[i] = IF i <= Len(d) THEN d[i] ELSE b[i - Len(d)]
  BY <1>2, <1>5, ConcatProperties
<1>7. InsertAt(q, k, e) = d \o b
  BY <1>a, <1>b, <1>c, <1>d DEF InsertAt
<1>8. (\A i \in 1..(k - 1) : (d \o b)[i] = q[i]) /\ (d \o b)[k] = e /\ Len(d \o b) = Len(q) + 1
  BY <1>0, <1>2, <1>5, <1>6
<1>9. \A i \in (k + 1)..(Len(q) + 1) : (d \o b)[i] = q[i - 1]
  <2> SUFFICES ASSUME NEW i \in (k + 1)..(Len(q) + 1) PROVE (d \o b)[i] = q[i - 1]
    OBVIOUS
  <2>1. i \in 1..(Len(d) + Len(b)) /\ ~(i <= Len(d)) /\ i - Len(d) \in 1..(Len(q) - k + 1)
    BY <1>0, <1>2, <1>5
  <2>2. k + (i - Len(d)) - 1 = i - 1
    BY <1>0, <1>5
  <2> QED
    BY <1>2, <1>6, <2>1, <2>2
<1>r. PICK r : r = d \o b
  OBVIOUS
<1>10. PutAt(q, k, e, r)
  BY <1>r, <1>6, <1>8, <1>9 DEF PutAt
<1> QED
  BY <1>r, <1>7, <1>10

(* retain: the others stay, in any order of reading.                         *)
LEMMA WithoutFacts ==
    ASSUME NEW q \in Seq(Waiting), Once(q), NEW p
    PROVE  LeftOut(q, p, Without(q, p))
<1>r. PICK r : r = Without(q, p)
  OBVIOUS
<1>0. Len(q) \in Nat
  BY LenProperties
<1>1. CASE Places(q, p) = {}
  <2>1. r = q
    BY <1>r, <1>1 DEF Without
  <2>2. \A i \in 1..Len(q) : q[i].part # p
    BY <1>1 DEF Places
  <2>3. LeftOut(q, p, r)
    BY <2>1, <2>2 DEF LeftOut
  <2> QED
    BY <1>r, <2>3
<1>2. CASE Places(q, p) # {}
  <2>1. PICK k \in Places(q, p) : k = CHOOSE i \in Places(q, p) : TRUE
    BY <1>2
  <2>2. k \in 1..Len(q) /\ q[k].part = p /\ r = RemoveAt(q, k)
    BY <1>r, <1>2, <2>1 DEF Places, Without
  <2>3. /\ r \in Seq(Waiting) /\ Len(r) = Len(q) - 1
        /\ \A i \in 1..(k - 1) : r[i] = q[i]
        /\ \A i \in k..(Len(q) - 1) : r[i] = q[i + 1]
    <3>1. TakenOf(q, k, r)
      BY <2>2, TakenOut
    <3> QED
      BY <3>1 DEF TakenOf
  <2>4. \A i \in 1..Len(r) : \E j \in 1..Len(q) : j # k /\ r[i] = q[j] /\ (i < k => j = i) /\ (i >= k => j = i + 1)
    <3> SUFFICES ASSUME NEW i \in 1..Len(r)
                 PROVE  \E j \in 1..Len(q) : j # k /\ r[i] = q[j] /\ (i < k => j = i) /\ (i >= k => j = i + 1)
      OBVIOUS
    <3>1. CASE i < k
      <4>1. i \in 1..Len(q) /\ i # k /\ r[i] = q[i] /\ ~(i >= k)
        BY <1>0, <2>2, <2>3, <3>1
      <4> QED
        BY <4>1
    <3>2. CASE ~(i < k)
      <4>1. i + 1 \in 1..Len(q) /\ i + 1 # k /\ r[i] = q[i + 1]
        BY <1>0, <2>2, <2>3, <3>2
      <4> QED
        BY <3>2, <4>1
    <3> QED
      BY <3>1, <3>2
  <2>5. \A j \in 1..Len(q) : j # k => \E i \in 1..Len(r) : r[i] = q[j]
    <3> SUFFICES ASSUME NEW j \in 1..Len(q), j # k PROVE \E i \in 1..Len(r) : r[i] = q[j]
      OBVIOUS
    <3>1. CASE j < k
      <4>1. j \in 1..Len(r) /\ r[j] = q[j]
        BY <1>0, <2>2, <2>3, <3>1
      <4> QED
        BY <4>1
    <3>2. CASE ~(j < k)
      <4>1. j - 1 \in 1..Len(r) /\ j - 1 \in k..(Len(q) - 1) /\ (j - 1) + 1 = j
        BY <1>0, <2>2, <2>3, <3>2
      <4>2. r[j - 1] = q[j]
        BY <2>3, <4>1
      <4> QED
        BY <4>1, <4>2
    <3> QED
      BY <3>1, <3>2
  <2>6. \A j \in 1..Len(q) : j # k => q[j].part # p
    BY <2>2 DEF Once
  <2>7. Once(r)
    <3> SUFFICES ASSUME NEW i \in 1..Len(r), NEW l \in 1..Len(r), r[i].part = r[l].part PROVE i = l
      BY DEF Once
    <3>1. PICK j \in 1..Len(q) : r[i] = q[j] /\ (i < k => j = i) /\ (i >= k => j = i + 1)
      BY <2>4
    <3>2. PICK m \in 1..Len(q) : r[l] = q[m] /\ (l < k => m = l) /\ (l >= k => m = l + 1)
      BY <2>4
    <3>3. j = m
      BY <3>1, <3>2 DEF Once
    <3>4. i \in Int /\ l \in Int /\ k \in Int
      BY <2>2
    <3> QED
      BY <3>1, <3>2, <3>3, <3>4
  <2>8. \A i \in 1..Len(r) : r[i].part # p /\ \E j \in 1..Len(q) : r[i] = q[j]
    BY <2>4, <2>6
  <2>9. \A j \in 1..Len(q) : q[j].part # p => \E i \in 1..Len(r) : r[i] = q[j]
    BY <2>2, <2>5
  <2>10. q # <<>>
    BY <1>0, <2>2
  <2>11. LeftOut(q, p, r)
    BY <2>3, <2>7, <2>8, <2>9, <2>10 DEF LeftOut
  <2> QED
    BY <1>r, <2>11
<1> QED
  BY <1>1, <1>2

LEMMA EnqueueFacts ==
    ASSUME NEW q \in Seq(Waiting), Once(q), NEW e \in Waiting, \A j \in 1..Len(q) : q[j].part # e.part,
           NEW n \in 0..Len(q)
    PROVE  Joined(q, e, Enqueue(q, e, n))
<1>r. PICK r : r = Enqueue(q, e, n)
  OBVIOUS
<1>0. Len(q) \in Nat
  BY LenProperties
<1>1. \E k \in 1..(Len(q) + 1) :
         /\ r \in Seq(Waiting) /\ Len(r) = Len(q) + 1 /\ r[k] = e
         /\ \A i \in 1..(k - 1) : r[i] = q[i]
         /\ \A i \in (k + 1)..(Len(q) + 1) : r[i] = q[i - 1]
  <2>1. CASE e.high
    <3>1. n + 1 \in 1..(Len(q) + 1) /\ r = InsertAt(q, n + 1, e)
      BY <1>0, <1>r, <2>1 DEF Enqueue
    <3>2. PICK k \in 1..(Len(q) + 1) : k = n + 1
      BY <3>1
    <3>3. r = InsertAt(q, k, e)
      BY <3>1, <3>2
    <3>5. k \in 1..(Len(q) + 1)
      BY <3>2
    <3>6. PutAt(q, k, e, InsertAt(q, k, e))
      BY <3>5, PutIn
    <3>7. PutAt(q, k, e, r)
      BY <3>3, <3>6
    <3>4. /\ r \in Seq(Waiting) /\ Len(r) = Len(q) + 1 /\ r[k] = e
          /\ \A i \in 1..(k - 1) : r[i] = q[i]
          /\ \A i \in (k + 1)..(Len(q) + 1) : r[i] = q[i - 1]
      BY <3>7 DEF PutAt
    <3> QED
      BY <3>4, <3>5, Zenon
  <2>2. CASE ~e.high
    <3>1. r = Append(q, e)
      BY <1>r, <2>2 DEF Enqueue
    <3>2. r \in Seq(Waiting) /\ Len(r) = Len(q) + 1 /\ r[Len(q) + 1] = e /\ \A i \in 1..Len(q) : r[i] = q[i]
      BY <3>1, AppendProperties
    <3>3. PICK k \in 1..(Len(q) + 1) : k = Len(q) + 1
      BY <1>0
    <3>4. \A i \in 1..(k - 1) : r[i] = q[i]
      BY <1>0, <3>2, <3>3
    <3>5. \A i \in (k + 1)..(Len(q) + 1) : r[i] = q[i - 1]
      BY <1>0, <3>3
    <3> QED
      BY <3>2, <3>3, <3>4, <3>5
  <2> QED
    BY <2>1, <2>2
<1>2. PICK k \in 1..(Len(q) + 1) :
         /\ r \in Seq(Waiting) /\ Len(r) = Len(q) + 1 /\ r[k] = e
         /\ \A i \in 1..(k - 1) : r[i] = q[i]
         /\ \A i \in (k + 1)..(Len(q) + 1) : r[i] = q[i - 1]
  BY <1>1
<1>3. \A i \in 1..Len(r) : i = k \/ \E j \in 1..Len(q) : r[i] = q[j] /\ (i < k => j = i) /\ (i > k => j = i - 1)
  <2> SUFFICES ASSUME NEW i \in 1..Len(r), i # k
               PROVE  \E j \in 1..Len(q) : r[i] = q[j] /\ (i < k => j = i) /\ (i > k => j = i - 1)
    OBVIOUS
  <2>1. CASE i < k
    <3>1. i \in 1..Len(q) /\ r[i] = q[i] /\ ~(i > k)
      BY <1>0, <1>2, <2>1
    <3> QED
      BY <3>1
  <2>2. CASE i > k
    <3>1. i - 1 \in 1..Len(q) /\ r[i] = q[i - 1] /\ ~(i < k)
      BY <1>0, <1>2, <2>2
    <3> QED
      BY <3>1
  <2> QED
    BY <1>0, <1>2, <2>1, <2>2
<1>4. \A j \in 1..Len(q) : \E i \in 1..Len(r) : r[i] = q[j]
  <2> SUFFICES ASSUME NEW j \in 1..Len(q) PROVE \E i \in 1..Len(r) : r[i] = q[j]
    OBVIOUS
  <2>1. CASE j < k
    <3>1. j \in 1..Len(r) /\ r[j] = q[j]
      BY <1>0, <1>2, <2>1
    <3> QED
      BY <3>1
  <2>2. CASE ~(j < k)
    <3>1. j + 1 \in 1..Len(r) /\ j + 1 \in (k + 1)..(Len(q) + 1) /\ (j + 1) - 1 = j
      BY <1>0, <1>2, <2>2
    <3>2. r[j + 1] = q[j]
      BY <1>2, <3>1
    <3> QED
      BY <3>1, <3>2
  <2> QED
    BY <2>1, <2>2
<1>5. Once(r)
  <2> SUFFICES ASSUME NEW i \in 1..Len(r), NEW l \in 1..Len(r), r[i].part = r[l].part PROVE i = l
    BY DEF Once
  <2>1. CASE i = k \/ l = k
    <3>1. r[i].part = e.part /\ r[l].part = e.part
      BY <1>2, <2>1
    <3> QED
      BY <1>3, <2>1, <3>1
  <2>2. CASE i # k /\ l # k
    <3>1. PICK j \in 1..Len(q) : r[i] = q[j] /\ (i < k => j = i) /\ (i > k => j = i - 1)
      BY <1>3, <2>2
    <3>2. PICK m \in 1..Len(q) : r[l] = q[m] /\ (l < k => m = l) /\ (l > k => m = l - 1)
      BY <1>3, <2>2
    <3>3. j = m
      BY <3>1, <3>2 DEF Once
    <3>4. i \in Int /\ l \in Int /\ k \in Int
      BY <1>2
    <3> QED
      BY <2>2, <3>1, <3>2, <3>3, <3>4
  <2> QED
    BY <2>1, <2>2
<1>6. k \in 1..Len(r)
  BY <1>0, <1>2
<1>7. Joined(q, e, r)
  BY <1>2, <1>3, <1>4, <1>5, <1>6 DEF Joined
<1> QED
  BY <1>r, <1>7

(* The high entries fit before any that is not.                              *)
LEMMA HighEndFits ==
    ASSUME fifo \in Seq(Waiting)
    PROVE  /\ HighEnd \in 0..Len(fifo)
           /\ \A k \in 1..Len(fifo) : ~fifo[k].high => HighEnd \in 0..(Len(fifo) - 1)
<1> DEFINE H == {i \in 1..Len(fifo) : fifo[i].high}
<1>0. Len(fifo) \in Nat /\ HighEnd = Cardinality(H)
  BY LenProperties DEF HighEnd
<1>1. IsFiniteSet(1..Len(fifo)) /\ Cardinality(1..Len(fifo)) = Len(fifo)
  <2>1. PICK l \in Nat : l = Len(fifo)
    BY <1>0
  <2>2. IsFiniteSet(1..l) /\ Cardinality(1..l) = l
    BY FS_Interval
  <2> QED
    BY <2>1, <2>2
<1>2. IsFiniteSet(H) /\ Cardinality(H) <= Len(fifo) /\ Cardinality(H) \in Nat
  BY <1>1, FS_Subset, FS_CardinalityType
<1>3. ASSUME NEW k \in 1..Len(fifo), ~fifo[k].high PROVE Cardinality(H) <= Len(fifo) - 1
  <2>1. H \subseteq (1..Len(fifo)) \ {k}
    BY <1>3
  <2>2. IsFiniteSet((1..Len(fifo)) \ {k}) /\ Cardinality((1..Len(fifo)) \ {k}) = Len(fifo) - 1
    BY <1>1, <1>3, FS_RemoveElement
  <2> QED
    BY <2>1, <2>2, FS_Subset
<1> HIDE DEF H
<1>4. HighEnd \in 0..Len(fifo)
  BY <1>0, <1>2
<1>5. \A k \in 1..Len(fifo) : ~fifo[k].high => HighEnd \in 0..(Len(fifo) - 1)
  <2> SUFFICES ASSUME NEW k \in 1..Len(fifo), ~fifo[k].high PROVE HighEnd \in 0..(Len(fifo) - 1)
    OBVIOUS
  <2>1. Cardinality(H) <= Len(fifo) - 1
    BY <1>3
  <2> QED
    BY <1>0, <1>2, <2>1
<1> QED
  BY <1>4, <1>5

(* A promotion keeps who waits.                                              *)
LEMMA MovedFacts ==
    ASSUME NEW f \in Seq(Waiting), Once(f), NEW k \in 1..Len(f), NEW e \in Waiting,
           e.part = f[k].part, e.task = f[k].task, NEW n \in 0..(Len(f) - 1)
    PROVE  Reordered(f, Enqueue(RemoveAt(f, k), e, n))
<1>a. PICK q : q = RemoveAt(f, k)
  OBVIOUS
<1>b. PICK p : p = f[k].part
  OBVIOUS
<1>1. Places(f, p) = {k}
  BY <1>b DEF Places, Once
<1>2. q = Without(f, p)
  <2>1. (CHOOSE i \in {k} : TRUE) = k
    OBVIOUS
  <2> QED
    BY <1>a, <1>1, <2>1 DEF Without
<1>3. /\ q \in Seq(Waiting) /\ Once(q)
      /\ \A i \in 1..Len(q) : q[i].part # p /\ \E j \in 1..Len(f) : q[i] = f[j]
      /\ \A j \in 1..Len(f) : f[j].part # p => \E i \in 1..Len(q) : q[i] = f[j]
  <2>1. LeftOut(f, p, q)
    BY <1>2, WithoutFacts
  <2> QED
    BY <2>1 DEF LeftOut
<1>4. n \in 0..Len(q)
  <2>1. TakenOf(f, k, q)
    BY <1>a, TakenOut
  <2> QED
    BY <2>1 DEF TakenOf
<1>5. \A j \in 1..Len(q) : q[j].part # e.part
  BY <1>b, <1>3
<1>r. PICK r : r = Enqueue(q, e, n)
  OBVIOUS
<1>6. Joined(q, e, r)
  BY <1>r, <1>3, <1>4, <1>5, EnqueueFacts
<1>7. /\ r \in Seq(Waiting) /\ Once(r)
      /\ \A i \in 1..Len(r) : r[i] = e \/ \E j \in 1..Len(q) : r[i] = q[j]
      /\ \A j \in 1..Len(q) : \E i \in 1..Len(r) : r[i] = q[j]
      /\ \E i \in 1..Len(r) : r[i] = e
  BY <1>6 DEF Joined
<1>8. \A i \in 1..Len(r) : \E j \in 1..Len(f) : r[i].task = f[j].task /\ r[i].part = f[j].part
  <2> SUFFICES ASSUME NEW i \in 1..Len(r)
               PROVE  \E j \in 1..Len(f) : r[i].task = f[j].task /\ r[i].part = f[j].part
    OBVIOUS
  <2>1. CASE r[i] = e
    BY <2>1
  <2>2. CASE \E l \in 1..Len(q) : r[i] = q[l]
    <3>1. PICK l \in 1..Len(q) : r[i] = q[l]
      BY <2>2
    <3>2. PICK j \in 1..Len(f) : q[l] = f[j]
      BY <1>3
    <3> QED
      BY <3>1, <3>2
  <2> QED
    BY <1>7, <2>1, <2>2
<1>9. \A j \in 1..Len(f) : \E i \in 1..Len(r) : r[i].part = f[j].part
  <2> SUFFICES ASSUME NEW j \in 1..Len(f) PROVE \E i \in 1..Len(r) : r[i].part = f[j].part
    OBVIOUS
  <2>1. CASE f[j].part = p
    BY <1>b, <1>7, <2>1
  <2>2. CASE f[j].part # p
    <3>1. PICK l \in 1..Len(q) : q[l] = f[j]
      BY <1>3, <2>2
    <3>2. PICK i \in 1..Len(r) : r[i] = q[l]
      BY <1>7
    <3> QED
      BY <3>1, <3>2
  <2> QED
    BY <2>1, <2>2
<1>10. f # <<>>
  <2>1. Len(f) \in Nat
    BY LenProperties
  <2> QED
    BY <2>1
<1>11. Reordered(f, r)
  BY <1>7, <1>8, <1>9, <1>10 DEF Reordered
<1> QED
  BY <1>a, <1>r, <1>11

LEMMA PromotedFacts ==
    ASSUME fifo \in Seq(Waiting), Once(fifo), NEW p
    PROVE  Reordered(fifo, Promoted(p))
<1>0. Len(fifo) \in Nat
  BY LenProperties
<1>h. PICK here : here = {i \in 1..Len(fifo) : fifo[i].part = p /\ ~fifo[i].high}
  OBVIOUS
<1>1. CASE ~player.high \/ here = {}
  <2>1. Promoted(p) = fifo
    BY <1>h, <1>1 DEF Promoted
  <2>2. Reordered(fifo, fifo)
    BY DEF Reordered
  <2> QED
    BY <2>1, <2>2
<1>2. CASE player.high /\ here # {}
  <2>1. PICK k \in here : k = CHOOSE i \in here : TRUE
    BY <1>2
  <2>2. PICK e : e = [fifo[k] EXCEPT !.high = TRUE]
    OBVIOUS
  <2>3. k \in 1..Len(fifo) /\ fifo[k].part = p /\ ~fifo[k].high /\ fifo[k] \in Waiting
    BY <1>h, <2>1, LenProperties
  <2>4. e \in Waiting /\ e.part = fifo[k].part /\ e.task = fifo[k].task
    BY <2>2, <2>3 DEF Waiting
  <2>5. PICK n : n = HighEnd
    OBVIOUS
  <2>6. n \in 0..(Len(fifo) - 1)
    BY <2>3, <2>5, HighEndFits
  <2>7. Promoted(p) = Enqueue(RemoveAt(fifo, k), e, n)
    BY <1>h, <1>2, <2>1, <2>2, <2>5 DEF Promoted
  <2>8. Reordered(fifo, Enqueue(RemoveAt(fifo, k), e, n))
    BY <2>3, <2>4, <2>6, MovedFacts
  <2> QED
    BY <2>7, <2>8
<1> QED
  BY <1>1, <1>2

(* The registry's invariant: PermitsExact and PendingServed with the types,   *)
(* what a task's place says of it, and what is known of whoever waits.        *)
FetchTypes ==
  /\ holds \in [Parts -> Tasks \cup {None}] /\ slots \in [Tasks -> SlotStates]
  /\ tasks \in [Tasks -> TaskStates] /\ fifo \in Seq(Waiting) /\ running \in Nat /\ onDisk \subseteq Parts
  /\ player \in [at : {"idle", "look", "starting"}, part : Parts \cup {"none"}, high : BOOLEAN, task : Tasks \cup {None}]
  /\ fetchUsed \in [submit : 0..MaxSubmits, poke : Nat]
PlayerOK == player.at = "look" => player.part \in Parts /\ fetchUsed.submit < MaxSubmits
TasksOK ==
  \A t \in Tasks :
    /\ t > fetchUsed.submit => tasks[t].at = "new"
    /\ tasks[t].at # "new" => tasks[t].part \in Parts
    /\ tasks[t].at \in {"work", "finish", "remove", "release"} => tasks[t].slot \in Tasks
    /\ tasks[t].at = "finish" => tasks[t].result # "none"
    /\ tasks[t].at \in {"remove", "release"} => slots[tasks[t].slot].outcome # "none"
QueueOK ==
  /\ Once(fifo)
  /\ \A i \in 1..Len(fifo) : /\ tasks[fifo[i].task].at = "queued" /\ tasks[fifo[i].task].part = fifo[i].part
                             /\ holds[fifo[i].part] # None
FetchInv == FetchTypes /\ PlayerOK /\ TasksOK /\ QueueOK /\ PermitsExact /\ PendingServed

(* What is removed from the registry leaves the queue with it.               *)
LEMMA RemovedKeeps ==
    ASSUME FetchTypes, QueueOK, PendingServed, NEW p \in Parts, Removed(p),
           tasks' \in [Tasks -> TaskStates], slots' \in [Tasks -> SlotStates],
           \A t \in Tasks : /\ tasks'[t].part = tasks[t].part /\ tasks'[t].slot = tasks[t].slot
                            /\ \/ tasks'[t].at = tasks[t].at
                               \/ tasks[t].at = "remove" /\ tasks'[t].at = "release",
           \A s \in Tasks : slots'[s].outcome = slots[s].outcome
    PROVE  /\ holds' \in [Parts -> Tasks \cup {None}] /\ fifo' \in Seq(Waiting) /\ QueueOK' /\ PendingServed'
           /\ (fifo' # <<>> => fifo # <<>>) /\ LiveTask' = LiveTask
<1>1. /\ holds' \in [Parts -> Tasks \cup {None}] /\ holds'[p] = None
      /\ \A o \in Parts : o # p => holds'[o] = holds[o]
  BY DEF Removed, FetchTypes
<1>2. /\ fifo' \in Seq(Waiting) /\ Once(fifo') /\ (fifo' # <<>> => fifo # <<>>)
      /\ \A i \in 1..Len(fifo') : fifo'[i].part # p /\ \E j \in 1..Len(fifo) : fifo'[i] = fifo[j]
      /\ \A j \in 1..Len(fifo) : fifo[j].part # p => \E i \in 1..Len(fifo') : fifo'[i] = fifo[j]
  <2>r. PICK r : r = Without(fifo, p)
    OBVIOUS
  <2>1. fifo \in Seq(Waiting) /\ Once(fifo) /\ fifo' = r
    BY <2>r DEF Removed, FetchTypes, QueueOK
  <2>2. /\ r \in Seq(Waiting) /\ Once(r) /\ (r # <<>> => fifo # <<>>)
        /\ \A i \in 1..Len(r) : r[i].part # p /\ \E j \in 1..Len(fifo) : r[i] = fifo[j]
        /\ \A j \in 1..Len(fifo) : fifo[j].part # p => \E i \in 1..Len(r) : r[i] = fifo[j]
    <3>1. LeftOut(fifo, p, r)
      BY <2>r, <2>1, WithoutFacts
    <3> QED
      BY <3>1 DEF LeftOut
  <2> QED
    BY <2>1, <2>2
<1>3. \A j \in 1..Len(fifo) : fifo[j] \in Waiting
  BY LenProperties DEF FetchTypes
<1>4. LiveTask' = LiveTask
  BY DEF LiveTask
<1>5. QueueOK'
  <2> SUFFICES ASSUME NEW i \in 1..Len(fifo')
               PROVE  /\ tasks'[fifo'[i].task].at = "queued" /\ tasks'[fifo'[i].task].part = fifo'[i].part
                      /\ holds'[fifo'[i].part] # None
    BY <1>2 DEF QueueOK
  <2>1. PICK j \in 1..Len(fifo) : fifo'[i] = fifo[j]
    BY <1>2
  <2>2. fifo'[i].part # p /\ fifo[j].task \in Tasks /\ fifo[j].part \in Parts
    BY <1>2, <1>3 DEF Waiting
  <2>3. tasks[fifo[j].task].at = "queued" /\ tasks[fifo[j].task].part = fifo[j].part /\ holds[fifo[j].part] # None
    BY DEF QueueOK
  <2>4. tasks'[fifo[j].task].at = "queued" /\ tasks'[fifo[j].task].part = fifo[j].part
    BY <2>2, <2>3
  <2> QED
    BY <1>1, <2>1, <2>2, <2>3, <2>4
<1>6. PendingServed'
  <2> SUFFICES ASSUME NEW o \in Parts, holds'[o] # None, slots'[holds'[o]].outcome = "none"
               PROVE  \/ \E i \in 1..Len(fifo') : fifo'[i].part = o
                      \/ \E t \in LiveTask' : tasks'[t].part = o /\ (tasks'[t].at = "start" \/ tasks'[t].slot = holds'[o])
    BY DEF PendingServed, Waits
  <2>1. o # p /\ holds'[o] = holds[o] /\ holds[o] \in Tasks
    BY <1>1 DEF FetchTypes
  <2>2. slots[holds[o]].outcome = "none"
    BY <2>1
  <2>3. CASE \E j \in 1..Len(fifo) : fifo[j].part = o
    BY <1>2, <2>1, <2>3
  <2>4. CASE \E t \in LiveTask : tasks[t].part = o /\ (tasks[t].at = "start" \/ tasks[t].slot = holds[o])
    <3>1. PICK t \in LiveTask : tasks[t].part = o /\ (tasks[t].at = "start" \/ tasks[t].slot = holds[o])
      BY <2>4
    <3>2. t \in Tasks
      BY DEF LiveTask
    <3>3. tasks'[t].part = o /\ (tasks'[t].at = "start" \/ tasks'[t].slot = holds'[o])
      BY <2>1, <3>1, <3>2
    <3> QED
      BY <1>4, <3>3
  <2> QED
    BY <2>1, <2>2, <2>3, <2>4 DEF PendingServed, Waits
<1> QED
  BY <1>1, <1>2, <1>4, <1>5, <1>6

LEMMA TailFacts ==
    ASSUME NEW q \in Seq(Waiting), Once(q), q # <<>>
    PROVE  /\ Tail(q) \in Seq(Waiting) /\ Once(Tail(q)) /\ Head(q) \in Waiting
           /\ \A i \in 1..Len(Tail(q)) : Tail(q)[i].part # Head(q).part /\ \E j \in 1..Len(q) : Tail(q)[i] = q[j]
           /\ \A j \in 1..Len(q) : q[j] = Head(q) \/ \E i \in 1..Len(Tail(q)) : Tail(q)[i] = q[j]
           /\ \E j \in 1..Len(q) : Head(q) = q[j]
<1>1. Len(q) \in Nat \ {0} /\ 1 \in 1..Len(q) /\ Head(q) = q[1] /\ Head(q) \in Waiting
  BY EmptySeq, LenProperties, HeadTailProperties
<1>2. PICK r : r = Tail(q)
  OBVIOUS
<1>3. r \in Seq(Waiting) /\ Len(r) = Len(q) - 1 /\ \A i \in 1..Len(r) : r[i] = q[i + 1]
  BY <1>2, HeadTailProperties
<1>4. \A i \in 1..Len(r) : i + 1 \in 1..Len(q) /\ i + 1 # 1
  BY <1>1, <1>3
<1>5. \A j \in 1..Len(q) : j # 1 => j - 1 \in 1..Len(r) /\ (j - 1) + 1 = j
  BY <1>1, <1>3
<1>6. Once(r)
  BY <1>3, <1>4 DEF Once
<1>7. \A i \in 1..Len(r) : r[i].part # Head(q).part /\ \E j \in 1..Len(q) : r[i] = q[j]
  BY <1>1, <1>3, <1>4 DEF Once
<1>8. \A j \in 1..Len(q) : q[j] = Head(q) \/ \E i \in 1..Len(r) : r[i] = q[j]
  BY <1>1, <1>3, <1>5
<1> QED
  BY <1>1, <1>2, <1>3, <1>6, <1>7, <1>8

LEMMA LiveFinite == IsFiniteSet(LiveTask) /\ Cardinality(LiveTask) \in Nat
<1>1. LiveTask \subseteq 1..MaxSubmits
  BY DEF LiveTask, Tasks
<1>2. MaxSubmits \in Int
  BY FetchAssumption
<1>3. IsFiniteSet(1..MaxSubmits)
  BY <1>2, FS_Interval
<1>4. IsFiniteSet(LiveTask)
  BY <1>1, <1>3, FS_Subset
<1> QED
  BY <1>4, FS_CardinalityType

(* A permit is given back, or passes to whoever waits first.                 *)
LEMMA PermitPasses ==
    ASSUME FetchInv, NEW t \in Tasks, tasks[t].at \in {"start", "release"},
           NEW later, later \in [Tasks -> SlotStates], TaskFinished(t, later),
           \A s \in Tasks : later[s].outcome = slots[s].outcome \/ later[s].outcome # "none",
           \A p \in Parts : holds[p] # None /\ later[holds[p]].outcome = "none" /\ tasks[t].part = p =>
                              tasks[t].at # "start" /\ tasks[t].slot # holds[p],
           UNCHANGED <<holds, onDisk, fetchUsed>>, player' = NoPlayer \/ player' = player
    PROVE  FetchInv'
<1>0. FetchTypes /\ PlayerOK /\ TasksOK /\ QueueOK /\ PermitsExact /\ PendingServed
  BY DEF FetchInv
<1>t. t \in LiveTask /\ tasks[t] \in TaskStates /\ tasks[t].part \in Parts
  BY <1>0 DEF LiveTask, FetchTypes, TasksOK
<1>p. /\ player' \in [at : {"idle", "look", "starting"}, part : Parts \cup {"none"}, high : BOOLEAN, task : Tasks \cup {None}]
      /\ PlayerOK'
  <2>1. CASE player' = player
    BY <1>0, <2>1 DEF FetchTypes, PlayerOK
  <2>2. CASE player' = NoPlayer
    BY <2>2 DEF PlayerOK, NoPlayer
  <2> QED
    BY <2>1, <2>2
<1>n. running \in Nat \ {0} /\ running = Cardinality(LiveTask) /\ running <= Cap /\ (fifo # <<>> => running = Cap)
  BY <1>0, <1>t, LiveFinite, FS_EmptySet DEF FetchTypes, PermitsExact
<1>1. CASE fifo = <<>>
  <2>1. running' = running - 1 /\ slots' = later /\ fifo' = fifo /\ tasks' = [tasks EXCEPT ![t].at = "over"]
    BY <1>1 DEF TaskFinished
  <2>2. /\ tasks' \in [Tasks -> TaskStates] /\ tasks'[t].at = "over" /\ tasks'[t].part = tasks[t].part
        /\ \A u \in Tasks : u # t => tasks'[u] = tasks[u]
    BY <1>0, <2>1 DEF FetchTypes, TaskStates
  <2>3. LiveTask' = LiveTask \ {t}
    BY <2>2 DEF LiveTask
  <2>4. Cardinality(LiveTask') = Cardinality(LiveTask) - 1
    BY <1>t, <2>3, LiveFinite, FS_RemoveElement
  <2>5. FetchTypes'
    BY <1>0, <1>p, <1>n, <2>1, <2>2 DEF FetchTypes
  <2>6. TasksOK'
    BY <1>0, <1>t, <2>1, <2>2 DEF TasksOK
  <2>7. QueueOK'
    BY <1>1, <2>1 DEF QueueOK, Once
  <2>8. PermitsExact'
    BY <1>1, <1>n, <2>1, <2>4, FetchAssumption DEF PermitsExact
  <2>9. PendingServed'
    <3> SUFFICES ASSUME NEW p \in Parts, holds'[p] # None, slots'[holds'[p]].outcome = "none"
                 PROVE  \E u \in LiveTask' : tasks'[u].part = p /\ (tasks'[u].at = "start" \/ tasks'[u].slot = holds'[p])
      BY DEF PendingServed
    <3>1. holds'[p] = holds[p] /\ holds[p] \in Tasks /\ later[holds[p]].outcome = "none"
      BY <1>0, <2>1 DEF FetchTypes
    <3>2. slots[holds[p]].outcome = "none" /\ ~Waits(p)
      BY <1>1, <3>1 DEF Waits
    <3>3. PICK u \in LiveTask : tasks[u].part = p /\ (tasks[u].at = "start" \/ tasks[u].slot = holds[p])
      BY <1>0, <3>1, <3>2 DEF PendingServed
    <3>4. u # t /\ u \in Tasks
      BY <3>1, <3>3 DEF LiveTask
    <3> QED
      BY <2>2, <2>3, <3>1, <3>3, <3>4
  <2> QED
    BY <1>p, <2>5, <2>6, <2>7, <2>8, <2>9 DEF FetchInv
<1>2. CASE fifo # <<>>
  <2>q. PICK q : q = Head(fifo)
    OBVIOUS
  <2>1. /\ q \in Waiting /\ fifo' \in Seq(Waiting) /\ Once(fifo')
        /\ \A i \in 1..Len(fifo') : fifo'[i].part # q.part /\ \E j \in 1..Len(fifo) : fifo'[i] = fifo[j]
        /\ \A j \in 1..Len(fifo) : fifo[j] = q \/ \E i \in 1..Len(fifo') : fifo'[i] = fifo[j]
        /\ \E j \in 1..Len(fifo) : q = fifo[j]
    <3>1. fifo' = Tail(fifo) /\ fifo \in Seq(Waiting) /\ Once(fifo)
      BY <1>0, <1>2 DEF TaskFinished, FetchTypes, QueueOK
    <3> QED
      BY <1>2, <2>q, <3>1, TailFacts
  <2>2. q.task \in Tasks /\ q.part \in Parts /\ tasks[q.task].at = "queued" /\ tasks[q.task].part = q.part /\ holds[q.part] \in Tasks
    BY <1>0, <2>1 DEF Waiting, QueueOK, FetchTypes
  <2>3. /\ running' = running /\ tasks' = [tasks EXCEPT ![t].at = "over", ![q.task].at = "start"]
        /\ slots' = [later EXCEPT ![holds[q.part]].queued = FALSE]
    <3>1. ~(holds[q.part] = None)
      BY <1>0, <2>1 DEF QueueOK
    <3> QED
      BY <1>2, <2>q, <3>1 DEF TaskFinished
  <2>4. t # q.task
    BY <2>2
  <2>5. /\ tasks' \in [Tasks -> TaskStates] /\ tasks'[t].at = "over" /\ tasks'[t].part = tasks[t].part
        /\ tasks'[q.task].at = "start" /\ tasks'[q.task].part = q.part
        /\ \A u \in Tasks : u # t /\ u # q.task => tasks'[u] = tasks[u]
    <3>1. PICK w : w = [tasks EXCEPT ![t].at = "over"]
      OBVIOUS
    <3>2. /\ w \in [Tasks -> TaskStates] /\ w[t].at = "over" /\ w[t].part = tasks[t].part
          /\ \A u \in Tasks : u # t => w[u] = tasks[u]
      BY <1>0, <3>1 DEF FetchTypes, TaskStates
    <3>3. tasks' = [w EXCEPT ![q.task].at = "start"]
      BY <2>3, <3>1
    <3>4. /\ tasks' \in [Tasks -> TaskStates] /\ tasks'[q.task].at = "start" /\ tasks'[q.task].part = w[q.task].part
          /\ \A u \in Tasks : u # q.task => tasks'[u] = w[u]
      BY <2>2, <3>2, <3>3 DEF TaskStates
    <3> QED
      BY <2>2, <2>4, <3>2, <3>4
  <2>6. slots' \in [Tasks -> SlotStates] /\ \A s \in Tasks : slots'[s].outcome = later[s].outcome
    BY <2>2, <2>3 DEF SlotStates
  <2>7. LiveTask' = (LiveTask \ {t}) \cup {q.task} /\ q.task \notin LiveTask
    BY <2>2, <2>5 DEF LiveTask
  <2>8. Cardinality(LiveTask') = Cardinality(LiveTask)
    <3>1. PICK rest : rest = LiveTask \ {t}
      OBVIOUS
    <3>2. IsFiniteSet(rest) /\ Cardinality(rest) = Cardinality(LiveTask) - 1
      BY <1>t, <3>1, LiveFinite, FS_RemoveElement
    <3>3. Cardinality(rest \cup {q.task}) = Cardinality(rest) + 1
      BY <2>7, <3>1, <3>2, FS_AddElement
    <3> QED
      BY <2>7, <3>1, <3>2, <3>3, LiveFinite
  <2>9. FetchTypes'
    BY <1>0, <1>p, <2>1, <2>3, <2>5, <2>6 DEF FetchTypes
  <2>10. TasksOK'
    <3> SUFFICES ASSUME NEW u \in Tasks
                 PROVE  /\ u > fetchUsed'.submit => tasks'[u].at = "new"
                        /\ tasks'[u].at # "new" => tasks'[u].part \in Parts
                        /\ tasks'[u].at \in {"work", "finish", "remove", "release"} => tasks'[u].slot \in Tasks
                        /\ tasks'[u].at = "finish" => tasks'[u].result # "none"
                        /\ tasks'[u].at \in {"remove", "release"} => slots'[tasks'[u].slot].outcome # "none"
      BY DEF TasksOK
    <3>2. CASE u = t
      <4>1. ~(t > fetchUsed.submit)
        BY <1>0 DEF TasksOK
      <4> QED
        BY <1>t, <2>5, <3>2, <4>1
    <3>3. CASE u = q.task
      <4>1. ~(u > fetchUsed.submit)
        BY <1>0, <2>2, <3>3 DEF TasksOK
      <4> QED
        BY <2>2, <2>5, <3>3, <4>1
    <3>4. CASE u # t /\ u # q.task
      BY <1>0, <2>5, <2>6, <3>4 DEF TasksOK
    <3> QED
      BY <3>2, <3>3, <3>4
  <2>11. QueueOK'
    <3> SUFFICES ASSUME NEW i \in 1..Len(fifo')
                 PROVE  /\ tasks'[fifo'[i].task].at = "queued" /\ tasks'[fifo'[i].task].part = fifo'[i].part
                        /\ holds'[fifo'[i].part] # None
      BY <2>1 DEF QueueOK
    <3>1. PICK j \in 1..Len(fifo) : fifo'[i] = fifo[j]
      BY <2>1
    <3>2. /\ tasks[fifo[j].task].at = "queued" /\ tasks[fifo[j].task].part = fifo[j].part
          /\ holds[fifo[j].part] # None /\ fifo[j].part # q.part
      BY <1>0, <2>1, <3>1 DEF QueueOK
    <3>3. fifo[j] \in Waiting
      BY <1>0, LenProperties DEF FetchTypes
    <3>4. fifo[j].task \in Tasks /\ fifo[j].task # q.task /\ fifo[j].task # t
      BY <2>2, <3>2, <3>3 DEF Waiting
    <3> QED
      BY <2>5, <3>1, <3>2, <3>4
  <2>12. PermitsExact'
    BY <1>2, <1>n, <2>3, <2>8 DEF PermitsExact
  <2>13. PendingServed'
    <3> SUFFICES ASSUME NEW p \in Parts, holds'[p] # None, slots'[holds'[p]].outcome = "none"
                 PROVE  \/ \E i \in 1..Len(fifo') : fifo'[i].part = p
                        \/ \E u \in LiveTask' : tasks'[u].part = p /\ (tasks'[u].at = "start" \/ tasks'[u].slot = holds'[p])
      BY DEF PendingServed, Waits
    <3>1. holds'[p] = holds[p] /\ holds[p] \in Tasks /\ later[holds[p]].outcome = "none"
      BY <1>0, <2>6 DEF FetchTypes
    <3>2. slots[holds[p]].outcome = "none"
      BY <3>1
    <3>3. CASE p = q.part
      BY <2>5, <2>7, <3>3
    <3>4. CASE p # q.part /\ \E j \in 1..Len(fifo) : fifo[j].part = p
      BY <2>1, <3>4
    <3>5. CASE \E u \in LiveTask : tasks[u].part = p /\ (tasks[u].at = "start" \/ tasks[u].slot = holds[p])
      <4>1. PICK u \in LiveTask : tasks[u].part = p /\ (tasks[u].at = "start" \/ tasks[u].slot = holds[p])
        BY <3>5
      <4>2. u # t /\ u # q.task /\ u \in Tasks
        BY <2>7, <3>1, <4>1 DEF LiveTask
      <4> QED
        BY <2>5, <2>7, <3>1, <4>1, <4>2
    <3> QED
      BY <1>0, <3>1, <3>2, <3>3, <3>4, <3>5 DEF PendingServed, Waits
  <2> QED
    BY <1>p, <2>9, <2>10, <2>11, <2>12, <2>13 DEF FetchInv
<1> QED
  BY <1>1, <1>2

LEMMA QueueTypes ==
    ASSUME FetchTypes
    PROVE  \A i \in 1..Len(fifo) : fifo[i] \in Waiting /\ fifo[i].task \in Tasks /\ fifo[i].part \in Parts
<1>1. \A i \in 1..Len(fifo) : fifo[i] \in Waiting
  BY LenProperties DEF FetchTypes
<1> QED
  BY <1>1 DEF Waiting

LEMMA FetchStarts == FetchInit => FetchInv
<1> SUFFICES ASSUME FetchInit PROVE FetchInv
  OBVIOUS
<1>1. FetchTypes
  BY FetchAssumption DEF FetchInit, FetchTypes, SlotStates, TaskStates, NoSlot, NoTask, NoPlayer, Outcomes, Tasks, None
<1>2. LiveTask = {}
  BY DEF FetchInit, LiveTask, NoTask
<1>3. PermitsExact
  BY <1>2, FS_EmptySet, FetchAssumption DEF FetchInit, PermitsExact
<1>4. PlayerOK /\ TasksOK /\ QueueOK /\ PendingServed
  BY DEF FetchInit, PlayerOK, TasksOK, QueueOK, Once, PendingServed, NoPlayer, NoTask, Tasks, None
<1> QED
  BY <1>1, <1>3, <1>4 DEF FetchInv

(* The player's commands.                                                    *)
LEMMA PokesKeep ==
    ASSUME FetchInv, NEW p \in Parts, Cancel(p) \/ Release(p) \/ ClearCached(p) \/ (\E high \in BOOLEAN : Prepare(p, high))
    PROVE  FetchInv'
<1>0. FetchTypes /\ PlayerOK /\ TasksOK /\ QueueOK /\ PermitsExact /\ PendingServed
  BY DEF FetchInv
<1>1. CASE Cancel(p) \/ Release(p)
  <2>1. Removed(p) /\ UNCHANGED <<running, tasks, onDisk, player>> /\ player.at = "idle"
    BY <1>1 DEF Cancel, Release, Poke
  <2>2. /\ slots' \in [Tasks -> SlotStates] /\ \A s \in Tasks : slots'[s].outcome = slots[s].outcome
    <3>1. CASE Cancel(p)
      BY <1>0, <3>1 DEF Cancel, FetchTypes, SlotStates
    <3>2. CASE Release(p)
      BY <1>0, <3>2 DEF Release, FetchTypes
    <3> QED
      BY <1>1, <3>1, <3>2
  <2>3. fetchUsed' \in [submit : 0..MaxSubmits, poke : Nat] /\ fetchUsed'.submit = fetchUsed.submit
    BY <1>0, <1>1 DEF Cancel, Release, Poke, FetchTypes
  <2>4. /\ tasks' \in [Tasks -> TaskStates]
        /\ \A t \in Tasks : /\ tasks'[t].part = tasks[t].part /\ tasks'[t].slot = tasks[t].slot
                            /\ tasks'[t].at = tasks[t].at
    BY <1>0, <2>1 DEF FetchTypes
  <2>5. /\ holds' \in [Parts -> Tasks \cup {None}] /\ fifo' \in Seq(Waiting) /\ QueueOK' /\ PendingServed'
        /\ (fifo' # <<>> => fifo # <<>>) /\ LiveTask' = LiveTask
    BY <1>0, <2>1, <2>2, <2>4, RemovedKeeps
  <2>6. FetchTypes'
    BY <1>0, <2>1, <2>2, <2>3, <2>4, <2>5 DEF FetchTypes
  <2>7. PlayerOK'
    BY <2>1 DEF PlayerOK
  <2>8. TasksOK'
    BY <1>0, <2>1, <2>2, <2>3 DEF TasksOK
  <2>9. PermitsExact'
    BY <1>0, <2>1, <2>5 DEF PermitsExact
  <2> QED
    BY <2>5, <2>6, <2>7, <2>8, <2>9 DEF FetchInv
<1>2. CASE ClearCached(p) \/ (\E high \in BOOLEAN : Prepare(p, high))
  <2>1. UNCHANGED <<holds, slots, fifo, running, tasks>>
    BY <1>2 DEF ClearCached, Prepare
  <2>2. /\ fetchUsed' \in [submit : 0..MaxSubmits, poke : Nat] /\ fetchUsed'.submit = fetchUsed.submit
        /\ onDisk' \subseteq Parts /\ PlayerOK'
        /\ player' \in [at : {"idle", "look", "starting"}, part : Parts \cup {"none"}, high : BOOLEAN, task : Tasks \cup {None}]
    <3>1. CASE ClearCached(p)
      BY <1>0, <3>1 DEF ClearCached, Poke, FetchTypes, PlayerOK
    <3>2. CASE \E high \in BOOLEAN : Prepare(p, high)
      <4>1. PICK high \in BOOLEAN : Prepare(p, high)
        BY <3>2
      <4>2. player' = [at |-> "look", part |-> p, high |-> high, task |-> None]
            /\ fetchUsed.submit < MaxSubmits /\ UNCHANGED <<fetchUsed, onDisk>>
        BY <4>1 DEF Prepare
      <4> QED
        BY <1>0, <4>2 DEF FetchTypes, PlayerOK
    <3> QED
      BY <1>2, <3>1, <3>2
  <2>3. FetchTypes'
    BY <1>0, <2>1, <2>2 DEF FetchTypes
  <2>4. TasksOK' /\ QueueOK' /\ PermitsExact' /\ PendingServed'
    BY <1>0, <2>1, <2>2 DEF TasksOK, QueueOK, PermitsExact, PendingServed, Waits, LiveTask
  <2> QED
    BY <2>2, <2>3, <2>4 DEF FetchInv
<1> QED
  BY <1>1, <1>2

LEMMA LookKeeps == ASSUME FetchInv, Look PROVE FetchInv'
<1>0. FetchTypes /\ PlayerOK /\ TasksOK /\ QueueOK /\ PermitsExact /\ PendingServed
  BY DEF FetchInv
<1>p. PICK p \in Parts : p = player.part
  BY <1>0 DEF Look, PlayerOK
<1>1. UNCHANGED <<slots, running, tasks, onDisk, fetchUsed>> /\ player' = NoPlayer /\ holds[p] # None
  BY <1>p DEF Look
<1>2. /\ player' \in [at : {"idle", "look", "starting"}, part : Parts \cup {"none"}, high : BOOLEAN, task : Tasks \cup {None}]
      /\ PlayerOK'
  BY <1>1 DEF NoPlayer, PlayerOK
<1>3. TasksOK'
  BY <1>0, <1>1 DEF TasksOK
<1>4. CASE Removed(p)
  <2>1. /\ holds' \in [Parts -> Tasks \cup {None}] /\ fifo' \in Seq(Waiting) /\ QueueOK' /\ PendingServed'
        /\ (fifo' # <<>> => fifo # <<>>) /\ LiveTask' = LiveTask
    <3>1. /\ tasks' \in [Tasks -> TaskStates] /\ slots' \in [Tasks -> SlotStates]
          /\ \A t \in Tasks : /\ tasks'[t].part = tasks[t].part /\ tasks'[t].slot = tasks[t].slot
                              /\ tasks'[t].at = tasks[t].at
          /\ \A s \in Tasks : slots'[s].outcome = slots[s].outcome
      BY <1>0, <1>1 DEF FetchTypes
    <3> QED
      BY <1>0, <1>4, <3>1, RemovedKeeps
  <2>2. FetchTypes'
    BY <1>0, <1>1, <1>2, <2>1 DEF FetchTypes
  <2>3. PermitsExact'
    BY <1>0, <1>1, <2>1 DEF PermitsExact
  <2> QED
    BY <1>2, <1>3, <2>1, <2>2, <2>3 DEF FetchInv
<1>5. CASE fifo' = Promoted(p) /\ UNCHANGED holds
  <2>1. PICK r : r = Promoted(p)
    OBVIOUS
  <2>2. /\ r \in Seq(Waiting) /\ Once(r) /\ (r # <<>> => fifo # <<>>)
        /\ \A i \in 1..Len(r) : \E j \in 1..Len(fifo) : r[i].task = fifo[j].task /\ r[i].part = fifo[j].part
        /\ \A j \in 1..Len(fifo) : \E i \in 1..Len(r) : r[i].part = fifo[j].part
    <3>1. Reordered(fifo, r)
      BY <1>0, <2>1, PromotedFacts DEF FetchTypes, QueueOK
    <3> QED
      BY <3>1 DEF Reordered
  <2>3. fifo' = r
    BY <1>5, <2>1
  <2>4. FetchTypes'
    BY <1>0, <1>1, <1>2, <1>5, <2>2, <2>3 DEF FetchTypes
  <2>5. PermitsExact'
    BY <1>0, <1>1, <2>2, <2>3 DEF PermitsExact, LiveTask
  <2>6. QueueOK'
    <3> SUFFICES ASSUME NEW i \in 1..Len(r)
                 PROVE  /\ tasks[r[i].task].at = "queued" /\ tasks[r[i].task].part = r[i].part
                        /\ holds[r[i].part] # None
      BY <1>1, <1>5, <2>2, <2>3 DEF QueueOK
    <3>1. PICK j \in 1..Len(fifo) : r[i].task = fifo[j].task /\ r[i].part = fifo[j].part
      BY <2>2
    <3>2. /\ tasks[fifo[j].task].at = "queued" /\ tasks[fifo[j].task].part = fifo[j].part
          /\ holds[fifo[j].part] # None
      BY <1>0 DEF QueueOK
    <3> QED
      BY <3>1, <3>2
  <2>7. PendingServed'
    <3> SUFFICES ASSUME NEW o \in Parts, holds[o] # None, slots[holds[o]].outcome = "none"
                 PROVE  \/ \E i \in 1..Len(r) : r[i].part = o
                        \/ \E t \in LiveTask : tasks[t].part = o /\ (tasks[t].at = "start" \/ tasks[t].slot = holds[o])
      BY <1>1, <1>5, <2>3 DEF PendingServed, Waits, LiveTask
    <3>1. CASE \E j \in 1..Len(fifo) : fifo[j].part = o
      <4>1. PICK j \in 1..Len(fifo) : fifo[j].part = o
        BY <3>1
      <4>2. PICK i \in 1..Len(r) : r[i].part = fifo[j].part
        BY <2>2
      <4> QED
        BY <4>1, <4>2
    <3> QED
      BY <1>0, <3>1 DEF PendingServed, Waits
  <2> QED
    BY <1>2, <1>3, <2>4, <2>5, <2>6, <2>7 DEF FetchInv
<1> QED
  BY <1>p, <1>4, <1>5 DEF Look

(* A part is submitted: the task takes a permit, or waits because none is free. *)
LEMMA SubmitKeeps == ASSUME FetchInv, Submit PROVE FetchInv'
<1>0. FetchTypes /\ PlayerOK /\ TasksOK /\ QueueOK /\ PermitsExact /\ PendingServed
  BY DEF FetchInv
<1>p. PICK p \in Parts : p = player.part
  BY <1>0 DEF Submit, PlayerOK
<1>t. PICK t : t = fetchUsed.submit + 1
  OBVIOUS
<1>1. /\ t \in Tasks /\ t # None /\ fetchUsed' \in [submit : 0..MaxSubmits, poke : Nat] /\ fetchUsed'.submit = t
      /\ t > fetchUsed.submit /\ \A u \in Tasks : u > t => u > fetchUsed.submit
  BY <1>0, <1>t, FetchAssumption DEF Submit, PlayerOK, FetchTypes, Tasks, None
<1>2. tasks[t].at = "new" /\ holds[p] = None /\ onDisk' = onDisk
  BY <1>0, <1>1, <1>p DEF TasksOK, Submit
<1>3. /\ holds' \in [Parts -> Tasks \cup {None}] /\ holds'[p] = t
      /\ \A o \in Parts : o # p => holds'[o] = holds[o]
  BY <1>0, <1>1, <1>p, <1>t DEF Submit, FetchTypes
<1>4. \A j \in 1..Len(fifo) : /\ fifo[j] \in Waiting /\ fifo[j].part # p /\ fifo[j].task # t
                              /\ tasks[fifo[j].task].at = "queued" /\ tasks[fifo[j].task].part = fifo[j].part
                              /\ fifo[j].task \in Tasks /\ fifo[j].part \in Parts /\ holds[fifo[j].part] # None
  <2> SUFFICES ASSUME NEW j \in 1..Len(fifo)
               PROVE  /\ fifo[j] \in Waiting /\ fifo[j].part # p /\ fifo[j].task # t
                      /\ tasks[fifo[j].task].at = "queued" /\ tasks[fifo[j].task].part = fifo[j].part
                      /\ fifo[j].task \in Tasks /\ fifo[j].part \in Parts /\ holds[fifo[j].part] # None
    OBVIOUS
  <2>1. fifo[j] \in Waiting
    BY <1>0, LenProperties DEF FetchTypes
  <2>2. /\ tasks[fifo[j].task].at = "queued" /\ tasks[fifo[j].task].part = fifo[j].part
        /\ holds[fifo[j].part] # None
    BY <1>0 DEF QueueOK
  <2>3. fifo[j].part # p /\ fifo[j].task # t
    BY <1>2, <2>2
  <2> QED
    BY <2>1, <2>2, <2>3 DEF Waiting
<1>5. ASSUME NEW st \in {"start", "queued"}, tasks' = [tasks EXCEPT ![t] = [NoTask EXCEPT !.at = st, !.part = p]]
      PROVE  /\ tasks' \in [Tasks -> TaskStates] /\ tasks'[t].at = st /\ tasks'[t].part = p
             /\ \A u \in Tasks : u # t => tasks'[u] = tasks[u]
  <2>1. PICK n : n = [NoTask EXCEPT !.at = st, !.part = p]
    OBVIOUS
  <2>2. n \in TaskStates /\ n.at = st /\ n.part = p
    BY <2>1 DEF NoTask, TaskStates, Outcomes
  <2>3. tasks' = [tasks EXCEPT ![t] = n]
    BY <1>5, <2>1
  <2> QED
    BY <1>0, <1>1, <2>2, <2>3 DEF FetchTypes
<1>6. ASSUME NEW st \in {"start", "queued"}, tasks'[t].at = st, tasks'[t].part = p, 
             \A u \in Tasks : u # t => tasks'[u] = tasks[u],
             \A s \in Tasks : slots'[s].outcome = slots[s].outcome
      PROVE  TasksOK'
  <2> SUFFICES ASSUME NEW u \in Tasks
                 PROVE  /\ u > fetchUsed'.submit => tasks'[u].at = "new"
                        /\ tasks'[u].at # "new" => tasks'[u].part \in Parts
                        /\ tasks'[u].at \in {"work", "finish", "remove", "release"} => tasks'[u].slot \in Tasks
                        /\ tasks'[u].at = "finish" => tasks'[u].result # "none"
                        /\ tasks'[u].at \in {"remove", "release"} => slots'[tasks'[u].slot].outcome # "none"
      BY DEF TasksOK
  <2>1. CASE u = t
    <3>1. ~(t > t)
      BY <1>1 DEF Tasks
    <3> QED
      BY <1>1, <1>6, <2>1, <3>1
  <2>2. CASE u # t
    BY <1>0, <1>1, <1>6, <2>2 DEF TasksOK
  <2> QED
    BY <2>1, <2>2
<1>7. CASE running < Cap
  <2>1. /\ running' = running + 1 /\ UNCHANGED <<fifo, slots>>
        /\ tasks' = [tasks EXCEPT ![t] = [NoTask EXCEPT !.at = "start", !.part = p]]
        /\ player' = [player EXCEPT !.at = "starting", !.task = t]
    BY <1>7, <1>p, <1>t DEF Submit
  <2>2. /\ tasks' \in [Tasks -> TaskStates] /\ tasks'[t].at = "start" /\ tasks'[t].part = p
        /\ \A u \in Tasks : u # t => tasks'[u] = tasks[u]
    BY <1>5, <2>1
  <2>3. /\ player' \in [at : {"idle", "look", "starting"}, part : Parts \cup {"none"}, high : BOOLEAN, task : Tasks \cup {None}]
        /\ player'.at = "starting"
    BY <1>0, <1>1, <2>1 DEF FetchTypes
  <2>4. FetchTypes'
    BY <1>0, <1>1, <1>2, <1>3, <2>1, <2>2, <2>3 DEF FetchTypes
  <2>5. PlayerOK' /\ TasksOK'
    BY <1>6, <2>1, <2>2, <2>3 DEF PlayerOK
  <2>6. QueueOK'
    BY <1>0, <1>3, <1>4, <2>1, <2>2 DEF QueueOK, Once
  <2>7. LiveTask' = LiveTask \cup {t} /\ t \notin LiveTask
    BY <1>1, <1>2, <2>2 DEF LiveTask
  <2>8. PermitsExact'
    <3>1. Cardinality(LiveTask') = Cardinality(LiveTask) + 1
      BY <2>7, LiveFinite, FS_AddElement
    <3>2. fifo = <<>> /\ running \in Nat /\ Cap \in Nat
      BY <1>0, <1>7, FetchAssumption DEF PermitsExact, FetchTypes
    <3> QED
      BY <1>0, <1>7, <2>1, <3>1, <3>2 DEF PermitsExact
  <2>9. PendingServed'
    <3> SUFFICES ASSUME NEW o \in Parts, holds'[o] # None, slots[holds'[o]].outcome = "none"
                 PROVE  \/ Waits(o)
                        \/ \E u \in LiveTask' : tasks'[u].part = o /\ (tasks'[u].at = "start" \/ tasks'[u].slot = holds'[o])
      BY <2>1 DEF PendingServed, Waits
    <3>1. CASE o = p
      BY <2>2, <2>7, <3>1
    <3>2. CASE o # p /\ ~Waits(o)
      <4>1. PICK u \in LiveTask : tasks[u].part = o /\ (tasks[u].at = "start" \/ tasks[u].slot = holds[o])
        BY <1>0, <1>3, <3>2 DEF PendingServed
      <4>2. u # t /\ u \in Tasks
        BY <2>7 DEF LiveTask
      <4> QED
        BY <1>3, <2>2, <2>7, <3>2, <4>1, <4>2
    <3> QED
      BY <3>1, <3>2
  <2> QED
    BY <2>4, <2>5, <2>6, <2>8, <2>9 DEF FetchInv
<1>8. CASE ~(running < Cap)
  <2>e. PICK e : e = [task |-> t, part |-> p, high |-> player.high]
    OBVIOUS
  <2>n. PICK n : n = HighEnd
    OBVIOUS
  <2>1. /\ fifo' = Enqueue(fifo, e, n) /\ slots' = [slots EXCEPT ![t].queued = TRUE]
        /\ tasks' = [tasks EXCEPT ![t] = [NoTask EXCEPT !.at = "queued", !.part = p]]
        /\ player' = NoPlayer /\ UNCHANGED running
    BY <1>8, <1>p, <1>t, <2>e, <2>n DEF Submit
  <2>2. /\ tasks' \in [Tasks -> TaskStates] /\ tasks'[t].at = "queued" /\ tasks'[t].part = p
        /\ \A u \in Tasks : u # t => tasks'[u] = tasks[u]
    BY <1>5, <2>1
  <2>3. e \in Waiting /\ e.part = p /\ e.task = t
    BY <1>0, <1>1, <2>e DEF FetchTypes, Waiting
  <2>4. PICK r : r = Enqueue(fifo, e, n)
    OBVIOUS
  <2>5. /\ r \in Seq(Waiting) /\ Once(r)
        /\ \A i \in 1..Len(r) : r[i] = e \/ \E j \in 1..Len(fifo) : r[i] = fifo[j]
        /\ \A j \in 1..Len(fifo) : \E i \in 1..Len(r) : r[i] = fifo[j]
        /\ \E i \in 1..Len(r) : r[i] = e
    <3>1. fifo \in Seq(Waiting) /\ Once(fifo) /\ \A j \in 1..Len(fifo) : fifo[j].part # e.part
      BY <1>0, <1>4, <2>3 DEF FetchTypes, QueueOK
    <3>2. n \in 0..Len(fifo)
      BY <2>n, <3>1, HighEndFits
    <3>3. Joined(fifo, e, r)
      BY <2>3, <2>4, <3>1, <3>2, EnqueueFacts
    <3> QED
      BY <3>3 DEF Joined
  <2>6. fifo' = r
    BY <2>1, <2>4
  <2>7. slots' \in [Tasks -> SlotStates] /\ \A s \in Tasks : slots'[s].outcome = slots[s].outcome
    <3>1. PICK sl : sl = [slots[t] EXCEPT !.queued = TRUE]
      OBVIOUS
    <3>2. sl \in SlotStates /\ sl.outcome = slots[t].outcome
      <4>1. PICK x \in SlotStates : x = slots[t]
        BY <1>0, <1>1 DEF FetchTypes
      <4>2. sl = [x EXCEPT !.queued = TRUE]
        BY <3>1, <4>1
      <4> QED
        BY <4>1, <4>2 DEF SlotStates
    <3>3. slots' = [slots EXCEPT ![t] = sl]
      BY <2>1, <3>1
    <3> QED
      BY <1>0, <1>1, <3>2, <3>3 DEF FetchTypes
  <2>8. /\ player' \in [at : {"idle", "look", "starting"}, part : Parts \cup {"none"}, high : BOOLEAN, task : Tasks \cup {None}]
        /\ PlayerOK'
    BY <2>1 DEF NoPlayer, PlayerOK
  <2>9. FetchTypes'
    BY <1>0, <1>1, <1>2, <1>3, <2>1, <2>2, <2>5, <2>6, <2>7, <2>8 DEF FetchTypes
  <2>10. TasksOK'
    BY <1>6, <2>2, <2>7
  <2>11. QueueOK'
    <3> SUFFICES ASSUME NEW i \in 1..Len(r)
                 PROVE  /\ tasks'[r[i].task].at = "queued" /\ tasks'[r[i].task].part = r[i].part
                        /\ holds'[r[i].part] # None
      BY <2>5, <2>6 DEF QueueOK
    <3>1. CASE r[i] = e
      BY <1>1, <1>3, <2>2, <2>3, <3>1
    <3>2. CASE \E j \in 1..Len(fifo) : r[i] = fifo[j]
      BY <1>3, <1>4, <2>2, <3>2
    <3> QED
      BY <2>5, <3>1, <3>2
  <2>12. LiveTask' = LiveTask
    BY <1>1, <1>2, <2>2 DEF LiveTask
  <2>13. PermitsExact'
    <3>1. running = Cap
      BY <1>0, <1>8, FetchAssumption DEF PermitsExact, FetchTypes
    <3> QED
      BY <1>0, <2>1, <2>12, <3>1 DEF PermitsExact
  <2>14. PendingServed'
    <3> SUFFICES ASSUME NEW o \in Parts, holds'[o] # None, slots'[holds'[o]].outcome = "none"
                 PROVE  \/ \E i \in 1..Len(r) : r[i].part = o
                        \/ \E u \in LiveTask' : tasks'[u].part = o /\ (tasks'[u].at = "start" \/ tasks'[u].slot = holds'[o])
      BY <2>6 DEF PendingServed, Waits
    <3>1. CASE o = p
      BY <2>3, <2>5, <3>1
    <3>2. CASE o # p /\ Waits(o)
      BY <2>5, <3>2 DEF Waits
    <3>3. CASE o # p /\ ~Waits(o)
      <4>1. holds'[o] = holds[o] /\ holds[o] \in Tasks /\ slots[holds[o]].outcome = "none"
        BY <1>0, <1>3, <2>7, <3>3 DEF FetchTypes
      <4>2. PICK u \in LiveTask : tasks[u].part = o /\ (tasks[u].at = "start" \/ tasks[u].slot = holds[o])
        BY <1>0, <3>3, <4>1 DEF PendingServed
      <4>3. u # t /\ u \in Tasks
        BY <1>2, <4>2 DEF LiveTask
      <4> QED
        BY <2>2, <2>12, <4>1, <4>2, <4>3
    <3> QED
      BY <3>1, <3>2, <3>3
  <2> QED
    BY <2>8, <2>9, <2>10, <2>11, <2>13, <2>14 DEF FetchInv
<1> QED
  BY <1>7, <1>8

(* The tasks.                                                                *)
LEMMA StartKeeps == ASSUME FetchInv, NEW t \in Tasks, Start(t) PROVE FetchInv'
<1>0. FetchTypes /\ PlayerOK /\ TasksOK /\ QueueOK /\ PermitsExact /\ PendingServed
  BY DEF FetchInv
<1>s. PICK s \in Tasks \cup {None} : s = holds[tasks[t].part]
  BY <1>0 DEF Start, TasksOK, FetchTypes
<1>1. /\ tasks[t].at = "start" /\ tasks[t].part \in Parts /\ UNCHANGED <<holds, onDisk, fetchUsed>>
      /\ (player' = NoPlayer \/ player' = player)
  BY <1>0 DEF Start, Started, TasksOK
<1>2. CASE s = None /\ TaskFinished(t, slots)
  <2>1. slots \in [Tasks -> SlotStates]
    BY <1>0 DEF FetchTypes
  <2>2. \A p \in Parts : holds[p] # None /\ slots[holds[p]].outcome = "none" /\ tasks[t].part = p =>
                              tasks[t].at # "start" /\ tasks[t].slot # holds[p]
    BY <1>s, <1>2
  <2>3. PICK later : later = slots
    OBVIOUS
  <2>4. /\ later \in [Tasks -> SlotStates] /\ TaskFinished(t, later)
        /\ \A o \in Tasks : later[o].outcome = slots[o].outcome \/ later[o].outcome # "none"
        /\ \A p \in Parts : holds[p] # None /\ later[holds[p]].outcome = "none" /\ tasks[t].part = p =>
                              tasks[t].at # "start" /\ tasks[t].slot # holds[p]
    BY <1>2, <2>1, <2>2, <2>3
  <2> QED
    BY <1>1, <2>4, PermitPasses
<1>3. CASE s # None /\ TaskFinished(t, [slots EXCEPT ![s].outcome = "retry"])
  <2>1. PICK later : later = [slots EXCEPT ![s].outcome = "retry"]
    OBVIOUS
  <2>2. later \in [Tasks -> SlotStates] /\ later[s].outcome = "retry" /\ \A o \in Tasks : o # s => later[o] = slots[o]
    BY <1>0, <1>3, <2>1 DEF FetchTypes, SlotStates, Outcomes
  <2>3. \A o \in Tasks : later[o].outcome = slots[o].outcome \/ later[o].outcome # "none"
    BY <2>2
  <2>4. \A p \in Parts : holds[p] # None /\ later[holds[p]].outcome = "none" /\ tasks[t].part = p =>
                              tasks[t].at # "start" /\ tasks[t].slot # holds[p]
    BY <1>s, <2>2
  <2>5. TaskFinished(t, later)
    BY <1>3, <2>1
  <2> QED
    BY <1>1, <2>2, <2>3, <2>4, <2>5, PermitPasses
<1>4. CASE s # None /\ tasks' = [tasks EXCEPT ![t].at = "work", ![t].slot = s] /\ UNCHANGED <<slots, fifo, running>>
  <2>1. /\ tasks' \in [Tasks -> TaskStates] /\ tasks'[t].at = "work" /\ tasks'[t].slot = s /\ tasks'[t].part = tasks[t].part
        /\ \A u \in Tasks : u # t => tasks'[u] = tasks[u]
    <3>1. PICK n : n = [tasks[t] EXCEPT !.at = "work", !.slot = s]
      OBVIOUS
    <3>2. n \in TaskStates /\ n.at = "work" /\ n.slot = s /\ n.part = tasks[t].part
      <4>1. PICK x \in TaskStates : x = tasks[t]
        BY <1>0 DEF FetchTypes
      <4>2. n = [x EXCEPT !.at = "work", !.slot = s]
        BY <3>1, <4>1
      <4> QED
        BY <4>1, <4>2 DEF TaskStates
    <3>3. tasks' = [tasks EXCEPT ![t] = n]
      BY <1>4, <3>1
    <3> QED
      BY <1>0, <3>2, <3>3 DEF FetchTypes
  <2>2. LiveTask' = LiveTask
    BY <1>1, <2>1 DEF LiveTask
  <2>3. /\ player' \in [at : {"idle", "look", "starting"}, part : Parts \cup {"none"}, high : BOOLEAN, task : Tasks \cup {None}]
        /\ PlayerOK'
    <3>1. CASE player' = NoPlayer
      BY <3>1 DEF NoPlayer, PlayerOK
    <3>2. CASE player' = player
      BY <1>0, <1>1, <3>2 DEF FetchTypes, PlayerOK
    <3> QED
      BY <1>1, <3>1, <3>2
  <2>4. FetchTypes'
    BY <1>0, <1>1, <1>4, <2>1, <2>3 DEF FetchTypes
  <2>5. TasksOK'
    <3> SUFFICES ASSUME NEW u \in Tasks
                 PROVE  /\ u > fetchUsed'.submit => tasks'[u].at = "new"
                        /\ tasks'[u].at # "new" => tasks'[u].part \in Parts
                        /\ tasks'[u].at \in {"work", "finish", "remove", "release"} => tasks'[u].slot \in Tasks
                        /\ tasks'[u].at = "finish" => tasks'[u].result # "none"
                        /\ tasks'[u].at \in {"remove", "release"} => slots'[tasks'[u].slot].outcome # "none"
      BY DEF TasksOK
    <3>1. CASE u = t
      BY <1>0, <1>1, <1>4, <2>1, <3>1 DEF TasksOK
    <3>2. CASE u # t
      BY <1>0, <1>1, <1>4, <2>1, <3>2 DEF TasksOK
    <3> QED
      BY <3>1, <3>2
  <2>6. QueueOK'
    <3> SUFFICES ASSUME NEW i \in 1..Len(fifo)
                 PROVE  /\ tasks'[fifo[i].task].at = "queued" /\ tasks'[fifo[i].task].part = fifo[i].part
                        /\ holds[fifo[i].part] # None
      BY <1>0, <1>1, <1>4 DEF QueueOK
    <3>1. /\ tasks[fifo[i].task].at = "queued" /\ tasks[fifo[i].task].part = fifo[i].part
          /\ holds[fifo[i].part] # None
      BY <1>0 DEF QueueOK
    <3>2. fifo[i].task \in Tasks /\ fifo[i].task # t
      <4>1. fifo[i].task \in Tasks
        BY <1>0, QueueTypes
      <4>2. tasks[t].at # "queued"
        BY <1>1
      <4> QED
        BY <3>1, <4>1, <4>2
    <3> QED
      BY <2>1, <3>1, <3>2
  <2>7. PermitsExact'
    BY <1>0, <1>4, <2>2 DEF PermitsExact
  <2>8. PendingServed'
    <3>a. UNCHANGED <<holds, slots, fifo>>
      BY <1>1, <1>4
    <3> SUFFICES ASSUME NEW o \in Parts, holds[o] # None, slots[holds[o]].outcome = "none"
                 PROVE  \/ Waits(o)
                        \/ \E u \in LiveTask' : tasks'[u].part = o /\ (tasks'[u].at = "start" \/ tasks'[u].slot = holds[o])
      BY <3>a DEF PendingServed, Waits
    <3>1. CASE Waits(o)
      BY <3>1
    <3>2. CASE \E u \in LiveTask : tasks[u].part = o /\ (tasks[u].at = "start" \/ tasks[u].slot = holds[o])
      <4>1. PICK u \in LiveTask : tasks[u].part = o /\ (tasks[u].at = "start" \/ tasks[u].slot = holds[o])
        BY <3>2
      <4>2. CASE u = t
        BY <1>s, <2>1, <2>2, <4>1, <4>2
      <4>3. CASE u # t
        <5>1. tasks'[u] = tasks[u]
          BY <2>1, <4>3 DEF LiveTask
        <5> QED
          BY <2>2, <4>1, <5>1
      <4> QED
        BY <4>2, <4>3
    <3> QED
      BY <1>0, <3>1, <3>2 DEF PendingServed
  <2> QED
    BY <2>3, <2>4, <2>5, <2>6, <2>7, <2>8 DEF FetchInv
<1> QED
  BY <1>s, <1>2, <1>3, <1>4 DEF Start

LEMMA WorkKeeps == ASSUME FetchInv, NEW t \in Tasks, Download(t) \/ Finish(t) PROVE FetchInv'
<1>0. FetchTypes /\ PlayerOK /\ TasksOK /\ QueueOK /\ PermitsExact /\ PendingServed
  BY DEF FetchInv
<1>1. /\ UNCHANGED <<holds, fifo, running, player, fetchUsed>> /\ onDisk' \subseteq Parts
      /\ tasks' \in [Tasks -> TaskStates] /\ \A u \in Tasks : u # t => tasks'[u] = tasks[u]
      /\ tasks'[t].slot = tasks[t].slot /\ tasks'[t].part = tasks[t].part
      /\ \/ /\ tasks[t].at = "work" /\ tasks'[t].at = "finish" /\ tasks'[t].result # "none"
            /\ UNCHANGED slots
         \/ /\ tasks[t].at = "finish" /\ tasks'[t].at \in {"remove", "release"}
            /\ slots' = [slots EXCEPT ![tasks[t].slot].outcome = tasks[t].result]
  <2>1. CASE Download(t)
    <3>1. PICK r \in Outcomes \ {"none"} : tasks' = [tasks EXCEPT ![t].at = "finish", ![t].result = r]
      BY <2>1 DEF Download, Results, Outcomes
    <3>2. onDisk' \subseteq Parts
      BY <1>0, <2>1 DEF Download, FetchTypes, TasksOK
    <3>3. tasks' \in [Tasks -> TaskStates] /\ tasks'[t].at = "finish" /\ tasks'[t].result = r
          /\ tasks'[t].slot = tasks[t].slot /\ tasks'[t].part = tasks[t].part
          /\ \A u \in Tasks : u # t => tasks'[u] = tasks[u]
      <4>1. PICK n : n = [tasks[t] EXCEPT !.at = "finish", !.result = r]
        OBVIOUS
      <4>2. n \in TaskStates /\ n.at = "finish" /\ n.result = r /\ n.slot = tasks[t].slot /\ n.part = tasks[t].part
        <5>1. PICK x \in TaskStates : x = tasks[t]
          BY <1>0 DEF FetchTypes
        <5>2. n = [x EXCEPT !.at = "finish", !.result = r]
          BY <4>1, <5>1
        <5> QED
          BY <5>1, <5>2 DEF TaskStates
      <4>3. tasks' = [tasks EXCEPT ![t] = n]
        BY <3>1, <4>1
      <4> QED
        BY <1>0, <4>2, <4>3 DEF FetchTypes
    <3> QED
      BY <2>1, <3>2, <3>3 DEF Download
  <2>2. CASE Finish(t)
    <3>1. PICK st \in {"remove", "release"} : tasks' = [tasks EXCEPT ![t].at = st]
      BY <2>2 DEF Finish
    <3>2. tasks' \in [Tasks -> TaskStates] /\ tasks'[t].at = st
          /\ tasks'[t].slot = tasks[t].slot /\ tasks'[t].part = tasks[t].part
          /\ \A u \in Tasks : u # t => tasks'[u] = tasks[u]
      <4>1. PICK n : n = [tasks[t] EXCEPT !.at = st]
        OBVIOUS
      <4>2. n \in TaskStates /\ n.at = st /\ n.slot = tasks[t].slot /\ n.part = tasks[t].part
        <5>1. PICK x \in TaskStates : x = tasks[t]
          BY <1>0 DEF FetchTypes
        <5>2. n = [x EXCEPT !.at = st]
          BY <4>1, <5>1
        <5> QED
          BY <5>1, <5>2 DEF TaskStates
      <4>3. tasks' = [tasks EXCEPT ![t] = n]
        BY <3>1, <4>1
      <4> QED
        BY <1>0, <4>2, <4>3 DEF FetchTypes
    <3> QED
      BY <1>0, <2>2, <3>2 DEF Finish, FetchTypes
  <2> QED
    BY <2>1, <2>2
<1>2. /\ slots' \in [Tasks -> SlotStates]
      /\ \A s \in Tasks : slots'[s].outcome = slots[s].outcome \/ slots'[s].outcome # "none"
      /\ tasks'[t].at \in {"remove", "release"} => slots'[tasks'[t].slot].outcome # "none"
  <2>1. CASE UNCHANGED slots /\ tasks'[t].at = "finish"
    BY <1>0, <2>1 DEF FetchTypes
  <2>2. CASE tasks[t].at = "finish" /\ slots' = [slots EXCEPT ![tasks[t].slot].outcome = tasks[t].result]
    <3>1. PICK s \in Tasks : s = tasks[t].slot
      BY <1>0, <2>2 DEF TasksOK
    <3>2. PICK r \in Outcomes : r = tasks[t].result /\ r # "none"
      BY <1>0, <2>2 DEF TasksOK, FetchTypes, TaskStates
    <3>3. slots' = [slots EXCEPT ![s].outcome = r]
      BY <2>2, <3>1, <3>2
    <3>4. slots' \in [Tasks -> SlotStates] /\ slots'[s].outcome = r /\ \A o \in Tasks : o # s => slots'[o] = slots[o]
      BY <1>0, <3>3 DEF FetchTypes, SlotStates
    <3> QED
      BY <1>1, <3>1, <3>2, <3>4
  <2> QED
    BY <1>1, <2>1, <2>2
<1>3. LiveTask' = LiveTask /\ t \in LiveTask
  BY <1>1 DEF LiveTask
<1>4. FetchTypes' /\ PlayerOK'
  BY <1>0, <1>1, <1>2 DEF FetchTypes, PlayerOK
<1>5. TasksOK'
  <2> SUFFICES ASSUME NEW u \in Tasks
                 PROVE  /\ u > fetchUsed'.submit => tasks'[u].at = "new"
                        /\ tasks'[u].at # "new" => tasks'[u].part \in Parts
                        /\ tasks'[u].at \in {"work", "finish", "remove", "release"} => tasks'[u].slot \in Tasks
                        /\ tasks'[u].at = "finish" => tasks'[u].result # "none"
                        /\ tasks'[u].at \in {"remove", "release"} => slots'[tasks'[u].slot].outcome # "none"
    BY DEF TasksOK
  <2>1. CASE u = t
    <3>1. tasks[t].at # "new" /\ tasks[t].slot \in Tasks /\ tasks[t].part \in Parts /\ ~(t > fetchUsed.submit)
      BY <1>0, <1>1 DEF TasksOK
    <3> QED
      BY <1>1, <1>2, <2>1, <3>1
  <2>2. CASE u # t
    BY <1>0, <1>1, <1>2, <2>2 DEF TasksOK
  <2> QED
    BY <2>1, <2>2
<1>6. QueueOK'
  <2> SUFFICES ASSUME NEW i \in 1..Len(fifo)
                 PROVE  /\ tasks'[fifo[i].task].at = "queued" /\ tasks'[fifo[i].task].part = fifo[i].part
                        /\ holds[fifo[i].part] # None
      BY <1>0, <1>1 DEF QueueOK
  <2>1. /\ tasks[fifo[i].task].at = "queued" /\ tasks[fifo[i].task].part = fifo[i].part
        /\ holds[fifo[i].part] # None
    BY <1>0 DEF QueueOK
  <2>2. fifo[i].task \in Tasks /\ fifo[i].task # t
    <3>1. fifo[i].task \in Tasks
      BY <1>0, QueueTypes
    <3>2. tasks[t].at # "queued"
      BY <1>1
    <3> QED
      BY <2>1, <3>1, <3>2
  <2> QED
    BY <1>1, <2>1, <2>2
<1>7. PermitsExact'
  BY <1>0, <1>1, <1>3 DEF PermitsExact
<1>8. PendingServed'
  <2> SUFFICES ASSUME NEW o \in Parts, holds[o] # None, slots'[holds[o]].outcome = "none"
                 PROVE  \/ Waits(o)
                        \/ \E u \in LiveTask' : tasks'[u].part = o /\ (tasks'[u].at = "start" \/ tasks'[u].slot = holds[o])
    BY <1>1 DEF PendingServed, Waits
  <2>1. slots[holds[o]].outcome = "none" /\ holds[o] \in Tasks
    BY <1>0, <1>2 DEF FetchTypes
  <2>2. CASE \E u \in LiveTask : tasks[u].part = o /\ (tasks[u].at = "start" \/ tasks[u].slot = holds[o])
    <3>1. PICK u \in LiveTask : tasks[u].part = o /\ (tasks[u].at = "start" \/ tasks[u].slot = holds[o])
      BY <2>2
    <3>2. tasks'[u].slot = tasks[u].slot /\ tasks'[u].part = tasks[u].part /\ (tasks[u].at = "start" => tasks'[u].at = "start")
      <4>1. CASE u = t
        BY <1>1, <4>1
      <4>2. CASE u # t
        BY <1>1, <4>2 DEF LiveTask
      <4> QED
        BY <4>1, <4>2
    <3> QED
      BY <1>3, <3>1, <3>2
  <2> QED
    BY <1>0, <2>1, <2>2 DEF PendingServed
<1> QED
  BY <1>4, <1>5, <1>6, <1>7, <1>8 DEF FetchInv

LEMMA EndKeeps == ASSUME FetchInv, NEW t \in Tasks, Settle(t) \/ EndTask(t) PROVE FetchInv'
<1>0. FetchTypes /\ PlayerOK /\ TasksOK /\ QueueOK /\ PermitsExact /\ PendingServed
  BY DEF FetchInv
<1>1. CASE Settle(t)
  <2>p. PICK p \in Parts : p = tasks[t].part
    BY <1>0, <1>1 DEF Settle, TasksOK
  <2>1. /\ Removed(p) /\ UNCHANGED <<slots, running, onDisk, player, fetchUsed>>
        /\ tasks[t].at = "remove" /\ tasks' = [tasks EXCEPT ![t].at = "release"]
    BY <1>1, <2>p DEF Settle
  <2>2. /\ tasks' \in [Tasks -> TaskStates] /\ tasks'[t].at = "release" /\ tasks'[t].part = tasks[t].part
        /\ tasks'[t].slot = tasks[t].slot /\ \A u \in Tasks : u # t => tasks'[u] = tasks[u]
    BY <1>0, <2>1 DEF FetchTypes, TaskStates
  <2>3. /\ holds' \in [Parts -> Tasks \cup {None}] /\ fifo' \in Seq(Waiting) /\ QueueOK' /\ PendingServed'
        /\ (fifo' # <<>> => fifo # <<>>) /\ LiveTask' = LiveTask
    <3>1. /\ slots' \in [Tasks -> SlotStates] /\ \A s \in Tasks : slots'[s].outcome = slots[s].outcome
      BY <1>0, <2>1 DEF FetchTypes
    <3>2. \A u \in Tasks : /\ tasks'[u].part = tasks[u].part /\ tasks'[u].slot = tasks[u].slot
                           /\ \/ tasks'[u].at = tasks[u].at
                              \/ tasks[u].at = "remove" /\ tasks'[u].at = "release"
      <4> SUFFICES ASSUME NEW u \in Tasks
                   PROVE  /\ tasks'[u].part = tasks[u].part /\ tasks'[u].slot = tasks[u].slot
                          /\ \/ tasks'[u].at = tasks[u].at
                             \/ tasks[u].at = "remove" /\ tasks'[u].at = "release"
        OBVIOUS
      <4>1. CASE u = t
        BY <2>1, <2>2, <4>1
      <4>2. CASE u # t
        BY <2>2, <4>2
      <4> QED
        BY <4>1, <4>2
    <3> QED
      BY <1>0, <2>1, <2>2, <3>1, <3>2, RemovedKeeps
  <2>4. FetchTypes' /\ PlayerOK'
    BY <1>0, <2>1, <2>2, <2>3 DEF FetchTypes, PlayerOK
  <2>5. TasksOK'
    <3> SUFFICES ASSUME NEW u \in Tasks
                 PROVE  /\ u > fetchUsed'.submit => tasks'[u].at = "new"
                        /\ tasks'[u].at # "new" => tasks'[u].part \in Parts
                        /\ tasks'[u].at \in {"work", "finish", "remove", "release"} => tasks'[u].slot \in Tasks
                        /\ tasks'[u].at = "finish" => tasks'[u].result # "none"
                        /\ tasks'[u].at \in {"remove", "release"} => slots'[tasks'[u].slot].outcome # "none"
      BY DEF TasksOK
    <3>1. CASE u = t
      <4>1. /\ ~(t > fetchUsed.submit) /\ tasks[t].part \in Parts /\ tasks[t].slot \in Tasks
            /\ slots[tasks[t].slot].outcome # "none"
        BY <1>0, <2>1 DEF TasksOK
      <4> QED
        BY <2>1, <2>2, <3>1, <4>1
    <3>2. CASE u # t
      BY <1>0, <2>1, <2>2, <3>2 DEF TasksOK
    <3> QED
      BY <3>1, <3>2
  <2>6. PermitsExact'
    BY <1>0, <2>1, <2>3 DEF PermitsExact
  <2> QED
    BY <2>3, <2>4, <2>5, <2>6 DEF FetchInv
<1>2. CASE EndTask(t)
  <2>1. PICK later : later = slots
    OBVIOUS
  <2>2. /\ tasks[t].at = "release" /\ later \in [Tasks -> SlotStates] /\ TaskFinished(t, later)
        /\ UNCHANGED <<holds, onDisk, fetchUsed>> /\ player' = player
        /\ \A o \in Tasks : later[o].outcome = slots[o].outcome
    BY <1>0, <1>2, <2>1 DEF EndTask, FetchTypes
  <2>3. \A p \in Parts : holds[p] # None /\ later[holds[p]].outcome = "none" /\ tasks[t].part = p =>
                              tasks[t].at # "start" /\ tasks[t].slot # holds[p]
    BY <1>0, <2>1, <2>2 DEF TasksOK
  <2> QED
    BY <2>2, <2>3, PermitPasses
<1> QED
  BY <1>1, <1>2

LEMMA FetchKeeps == FetchInv /\ [FetchNext]_fetchVars => FetchInv'
<1> SUFFICES ASSUME FetchInv, [FetchNext]_fetchVars PROVE FetchInv'
  OBVIOUS
<1>1. CASE UNCHANGED fetchVars
  BY <1>1 DEF fetchVars, FetchInv, FetchTypes, PlayerOK, TasksOK, QueueOK, PermitsExact, PendingServed, Waits, LiveTask
<1>2. CASE FetchNext
  BY <1>2, PokesKeep, LookKeeps, SubmitKeeps, StartKeeps, WorkKeeps, EndKeeps, Zenon DEF FetchNext
<1> QED
  BY <1>1, <1>2

LEMMA FetchPromise == FetchInv => FetchSound
<1> SUFFICES ASSUME FetchInv PROVE FetchSound
  OBVIOUS
<1>1. FetchTypes /\ QueueOK /\ PermitsExact /\ PendingServed
  BY DEF FetchInv
<1>2. FetchTypeOK
  BY <1>1, QueueTypes DEF FetchTypes, FetchTypeOK
<1>3. QueuedHeld
  BY <1>1 DEF QueuedHeld, QueueOK
<1> QED
  BY <1>1, <1>2, <1>3 DEF FetchSound

------------------------------------------------------------------------------
(* The upload queue.  While the library is walked, a part that was there at   *)
(* the start is still on the list, or queued, or was stepped over.            *)
UploadPlaces == {"down", "rearm", "walk", "walking", "drain", "seal", "upload", "record"}
UploadTypes ==
  /\ library \in [Recordings -> {"none", "kept", "fileless", "deleted"}]
  /\ entries \in [Recordings -> {"absent", "pending", "sealing", "uploading", "done", "failed"}]
  /\ temps \in Nat
  /\ uploader \in [at : UploadPlaces, part : Recordings \cup {NoPart}, list : SUBSET Recordings,
                   skipped : Nat, seen : SUBSET Recordings]
InHandOK == uploader.at \in {"seal", "upload", "record"} => uploader.part \in Recordings /\ temps > 0
SeenOK   == \A p \in uploader.seen : library[p] # "none"
KeptOK(p) == library[p] = "kept" /\ uploader.skipped = 0 =>
               /\ uploader.at = "walking" => p \in uploader.list \/ entries[p] # "absent"
               /\ uploader.at \in {"drain", "seal", "upload", "record"} => entries[p] # "absent"
UploadInv == UploadTypes /\ InHandOK /\ SeenOK /\ \A p \in uploader.seen : KeptOK(p)

LEMMA UploadStarts == UploadInit => UploadInv
<1> SUFFICES ASSUME UploadInit PROVE UploadInv
  OBVIOUS
<1>1. UploadTypes
  BY DEF UploadInit, UploadTypes, UploadPlaces, Down
<1> QED
  BY <1>1 DEF UploadInit, UploadInv, InHandOK, SeenOK, KeptOK, Down

(* The application and the user: a part that is kept was not so late, and an  *)
(* entry that is there stays.                                                 *)
LEMMA LibraryKeeps ==
    ASSUME UploadInv, NEW p \in Recordings, SavePart(p) \/ EnqueueOnSave(p) \/ DeletePart(p)
    PROVE  UploadInv'
<1>0. UploadTypes /\ InHandOK /\ SeenOK /\ \A o \in uploader.seen : KeptOK(o)
  BY DEF UploadInv
<1>1. UNCHANGED <<uploader, temps>>
  BY DEF SavePart, EnqueueOnSave, DeletePart
<1>2. /\ library' \in [Recordings -> {"none", "kept", "fileless", "deleted"}]
      /\ \A o \in Recordings : library'[o] = library[o] \/ library[o] = "none" \/ library'[o] \in {"fileless", "deleted"}
      /\ \A o \in Recordings : library[o] # "none" => library'[o] # "none"
  <2>1. CASE SavePart(p)
    BY <1>0, <2>1 DEF SavePart, UploadTypes
  <2>2. CASE EnqueueOnSave(p)
    BY <1>0, <2>2 DEF EnqueueOnSave, UploadTypes
  <2>3. CASE DeletePart(p)
    BY <1>0, <2>3 DEF DeletePart, UploadTypes
  <2> QED
    BY <2>1, <2>2, <2>3
<1>3. /\ entries' \in [Recordings -> {"absent", "pending", "sealing", "uploading", "done", "failed"}]
      /\ \A o \in Recordings : entries[o] # "absent" => entries'[o] # "absent"
  <2>1. CASE UNCHANGED entries
    BY <1>0, <2>1 DEF UploadTypes
  <2>2. CASE EnqueueOnSave(p)
    BY <1>0, <2>2 DEF EnqueueOnSave, Enqueued, UploadTypes
  <2> QED
    BY <2>1, <2>2 DEF SavePart, DeletePart
<1>4. UploadTypes' /\ InHandOK'
  BY <1>0, <1>1, <1>2, <1>3 DEF UploadTypes, InHandOK
<1>5. SeenOK'
  BY <1>0, <1>1, <1>2 DEF SeenOK, UploadTypes
<1>6. ASSUME NEW o \in uploader.seen PROVE KeptOK(o)'
  <2>1. o \in Recordings /\ KeptOK(o) /\ library[o] # "none"
    BY <1>0, <1>6 DEF UploadTypes, SeenOK
  <2>2. library'[o] = "kept" => library[o] = "kept"
    BY <1>2, <2>1
  <2> QED
    BY <1>1, <1>3, <2>1, <2>2 DEF KeptOK
<1> QED
  BY <1>1, <1>4, <1>5, <1>6 DEF UploadInv

(* Starts, stops and the walk.                                                *)
LEMMA UploaderMoves ==
    ASSUME UploadInv, NEW b \in UploadPlaces, uploader' = [uploader EXCEPT !.at = b],
           UNCHANGED library,
           entries' \in [Recordings -> {"absent", "pending", "sealing", "uploading", "done", "failed"}],
           \A o \in Recordings : entries[o] # "absent" => entries'[o] # "absent",
           temps' = temps, b \notin {"seal", "upload", "record"} \/ InHandOK',
           \A o \in uploader.seen : library[o] = "kept" /\ uploader.skipped = 0 =>
               /\ b = "walking" => uploader.at = "walking"
               /\ b \in {"drain", "seal", "upload", "record"} =>
                     \/ uploader.at \in {"drain", "seal", "upload", "record"}
                     \/ uploader.at = "walking" /\ uploader.list = {}
    PROVE  UploadInv'
<1>0. UploadTypes /\ InHandOK /\ SeenOK /\ \A o \in uploader.seen : KeptOK(o)
  BY DEF UploadInv
<1>1. /\ uploader'.at = b /\ uploader'.seen = uploader.seen /\ uploader'.list = uploader.list
      /\ uploader'.skipped = uploader.skipped /\ uploader'.part = uploader.part
      /\ uploader' \in [at : UploadPlaces, part : Recordings \cup {NoPart}, list : SUBSET Recordings,
                        skipped : Nat, seen : SUBSET Recordings]
  BY <1>0 DEF UploadTypes
<1>2. UploadTypes' /\ SeenOK'
  BY <1>0, <1>1 DEF UploadTypes, SeenOK
<1>3. InHandOK'
  BY <1>1 DEF InHandOK
<1>4. ASSUME NEW o \in uploader.seen PROVE KeptOK(o)'
  <2>1. o \in Recordings /\ KeptOK(o)
    BY <1>0, <1>4 DEF UploadTypes
  <2> QED
    BY <1>1, <1>4, <2>1 DEF KeptOK
<1> QED
  BY <1>1, <1>2, <1>3, <1>4 DEF UploadInv

LEMMA RearmedKeeps ==
    ASSUME UploadTypes, NEW S, Rearmed(S), "absent" \notin S
    PROVE  /\ entries' \in [Recordings -> {"absent", "pending", "sealing", "uploading", "done", "failed"}]
           /\ \A o \in Recordings : entries[o] # "absent" => entries'[o] # "absent"
BY DEF UploadTypes, Rearmed

LEMMA UploaderStarts ==
    ASSUME UploadInv, StartUploader \/ StopUploader \/ Kill \/ RetryFailed
    PROVE  UploadInv'
<1>0. UploadTypes /\ InHandOK /\ SeenOK /\ \A o \in uploader.seen : KeptOK(o)
  BY DEF UploadInv
<1>1. CASE StartUploader
  <2>1. /\ uploader'.at = "rearm" /\ uploader'.seen = {p \in Recordings : library[p] = "kept"}
        /\ uploader' \in [at : UploadPlaces, part : Recordings \cup {NoPart}, list : SUBSET Recordings,
                          skipped : Nat, seen : SUBSET Recordings]
        /\ temps' = 0 /\ UNCHANGED <<library, entries>>
    BY <1>1 DEF StartUploader, Down, UploadPlaces
  <2> QED
    BY <1>0, <2>1 DEF UploadInv, UploadTypes, InHandOK, SeenOK, KeptOK
<1>2. CASE StopUploader \/ Kill
  <2>1. /\ uploader'.at = "down" /\ uploader'.seen = {}
        /\ uploader' \in [at : UploadPlaces, part : Recordings \cup {NoPart}, list : SUBSET Recordings,
                          skipped : Nat, seen : SUBSET Recordings]
        /\ UNCHANGED <<library, entries, temps>>
    BY <1>2 DEF StopUploader, Kill, Down, UploadPlaces
  <2> QED
    BY <1>0, <2>1 DEF UploadInv, UploadTypes, InHandOK, SeenOK
<1>3. CASE RetryFailed
  <2>1. UNCHANGED <<library, uploader, temps>> /\ Rearmed({"failed"})
    BY <1>3 DEF RetryFailed
  <2>2. /\ entries' \in [Recordings -> {"absent", "pending", "sealing", "uploading", "done", "failed"}]
        /\ \A o \in Recordings : entries[o] # "absent" => entries'[o] # "absent"
    BY <1>0, <2>1, RearmedKeeps
  <2>3. \A o \in uploader.seen : KeptOK(o)'
    BY <1>0, <2>1, <2>2 DEF KeptOK, UploadTypes
  <2> QED
    BY <1>0, <2>1, <2>2, <2>3 DEF UploadInv, UploadTypes, InHandOK, SeenOK
<1> QED
  BY <1>1, <1>2, <1>3

LEMMA RearmKeeps ==
    ASSUME UploadInv, Rearm \/ RearmFails \/ WalkEnd
    PROVE  UploadInv'
<1>0. UploadTypes
  BY DEF UploadInv
<1>1. CASE Rearm \/ RearmFails
  <2>1. uploader' = [uploader EXCEPT !.at = "walk"] /\ UNCHANGED <<library, temps>>
    BY <1>1 DEF Rearm, RearmFails
  <2>2. /\ entries' \in [Recordings -> {"absent", "pending", "sealing", "uploading", "done", "failed"}]
        /\ \A o \in Recordings : entries[o] # "absent" => entries'[o] # "absent"
    <3>1. CASE UNCHANGED entries
      BY <1>0, <3>1 DEF UploadTypes
    <3>2. CASE Rearmed({"failed"})
      BY <1>0, <3>2, RearmedKeeps
    <3>3. CASE Rearmed({"sealing", "uploading"})
      BY <1>0, <3>3, RearmedKeeps
    <3>4. CASE Rearmed({"sealing", "uploading", "failed"})
      BY <1>0, <3>4, RearmedKeeps
    <3> QED
      BY <1>1, <3>1, <3>2, <3>3, <3>4 DEF Rearm, RearmFails
  <2>3. "walk" \in UploadPlaces
    BY DEF UploadPlaces
  <2> QED
    BY <2>1, <2>2, <2>3, UploaderMoves
<1>2. CASE WalkEnd
  <2>1. /\ uploader' = [uploader EXCEPT !.at = "drain"] /\ UNCHANGED <<library, entries, temps>>
        /\ uploader.at = "walking" /\ uploader.list = {}
    BY <1>2 DEF WalkEnd
  <2>2. entries' \in [Recordings -> {"absent", "pending", "sealing", "uploading", "done", "failed"}]
    BY <1>0, <2>1 DEF UploadTypes
  <2>3. "drain" \in UploadPlaces
    BY DEF UploadPlaces
  <2> QED
    BY <2>1, <2>2, <2>3, UploaderMoves
<1> QED
  BY <1>1, <1>2

LEMMA WalkKeeps ==
    ASSUME UploadInv, WalkBegin \/ WalkFails \/ (\E p \in Recordings : WalkPart(p))
    PROVE  UploadInv'
<1>0. UploadTypes /\ InHandOK /\ SeenOK /\ \A o \in uploader.seen : KeptOK(o)
  BY DEF UploadInv
<1>1. CASE WalkBegin
  <2>1. /\ UNCHANGED <<library, entries, temps>> /\ uploader'.at = "walking" /\ uploader'.seen = uploader.seen
        /\ uploader' \in [at : UploadPlaces, part : Recordings \cup {NoPart}, list : SUBSET Recordings,
                          skipped : Nat, seen : SUBSET Recordings]
        /\ uploader'.list = {p \in Recordings : library[p] \in {"kept", "fileless"}}
    BY <1>0, <1>1 DEF WalkBegin, WalkList, UploadTypes, UploadPlaces
  <2>2. \A o \in uploader.seen : KeptOK(o)'
    BY <1>0, <2>1 DEF KeptOK, UploadTypes
  <2> QED
    BY <1>0, <2>1, <2>2 DEF UploadInv, UploadTypes, InHandOK, SeenOK
<1>2. ASSUME NEW p \in Recordings, WalkPart(p) PROVE UploadInv'
  <2>1. /\ UNCHANGED <<library, temps>> /\ uploader.at = "walking" /\ uploader'.at = "walking"
        /\ uploader'.seen = uploader.seen /\ uploader'.list = uploader.list \ {p}
        /\ uploader' \in [at : UploadPlaces, part : Recordings \cup {NoPart}, list : SUBSET Recordings,
                          skipped : Nat, seen : SUBSET Recordings]
        /\ uploader'.skipped = uploader.skipped \/ uploader'.skipped = uploader.skipped + 1
    <3>1. UNCHANGED <<library, temps>> /\ uploader.at = "walking" /\ p \in uploader.list
      BY <1>2 DEF WalkPart
    <3>2. CASE uploader' = [uploader EXCEPT !.list = @ \ {p}]
      BY <1>0, <3>1, <3>2 DEF UploadTypes
    <3>3. CASE uploader' = [uploader EXCEPT !.list = @ \ {p}, !.skipped = @ + 1]
      <4>1. PICK l \in SUBSET Recordings : l = uploader.list \ {p}
        BY <1>0 DEF UploadTypes
      <4>2. PICK k \in Nat : k = uploader.skipped + 1
        BY <1>0 DEF UploadTypes
      <4>3. uploader' = [uploader EXCEPT !.list = l, !.skipped = k]
        BY <3>3, <4>1, <4>2, Zenon
      <4>4. /\ uploader'.at = uploader.at /\ uploader'.seen = uploader.seen
            /\ uploader'.list = l /\ uploader'.skipped = k
            /\ uploader' \in [at : UploadPlaces, part : Recordings \cup {NoPart}, list : SUBSET Recordings,
                              skipped : Nat, seen : SUBSET Recordings]
        BY <1>0, <4>3 DEF UploadTypes
      <4> QED
        BY <3>1, <4>1, <4>2, <4>4
    <3> QED
      BY <1>2, <3>1, <3>2, <3>3 DEF WalkPart
  <2>2. /\ entries' \in [Recordings -> {"absent", "pending", "sealing", "uploading", "done", "failed"}]
        /\ \A o \in Recordings : entries[o] # "absent" => entries'[o] # "absent"
    BY <1>0, <1>2 DEF WalkPart, Enqueued, UploadTypes
  <2>3. library[p] # "kept" \/ entries'[p] # "absent" \/ uploader'.skipped = uploader.skipped + 1
    <3>1. CASE library[p] # "kept"
      BY <3>1
    <3>2. CASE Enqueued(p)
      BY <1>0, <3>2 DEF Enqueued, UploadTypes
    <3>3. CASE uploader' = [uploader EXCEPT !.list = @ \ {p}, !.skipped = @ + 1]
      BY <1>0, <3>3 DEF UploadTypes
    <3> QED
      BY <1>2, <3>1, <3>2, <3>3 DEF WalkPart
  <2>4. ASSUME NEW o \in uploader.seen PROVE KeptOK(o)'
    <3>1. o \in Recordings /\ KeptOK(o) /\ uploader.skipped \in Nat
      BY <1>0, <2>4 DEF UploadTypes
    <3>2. uploader'.skipped = 0 => uploader.skipped = 0
      BY <2>1, <3>1
    <3>3. uploader'.skipped # 0 \/ uploader'.skipped # uploader.skipped + 1
      BY <3>1
    <3> QED
      BY <2>1, <2>2, <2>3, <3>1, <3>2, <3>3 DEF KeptOK
  <2> QED
    BY <1>0, <2>1, <2>2, <2>4 DEF UploadInv, UploadTypes, InHandOK, SeenOK
<1>3. CASE WalkFails
  <2>1. PICK k \in Nat : k = uploader.skipped + 1
    BY <1>0 DEF UploadTypes
  <2>2. /\ UNCHANGED <<library, entries, temps>>
        /\ uploader' = [uploader EXCEPT !.at = "drain", !.list = {}, !.skipped = k]
    BY <1>3, <2>1, Zenon DEF WalkFails
  <2>3. /\ uploader'.at = "drain" /\ uploader'.seen = uploader.seen /\ uploader'.skipped = k
        /\ uploader' \in [at : UploadPlaces, part : Recordings \cup {NoPart}, list : SUBSET Recordings,
                          skipped : Nat, seen : SUBSET Recordings]
    BY <1>0, <2>2 DEF UploadTypes, UploadPlaces
  <2>4. k # 0
    BY <1>0, <2>1 DEF UploadTypes
  <2>5. UploadTypes' /\ InHandOK' /\ SeenOK'
    BY <1>0, <2>2, <2>3 DEF UploadTypes, InHandOK, SeenOK
  <2>6. \A o \in uploader'.seen : KeptOK(o)'
    BY <2>3, <2>4 DEF KeptOK
  <2> QED
    BY <2>5, <2>6 DEF UploadInv
<1> QED
  BY <1>1, <1>2, <1>3

(* One part at a time is sealed, put and recorded.                            *)
LEMMA DrainKeeps ==
    ASSUME UploadInv,
           (\E p \in Recordings : TakePart(p)) \/ SealPart \/ PutPart \/ RecordDone \/ FailPart \/ BookkeepingFails
    PROVE  UploadInv'
<1>0. UploadTypes /\ InHandOK /\ SeenOK /\ \A o \in uploader.seen : KeptOK(o)
  BY DEF UploadInv
<1> DEFINE States == {"absent", "pending", "sealing", "uploading", "done", "failed"}
           Uploaders == [at : UploadPlaces, part : Recordings \cup {NoPart}, list : SUBSET Recordings,
                         skipped : Nat, seen : SUBSET Recordings]
<1>1. /\ UNCHANGED library /\ uploader.at \in {"drain", "seal", "upload", "record"}
      /\ uploader'.at \in {"drain", "seal", "upload", "record"}
      /\ uploader'.seen = uploader.seen /\ uploader'.skipped = uploader.skipped /\ uploader' \in Uploaders
  <2>1. CASE \E p \in Recordings : TakePart(p)
    <3>1. PICK p \in Recordings : TakePart(p)
      BY <2>1
    <3>2. UNCHANGED library /\ uploader.at = "drain"
      BY <3>1 DEF TakePart
    <3>3. CASE UNCHANGED uploader
      BY <1>0, <3>2, <3>3 DEF UploadTypes
    <3>4. CASE uploader' = [uploader EXCEPT !.at = "seal", !.part = p]
      BY <1>0, <3>2, <3>4 DEF UploadTypes, UploadPlaces
    <3> QED
      BY <3>1, <3>3, <3>4 DEF TakePart
  <2>2. CASE SealPart \/ PutPart
    BY <1>0, <2>2 DEF SealPart, PutPart, UploadTypes, UploadPlaces
  <2>3. CASE RecordDone \/ FailPart \/ BookkeepingFails
    BY <1>0, <2>3 DEF RecordDone, FailPart, BookkeepingFails, UploaderBack, UploadTypes, UploadPlaces
  <2> QED
    BY <2>1, <2>2, <2>3
<1>2. /\ entries' \in [Recordings -> States]
      /\ \A o \in Recordings : entries'[o] = "absent" => entries[o] = "absent" \/ library[o] = "deleted"
  <2>1. CASE \E p \in Recordings : TakePart(p)
    BY <1>0, <2>1 DEF TakePart, UploadTypes
  <2>2. CASE SealPart \/ FailPart \/ RecordDone
    <3>1. PICK p \in Recordings : p = uploader.part
      BY <1>0, <2>2 DEF SealPart, FailPart, RecordDone, InHandOK
    <3>2. PICK s \in States \ {"absent"} : entries' = [entries EXCEPT ![p] = s]
      BY <2>2, <3>1 DEF SealPart, FailPart, RecordDone
    <3> QED
      BY <1>0, <3>2 DEF UploadTypes
  <2>3. CASE PutPart \/ BookkeepingFails
    BY <1>0, <2>3 DEF PutPart, BookkeepingFails, UploadTypes
  <2> QED
    BY <2>1, <2>2, <2>3
<1>3. temps' \in Nat /\ InHandOK'
  <2>1. CASE \E p \in Recordings : TakePart(p)
    <3>1. PICK p \in Recordings : TakePart(p)
      BY <2>1
    <3>2. CASE library[p] = "deleted"
      BY <1>0, <3>1, <3>2 DEF TakePart, UploadTypes, InHandOK
    <3>3. CASE library[p] # "deleted"
      <4>1. temps' = temps + 1 /\ uploader' = [uploader EXCEPT !.at = "seal", !.part = p]
        BY <3>1, <3>3 DEF TakePart
      <4>2. uploader'.part = p
        BY <1>0, <4>1 DEF UploadTypes
      <4> QED
        BY <1>0, <4>1, <4>2 DEF UploadTypes, InHandOK
    <3> QED
      BY <3>2, <3>3
  <2>2. CASE SealPart \/ PutPart
    BY <1>0, <2>2 DEF SealPart, PutPart, UploadTypes, InHandOK
  <2>3. CASE RecordDone \/ FailPart \/ BookkeepingFails
    <3>1. temps \in Nat /\ temps > 0 /\ temps' = temps - 1 /\ uploader'.at = "drain"
      BY <1>0, <2>3 DEF RecordDone, FailPart, BookkeepingFails, UploaderBack, UploadTypes, InHandOK
    <3> QED
      BY <3>1 DEF InHandOK
  <2> QED
    BY <2>1, <2>2, <2>3
<1>4. UploadTypes'
  BY <1>0, <1>1, <1>2, <1>3 DEF UploadTypes
<1>5. ASSUME NEW o \in uploader.seen PROVE KeptOK(o)'
  <2>1. o \in Recordings /\ KeptOK(o)
    BY <1>0, <1>5 DEF UploadTypes
  <2> QED
    BY <1>1, <1>2, <2>1 DEF KeptOK
<1> QED
  BY <1>0, <1>1, <1>3, <1>4, <1>5 DEF UploadInv, SeenOK

LEMMA UploadKeeps == UploadInv /\ [UploadNext]_uploadVars => UploadInv'
<1> SUFFICES ASSUME UploadInv, [UploadNext]_uploadVars PROVE UploadInv'
  OBVIOUS
<1>1. CASE UNCHANGED uploadVars
  BY <1>1 DEF uploadVars, UploadInv, UploadTypes, InHandOK, SeenOK, KeptOK
<1>2. CASE UploadNext
  BY <1>2, LibraryKeeps, UploaderStarts, RearmKeeps, WalkKeeps, DrainKeeps, Zenon DEF UploadNext
<1> QED
  BY <1>1, <1>2

LEMMA UploadPromise == UploadInv => UploadTypeOK /\ NoneForgotten
<1> SUFFICES ASSUME UploadInv PROVE UploadTypeOK /\ NoneForgotten
  OBVIOUS
<1>1. UploadTypes /\ \A p \in uploader.seen : KeptOK(p)
  BY DEF UploadInv
<1>2. UploadTypeOK
  BY <1>1 DEF UploadTypes, UploadTypeOK, UploadPlaces
<1>3. NoneForgotten
  BY <1>1 DEF NoneForgotten, Walked, KeptOK
<1> QED
  BY <1>2, <1>3

------------------------------------------------------------------------------
(* In every behaviour of the accounts' suite, for any number of parts, tasks  *)
(* and recordings: the permits of audio.rs are exactly the tasks that run and *)
(* nothing waits while one is free; a part the player is told is on its way   *)
(* has a task that will answer; a queued part is held; and an uploader that   *)
(* has walked the library without stepping over anything left no recording    *)
(* of its start out of the queue.                                             *)
THEOREM AudioLanesSoundHolds == AccountSpec => []AudioLanesSound
<1>1. AccountInit => FetchInv /\ UploadInv
  BY FetchStarts, UploadStarts, Zenon DEF AccountInit
<1>2. FetchInv /\ UploadInv /\ [AccountNext]_accountVars => FetchInv' /\ UploadInv'
  <2> SUFFICES ASSUME FetchInv, UploadInv, [AccountNext]_accountVars PROVE FetchInv' /\ UploadInv'
    OBVIOUS
  <2>1. [FetchNext]_fetchVars
    BY DEF AccountNext, accountVars
  <2>2. [UploadNext]_uploadVars
    BY DEF AccountNext, accountVars
  <2> QED
    BY <2>1, <2>2, FetchKeeps, UploadKeeps, Zenon
<1>3. FetchInv /\ UploadInv => AudioLanesSound
  BY FetchPromise, UploadPromise, Zenon DEF AudioLanesSound
<1> QED
  BY <1>1, <1>2, <1>3, PTL DEF AccountSpec
------------------------------------------------------------------------------
(* The repair of merged tables.  A row only grows, in the order cr-sqlite    *)
(* merges by: a longer causal length, else versions and values column by     *)
(* column.  What is true of the exchange is that every device has absorbed   *)
(* what it pulled, that every change it holds is on the relay or marked to   *)
(* be pushed by someone, and that a device with nothing owed is tidy.        *)
Fields   == Cols \cup {"-1"}
Stamps   == Nat \X Nat
RowSet   == [cl : Nat, col : [Cols -> Stamps]]
Changes  == [row : Rows, cl : Nat, col : Fields, ver : Nat, val : Nat]
Marks    == Rows \X Fields

(* A deleted row, and a column no change has reached, hold the defaults.     *)
RowOK(x) ==
  /\ x.cl % 2 = 0 => x.col = Defaults
  /\ \A k \in Cols : x.col[k][1] = 0 => x.col[k] = Defaults[k]
ChangeOK(c) == c.col \in Cols /\ c.ver = 0 => c.val = Defaults[c.col][2]

(* Numbers are bounded in every state: what makes a maximum exist.            *)
RowUpTo(x, b)    == x.cl <= b /\ \A k \in Cols : x.col[k][1] <= b /\ x.col[k][2] <= b
ChangeUpTo(c, b) == c.cl <= b /\ c.ver <= b /\ c.val <= b
TableOK(tb, b) ==
  /\ tb \in [Rows -> RowSet]
  /\ \A r \in Rows : RowOK(tb[r]) /\ RowUpTo(tb[r], b) /\ tb[r].cl >= Bare[r].cl
DirtyOK(q) == q \in Seq(SUBSET Marks) /\ (q # <<>> => q[Len(q)] # {})
ChangesOK(S, b) == S \subseteq Changes /\ \A c \in S : ChangeOK(c) /\ ChangeUpTo(c, b)

Marked(q) == UNION {q[i] : i \in DOMAIN q}
SentIn(w) == UNION {w[i] : i \in DOMAIN w}
Sent      == SentIn(wire)

(* Orders. *)
Grown(x, y) == x.cl > y.cl \/ (x.cl = y.cl /\ \A k \in Cols : AtLeast(x.col[k], y.col[k]))
Over(c, a) ==
  /\ c.row = a.row
  /\ c.cl > a.cl \/ (c.cl = a.cl /\ c.col = a.col /\ AtLeast(<<c.ver, c.val>>, <<a.ver, a.val>>))
Absorbs(x, c) ==
  x.cl > c.cl \/ (x.cl = c.cl /\ (c.col = "-1" \/ c.cl % 2 = 0 \/ AtLeast(x.col[c.col], <<c.ver, c.val>>)))
Proves(c, r, n, k, x) ==
  c.row = r /\ (c.cl > n \/ (c.cl = n /\ c.col = k /\ c.ver >= 1 /\ AtLeast(<<c.ver, c.val>>, x)))

ChangeIn(tb, m) ==
  LET r == tb[m[1]]
  IN [row |-> m[1], cl |-> r.cl, col |-> m[2],
      ver |-> IF m[2] = "-1" THEN 0 ELSE r.col[m[2]][1], val |-> IF m[2] = "-1" THEN 0 ELSE r.col[m[2]][2]]
OffersOf(tbs, qs, w) ==
  {c \in Changes : c \in SentIn(w) \/ \E d \in Replicas : \E m \in Marked(qs[d]) : c = ChangeIn(tbs[d], m)}
Offers == OffersOf(tables, dirty, wire)
Improves(P, O) == \A c \in O : \E a \in P : Over(a, c)

(* A row, or a change, of a living row stands with all the columns of its     *)
(* table: each of them is on offer, as new or newer.                          *)
Asks(r, x, k) == x.cl % 2 = 1 /\ (k \in ColsOf(r) \/ x.col[k][1] > 0)
RowBacked(O, x, r) ==
  /\ x.cl > Bare[r].cl => \E c \in O : c.row = r /\ c.cl >= x.cl
  /\ \A k \in Cols : Asks(r, x, k) => \E c \in O : Proves(c, r, x.cl, k, x.col[k])
ChangeBacked(O, a) ==
  \A k \in Cols : a.cl % 2 = 1 /\ k \in ColsOf(a.row) => \E c \in O : Proves(c, a.row, a.cl, k, <<0, 0>>)

ExchangeTypes ==
  /\ tables \in [Replicas -> [Rows -> RowSet]] /\ dirty \in [Replicas -> Seq(SUBSET Marks)]
  /\ wire \in Seq(SUBSET Changes) /\ cursor \in [Replicas -> Nat] /\ stash \in [Replicas -> SUBSET Changes]
  /\ \A d \in Replicas : DirtyOK(dirty[d]) /\ cursor[d] <= Len(wire) /\ stash[d] \subseteq Sent
UpTo(b) == (\A d \in Replicas : TableOK(tables[d], b)) /\ ChangesOK(Sent, b)
RepairBounded == \E b \in Nat : b > MaxClock /\ UpTo(b)
PulledIsIn == \A d \in Replicas : \A i \in 1..cursor[d] : \A c \in wire[i] :
                 c \in stash[d] \/ Absorbs(tables[d][c.row], c)
RowsBacked == \A d \in Replicas : \A r \in Rows : RowBacked(Offers, tables[d][r], r)
SentBacked == \A a \in Sent : ChangeBacked(Offers, a)
ExchangeInv == ExchangeTypes /\ RepairBounded /\ PulledIsIn /\ RowsBacked /\ SentBacked

ScheduleTypes ==
  /\ cycle \in [Replicas -> {"push", "pull", "maintain"}]
  /\ maint \in [Replicas -> [pending : BOOLEAN, skipped : BOOLEAN]]
  /\ converted \in [Replicas -> BOOLEAN] /\ missed \in [Replicas -> BOOLEAN]
Tidy(tb) ==
  /\ Orphans(tb, TRUE) = {}
  /\ \A m \in NoteIds, w \in NoteIds : NoteProven(tb, m) /\ NoteProven(tb, w) => m = w
  /\ \A t \in Named(tb), u \in Named(tb) : t = u
Idle(d) ==
  /\ ~maint[d].pending /\ ~maint[d].skipped /\ ~missed[d] /\ cycle[d] # "maintain"
  /\ dirty[d] = <<>> /\ stash[d] = {} /\ \A i \in DOMAIN wire : i > cursor[d] => wire[i] = {}
IdleIsTidy == \A d \in Replicas : Idle(d) => Tidy(tables[d])

RepairInv == ExchangeInv /\ ScheduleTypes /\ IdleIsTidy

------------------------------------------------------------------------------
(* The order of stamps, and the greatest of a bounded set of them.           *)
LEMMA StampOrder ==
    ASSUME NEW x \in Stamps, NEW y \in Stamps, NEW z \in Stamps
    PROVE  /\ AtLeast(x, x)
           /\ AtLeast(x, y) \/ AtLeast(y, x)
           /\ AtLeast(x, y) /\ AtLeast(y, z) => AtLeast(x, z)
           /\ AtLeast(x, y) /\ AtLeast(y, x) => x = y
           /\ AtLeast(x, y) => x[1] >= y[1]
<1>1. /\ x[1] \in Nat /\ x[2] \in Nat /\ x = <<x[1], x[2]>>
      /\ y[1] \in Nat /\ y[2] \in Nat /\ y = <<y[1], y[2]>>
      /\ z[1] \in Nat /\ z[2] \in Nat
  BY DEF Stamps
<1>2. AtLeast(x, x) /\ (AtLeast(x, y) \/ AtLeast(y, x)) /\ (AtLeast(x, y) => x[1] >= y[1])
  BY <1>1 DEF AtLeast
<1>3. AtLeast(x, y) /\ AtLeast(y, z) => AtLeast(x, z)
  BY <1>1 DEF AtLeast
<1>4. AtLeast(x, y) /\ AtLeast(y, x) => x = y
  <2> SUFFICES ASSUME AtLeast(x, y), AtLeast(y, x) PROVE x = y
    OBVIOUS
  <2>1. x[1] = y[1] /\ x[2] = y[2]
    BY <1>1 DEF AtLeast
  <2> QED
    BY <1>1, <2>1
<1> QED
  BY <1>2, <1>3, <1>4

LEMMA TopNumber ==
    ASSUME NEW S \in SUBSET Nat, S # {}, NEW b \in Nat, \A n \in S : n <= b
    PROVE  \E m \in S : \A n \in S : n <= m
<1> DEFINE T == {n \in Nat : \A m \in S : m <= n}
<1>1. T \in SUBSET Nat /\ b \in T
  OBVIOUS
<1>2. PICK t \in T : \A u \in T : ~(<<u, t>> \in OpToRel(<, Nat))
  BY <1>1, NatLessThanWellFounded, WFMin
<1>3. t \in Nat /\ (\A m \in S : m <= t) /\ \A u \in T : ~(u < t)
  BY <1>1, <1>2 DEF OpToRel
<1>4. t \in S
  <2>1. CASE t = 0
    <3>1. PICK m \in S : m <= t /\ m \in Nat
      BY <1>3
    <3> QED
      BY <2>1, <3>1
  <2>2. CASE t # 0
    <3> SUFFICES ASSUME t \notin S PROVE FALSE
      OBVIOUS
    <3>1. t - 1 \in Nat /\ t - 1 < t
      BY <1>3, <2>2
    <3>2. \A m \in S : m <= t - 1
      BY <1>3, <2>2
    <3> QED
      BY <1>3, <3>1, <3>2
  <2> QED
    BY <2>1, <2>2
<1> QED
  BY <1>3, <1>4

LEMMA MaxIs ==
    ASSUME NEW S \in SUBSET Nat, S # {}, NEW b \in Nat, \A n \in S : n <= b
    PROVE  Max(S) \in S /\ \A n \in S : n <= Max(S)
<1>1. PICK m \in S : \A n \in S : n <= m
  BY TopNumber
<1> QED
  BY <1>1 DEF Max

LEMMA MinIs ==
    ASSUME NEW S \in SUBSET Nat, S # {}
    PROVE  Min(S) \in S
<1>1. PICK t \in S : \A u \in S : ~(<<u, t>> \in OpToRel(<, Nat))
  BY NatLessThanWellFounded, WFMin
<1>2. \A u \in S : ~(u < t)
  BY <1>1 DEF OpToRel
<1>3. \A u \in S : t <= u
  BY <1>2
<1> QED
  BY <1>3 DEF Min

LEMMA NewestIs ==
    ASSUME NEW S \in SUBSET Stamps, S # {}, NEW b \in Nat,
           \A x \in S : x[1] <= b /\ x[2] <= b
    PROVE  Newest(S) \in S /\ \A y \in S : AtLeast(Newest(S), y)
<1> DEFINE Vers == {x[1] : x \in S}
<1>1. \A x \in S : x[1] \in Nat /\ x[2] \in Nat
  BY DEF Stamps
<1>2. PICK v \in Vers : \A n \in Vers : n <= v
  <2>1. Vers \in SUBSET Nat /\ Vers # {} /\ \A n \in Vers : n <= b
    BY <1>1
  <2> HIDE DEF Vers
  <2> QED
    BY <2>1, TopNumber
<1>3. PICK x0 \in S : x0[1] = v
  BY <1>2
<1>4. \A x \in S : x[1] <= v
  BY <1>2
<1> DEFINE Vals == {x[2] : x \in {y \in S : y[1] = v}}
<1>5. PICK w \in Vals : \A n \in Vals : n <= w
  <2>1. Vals \in SUBSET Nat /\ Vals # {} /\ \A n \in Vals : n <= b
    BY <1>1, <1>3
  <2> HIDE DEF Vals
  <2> QED
    BY <2>1, TopNumber
<1>6. PICK z \in S : z[1] = v /\ z[2] = w
  BY <1>5
<1>7. \A y \in S : y[1] = v => y[2] <= w
  BY <1>5
<1>8. \A y \in S : AtLeast(z, y)
  BY <1>1, <1>3, <1>4, <1>6, <1>7 DEF AtLeast
<1> HIDE DEF Vers, Vals
<1> QED
  BY <1>8 DEF Newest

LEMMA DefaultsFacts ==
  /\ Defaults \in [Cols -> Stamps] /\ MaxClock \in Nat
  /\ \A k \in Cols : Defaults[k][1] = 0 /\ Defaults[k][2] \in Nat /\ Defaults[k][2] <= MaxClock + 1
<1>1. MaxClock \in Nat
  BY RepairAssumption
<1>2. \A k \in Cols : Defaults[k] = <<0, IF k = "updated" THEN MaxClock + 1 ELSE 0>>
  BY DEF Defaults
<1>3. Defaults = [k \in Cols |-> Defaults[k]]
  BY DEF Defaults
<1>4. \A k \in Cols : Defaults[k] \in Stamps
  <2>1. PICK m \in Nat : m = MaxClock + 1
    BY <1>1
  <2>2. \A k \in Cols : Defaults[k] = <<0, m>> \/ Defaults[k] = <<0, 0>>
    BY <1>2, <2>1
  <2>3. <<0, m>> \in Stamps /\ <<0, 0>> \in Stamps
    BY DEF Stamps
  <2> QED
    BY <2>2, <2>3
<1> QED
  BY <1>1, <1>2, <1>3, <1>4

LEMMA BareFacts ==
  /\ Bare \in [Rows -> RowSet]
  /\ \A r \in Rows : Bare[r].cl \in {0, 1} /\ Bare[r].col = Defaults
<1>1. \A r \in Rows : Bare[r] = [cl |-> IF r = SessionRow THEN 1 ELSE 0, col |-> Defaults]
  BY DEF Bare
<1>2. \A r \in Rows : Bare[r] \in RowSet /\ Bare[r].cl \in {0, 1} /\ Bare[r].col = Defaults
  <2> SUFFICES ASSUME NEW r \in Rows
               PROVE  Bare[r] \in RowSet /\ Bare[r].cl \in {0, 1} /\ Bare[r].col = Defaults
    OBVIOUS
  <2>1. PICK n \in {0, 1} : Bare[r] = [cl |-> n, col |-> Defaults]
    BY <1>1
  <2> QED
    BY <2>1, DefaultsFacts DEF RowSet
<1>3. Bare = [r \in Rows |-> Bare[r]]
  BY DEF Bare
<1> QED
  BY <1>2, <1>3

(* What a merge makes of a row.                                              *)
JoinsTo(z, x, cs) ==
  /\ Grown(z, x) /\ \A c \in cs : Absorbs(z, c)
  /\ z.cl = x.cl \/ \E c \in cs : z.cl = c.cl
  /\ \A k \in Cols : \/ z.cl = x.cl /\ z.col[k] = x.col[k]
                     \/ z.cl # x.cl /\ z.col[k] = Defaults[k]
                     \/ \E c \in cs : c.cl = z.cl /\ c.col = k /\ z.col[k] = <<c.ver, c.val>>
  /\ cs = {} => z = x
GoodRow(x, b) == x \in RowSet /\ RowOK(x) /\ RowUpTo(x, b)

LEMMA MergedRowJoins ==
    ASSUME NEW b \in Nat, b > MaxClock, NEW x, GoodRow(x, b), NEW cs, ChangesOK(cs, b)
    PROVE  GoodRow(MergedRow(x, cs), b) /\ JoinsTo(MergedRow(x, cs), x, cs)
<1>0. /\ x \in RowSet /\ x.cl \in Nat /\ x.col \in [Cols -> Stamps] /\ RowOK(x) /\ RowUpTo(x, b)
      /\ x = [cl |-> x.cl, col |-> x.col]
  BY DEF GoodRow, RowSet
<1>1. \A c \in cs : /\ c \in Changes /\ ChangeOK(c) /\ c.cl \in Nat /\ c.ver \in Nat /\ c.val \in Nat
                    /\ c.cl <= b /\ c.ver <= b /\ c.val <= b /\ c.col \in Fields
  BY DEF ChangesOK, ChangeUpTo, Changes
<1> DEFINE n == Max({x.cl} \cup {c.cl : c \in cs})
           base == IF n = x.cl THEN x.col ELSE Defaults
           values(k) == {<<c.ver, c.val>> : c \in {a \in cs : a.cl = n /\ a.col = k}}
           cols == IF n % 2 = 0 THEN Defaults ELSE [k \in Cols |-> Newest({base[k]} \cup values(k))]
<1>2. MergedRow(x, cs) = [cl |-> n, col |-> cols]
  BY DEF MergedRow
<1>3. /\ n \in Nat /\ n <= b /\ n >= x.cl /\ (\A c \in cs : n >= c.cl)
      /\ n = x.cl \/ \E c \in cs : n = c.cl
  <2> DEFINE S == {x.cl} \cup {c.cl : c \in cs}
  <2>1. S \in SUBSET Nat /\ S # {} /\ \A m \in S : m <= b
    BY <1>0, <1>1 DEF RowUpTo
  <2>2. Max(S) \in S /\ \A m \in S : m <= Max(S)
    <3> HIDE DEF S
    <3> QED
      BY <2>1, MaxIs
  <2>3. n = Max(S)
    OBVIOUS
  <2>4. n \in S /\ \A m \in S : m <= n
    <3> HIDE DEF S, n
    <3> QED
      BY <2>2, <2>3
  <2> HIDE DEF n
  <2> QED
    BY <2>1, <2>4, <1>0, <1>1
<1> HIDE DEF n
<1>4. /\ base \in [Cols -> Stamps]
      /\ \A k \in Cols : base[k][1] <= b /\ base[k][2] <= b /\ (base[k][1] = 0 => base[k] = Defaults[k])
  BY <1>0, DefaultsFacts DEF RowUpTo, RowOK
<1>5. n = x.cl => base = x.col
  OBVIOUS
<1>6. n # x.cl => base = Defaults
  OBVIOUS
<1> HIDE DEF base
<1>7. ASSUME NEW k \in Cols
      PROVE  /\ Newest({base[k]} \cup values(k)) \in {base[k]} \cup values(k)
             /\ \A y \in {base[k]} \cup values(k) : AtLeast(Newest({base[k]} \cup values(k)), y)
  <2> DEFINE S == {base[k]} \cup values(k)
  <2>1. base[k] \in Stamps /\ base[k][1] <= b /\ base[k][2] <= b
    BY <1>4, <1>7
  <2>2. \A y \in values(k) : y \in Stamps /\ y[1] <= b /\ y[2] <= b
    BY <1>1 DEF Stamps
  <2>3. S \in SUBSET Stamps /\ S # {} /\ \A y \in S : y[1] <= b /\ y[2] <= b
    <3> HIDE DEF values
    <3> QED
      BY <2>1, <2>2
  <2> HIDE DEF S
  <2>4. Newest(S) \in S /\ \A y \in S : AtLeast(Newest(S), y)
    BY <2>3, NewestIs
  <2> QED
    BY <2>4 DEF S
<1>8. ASSUME NEW k \in Cols, n % 2 # 0
      PROVE  /\ cols[k] = base[k] \/ \E c \in cs : c.cl = n /\ c.col = k /\ cols[k] = <<c.ver, c.val>>
             /\ AtLeast(cols[k], base[k])
             /\ \A c \in cs : c.cl = n /\ c.col = k => AtLeast(cols[k], <<c.ver, c.val>>)
             /\ cols[k] \in Stamps /\ cols[k][1] <= b /\ cols[k][2] <= b
             /\ cols[k][1] = 0 => cols[k] = Defaults[k]
  <2>1. PICK z : z = Newest({base[k]} \cup values(k))
    OBVIOUS
  <2>2. cols[k] = z
    BY <1>8, <2>1
  <2>3. z \in {base[k]} \cup values(k) /\ \A y \in {base[k]} \cup values(k) : AtLeast(z, y)
    BY <1>7, <1>8, <2>1
  <2>4. z = base[k] \/ \E c \in cs : c.cl = n /\ c.col = k /\ z = <<c.ver, c.val>>
    BY <2>3
  <2>5. AtLeast(z, base[k]) /\ \A c \in cs : c.cl = n /\ c.col = k => AtLeast(z, <<c.ver, c.val>>)
    BY <2>3
  <2>6. z \in Stamps /\ z[1] <= b /\ z[2] <= b /\ (z[1] = 0 => z = Defaults[k])
    <3>1. CASE z = base[k]
      BY <3>1, <1>4, <1>8
    <3>2. CASE z # base[k]
      <4>1. PICK c \in cs : c.cl = n /\ c.col = k /\ z = <<c.ver, c.val>>
        BY <2>4, <3>2
      <4>2. z \in Stamps /\ z[1] <= b /\ z[2] <= b /\ z[1] = c.ver /\ z[2] = c.val
        BY <1>1, <4>1 DEF Stamps
      <4>3. c.ver = 0 => c.val = Defaults[k][2]
        BY <1>1, <1>8, <4>1 DEF ChangeOK
      <4>4. Defaults[k] = <<0, Defaults[k][2]>>
        BY <1>8, DefaultsFacts DEF Stamps
      <4> QED
        BY <4>1, <4>2, <4>3, <4>4
    <3> QED
      BY <3>1, <3>2
  <2> HIDE DEF cols, values
  <2> QED
    BY <2>2, <2>4, <2>5, <2>6
<1>9. n % 2 = 0 => cols = Defaults
  OBVIOUS
<1>10. cols = [k \in Cols |-> cols[k]]
  BY DefaultsFacts
<1> HIDE DEF cols, values
<1>11. \A k \in Cols : /\ cols[k] \in Stamps /\ cols[k][1] <= b /\ cols[k][2] <= b
                       /\ cols[k][1] = 0 => cols[k] = Defaults[k]
  <2> SUFFICES ASSUME NEW k \in Cols
               PROVE  /\ cols[k] \in Stamps /\ cols[k][1] <= b /\ cols[k][2] <= b
                      /\ cols[k][1] = 0 => cols[k] = Defaults[k]
    OBVIOUS
  <2>1. CASE n % 2 = 0
    BY <2>1, <1>9, DefaultsFacts
  <2>2. CASE n % 2 # 0
    BY <2>2, <1>8
  <2> QED
    BY <2>1, <2>2
<1>12. PICK z : z = MergedRow(x, cs)
  OBVIOUS
<1>13. z = [cl |-> n, col |-> cols] /\ z.cl = n /\ z.col = cols
  BY <1>2, <1>12
<1>14. cols \in [Cols -> Stamps]
  BY <1>10, <1>11
<1>15. GoodRow(z, b)
  BY <1>3, <1>9, <1>11, <1>13, <1>14 DEF GoodRow, RowSet, RowOK, RowUpTo
<1>16. Grown(z, x)
  <2>1. CASE n # x.cl
    BY <2>1, <1>0, <1>3, <1>13 DEF Grown
  <2>2. CASE n = x.cl /\ n % 2 = 0
    <3>1. x.col = Defaults /\ cols = Defaults
      BY <2>2, <1>0, <1>9 DEF RowOK
    <3>2. \A k \in Cols : AtLeast(cols[k], x.col[k])
      BY <3>1, DefaultsFacts, StampOrder
    <3> QED
      BY <2>2, <1>13, <3>2 DEF Grown
  <2>3. CASE n = x.cl /\ n % 2 # 0
    BY <2>3, <1>5, <1>8, <1>13 DEF Grown
  <2> QED
    BY <2>1, <2>2, <2>3
<1>17. ASSUME NEW c \in cs PROVE Absorbs(z, c)
  <2>1. CASE n > c.cl
    BY <2>1, <1>13 DEF Absorbs
  <2>2. CASE n = c.cl /\ (c.col = "-1" \/ n % 2 = 0)
    BY <2>2, <1>13 DEF Absorbs
  <2>3. CASE n = c.cl /\ c.col # "-1" /\ n % 2 # 0
    <3>1. c.col \in Cols
      BY <2>3, <1>1, <1>17 DEF Fields
    <3> QED
      BY <2>3, <3>1, <1>8, <1>13, <1>17 DEF Absorbs
  <2> QED
    BY <2>1, <2>2, <2>3, <1>1, <1>3, <1>17
<1>18. ASSUME NEW k \in Cols
       PROVE \/ z.cl = x.cl /\ z.col[k] = x.col[k]
             \/ z.cl # x.cl /\ z.col[k] = Defaults[k]
             \/ \E c \in cs : c.cl = z.cl /\ c.col = k /\ z.col[k] = <<c.ver, c.val>>
  <2>1. CASE n % 2 = 0
    BY <2>1, <1>0, <1>9, <1>13 DEF RowOK
  <2>2. CASE n % 2 # 0 /\ cols[k] = base[k]
    BY <2>2, <1>5, <1>6, <1>13
  <2>3. CASE n % 2 # 0 /\ cols[k] # base[k]
    BY <2>3, <1>8, <1>13, <1>18
  <2> QED
    BY <2>1, <2>2, <2>3
<1>19. ASSUME cs = {} PROVE z = x
  <2>1. n = x.cl
    BY <1>3, <1>19
  <2>2. \A k \in Cols : cols[k] = x.col[k]
    BY <2>1, <1>18, <1>13, <1>19
  <2>3. x.col = [k \in Cols |-> x.col[k]]
    BY <1>0
  <2>4. cols = x.col
    BY <2>2, <2>3, <1>10
  <2> QED
    BY <2>1, <2>4, <1>0, <1>13
<1>20. JoinsTo(z, x, cs)
  BY <1>3, <1>13, <1>16, <1>17, <1>18, <1>19 DEF JoinsTo
<1> QED
  BY <1>12, <1>15, <1>20

LEMMA TableWeaker ==
    ASSUME NEW tb, NEW b \in Nat, NEW u \in Nat, b <= u, TableOK(tb, b)
    PROVE  TableOK(tb, u)
BY DEF TableOK, RowUpTo, RowSet, Stamps

LEMMA RowsTyped ==
    ASSUME NEW tb, NEW b \in Nat, TableOK(tb, b), NEW r \in Rows
    PROVE  /\ tb[r] \in RowSet /\ tb[r].cl \in Nat /\ tb[r].col \in [Cols -> Stamps]
           /\ tb[r] = [cl |-> tb[r].cl, col |-> tb[r].col] /\ tb[r].cl <= b
           /\ \A k \in Cols : /\ tb[r].col[k] \in Stamps /\ tb[r].col[k][1] \in Nat /\ tb[r].col[k][2] \in Nat
                              /\ tb[r].col[k][1] <= b /\ tb[r].col[k][2] <= b
                              /\ tb[r].col[k] = <<tb[r].col[k][1], tb[r].col[k][2]>>
BY DEF TableOK, RowUpTo, RowSet, Stamps

LEMMA GrownOrder ==
    ASSUME NEW x \in RowSet, NEW y \in RowSet, NEW z \in RowSet
    PROVE  Grown(x, x) /\ (Grown(x, y) /\ Grown(y, z) => Grown(x, z))
<1>1. /\ x.cl \in Nat /\ y.cl \in Nat /\ z.cl \in Nat
      /\ \A k \in Cols : x.col[k] \in Stamps /\ y.col[k] \in Stamps /\ z.col[k] \in Stamps
  BY DEF RowSet
<1>2. \A k \in Cols : /\ AtLeast(x.col[k], x.col[k])
                      /\ AtLeast(x.col[k], y.col[k]) /\ AtLeast(y.col[k], z.col[k]) => AtLeast(x.col[k], z.col[k])
  BY <1>1, StampOrder
<1> QED
  BY <1>1, <1>2 DEF Grown

(* What a run of local statements does: rows grow, every change is marked,   *)
(* and a mark is dropped only for a newer one of its row.                    *)
Wrote(s, z) ==
  /\ \A r \in Rows : Grown(z[1][r], s[1][r])
  /\ \A m \in Marked(s[2]) :
       m \in Marked(z[2]) \/ (z[1][m[1]].cl > s[1][m[1]].cl /\ \E k \in Fields : <<m[1], k>> \in Marked(z[2]))
  /\ \A r \in Rows : z[1][r].cl > s[1][r].cl =>
       /\ \E k \in Fields : <<r, k>> \in Marked(z[2])
       /\ \A k \in Cols : Asks(r, z[1][r], k) => <<r, k>> \in Marked(z[2]) /\ z[1][r].col[k][1] > 0
  /\ \A r \in Rows : z[1][r].cl = s[1][r].cl =>
       \A k \in Cols : z[1][r].col[k] # s[1][r].col[k] => <<r, k>> \in Marked(z[2]) /\ z[1][r].col[k][1] > 0
StateOK(s, b) == TableOK(s[1], b) /\ DirtyOK(s[2])

LEMMA WroteNothing ==
    ASSUME NEW s, NEW b \in Nat, StateOK(s, b)
    PROVE  Wrote(s, s) /\ StateOK(s, b + 1)
<1>1. \A r \in Rows : s[1][r] \in RowSet /\ s[1][r].cl \in Nat
  BY RowsTyped DEF StateOK
<1>2. \A r \in Rows : Grown(s[1][r], s[1][r])
  BY <1>1, GrownOrder
<1>3. TableOK(s[1], b + 1)
  BY TableWeaker DEF StateOK
<1>4. \A m \in Marked(s[2]) : m \in Marked(s[2])
  OBVIOUS
<1> QED
  BY <1>1, <1>2, <1>3, <1>4 DEF Wrote, StateOK

LEMMA MarkedTyped ==
    ASSUME NEW q, DirtyOK(q)
    PROVE  Marked(q) \subseteq Marks /\ \A m \in Marked(q) : m[1] \in Rows /\ m[2] \in Fields /\ m = <<m[1], m[2]>>
<1>1. \A i \in DOMAIN q : q[i] \in SUBSET Marks
  BY DEF DirtyOK
<1>2. Marked(q) \subseteq Marks
  BY <1>1 DEF Marked
<1> QED
  BY <1>2 DEF Marks

LEMMA WroteOn ==
    ASSUME NEW s, NEW t, NEW z, NEW b \in Nat, NEW u \in Nat, NEW v \in Nat,
           StateOK(s, b), StateOK(t, u), StateOK(z, v), Wrote(s, t), Wrote(t, z)
    PROVE  Wrote(s, z)
<1>1. ASSUME NEW r \in Rows
      PROVE  /\ Grown(z[1][r], s[1][r])
             /\ z[1][r].cl \in Nat /\ t[1][r].cl \in Nat /\ s[1][r].cl \in Nat
             /\ z[1][r].cl >= t[1][r].cl /\ t[1][r].cl >= s[1][r].cl
  <2>1. s[1][r] \in RowSet /\ t[1][r] \in RowSet /\ z[1][r] \in RowSet
    BY <1>1, RowsTyped DEF StateOK
  <2>2. Grown(z[1][r], t[1][r]) /\ Grown(t[1][r], s[1][r])
    BY <1>1 DEF Wrote
  <2>3. Grown(z[1][r], s[1][r])
    BY <2>1, <2>2, GrownOrder
  <2> QED
    BY <2>1, <2>2, <2>3 DEF RowSet, Grown
<1>2. \A m \in Marked(s[2]) \cup Marked(t[2]) : m[1] \in Rows /\ m[2] \in Fields /\ m = <<m[1], m[2]>>
  BY MarkedTyped DEF StateOK
<1>3. \A m \in Marked(t[2]) :
        m \in Marked(z[2]) \/ (z[1][m[1]].cl > t[1][m[1]].cl /\ \E k \in Fields : <<m[1], k>> \in Marked(z[2]))
  BY DEF Wrote
<1>4. ASSUME NEW m \in Marked(s[2])
      PROVE  m \in Marked(z[2]) \/ (z[1][m[1]].cl > s[1][m[1]].cl /\ \E k \in Fields : <<m[1], k>> \in Marked(z[2]))
  <2>0. m[1] \in Rows
    BY <1>2, <1>4
  <2>1. CASE m \in Marked(t[2])
    BY <2>0, <2>1, <1>1, <1>3
  <2>2. CASE m \notin Marked(t[2])
    <3>1. t[1][m[1]].cl > s[1][m[1]].cl
      BY <1>4, <2>2 DEF Wrote
    <3>2. PICK k \in Fields : <<m[1], k>> \in Marked(t[2])
      BY <1>4, <2>2 DEF Wrote
    <3>3. \E j \in Fields : <<m[1], j>> \in Marked(z[2])
      BY <3>2, <1>3
    <3> QED
      BY <2>0, <3>1, <3>3, <1>1
  <2> QED
    BY <2>1, <2>2
<1>5. ASSUME NEW r \in Rows, z[1][r].cl > s[1][r].cl
      PROVE  /\ \E k \in Fields : <<r, k>> \in Marked(z[2])
             /\ \A k \in Cols : Asks(r, z[1][r], k) => <<r, k>> \in Marked(z[2]) /\ z[1][r].col[k][1] > 0
  <2>1. CASE z[1][r].cl > t[1][r].cl
    BY <2>1, <1>5 DEF Wrote
  <2>2. CASE z[1][r].cl = t[1][r].cl
    <3>1. t[1][r].cl > s[1][r].cl
      BY <2>2, <1>5
    <3>2. PICK k \in Fields : <<r, k>> \in Marked(t[2])
      BY <3>1, <1>5 DEF Wrote
    <3>3. \E j \in Fields : <<r, j>> \in Marked(z[2])
      BY <3>2, <1>3
    <3>4. ASSUME NEW j \in Cols, Asks(r, z[1][r], j)
          PROVE  <<r, j>> \in Marked(z[2]) /\ z[1][r].col[j][1] > 0
      <4>1. CASE z[1][r].col[j] # t[1][r].col[j]
        BY <4>1, <2>2, <1>5, <3>4 DEF Wrote
      <4>2. CASE z[1][r].col[j] = t[1][r].col[j]
        <5>1. Asks(r, t[1][r], j)
          BY <4>2, <2>2, <3>4 DEF Asks
        <5>2. <<r, j>> \in Marked(t[2]) /\ t[1][r].col[j][1] > 0
          BY <5>1, <3>1, <1>5, <3>4 DEF Wrote
        <5>3. <<r, j>> \in Marked(z[2])
          <6>1. z[1][r].cl \in Nat
            BY <1>1, <1>5
          <6> QED
            BY <5>2, <1>3, <2>2, <6>1
        <5> QED
          BY <4>2, <5>2, <5>3
      <4> QED
        BY <4>1, <4>2
    <3> QED
      BY <3>3, <3>4
  <2> QED
    BY <2>1, <2>2, <1>1, <1>5
<1>6. ASSUME NEW r \in Rows, z[1][r].cl = s[1][r].cl, NEW k \in Cols, z[1][r].col[k] # s[1][r].col[k]
      PROVE  <<r, k>> \in Marked(z[2]) /\ z[1][r].col[k][1] > 0
  <2>1. z[1][r].cl = t[1][r].cl /\ t[1][r].cl = s[1][r].cl /\ z[1][r].cl \in Nat
    BY <1>1, <1>6
  <2>2. CASE z[1][r].col[k] # t[1][r].col[k]
    BY <2>1, <2>2, <1>6 DEF Wrote
  <2>3. CASE z[1][r].col[k] = t[1][r].col[k]
    <3>1. <<r, k>> \in Marked(t[2]) /\ t[1][r].col[k][1] > 0
      BY <2>1, <2>3, <1>6 DEF Wrote
    <3>2. <<r, k>> \in Marked(z[2])
      BY <3>1, <1>3, <2>1
    <3> QED
      BY <2>3, <3>1, <3>2
  <2> QED
    BY <2>2, <2>3
<1> QED
  BY <1>1, <1>4, <1>5, <1>6 DEF Wrote

LEMMA MarkMarks ==
    ASSUME NEW q, DirtyOK(q), NEW marks \in SUBSET Marks, marks # {}, NEW gone
    PROVE  /\ DirtyOK(Mark(q, marks, gone)) /\ Mark(q, marks, gone) # <<>>
           /\ Marked(Mark(q, marks, gone)) = marks \cup {m \in Marked(q) : m \notin marks /\ m[1] \notin gone}
<1> DEFINE p == [i \in DOMAIN q |-> {m \in q[i] : m \notin marks /\ m[1] \notin gone}]
<1>1. q \in Seq(SUBSET Marks) /\ DOMAIN q = 1..Len(q) /\ Len(q) \in Nat
  BY DEF DirtyOK
<1>2. \A i \in DOMAIN q : p[i] \in SUBSET Marks
  BY <1>1
<1>3. p \in Seq(SUBSET Marks) /\ Len(p) = Len(q)
  BY <1>1, <1>2
<1>4. \A i \in 1..Len(q) : p[i] = {m \in q[i] : m \notin marks /\ m[1] \notin gone}
  BY <1>1
<1>5. Mark(q, marks, gone) = Append(p, marks)
  BY DEF Mark
<1> HIDE DEF p
<1>6. PICK z : z = Append(p, marks)
  OBVIOUS
<1>7. /\ z \in Seq(SUBSET Marks) /\ Len(z) = Len(q) + 1 /\ z[Len(q) + 1] = marks
      /\ \A i \in 1..Len(q) : z[i] = p[i]
  BY <1>1, <1>3, <1>6
<1>8. DOMAIN z = 1..(Len(q) + 1)
  BY <1>7
<1>9. DirtyOK(z) /\ z # <<>>
  <2>1. z # <<>>
    BY <1>1, <1>8, <1>7
  <2> QED
    BY <1>7, <2>1 DEF DirtyOK
<1>10. Marked(z) = marks \cup {m \in Marked(q) : m \notin marks /\ m[1] \notin gone}
  <2>1. ASSUME NEW m \in Marked(z) PROVE m \in marks \cup {x \in Marked(q) : x \notin marks /\ x[1] \notin gone}
    <3>1. PICK i \in 1..(Len(q) + 1) : m \in z[i]
      BY <2>1, <1>8 DEF Marked
    <3>2. CASE i = Len(q) + 1
      BY <3>1, <3>2, <1>7
    <3>3. CASE i # Len(q) + 1
      <4>1. i \in 1..Len(q)
        BY <3>3, <1>1
      <4>2. m \in q[i] /\ m \notin marks /\ m[1] \notin gone
        BY <3>1, <4>1, <1>4, <1>7
      <4>3. m \in Marked(q)
        BY <4>1, <4>2, <1>1 DEF Marked
      <4> QED
        BY <4>2, <4>3
    <3> QED
      BY <3>2, <3>3
  <2>2. ASSUME NEW m \in marks PROVE m \in Marked(z)
    <3>1. Len(q) + 1 \in DOMAIN z /\ m \in z[Len(q) + 1]
      BY <2>2, <1>1, <1>7, <1>8
    <3> QED
      BY <3>1 DEF Marked
  <2>3. ASSUME NEW m \in Marked(q), m \notin marks, m[1] \notin gone PROVE m \in Marked(z)
    <3>1. PICK i \in 1..Len(q) : m \in q[i]
      BY <2>3, <1>1 DEF Marked
    <3>2. i \in DOMAIN z /\ m \in z[i]
      BY <2>3, <3>1, <1>1, <1>4, <1>7, <1>8
    <3> QED
      BY <3>2 DEF Marked
  <2> QED
    BY <2>1, <2>2, <2>3
<1> QED
  BY <1>5, <1>6, <1>9, <1>10

LEMMA ColsOfTyped ==
    ASSUME NEW r
    PROVE  ColsOf(r) \subseteq Fields /\ ColsOf(r) # {}
<1>1. ColsOf(r) = {"session", "updated"} \/ ColsOf(r) = {"name"} \/ ColsOf(r) = {"-1"}
  BY DEF ColsOf
<1> QED
  BY <1>1 DEF Fields, Cols

(* Rows rewritten and marked in one statement.                               *)
RowsWritten(s, z, rs, marks, gone, b) ==
  /\ rs \in SUBSET Rows /\ rs # {} /\ marks \in SUBSET Marks /\ z[2] = Mark(s[2], marks, gone)
  /\ \A m \in marks : m[1] \in rs
  /\ \A r \in rs : \E k \in Fields : <<r, k>> \in marks
  /\ \A r \in rs : r \in gone => z[1][r].cl > s[1][r].cl
  /\ \A r \in Rows \ rs : z[1][r] = s[1][r] /\ r \notin gone
  /\ z[1] \in [Rows -> RowSet]
  /\ \A r \in rs : /\ RowOK(z[1][r]) /\ RowUpTo(z[1][r], b + 1) /\ Grown(z[1][r], s[1][r])
                   /\ z[1][r].cl > s[1][r].cl =>
                        \A k \in Cols : Asks(r, z[1][r], k) => <<r, k>> \in marks /\ z[1][r].col[k][1] > 0
                   /\ z[1][r].cl = s[1][r].cl =>
                        \A k \in Cols : z[1][r].col[k] # s[1][r].col[k] => <<r, k>> \in marks /\ z[1][r].col[k][1] > 0

LEMMA RowWrites ==
    ASSUME NEW s, NEW z, NEW b \in Nat, b > MaxClock, StateOK(s, b),
           NEW rs, NEW marks, NEW gone, RowsWritten(s, z, rs, marks, gone, b)
    PROVE  StateOK(z, b + 1) /\ Wrote(s, z) /\ z[2] # <<>>
<1>0. /\ rs \in SUBSET Rows /\ rs # {} /\ marks \in SUBSET Marks /\ z[2] = Mark(s[2], marks, gone)
      /\ \A m \in marks : m[1] \in rs
      /\ \A r \in rs : \E k \in Fields : <<r, k>> \in marks
      /\ \A r \in rs : r \in gone => z[1][r].cl > s[1][r].cl
      /\ \A r \in Rows \ rs : z[1][r] = s[1][r] /\ r \notin gone
      /\ z[1] \in [Rows -> RowSet]
      /\ \A r \in rs : /\ RowOK(z[1][r]) /\ RowUpTo(z[1][r], b + 1) /\ Grown(z[1][r], s[1][r])
                       /\ z[1][r].cl > s[1][r].cl =>
                            \A k \in Cols : Asks(r, z[1][r], k) => <<r, k>> \in marks /\ z[1][r].col[k][1] > 0
                       /\ z[1][r].cl = s[1][r].cl =>
                            \A k \in Cols : z[1][r].col[k] # s[1][r].col[k] => <<r, k>> \in marks /\ z[1][r].col[k][1] > 0
  BY DEF RowsWritten
<1>1. marks # {}
  BY <1>0
<1>2. DirtyOK(s[2]) /\ TableOK(s[1], b)
  BY DEF StateOK
<1>3. /\ DirtyOK(z[2]) /\ z[2] # <<>>
      /\ Marked(z[2]) = marks \cup {m \in Marked(s[2]) : m \notin marks /\ m[1] \notin gone}
  BY <1>0, <1>1, <1>2, MarkMarks
<1>4. \A r \in Rows : s[1][r] \in RowSet /\ s[1][r].cl \in Nat /\ z[1][r] \in RowSet /\ z[1][r].cl \in Nat
  BY <1>0, <1>2, RowsTyped DEF RowSet
<1>5. \A r \in Rows : Grown(z[1][r], s[1][r])
  BY <1>0, <1>4, GrownOrder
<1>6. TableOK(z[1], b + 1)
  <2>1. TableOK(s[1], b + 1)
    BY <1>2, TableWeaker
  <2>2. ASSUME NEW r \in Rows PROVE RowOK(z[1][r]) /\ RowUpTo(z[1][r], b + 1) /\ z[1][r].cl >= Bare[r].cl
    <3>1. RowOK(s[1][r]) /\ RowUpTo(s[1][r], b + 1) /\ s[1][r].cl >= Bare[r].cl
      BY <2>1, <2>2 DEF TableOK
    <3>2. RowOK(z[1][r]) /\ RowUpTo(z[1][r], b + 1)
      BY <1>0, <2>2, <3>1
    <3>3. z[1][r].cl >= s[1][r].cl
      BY <2>2, <1>4, <1>5 DEF Grown
    <3>4. Bare[r].cl \in Nat
      BY <2>2, BareFacts
    <3> QED
      BY <2>2, <3>1, <3>2, <3>3, <3>4, <1>4
  <2> QED
    BY <1>0, <2>2 DEF TableOK
<1>7. ASSUME NEW m \in Marked(s[2])
      PROVE  m \in Marked(z[2]) \/ (z[1][m[1]].cl > s[1][m[1]].cl /\ \E k \in Fields : <<m[1], k>> \in Marked(z[2]))
  <2>1. m[1] \in Rows
    BY <1>2, <1>7, MarkedTyped
  <2>2. CASE m[1] \in gone
    <3>1. m[1] \in rs
      BY <1>0, <2>1, <2>2
    <3>2. PICK k \in Fields : <<m[1], k>> \in marks
      BY <1>0, <3>1
    <3> QED
      BY <2>2, <3>1, <3>2, <1>0, <1>3
  <2>3. CASE m[1] \notin gone
    BY <2>3, <1>3, <1>7
  <2> QED
    BY <2>2, <2>3
<1>8. ASSUME NEW r \in Rows, z[1][r].cl > s[1][r].cl
      PROVE  /\ \E k \in Fields : <<r, k>> \in Marked(z[2])
             /\ \A k \in Cols : Asks(r, z[1][r], k) => <<r, k>> \in Marked(z[2]) /\ z[1][r].col[k][1] > 0
  <2>1. r \in rs
    BY <1>0, <1>4, <1>8
  <2> QED
    BY <2>1, <1>0, <1>3, <1>8
<1>9. ASSUME NEW r \in Rows, z[1][r].cl = s[1][r].cl, NEW k \in Cols, z[1][r].col[k] # s[1][r].col[k]
      PROVE  <<r, k>> \in Marked(z[2]) /\ z[1][r].col[k][1] > 0
  <2>1. r \in rs
    BY <1>0, <1>9
  <2> QED
    BY <2>1, <1>0, <1>3, <1>9
<1> QED
  BY <1>3, <1>5, <1>6, <1>7, <1>8, <1>9 DEF StateOK, Wrote

LEMMA ColumnWrites ==
    ASSUME NEW s, NEW b \in Nat, b > MaxClock, StateOK(s, b), NEW r \in Rows, Live(s[1], r),
           NEW k \in Cols, NEW v \in Nat, v <= b
    PROVE  LET z == SetColumn(s, r, k, v) IN StateOK(z, b + 1) /\ Wrote(s, z) /\ z[2] # <<>>
<1>1. PICK z : z = SetColumn(s, r, k, v)
  OBVIOUS
<1>2. z[1] = [s[1] EXCEPT ![r].col[k] = <<@[1] + 1, v>>] /\ z[2] = Mark(s[2], {<<r, k>>}, {})
  BY <1>1 DEF SetColumn
<1>3. s[1] \in [Rows -> RowSet] /\ RowOK(s[1][r]) /\ RowUpTo(s[1][r], b)
  BY DEF StateOK, TableOK
<1>4. PICK n \in Nat, w \in Nat : s[1][r].col[k] = <<n, w>> /\ n <= b
  <2>1. s[1][r].col[k] \in Stamps
    BY <1>3 DEF RowSet
  <2> QED
    BY <2>1, <1>3 DEF Stamps, RowUpTo
<1>5. z[1] \in [Rows -> RowSet] /\ \A x \in Rows \ {r} : z[1][x] = s[1][x]
  <2>1. <<n + 1, v>> \in Stamps
    BY DEF Stamps
  <2>2. PICK y \in RowSet : y = s[1][r]
    BY <1>3
  <2>3. y.cl \in Nat /\ y.col \in [Cols -> Stamps] /\ y = [cl |-> y.cl, col |-> y.col]
    BY <2>2 DEF RowSet
  <2>4. PICK q : q = [y EXCEPT !.col[k] = <<n + 1, v>>]
    OBVIOUS
  <2>5. q = [cl |-> y.cl, col |-> [y.col EXCEPT ![k] = <<n + 1, v>>]]
    BY <2>3, <2>4
  <2>6. q \in RowSet
    BY <2>1, <2>3, <2>5 DEF RowSet
  <2>7. z[1] = [s[1] EXCEPT ![r] = q]
    BY <1>2, <1>3, <1>4, <2>2, <2>4
  <2> QED
    BY <1>3, <2>6, <2>7
<1>6. /\ z[1][r].cl = s[1][r].cl /\ z[1][r].col[k] = <<n + 1, v>>
      /\ \A j \in Cols \ {k} : z[1][r].col[j] = s[1][r].col[j]
  BY <1>2, <1>3, <1>4 DEF RowSet
<1>7. s[1][r].cl % 2 # 0 /\ s[1][r].cl \in Nat
  BY <1>3 DEF Live, RowSet
<1>8. RowOK(z[1][r]) /\ RowUpTo(z[1][r], b + 1)
  <2>1. \A j \in Cols : s[1][r].col[j][1] \in Nat /\ s[1][r].col[j][2] \in Nat
    BY <1>3 DEF RowSet, Stamps
  <2>2. <<n + 1, v>>[1] = n + 1 /\ <<n + 1, v>>[2] = v
    OBVIOUS
  <2>3. RowOK(z[1][r])
    BY <1>3, <1>6, <1>7, <2>2 DEF RowOK
  <2>4. RowUpTo(z[1][r], b + 1)
    BY <1>3, <1>4, <1>6, <1>7, <2>1, <2>2 DEF RowUpTo
  <2> QED
    BY <2>3, <2>4
<1>9. Grown(z[1][r], s[1][r])
  <2>1. \A j \in Cols \ {k} : AtLeast(z[1][r].col[j], s[1][r].col[j])
    <3>1. \A j \in Cols : s[1][r].col[j] \in Stamps
      BY <1>3 DEF RowSet
    <3> QED
      BY <1>6, <3>1, StampOrder
  <2>2. AtLeast(z[1][r].col[k], s[1][r].col[k])
    BY <1>4, <1>6 DEF AtLeast
  <2> QED
    BY <1>6, <2>1, <2>2 DEF Grown
<1>10. {<<r, k>>} \in SUBSET Marks /\ k \in Fields
  BY DEF Marks, Fields
<1>11. /\ \A m \in {<<r, k>>} : m[1] \in {r}
       /\ \A x \in {r} : \E j \in Fields : <<x, j>> \in {<<r, k>>}
  BY <1>10
<1>12. \A j \in Cols : z[1][r].col[j] # s[1][r].col[j] => <<r, j>> \in {<<r, k>>} /\ z[1][r].col[j][1] > 0
  BY <1>6
<1>13. ~(z[1][r].cl > s[1][r].cl)
  BY <1>6, <1>7
<1>14. StateOK(z, b + 1) /\ Wrote(s, z) /\ z[2] # <<>>
  <2> DEFINE rs == {r}
             marks == {<<r, k>>}
             gone == {}
  <2>1. rs \in SUBSET Rows /\ rs # {} /\ marks \in SUBSET Marks
    BY <1>10
  <2>2. z[2] = Mark(s[2], marks, gone)
    BY <1>2
  <2>3. (\A m \in marks : m[1] \in rs) /\ \A x \in rs : \E j \in Fields : <<x, j>> \in marks
    BY <1>11
  <2>4. /\ \A x \in rs : x \in gone => z[1][x].cl > s[1][x].cl
        /\ \A x \in Rows \ rs : z[1][x] = s[1][x] /\ x \notin gone
    BY <1>5
  <2>5. \A x \in rs : /\ RowOK(z[1][x]) /\ RowUpTo(z[1][x], b + 1) /\ Grown(z[1][x], s[1][x])
                      /\ z[1][x].cl > s[1][x].cl => \A j \in Cols : Asks(x, z[1][x], j) => <<x, j>> \in marks /\ z[1][x].col[j][1] > 0
                      /\ z[1][x].cl = s[1][x].cl => \A j \in Cols : z[1][x].col[j] # s[1][x].col[j] => <<x, j>> \in marks /\ z[1][x].col[j][1] > 0
    BY <1>8, <1>9, <1>12, <1>13
  <2> HIDE DEF rs, marks, gone
  <2>6. RowsWritten(s, z, rs, marks, gone, b)
    BY <1>5, <2>1, <2>2, <2>3, <2>4, <2>5 DEF RowsWritten
  <2> QED
    BY <2>6, RowWrites
<1> QED
  BY <1>1, <1>14

(* The columns of a new row: those of its table, at their first version.     *)
FirstCols(r, cols, b) ==
  /\ cols \in [Cols -> Stamps]
  /\ \A k \in Cols : /\ cols[k][1] <= b + 1 /\ cols[k][2] <= b + 1
                     /\ cols[k][1] = 0 => cols[k] = Defaults[k]
                     /\ k \in ColsOf(r) <=> cols[k][1] > 0

Inserted(s, z, r, b) ==
  /\ StateOK(z, b + 1) /\ Wrote(s, z)
  /\ ~Live(s[1], r) => z[2] # <<>>
  /\ \A x \in Rows \ {r} : z[1][x] = s[1][x]

LEMMA InsertWrites ==
    ASSUME NEW s, NEW b \in Nat, b > MaxClock, StateOK(s, b), NEW r \in Rows,
           NEW cols, FirstCols(r, cols, b)
    PROVE  Inserted(s, InsertRow(s, r, cols), r, b)
<1>1. CASE Live(s[1], r)
  <2>1. InsertRow(s, r, cols) = s
    BY <1>1 DEF InsertRow
  <2> QED
    BY <1>1, <2>1, WroteNothing DEF Inserted
<1>2. CASE ~Live(s[1], r)
  <2>1. PICK z : z = InsertRow(s, r, cols)
    OBVIOUS
  <2>2. z[1] = [s[1] EXCEPT ![r] = [cl |-> @.cl + 1, col |-> cols]] /\ z[2] = Mark(s[2], {<<r, c>> : c \in ColsOf(r)}, {})
    BY <1>2, <2>1 DEF InsertRow
  <2>3. s[1] \in [Rows -> RowSet] /\ s[1][r].cl \in Nat /\ s[1][r].cl <= b
    BY RowsTyped DEF StateOK, TableOK
  <2>4. PICK n \in Nat : n = s[1][r].cl
    BY <2>3
  <2>5. [cl |-> n + 1, col |-> cols] \in RowSet
    BY DEF RowSet, FirstCols
  <2>6. z[1] \in [Rows -> RowSet] /\ z[1][r] = [cl |-> n + 1, col |-> cols] /\ \A x \in Rows \ {r} : z[1][x] = s[1][x]
    BY <2>2, <2>3, <2>4, <2>5
  <2>7. z[1][r].cl = n + 1 /\ z[1][r].col = cols /\ (n + 1) % 2 # 0
    BY <1>2, <2>4, <2>6 DEF Live
  <2>8. RowOK(z[1][r]) /\ RowUpTo(z[1][r], b + 1) /\ Grown(z[1][r], s[1][r])
    BY <2>3, <2>4, <2>7 DEF RowOK, RowUpTo, Grown, FirstCols
  <2> DEFINE rs == {r}
             marks == {<<r, c>> : c \in ColsOf(r)}
             gone == {}
  <2>9. rs \in SUBSET Rows /\ rs # {} /\ marks \in SUBSET Marks
    BY ColsOfTyped DEF Marks
  <2>10. z[2] = Mark(s[2], marks, gone)
    BY <2>2
  <2>11. (\A m \in marks : m[1] \in rs) /\ \A x \in rs : \E j \in Fields : <<x, j>> \in marks
    BY ColsOfTyped
  <2>12. /\ \A x \in rs : x \in gone => z[1][x].cl > s[1][x].cl
         /\ \A x \in Rows \ rs : z[1][x] = s[1][x] /\ x \notin gone
    BY <2>6
  <2>13. \A j \in Cols : Asks(r, z[1][r], j) => <<r, j>> \in marks /\ z[1][r].col[j][1] > 0
    <3> SUFFICES ASSUME NEW j \in Cols, Asks(r, z[1][r], j) PROVE <<r, j>> \in marks /\ z[1][r].col[j][1] > 0
      OBVIOUS
    <3>1. j \in ColsOf(r) /\ cols[j][1] > 0
      BY <2>7 DEF Asks, FirstCols
    <3> QED
      BY <3>1, <2>7
  <2>14. \A x \in rs : /\ RowOK(z[1][x]) /\ RowUpTo(z[1][x], b + 1) /\ Grown(z[1][x], s[1][x])
                       /\ z[1][x].cl > s[1][x].cl => \A j \in Cols : Asks(x, z[1][x], j) => <<x, j>> \in marks /\ z[1][x].col[j][1] > 0
                       /\ z[1][x].cl = s[1][x].cl => \A j \in Cols : z[1][x].col[j] # s[1][x].col[j] => <<x, j>> \in marks /\ z[1][x].col[j][1] > 0
    BY <2>4, <2>7, <2>8, <2>13
  <2>15. StateOK(z, b + 1) /\ Wrote(s, z) /\ z[2] # <<>>
    <3> HIDE DEF rs, marks, gone
    <3>1. RowsWritten(s, z, rs, marks, gone, b)
      BY <2>6, <2>9, <2>10, <2>11, <2>12, <2>14 DEF RowsWritten
    <3> QED
      BY <3>1, RowWrites
  <2> QED
    BY <1>2, <2>1, <2>6, <2>15 DEF Inserted
<1> QED
  BY <1>1, <1>2

LEMMA DeleteWrites ==
    ASSUME NEW s, NEW b \in Nat, b > MaxClock, StateOK(s, b), NEW rs \in SUBSET Rows
    PROVE  LET z == DeleteRows(s, rs)
           IN /\ StateOK(z, b + 1) /\ Wrote(s, z)
              /\ (\E r \in rs : Live(s[1], r)) => z[2] # <<>>
              /\ \A r \in Rows : IF r \in rs /\ Live(s[1], r)
                                 THEN z[1][r] = [cl |-> s[1][r].cl + 1, col |-> Defaults]
                                 ELSE z[1][r] = s[1][r]
<1> DEFINE hit == {r \in rs : Live(s[1], r)}
<1>1. CASE hit = {}
  <2>1. DeleteRows(s, rs) = s
    BY <1>1 DEF DeleteRows
  <2>2. \A r \in rs : ~Live(s[1], r)
    BY <1>1
  <2> QED
    BY <2>1, <2>2, WroteNothing
<1>2. CASE hit # {}
  <2>1. PICK z : z = DeleteRows(s, rs)
    OBVIOUS
  <2>2. /\ z[1] = [r \in Rows |-> IF r \in hit THEN [cl |-> s[1][r].cl + 1, col |-> Defaults] ELSE s[1][r]]
        /\ z[2] = Mark(s[2], {<<r, "-1">> : r \in hit}, hit)
    BY <1>2, <2>1 DEF DeleteRows
  <2> DEFINE marks == {<<r, "-1">> : r \in hit}
  <2>3. hit \in SUBSET Rows
    OBVIOUS
  <2>4. \A r \in Rows : s[1][r] \in RowSet /\ s[1][r].cl \in Nat /\ s[1][r].cl <= b
    BY RowsTyped DEF StateOK
  <2>5. \A r \in hit : s[1][r].cl % 2 = 1
    BY DEF Live
  <2>6. marks \in SUBSET Marks /\ (\A m \in marks : m[1] \in hit) /\ \A r \in hit : \E k \in Fields : <<r, k>> \in marks
    BY <2>3 DEF Marks, Fields
  <2>7. z[2] = Mark(s[2], marks, hit)
    BY <2>2
  <2>8. \A r \in Rows : r \in hit <=> r \in rs /\ Live(s[1], r)
    OBVIOUS
  <2> HIDE DEF hit, marks
  <2>9. \A r \in Rows : z[1][r] = IF r \in hit THEN [cl |-> s[1][r].cl + 1, col |-> Defaults] ELSE s[1][r]
    BY <2>2
  <2>10. ASSUME NEW r \in hit
         PROVE  /\ z[1][r].cl = s[1][r].cl + 1 /\ z[1][r].col = Defaults /\ z[1][r] \in RowSet
                /\ RowOK(z[1][r]) /\ RowUpTo(z[1][r], b + 1) /\ Grown(z[1][r], s[1][r])
                /\ z[1][r].cl > s[1][r].cl /\ z[1][r].cl % 2 = 0
    <3>1. PICK n \in Nat : n = s[1][r].cl /\ n % 2 = 1 /\ n <= b
      BY <2>3, <2>4, <2>5, <2>10
    <3>2. z[1][r] = [cl |-> n + 1, col |-> Defaults]
      BY <3>1, <2>3, <2>9, <2>10
    <3>3. (n + 1) % 2 = 0
      BY <3>1
    <3>4. z[1][r] \in RowSet
      BY <3>2, DefaultsFacts DEF RowSet
    <3>5. \A k \in Cols : Defaults[k][1] = 0 /\ Defaults[k][2] \in Nat /\ Defaults[k][2] <= b + 1
      BY DefaultsFacts
    <3> QED
      BY <3>1, <3>2, <3>3, <3>4, <3>5 DEF RowOK, RowUpTo, Grown
  <2>11. z[1] \in [Rows -> RowSet]
    <3>1. \A r \in Rows : z[1][r] \in RowSet
      BY <2>4, <2>9, <2>10
    <3>2. z[1] = [r \in Rows |-> z[1][r]]
      BY <2>2
    <3> QED
      BY <3>1, <3>2
  <2>12. \A r \in Rows \ hit : z[1][r] = s[1][r] /\ r \notin hit
    BY <2>9
  <2>13. \A r \in hit : /\ RowOK(z[1][r]) /\ RowUpTo(z[1][r], b + 1) /\ Grown(z[1][r], s[1][r])
                        /\ z[1][r].cl > s[1][r].cl => \A k \in Cols : Asks(r, z[1][r], k) => <<r, k>> \in marks /\ z[1][r].col[k][1] > 0
                        /\ z[1][r].cl = s[1][r].cl => \A k \in Cols : z[1][r].col[k] # s[1][r].col[k] => <<r, k>> \in marks /\ z[1][r].col[k][1] > 0
    <3>1. \A r \in hit : z[1][r].cl % 2 # 1 /\ z[1][r].cl # s[1][r].cl
      <4> SUFFICES ASSUME NEW r \in hit PROVE z[1][r].cl % 2 # 1 /\ z[1][r].cl # s[1][r].cl
        OBVIOUS
      <4>1. s[1][r].cl \in Nat /\ s[1][r].cl % 2 = 1 /\ z[1][r].cl % 2 = 0
        BY <2>3, <2>4, <2>5, <2>10
      <4> QED
        BY <4>1
    <3> QED
      BY <2>10, <3>1 DEF Asks
  <2>14. StateOK(z, b + 1) /\ Wrote(s, z) /\ z[2] # <<>>
    <3>1. \A r \in hit : r \in hit => z[1][r].cl > s[1][r].cl
      BY <2>10
    <3>2. RowsWritten(s, z, hit, marks, hit, b)
      BY <1>2, <2>3, <2>6, <2>7, <2>11, <2>12, <2>13, <3>1 DEF RowsWritten
    <3> QED
      BY <3>2, RowWrites
  <2> QED
    BY <2>1, <2>8, <2>9, <2>14
<1> QED
  BY <1>1, <1>2

------------------------------------------------------------------------------
(* A pass of cascade_gc and enforce_uniqueness.                              *)
LEMMA RowNames ==
  /\ SessionRow \in Rows
  /\ \A n \in NoteIds : Note(n) \in Rows /\ Note(n) # SessionRow /\ Note(n)[1] = "note"
  /\ \A t \in TagIds : /\ Tag(t) \in Rows /\ Tag(t) # SessionRow /\ Tag(t)[1] = "tag"
                       /\ Link(t) \in Rows /\ Link(t) # SessionRow /\ Link(t)[1] = "link"
  /\ \A n, m : Note(n) = Note(m) => n = m
  /\ \A t, u : (Tag(t) = Tag(u) => t = u) /\ (Link(t) = Link(u) => t = u) /\ Tag(t) # Link(u)
  /\ \A n, t : Note(n) # Tag(t) /\ Note(n) # Link(t)
<1>1. /\ SessionRow[1] = "session" /\ \A n : Note(n)[1] = "note" /\ Tag(n)[1] = "tag" /\ Link(n)[1] = "link"
  BY DEF SessionRow, Note, Tag, Link
<1>2. \A n : Note(n)[2] = n /\ Tag(n)[2] = n /\ Link(n)[2] = n
  BY DEF Note, Tag, Link
<1>3. /\ SessionRow \in Rows /\ \A n \in NoteIds : Note(n) \in Rows
      /\ \A t \in TagIds : Tag(t) \in Rows /\ Link(t) \in Rows
  BY DEF Rows
<1>4. "session" # "note" /\ "session" # "tag" /\ "session" # "link" /\ "note" # "tag" /\ "note" # "link" /\ "tag" # "link"
  OBVIOUS
<1>5. \A n : Note(n) # SessionRow /\ Tag(n) # SessionRow /\ Link(n) # SessionRow
  BY <1>1, <1>4
<1>6. \A n, m : (Note(n) = Note(m) => n = m) /\ (Tag(n) = Tag(m) => n = m) /\ (Link(n) = Link(m) => n = m)
  BY <1>2
<1>7. \A n, m : Note(n) # Tag(m) /\ Note(n) # Link(m) /\ Tag(n) # Link(m)
  BY <1>1, <1>4
<1> QED
  BY <1>1, <1>3, <1>5, <1>6, <1>7

Deletes(tb, z, rs) ==
  \A r \in Rows : IF r \in rs /\ Live(tb, r) THEN z[r] = [cl |-> tb[r].cl + 1, col |-> Defaults] ELSE z[r] = tb[r]

LEMMA DeletedRows ==
    ASSUME NEW tb, NEW b \in Nat, TableOK(tb, b), NEW z, NEW rs, Deletes(tb, z, rs), NEW r \in Rows
    PROVE  /\ Live(z, r) => Live(tb, r) /\ r \notin rs /\ z[r] = tb[r]
           /\ r \notin rs => z[r] = tb[r]
           /\ r \in rs => ~Live(z, r)
           /\ Deleted(z, r) => Deleted(tb, r) \/ r \in rs
<1>1. tb[r].cl \in Nat
  BY RowsTyped
<1>2. CASE r \in rs /\ Live(tb, r)
  <2>1. z[r].cl = tb[r].cl + 1
    <3>1. z[r] = [cl |-> tb[r].cl + 1, col |-> Defaults]
      BY <1>2, Zenon DEF Deletes
    <3> QED
      BY <3>1
  <2>2. (tb[r].cl + 1) % 2 # 1
    BY <1>1, <1>2 DEF Live
  <2> QED
    BY <1>2, <2>1, <2>2 DEF Live
<1>3. CASE ~(r \in rs /\ Live(tb, r))
  <2>1. z[r] = tb[r]
    BY <1>3 DEF Deletes
  <2> QED
    BY <1>3, <2>1 DEF Live, Deleted
<1> QED
  BY <1>2, <1>3

NoneOrphaned(tb) ==
  /\ \A n \in NoteIds : Live(tb, Note(n)) /\ Deleted(tb, SessionRow) => Value(tb, Note(n), "session") # 1
  /\ \A t \in TagIds : Live(tb, Link(t)) => ~Deleted(tb, SessionRow) /\ ~Deleted(tb, Tag(t))
OneNote(tb) == \A m \in NoteIds, w \in NoteIds : NoteProven(tb, m) /\ NoteProven(tb, w) => m = w
OneTag(tb)  == \A t \in Named(tb), u \in Named(tb) : t = u

LEMMA TidyParts ==
    ASSUME NEW tb, NoneOrphaned(tb), OneNote(tb), OneTag(tb)
    PROVE  Tidy(tb)
<1>1. {m \in NoteIds : Live(tb, Note(m)) /\ Value(tb, Note(m), "session") = 1 /\ Deleted(tb, SessionRow)} = {}
  BY DEF NoneOrphaned
<1>2. {u \in TagIds : TRUE /\ Live(tb, Link(u)) /\ (Deleted(tb, SessionRow) \/ Deleted(tb, Tag(u)))} = {}
  BY DEF NoneOrphaned
<1>3. Orphans(tb, TRUE) = {}
  BY <1>1, <1>2 DEF Orphans
<1> QED
  BY <1>3 DEF Tidy, OneNote, OneTag

LEMMA OrphansAre ==
    ASSUME NEW tb, NEW tags \in BOOLEAN
    PROVE  /\ Orphans(tb, tags) \in SUBSET Rows /\ SessionRow \notin Orphans(tb, tags)
           /\ \A t \in TagIds : Tag(t) \notin Orphans(tb, tags)
           /\ \A n \in NoteIds : Live(tb, Note(n)) /\ Value(tb, Note(n), "session") = 1 /\ Deleted(tb, SessionRow)
                                   => Note(n) \in Orphans(tb, tags)
           /\ tags => \A t \in TagIds : Live(tb, Link(t)) /\ (Deleted(tb, SessionRow) \/ Deleted(tb, Tag(t)))
                                          => Link(t) \in Orphans(tb, tags)
<1>1. \A r \in Orphans(tb, tags) : (\E n \in NoteIds : r = Note(n)) \/ \E t \in TagIds : r = Link(t)
  BY DEF Orphans
<1>2. Orphans(tb, tags) \in SUBSET Rows /\ SessionRow \notin Orphans(tb, tags)
  BY <1>1, RowNames
<1>3. \A t \in TagIds : Tag(t) \notin Orphans(tb, tags)
  BY <1>1, RowNames
<1> QED
  BY <1>2, <1>3 DEF Orphans

LEMMA CascadePass ==
    ASSUME NEW s, NEW b \in Nat, b > MaxClock, StateOK(s, b), NEW tags \in BOOLEAN
    PROVE  LET z == Cascade(s, tags)
           IN StateOK(z, b + 1) /\ Wrote(s, z) /\ (tags => NoneOrphaned(z[1]))
<1>1. PICK z : z = Cascade(s, tags)
  OBVIOUS
<1>2. PICK rs : rs = Orphans(s[1], tags)
  OBVIOUS
<1>3. z = DeleteRows(s, rs) /\ rs \in SUBSET Rows
  BY <1>1, <1>2, OrphansAre DEF Cascade
<1>4. StateOK(z, b + 1) /\ Wrote(s, z) /\ Deletes(s[1], z[1], rs)
  BY <1>3, DeleteWrites DEF Deletes
<1>5. TableOK(s[1], b)
  BY DEF StateOK
<1>6. ASSUME tags PROVE NoneOrphaned(z[1])
  <2>1. z[1][SessionRow] = s[1][SessionRow]
    BY <1>2, <1>4, <1>5, OrphansAre, RowNames, DeletedRows
  <2>2. ASSUME NEW n \in NoteIds, Live(z[1], Note(n)), Deleted(z[1], SessionRow)
        PROVE  Value(z[1], Note(n), "session") # 1
    <3>1. Live(s[1], Note(n)) /\ Note(n) \notin rs /\ z[1][Note(n)] = s[1][Note(n)]
      BY <1>4, <1>5, <2>2, RowNames, DeletedRows
    <3>2. Deleted(s[1], SessionRow)
      BY <2>1, <2>2 DEF Deleted
    <3> QED
      BY <1>2, <2>2, <3>1, <3>2, OrphansAre DEF Value
  <2>3. ASSUME NEW t \in TagIds, Live(z[1], Link(t))
        PROVE  ~Deleted(z[1], SessionRow) /\ ~Deleted(z[1], Tag(t))
    <3>1. Live(s[1], Link(t)) /\ Link(t) \notin rs
      BY <1>4, <1>5, <2>3, RowNames, DeletedRows
    <3>2. ~Deleted(s[1], SessionRow) /\ ~Deleted(s[1], Tag(t))
      BY <1>2, <1>6, <2>3, <3>1, OrphansAre
    <3>3. z[1][Tag(t)] = s[1][Tag(t)]
      BY <1>2, <1>4, <1>5, <2>3, OrphansAre, RowNames, DeletedRows
    <3> QED
      BY <2>1, <3>2, <3>3 DEF Deleted
  <2> QED
    BY <2>2, <2>3 DEF NoneOrphaned
<1> QED
  BY <1>1, <1>4, <1>6

LEMMA NotesPass ==
    ASSUME NEW s, NEW b \in Nat, b > MaxClock, StateOK(s, b)
    PROVE  LET z == DedupNotes(s)
           IN StateOK(z, b + 1) /\ Wrote(s, z) /\ (NoneOrphaned(s[1]) => NoneOrphaned(z[1])) /\ OneNote(z[1])
<1>1. PICK z : z = DedupNotes(s)
  OBVIOUS
<1> DEFINE losers == {m \in NoteIds : NoteProven(s[1], m)
                        /\ \E w \in NoteIds \ {m} : NoteProven(s[1], w) /\ Fresher(s[1], w, m)}
           rs == {Note(n) : n \in losers}
<1>2. z = DeleteRows(s, rs)
  BY <1>1 DEF DedupNotes
<1>3. rs \in SUBSET Rows /\ \A r \in rs : \E n \in NoteIds : r = Note(n)
  BY RowNames
<1>4. \A m \in NoteIds, w \in NoteIds :
        m # w /\ NoteProven(s[1], m) /\ NoteProven(s[1], w) /\ Fresher(s[1], w, m) => Note(m) \in rs
  OBVIOUS
<1> HIDE DEF losers, rs
<1>5. StateOK(z, b + 1) /\ Wrote(s, z) /\ Deletes(s[1], z[1], rs)
  BY <1>2, <1>3, DeleteWrites DEF Deletes
<1>6. TableOK(s[1], b)
  BY DEF StateOK
<1>7. z[1][SessionRow] = s[1][SessionRow] /\ \A t \in TagIds : z[1][Tag(t)] = s[1][Tag(t)] /\ z[1][Link(t)] = s[1][Link(t)]
  BY <1>3, <1>5, <1>6, RowNames, DeletedRows
<1>8. \A n \in NoteIds : Live(z[1], Note(n)) => Live(s[1], Note(n)) /\ z[1][Note(n)] = s[1][Note(n)] /\ Note(n) \notin rs
  BY <1>5, <1>6, RowNames, DeletedRows
<1>9. ASSUME NoneOrphaned(s[1]) PROVE NoneOrphaned(z[1])
  BY <1>7, <1>8, <1>9 DEF NoneOrphaned, Live, Deleted, Value
<1>10. OneNote(z[1])
  <2> SUFFICES ASSUME NEW m \in NoteIds, NEW w \in NoteIds, NoteProven(z[1], m), NoteProven(z[1], w), m # w
               PROVE  FALSE
    BY DEF OneNote
  <2>1. NoteProven(s[1], m) /\ NoteProven(s[1], w) /\ Note(m) \notin rs /\ Note(w) \notin rs
    BY <1>8 DEF NoteProven, Live, Proven
  <2>2. ~Fresher(s[1], w, m) /\ ~Fresher(s[1], m, w)
    BY <1>4, <2>1
  <2>3. m \in Nat /\ w \in Nat
    BY RepairAssumption
  <2>4. PICK a : a = Value(s[1], Note(m), "updated")
    OBVIOUS
  <2>5. PICK c : c = Value(s[1], Note(w), "updated")
    OBVIOUS
  <2>6. a \in Nat /\ c \in Nat
    <3>1. "updated" \in Cols
      BY DEF Cols
    <3> QED
      BY <1>6, <2>4, <2>5, <3>1, RowNames, RowsTyped DEF Value
  <2>7. ~(c > a \/ (c = a /\ w < m)) /\ ~(a > c \/ (a = c /\ m < w))
    BY <2>2, <2>4, <2>5 DEF Fresher
  <2> QED
    BY <2>3, <2>6, <2>7
<1> QED
  BY <1>1, <1>5, <1>9, <1>10

LEMMA TagsPass ==
    ASSUME NEW s, NEW b \in Nat, b > MaxClock, StateOK(s, b), NoneOrphaned(s[1]), OneNote(s[1])
    PROVE  LET z == DedupTags(s)
           IN StateOK(z, b + 2) /\ Wrote(s, z) /\ Tidy(z[1])
<1>0. TableOK(s[1], b)
  BY DEF StateOK
<1>1. CASE Named(s[1]) = {}
  <2>1. DedupTags(s) = s
    BY <1>1 DEF DedupTags
  <2>2. StateOK(s, b + 1) /\ Wrote(s, s)
    BY WroteNothing
  <2>3. StateOK(s, b + 1 + 1)
    BY <2>2, WroteNothing
  <2>4. b + 1 + 1 = b + 2
    OBVIOUS
  <2>5. OneTag(s[1])
    BY <1>1 DEF OneTag
  <2> QED
    BY <2>1, <2>2, <2>3, <2>4, <2>5, TidyParts
<1>2. CASE Named(s[1]) # {}
  <2>1. PICK w : w = Min(Named(s[1]))
    OBVIOUS
  <2>2. w \in Named(s[1]) /\ w \in TagIds
    <3>1. Named(s[1]) \in SUBSET Nat
      BY RepairAssumption DEF Named
    <3>2. Min(Named(s[1])) \in Named(s[1])
      BY <1>2, <3>1, MinIs
    <3> QED
      BY <2>1, <3>2 DEF Named
  <2> DEFINE losers == Named(s[1]) \ {w}
             rs == {Link(t) : t \in losers} \cup {Tag(t) : t \in losers}
             linked == \E t \in losers : Live(s[1], Link(t))
  <2>3. PICK u : u = IF linked THEN InsertRow(s, Link(w), Defaults) ELSE s
    OBVIOUS
  <2>4. PICK z : z = DedupTags(s)
    OBVIOUS
  <2>5. z = DeleteRows(u, rs)
    BY <1>2, <2>1, <2>3, <2>4 DEF DedupTags, MergeTags
  <2>6. losers \in SUBSET TagIds /\ w \notin losers
    BY DEF Named
  <2>7. rs \in SUBSET Rows /\ \A r \in rs : \E t \in losers : r = Link(t) \/ r = Tag(t)
    BY <2>6, RowNames
  <2>8. \A t \in losers : Link(t) \in rs /\ Tag(t) \in rs
    OBVIOUS
  <2>9. /\ SessionRow \notin rs /\ Tag(w) \notin rs
        /\ \A n \in NoteIds : Note(n) \notin rs
        /\ \A t \in TagIds : t \notin losers => Tag(t) \notin rs
    BY <2>6, <2>7, RowNames
  <2>10. \A t \in TagIds : Live(s[1], Tag(t)) /\ Proven(s[1], Tag(t), "name") /\ t # w => t \in losers
    BY DEF Named
  <2>11. linked => ~Deleted(s[1], SessionRow)
    BY <2>6 DEF NoneOrphaned
  <2>12. Live(s[1], Tag(w))
    BY <2>2 DEF Named
  <2> HIDE DEF losers, rs
  <2>13. /\ StateOK(u, b + 1) /\ Wrote(s, u)
         /\ \A r \in Rows : r # Link(w) => u[1][r] = s[1][r]
         /\ u[1][Link(w)] # s[1][Link(w)] => linked
    <3>1. CASE linked
      <4>1. u = InsertRow(s, Link(w), Defaults)
        BY <2>3, <3>1
      <4>2. FirstCols(Link(w), Defaults, b)
        <5>1. ColsOf(Link(w)) = {"-1"}
          BY <2>2, RowNames DEF ColsOf
        <5>2. \A k \in Cols : k \notin ColsOf(Link(w))
          BY <5>1 DEF Cols
        <5>3. \A k \in Cols : Defaults[k][1] = 0 /\ Defaults[k][2] \in Nat /\ Defaults[k][2] <= b + 1
          BY DefaultsFacts
        <5> QED
          BY <5>2, <5>3, DefaultsFacts DEF FirstCols
      <4>3. Link(w) \in Rows
        BY <2>2, RowNames
      <4>4. Inserted(s, u, Link(w), b)
        BY <4>1, <4>2, <4>3, InsertWrites
      <4> QED
        BY <3>1, <4>4 DEF Inserted
    <3>2. CASE ~linked
      BY <2>3, <3>2, WroteNothing
    <3> QED
      BY <3>1, <3>2
  <2>14. StateOK(z, b + 1 + 1) /\ Wrote(u, z) /\ Deletes(u[1], z[1], rs)
    <3>1. b + 1 \in Nat /\ b + 1 > MaxClock
      BY RepairAssumption
    <3> QED
      BY <2>5, <2>7, <2>13, <3>1, DeleteWrites DEF Deletes
  <2>15. StateOK(z, b + 2)
    <3>1. b + 1 + 1 = b + 2
      OBVIOUS
    <3> QED
      BY <2>14, <3>1
  <2>16. Wrote(s, z)
    BY <2>13, <2>14, <2>15, WroteOn
  <2>17. TableOK(u[1], b + 1)
    BY <2>13 DEF StateOK
  <2>18. ASSUME NEW r \in Rows, r # Link(w)
         PROVE  /\ Live(z[1], r) => Live(s[1], r) /\ r \notin rs /\ z[1][r] = s[1][r]
                /\ r \notin rs => z[1][r] = s[1][r]
                /\ Deleted(z[1], r) => Deleted(s[1], r) \/ r \in rs
    <3>1. /\ Live(z[1], r) => Live(u[1], r) /\ r \notin rs /\ z[1][r] = u[1][r]
          /\ r \notin rs => z[1][r] = u[1][r]
          /\ Deleted(z[1], r) => Deleted(u[1], r) \/ r \in rs
      BY <2>14, <2>17, <2>18, DeletedRows
    <3>2. u[1][r] = s[1][r]
      BY <2>13, <2>18
    <3> QED
      BY <3>1, <3>2 DEF Live, Deleted
  <2>19. z[1][SessionRow] = s[1][SessionRow] /\ z[1][Tag(w)] = s[1][Tag(w)]
    BY <2>2, <2>9, <2>18, RowNames
  <2>20. NoneOrphaned(z[1])
    <3>1. ASSUME NEW n \in NoteIds, Live(z[1], Note(n)), Deleted(z[1], SessionRow)
          PROVE  Value(z[1], Note(n), "session") # 1
      <4>1. Live(s[1], Note(n)) /\ z[1][Note(n)] = s[1][Note(n)]
        BY <3>1, <2>18, RowNames
      <4>2. Deleted(s[1], SessionRow)
        BY <2>19, <3>1 DEF Deleted
      <4> QED
        BY <4>1, <4>2 DEF NoneOrphaned, Value
    <3>2. ASSUME NEW t \in TagIds, Live(z[1], Link(t))
          PROVE  ~Deleted(z[1], SessionRow) /\ ~Deleted(z[1], Tag(t))
      <4>1. CASE t # w
        <5>1. Link(t) # Link(w) /\ Tag(t) # Link(w) /\ Link(t) \in Rows /\ Tag(t) \in Rows
          BY <3>2, <4>1, RowNames
        <5>2. Live(s[1], Link(t)) /\ Link(t) \notin rs
          BY <3>2, <5>1, <2>18
        <5>3. t \notin losers
          BY <5>2, <2>8
        <5>4. z[1][Tag(t)] = s[1][Tag(t)]
          BY <3>2, <5>1, <5>3, <2>9, <2>18
        <5>5. ~Deleted(s[1], SessionRow) /\ ~Deleted(s[1], Tag(t))
          BY <3>2, <5>2 DEF NoneOrphaned
        <5> QED
          BY <2>19, <5>4, <5>5 DEF Deleted
      <4>2. CASE t = w
        <5>1. ~Deleted(s[1], Tag(w))
          BY <2>12 DEF Live, Deleted
        <5>2. ~Deleted(s[1], SessionRow)
          <6>1. CASE linked
            BY <6>1, <2>11
          <6>2. CASE ~linked
            <7>1. u[1][Link(w)] = s[1][Link(w)]
              BY <6>2, <2>13
            <7>2. Link(w) \in Rows
              BY <2>2, RowNames
            <7>3. Live(u[1], Link(w))
              BY <3>2, <4>2, <7>2, <2>14, <2>17, DeletedRows
            <7>4. Live(s[1], Link(w))
              BY <7>1, <7>3 DEF Live
            <7> QED
              BY <7>4, <2>2 DEF NoneOrphaned
          <6> QED
            BY <6>1, <6>2
        <5> QED
          BY <4>2, <5>1, <5>2, <2>19 DEF Deleted
      <4> QED
        BY <4>1, <4>2
    <3> QED
      BY <3>1, <3>2 DEF NoneOrphaned
  <2>21. OneNote(z[1])
    <3>1. \A n \in NoteIds : NoteProven(z[1], n) => NoteProven(s[1], n)
      <4> SUFFICES ASSUME NEW n \in NoteIds, NoteProven(z[1], n) PROVE NoteProven(s[1], n)
        OBVIOUS
      <4>1. Live(z[1], Note(n))
        BY DEF NoteProven
      <4>2. z[1][Note(n)] = s[1][Note(n)]
        BY <4>1, <2>18, RowNames
      <4> QED
        BY <4>2 DEF NoteProven, Live, Proven
    <3> QED
      BY <3>1 DEF OneNote
  <2>22. OneTag(z[1])
    <3>1. ASSUME NEW t \in Named(z[1]) PROVE t = w
      <4>1. t \in TagIds /\ Live(z[1], Tag(t)) /\ Proven(z[1], Tag(t), "name")
        BY <3>1 DEF Named
      <4>2. Live(s[1], Tag(t)) /\ Tag(t) \notin rs /\ z[1][Tag(t)] = s[1][Tag(t)]
        BY <4>1, <2>18, RowNames
      <4>3. Proven(s[1], Tag(t), "name")
        BY <4>1, <4>2 DEF Proven
      <4> QED
        BY <4>1, <4>2, <4>3, <2>8, <2>10
    <3> QED
      BY <3>1 DEF OneTag
  <2> QED
    BY <2>4, <2>15, <2>16, <2>20, <2>21, <2>22, TidyParts
<1> QED
  BY <1>1, <1>2

LEMMA MaintainPass ==
    ASSUME NEW s, NEW b \in Nat, b > MaxClock, StateOK(s, b), NEW tags \in BOOLEAN
    PROVE  LET u == DedupNotes(Cascade(s, tags))
               z == IF tags THEN DedupTags(u) ELSE u
           IN StateOK(z, b + 4) /\ Wrote(s, z) /\ (tags => Tidy(z[1]))
<1>1. PICK t : t = Cascade(s, tags)
  OBVIOUS
<1>2. PICK u : u = DedupNotes(t)
  OBVIOUS
<1>3. PICK m \in Nat : m = b + 1 /\ m > MaxClock
  BY RepairAssumption
<1>4. PICK n \in Nat : n = m + 1 /\ n > MaxClock
  BY <1>3, RepairAssumption
<1>5. StateOK(t, m) /\ Wrote(s, t) /\ (tags => NoneOrphaned(t[1]))
  BY <1>1, <1>3, CascadePass
<1>6. StateOK(u, n) /\ Wrote(t, u) /\ (NoneOrphaned(t[1]) => NoneOrphaned(u[1])) /\ OneNote(u[1])
  BY <1>2, <1>3, <1>4, <1>5, NotesPass
<1>7. Wrote(s, u)
  BY <1>3, <1>4, <1>5, <1>6, WroteOn
<1>8. CASE tags
  <2>1. PICK z : z = DedupTags(u)
    OBVIOUS
  <2>2. StateOK(z, n + 2) /\ Wrote(u, z) /\ Tidy(z[1])
    BY <1>4, <1>5, <1>6, <1>8, <2>1, TagsPass
  <2>3. Wrote(s, z)
    BY <1>4, <1>6, <1>7, <2>2, WroteOn
  <2>4. n + 2 = b + 4
    BY <1>3, <1>4
  <2> QED
    BY <1>1, <1>2, <1>8, <2>1, <2>2, <2>3, <2>4
<1>9. CASE ~tags
  <2>1. StateOK(u, b + 4)
    <3>1. n <= b + 4
      BY <1>3, <1>4
    <3> QED
      BY <1>6, <3>1, TableWeaker DEF StateOK
  <2> QED
    BY <1>1, <1>2, <1>7, <1>9, <2>1
<1> QED
  BY <1>8, <1>9

------------------------------------------------------------------------------
(* What is on offer only improves.                                           *)
LEMMA ChangeTyped ==
    ASSUME NEW c \in Changes
    PROVE  /\ c.row \in Rows /\ c.cl \in Nat /\ c.col \in Fields /\ c.ver \in Nat /\ c.val \in Nat
           /\ <<c.ver, c.val>> \in Stamps
BY DEF Changes, Stamps

LEMMA ProvesCarries ==
    ASSUME NEW c \in Changes, NEW a \in Changes, NEW r, NEW n \in Nat, NEW k, NEW x \in Stamps,
           Proves(c, r, n, k, x), Over(a, c)
    PROVE  Proves(a, r, n, k, x)
<1>1. /\ c.cl \in Nat /\ c.ver \in Nat /\ <<c.ver, c.val>> \in Stamps
      /\ a.cl \in Nat /\ a.ver \in Nat /\ <<a.ver, a.val>> \in Stamps
  BY ChangeTyped
<1>2. a.row = r
  BY DEF Proves, Over
<1>3. CASE a.cl > n
  BY <1>2, <1>3 DEF Proves
<1>4. CASE ~(a.cl > n)
  <2>1. /\ c.cl = n /\ c.col = k /\ c.ver >= 1 /\ AtLeast(<<c.ver, c.val>>, x)
        /\ a.cl = n /\ a.col = k /\ AtLeast(<<a.ver, a.val>>, <<c.ver, c.val>>)
    BY <1>1, <1>4 DEF Proves, Over
  <2>2. AtLeast(<<a.ver, a.val>>, x)
    BY <1>1, <2>1, StampOrder
  <2>3. a.ver >= c.ver
    BY <1>1, <2>1 DEF AtLeast
  <2>4. a.ver >= 1
    BY <1>1, <2>1, <2>3
  <2> QED
    BY <1>2, <2>1, <2>2, <2>4 DEF Proves
<1> QED
  BY <1>3, <1>4

LEMMA RowCarries ==
    ASSUME NEW O \in SUBSET Changes, NEW P \in SUBSET Changes, Improves(P, O),
           NEW r \in Rows, NEW x \in RowSet, RowBacked(O, x, r)
    PROVE  RowBacked(P, x, r)
<1>1. x.cl \in Nat /\ \A k \in Cols : x.col[k] \in Stamps
  BY DEF RowSet
<1>2. ASSUME x.cl > Bare[r].cl PROVE \E a \in P : a.row = r /\ a.cl >= x.cl
  <2>1. PICK c \in O : c.row = r /\ c.cl >= x.cl
    BY <1>2 DEF RowBacked
  <2>2. PICK a \in P : Over(a, c)
    BY DEF Improves
  <2>3. a.cl \in Nat /\ c.cl \in Nat
    BY ChangeTyped
  <2>4. a.row = r /\ a.cl >= x.cl
    BY <1>1, <2>1, <2>2, <2>3 DEF Over
  <2> QED
    BY <2>4
<1>3. ASSUME NEW k \in Cols, Asks(r, x, k) PROVE \E a \in P : Proves(a, r, x.cl, k, x.col[k])
  <2>1. PICK c \in O : Proves(c, r, x.cl, k, x.col[k])
    BY <1>3 DEF RowBacked
  <2>2. PICK a \in P : Over(a, c)
    BY DEF Improves
  <2>3. Proves(a, r, x.cl, k, x.col[k])
    BY <1>1, <1>3, <2>1, <2>2, ProvesCarries
  <2> QED
    BY <2>3
<1> QED
  BY <1>2, <1>3 DEF RowBacked

LEMMA ChangeCarries ==
    ASSUME NEW O \in SUBSET Changes, NEW P \in SUBSET Changes, Improves(P, O),
           NEW a \in Changes, ChangeBacked(O, a)
    PROVE  ChangeBacked(P, a)
<1> SUFFICES ASSUME NEW k \in Cols, a.cl % 2 = 1, k \in ColsOf(a.row)
             PROVE  \E c \in P : Proves(c, a.row, a.cl, k, <<0, 0>>)
  BY DEF ChangeBacked
<1>1. PICK c \in O : Proves(c, a.row, a.cl, k, <<0, 0>>)
  BY DEF ChangeBacked
<1>2. PICK e \in P : Over(e, c)
  BY DEF Improves
<1>3. <<0, 0>> \in Stamps /\ a.cl \in Nat
  BY ChangeTyped DEF Stamps
<1>4. Proves(e, a.row, a.cl, k, <<0, 0>>)
  BY <1>1, <1>2, <1>3, ProvesCarries
<1> QED
  BY <1>4

LEMMA AbsorbsStill ==
    ASSUME NEW x \in RowSet, NEW y \in RowSet, NEW c \in Changes, Grown(y, x), Absorbs(x, c)
    PROVE  Absorbs(y, c)
<1>1. /\ x.cl \in Nat /\ y.cl \in Nat /\ c.cl \in Nat /\ c.col \in Fields /\ <<c.ver, c.val>> \in Stamps
      /\ \A k \in Cols : x.col[k] \in Stamps /\ y.col[k] \in Stamps
  BY ChangeTyped DEF RowSet
<1>2. CASE y.cl > c.cl
  BY <1>2 DEF Absorbs
<1>3. CASE ~(y.cl > c.cl)
  <2>1. x.cl = c.cl /\ y.cl = c.cl /\ \A k \in Cols : AtLeast(y.col[k], x.col[k])
    BY <1>1, <1>3 DEF Absorbs, Grown
  <2>2. CASE c.col = "-1" \/ c.cl % 2 = 0
    BY <2>1, <2>2 DEF Absorbs
  <2>3. CASE c.col # "-1" /\ c.cl % 2 # 0
    <3>1. c.col \in Cols
      BY <1>1, <2>3 DEF Fields
    <3>2. AtLeast(x.col[c.col], <<c.ver, c.val>>)
      BY <1>1, <2>1, <2>3 DEF Absorbs
    <3>3. AtLeast(y.col[c.col], <<c.ver, c.val>>)
      BY <1>1, <2>1, <3>1, <3>2, StampOrder
    <3> QED
      BY <2>1, <3>3 DEF Absorbs
  <2> QED
    BY <2>2, <2>3
<1> QED
  BY <1>2, <1>3

(* The change a mark stands for.                                             *)
LEMMA ChangeOfMark ==
    ASSUME NEW tb, NEW b \in Nat, TableOK(tb, b), NEW m \in Marks
    PROVE  LET c == ChangeIn(tb, m)
           IN /\ c \in Changes /\ ChangeOK(c) /\ ChangeUpTo(c, b) /\ c.row = m[1] /\ c.col = m[2]
              /\ c.cl = tb[m[1]].cl
              /\ m[2] \in Cols => c.ver = tb[m[1]].col[m[2]][1] /\ c.val = tb[m[1]].col[m[2]][2]
                                  /\ <<c.ver, c.val>> = tb[m[1]].col[m[2]]
              /\ m[2] = "-1" => c.ver = 0 /\ c.val = 0
<1>1. m[1] \in Rows /\ m[2] \in Fields
  BY DEF Marks
<1>2. PICK r \in Rows : r = m[1]
  BY <1>1
<1>3. PICK k \in Fields : k = m[2]
  BY <1>1
<1>4. PICK c : c = ChangeIn(tb, m)
  OBVIOUS
<1>5. PICK n \in Nat : n = tb[r].cl /\ n <= b
  BY RowsTyped
<1>6. CASE k = "-1"
  <2>1. c = [row |-> r, cl |-> n, col |-> k, ver |-> 0, val |-> 0]
    BY <1>2, <1>3, <1>4, <1>5, <1>6 DEF ChangeIn
  <2>2. "-1" \notin Cols
    BY DEF Cols
  <2>3. c \in Changes /\ ChangeOK(c) /\ ChangeUpTo(c, b)
    BY <1>5, <1>6, <2>1, <2>2 DEF Changes, ChangeOK, ChangeUpTo
  <2> QED
    BY <1>2, <1>3, <1>4, <1>5, <1>6, <2>1, <2>2, <2>3
<1>7. CASE k # "-1"
  <2>1. k \in Cols
    BY <1>7 DEF Fields
  <2>2. PICK v \in Nat, w \in Nat : tb[r].col[k] = <<v, w>> /\ v <= b /\ w <= b
    <3>1. PICK p : p = tb[r].col[k]
      OBVIOUS
    <3>2. tb[r] \in RowSet /\ RowUpTo(tb[r], b)
      BY DEF TableOK
    <3>3. p \in Stamps
      BY <2>1, <3>1, <3>2 DEF RowSet
    <3>4. p[1] \in Nat /\ p[2] \in Nat /\ p = <<p[1], p[2]>>
      BY <3>3 DEF Stamps
    <3>5. p[1] <= b /\ p[2] <= b
      BY <2>1, <3>1, <3>2 DEF RowUpTo
    <3>6. PICK v \in Nat, w \in Nat : v = p[1] /\ w = p[2]
      BY <3>4
    <3>7. tb[r].col[k] = <<v, w>> /\ v <= b /\ w <= b
      BY <3>1, <3>4, <3>5, <3>6
    <3> QED
      BY <3>7
  <2>3. c = [row |-> r, cl |-> n, col |-> k, ver |-> v, val |-> w]
    BY <1>2, <1>3, <1>4, <1>5, <1>7, <2>2 DEF ChangeIn
  <2>4. v = 0 => w = Defaults[k][2]
    <3>1. RowOK(tb[r])
      BY DEF TableOK
    <3>2. tb[r].col[k][1] = v /\ tb[r].col[k][2] = w
      BY <2>2
    <3> QED
      BY <2>1, <3>1, <3>2 DEF RowOK
  <2>5. c \in Changes /\ ChangeOK(c) /\ ChangeUpTo(c, b)
    BY <1>5, <2>2, <2>3, <2>4 DEF Changes, ChangeOK, ChangeUpTo
  <2> QED
    BY <1>2, <1>3, <1>4, <1>5, <1>7, <2>2, <2>3, <2>5
<1> QED
  BY <1>6, <1>7

LEMMA MarkImproves ==
    ASSUME NEW s, NEW z, NEW b \in Nat, TableOK(s, b), TableOK(z, b), NEW m \in Marks, Grown(z[m[1]], s[m[1]])
    PROVE  Over(ChangeIn(z, m), ChangeIn(s, m))
<1>1. PICK c : c = ChangeIn(s, m)
  OBVIOUS
<1>2. PICK a : a = ChangeIn(z, m)
  OBVIOUS
<1>3. m[1] \in Rows /\ m[2] \in Fields
  BY DEF Marks
<1>4. c.row = m[1] /\ c.col = m[2] /\ c.cl = s[m[1]].cl /\ a.row = m[1] /\ a.col = m[2] /\ a.cl = z[m[1]].cl
  BY <1>1, <1>2, ChangeOfMark
<1>5. CASE m[2] = "-1"
  <2>1. c.ver = 0 /\ c.val = 0 /\ a.ver = 0 /\ a.val = 0
    BY <1>1, <1>2, <1>5, ChangeOfMark
  <2>2. AtLeast(<<a.ver, a.val>>, <<c.ver, c.val>>)
    BY <2>1 DEF AtLeast
  <2> QED
    BY <1>1, <1>2, <1>4, <2>2 DEF Over, Grown
<1>6. CASE m[2] # "-1"
  <2>1. m[2] \in Cols
    BY <1>3, <1>6 DEF Fields
  <2>2. <<c.ver, c.val>> = s[m[1]].col[m[2]] /\ <<a.ver, a.val>> = z[m[1]].col[m[2]]
    BY <1>1, <1>2, <2>1, ChangeOfMark
  <2> QED
    BY <1>1, <1>2, <1>4, <2>1, <2>2 DEF Over, Grown
<1> QED
  BY <1>5, <1>6

LEMMA WriteImproves ==
    ASSUME NEW s, NEW z, NEW b \in Nat, StateOK(s, b), StateOK(z, b), Wrote(s, z), NEW m \in Marked(s[2])
    PROVE  \E j \in Marked(z[2]) : Over(ChangeIn(z[1], j), ChangeIn(s[1], m))
<1>1. m \in Marks /\ m[1] \in Rows
  BY MarkedTyped DEF StateOK
<1>2. TableOK(s[1], b) /\ TableOK(z[1], b)
  BY DEF StateOK
<1>3. CASE m \in Marked(z[2])
  <2>1. Grown(z[1][m[1]], s[1][m[1]])
    BY <1>1 DEF Wrote
  <2>2. Over(ChangeIn(z[1], m), ChangeIn(s[1], m))
    BY <1>1, <1>2, <2>1, MarkImproves
  <2> QED
    BY <1>3, <2>2
<1>4. CASE m \notin Marked(z[2])
  <2>1. z[1][m[1]].cl > s[1][m[1]].cl
    BY <1>4 DEF Wrote
  <2>2. PICK k \in Fields : <<m[1], k>> \in Marked(z[2])
    BY <1>4 DEF Wrote
  <2>3. PICK j : j = <<m[1], k>>
    OBVIOUS
  <2>4. j \in Marks /\ j[1] = m[1]
    BY <1>1, <2>3 DEF Marks
  <2>5. PICK c : c = ChangeIn(s[1], m)
    OBVIOUS
  <2>6. PICK a : a = ChangeIn(z[1], j)
    OBVIOUS
  <2>7. c.row = m[1] /\ c.cl = s[1][m[1]].cl /\ a.row = m[1] /\ a.cl = z[1][m[1]].cl
    BY <1>1, <1>2, <2>4, <2>5, <2>6, ChangeOfMark
  <2>8. Over(a, c)
    BY <2>1, <2>7 DEF Over
  <2> QED
    BY <2>2, <2>3, <2>5, <2>6, <2>8
<1> QED
  BY <1>3, <1>4

LEMMA WriteBacks ==
    ASSUME NEW s, NEW z, NEW b \in Nat, StateOK(s, b), StateOK(z, b), Wrote(s, z),
           NEW O \in SUBSET Changes, NEW P \in SUBSET Changes, Improves(P, O),
           \A m \in Marked(z[2]) : ChangeIn(z[1], m) \in P,
           NEW r \in Rows, RowBacked(O, s[1][r], r)
    PROVE  RowBacked(P, z[1][r], r)
<1>1. /\ s[1][r] \in RowSet /\ z[1][r] \in RowSet /\ s[1][r].cl \in Nat /\ z[1][r].cl \in Nat
      /\ TableOK(z[1], b)
      /\ \A k \in Cols : z[1][r].col[k] \in Stamps /\ z[1][r].col[k][1] \in Nat
  BY RowsTyped DEF StateOK
<1>2. RowBacked(P, s[1][r], r)
  BY <1>1, RowCarries
<1>3. z[1][r].cl >= s[1][r].cl
  BY <1>1 DEF Wrote, Grown
<1>4. ASSUME NEW k \in Fields, <<r, k>> \in Marked(z[2])
      PROVE  \E c \in P : c.row = r /\ c.cl = z[1][r].cl /\ c.col = k /\ (k \in Cols => <<c.ver, c.val>> = z[1][r].col[k] /\ c.ver = z[1][r].col[k][1])
  <2>1. PICK m : m = <<r, k>>
    OBVIOUS
  <2>2. m \in Marks /\ m[1] = r /\ m[2] = k
    BY <1>4, <2>1 DEF Marks
  <2>3. PICK c : c = ChangeIn(z[1], m)
    OBVIOUS
  <2>4. c \in P
    BY <1>4, <2>1, <2>3
  <2>5. c.row = r /\ c.cl = z[1][r].cl /\ c.col = k /\ (k \in Cols => <<c.ver, c.val>> = z[1][r].col[k] /\ c.ver = z[1][r].col[k][1])
    BY <1>1, <2>2, <2>3, ChangeOfMark
  <2> QED
    BY <2>4, <2>5
<1>5. ASSUME NEW k \in Cols, <<r, k>> \in Marked(z[2]), z[1][r].col[k][1] > 0
      PROVE  \E c \in P : Proves(c, r, z[1][r].cl, k, z[1][r].col[k])
  <2>1. k \in Fields
    BY <1>5 DEF Fields
  <2>2. PICK c \in P : c.row = r /\ c.cl = z[1][r].cl /\ c.col = k /\ (k \in Cols => <<c.ver, c.val>> = z[1][r].col[k] /\ c.ver = z[1][r].col[k][1])
    BY <1>4, <1>5, <2>1
  <2>3. c.ver >= 1 /\ <<c.ver, c.val>> = z[1][r].col[k] /\ AtLeast(z[1][r].col[k], z[1][r].col[k])
    BY <1>1, <1>5, <2>2, StampOrder
  <2>4. Proves(c, r, z[1][r].cl, k, z[1][r].col[k])
    BY <2>2, <2>3 DEF Proves
  <2> QED
    BY <2>4
<1>6. CASE z[1][r].cl > s[1][r].cl
  <2>1. PICK k \in Fields : <<r, k>> \in Marked(z[2])
    BY <1>6 DEF Wrote
  <2>2. \E c \in P : c.row = r /\ c.cl >= z[1][r].cl
    BY <2>1, <1>1, <1>4
  <2>3. \A j \in Cols : Asks(r, z[1][r], j) => <<r, j>> \in Marked(z[2]) /\ z[1][r].col[j][1] > 0
    BY <1>6 DEF Wrote
  <2>4. \A j \in Cols : Asks(r, z[1][r], j) => \E c \in P : Proves(c, r, z[1][r].cl, j, z[1][r].col[j])
    BY <2>3, <1>5
  <2> QED
    BY <2>2, <2>4 DEF RowBacked
<1>7. CASE z[1][r].cl = s[1][r].cl
  <2>1. z[1][r].cl > Bare[r].cl => \E c \in P : c.row = r /\ c.cl >= z[1][r].cl
    BY <1>2, <1>7 DEF RowBacked
  <2>2. ASSUME NEW j \in Cols, Asks(r, z[1][r], j)
        PROVE  \E c \in P : Proves(c, r, z[1][r].cl, j, z[1][r].col[j])
    <3>1. CASE z[1][r].col[j] # s[1][r].col[j]
      <4>1. <<r, j>> \in Marked(z[2]) /\ z[1][r].col[j][1] > 0
        BY <1>7, <2>2, <3>1 DEF Wrote
      <4> QED
        BY <4>1, <1>5, <2>2
    <3>2. CASE z[1][r].col[j] = s[1][r].col[j]
      <4>1. Asks(r, s[1][r], j)
        BY <1>7, <2>2, <3>2 DEF Asks
      <4>2. \E c \in P : Proves(c, r, s[1][r].cl, j, s[1][r].col[j])
        BY <4>1, <1>2, <2>2 DEF RowBacked
      <4> QED
        BY <4>2, <1>7, <3>2
    <3> QED
      BY <3>1, <3>2
  <2> QED
    BY <2>1, <2>2 DEF RowBacked
<1> QED
  BY <1>1, <1>3, <1>6, <1>7

LEMMA MergedTable ==
    ASSUME NEW tb, NEW b \in Nat, b > MaxClock, TableOK(tb, b), NEW cs, ChangesOK(cs, b)
    PROVE  LET z == Merged(tb, cs)
           IN TableOK(z, b) /\ \A r \in Rows : JoinsTo(z[r], tb[r], {c \in cs : c.row = r})
<1>1. PICK z : z = Merged(tb, cs)
  OBVIOUS
<1>2. z = [r \in Rows |-> MergedRow(tb[r], {c \in cs : c.row = r})]
  BY <1>1 DEF Merged
<1>3. ASSUME NEW r \in Rows
      PROVE  z[r] \in RowSet /\ RowOK(z[r]) /\ RowUpTo(z[r], b) /\ JoinsTo(z[r], tb[r], {c \in cs : c.row = r})
  <2>1. GoodRow(tb[r], b)
    BY <1>3 DEF TableOK, GoodRow
  <2>2. PICK piece : piece = {c \in cs : c.row = r}
    OBVIOUS
  <2>3. ChangesOK(piece, b)
    BY <2>2 DEF ChangesOK
  <2>4. GoodRow(MergedRow(tb[r], piece), b) /\ JoinsTo(MergedRow(tb[r], piece), tb[r], piece)
    BY <2>1, <2>3, MergedRowJoins
  <2>5. z[r] = MergedRow(tb[r], piece)
    BY <1>2, <1>3, <2>2
  <2> QED
    BY <2>2, <2>4, <2>5 DEF GoodRow
<1>4. ASSUME NEW r \in Rows PROVE z[r].cl >= Bare[r].cl
  <2>1. Grown(z[r], tb[r])
    BY <1>3, <1>4 DEF JoinsTo
  <2>2. tb[r].cl >= Bare[r].cl /\ tb[r].cl \in Nat
    BY <1>4, RowsTyped DEF TableOK
  <2>3. Bare[r].cl \in Nat /\ z[r].cl \in Nat
    BY <1>3, <1>4, BareFacts DEF RowSet
  <2> QED
    BY <2>1, <2>2, <2>3 DEF Grown
<1>5. z \in [Rows -> RowSet]
  <2>1. z = [r \in Rows |-> z[r]]
    BY <1>2
  <2> QED
    BY <1>3, <2>1
<1> QED
  BY <1>1, <1>3, <1>4, <1>5 DEF TableOK

LEMMA MergeBacks ==
    ASSUME NEW b \in Nat, NEW x, GoodRow(x, b), NEW z, GoodRow(z, b), NEW r \in Rows,
           NEW P \in SUBSET Changes, NEW cs \in SUBSET P, \A c \in cs : c.row = r /\ ChangeBacked(P, c),
           RowBacked(P, x, r), JoinsTo(z, x, cs)
    PROVE  RowBacked(P, z, r)
<1>1. /\ x \in RowSet /\ z \in RowSet /\ x.cl \in Nat /\ z.cl \in Nat
      /\ \A k \in Cols : z.col[k] \in Stamps /\ z.col[k][1] \in Nat /\ z.col[k][2] \in Nat
  BY DEF GoodRow, RowSet, Stamps
<1>2. \A c \in P : c \in Changes /\ c.cl \in Nat /\ c.ver \in Nat /\ c.val \in Nat /\ <<c.ver, c.val>> \in Stamps
  BY ChangeTyped
<1>3. ASSUME z.cl > Bare[r].cl PROVE \E c \in P : c.row = r /\ c.cl >= z.cl
  <2>1. CASE z.cl = x.cl
    BY <2>1, <1>3 DEF RowBacked
  <2>2. CASE z.cl # x.cl
    <3>1. PICK c \in cs : z.cl = c.cl
      BY <2>2 DEF JoinsTo
    <3> QED
      BY <3>1, <1>1
  <2> QED
    BY <2>1, <2>2
<1>4. ASSUME NEW k \in Cols, Asks(r, z, k) PROVE \E c \in P : Proves(c, r, z.cl, k, z.col[k])
  <2>1. CASE z.col[k][1] > 0 /\ ~(z.cl = x.cl /\ z.col[k] = x.col[k])
    <3>1. Defaults[k][1] = 0
      BY <1>4, DefaultsFacts
    <3>2. PICK c \in cs : c.cl = z.cl /\ c.col = k /\ z.col[k] = <<c.ver, c.val>>
      BY <2>1, <3>1, <1>4 DEF JoinsTo
    <3>3. c.ver >= 1 /\ AtLeast(<<c.ver, c.val>>, z.col[k])
      <4>1. c.ver \in Nat /\ z.col[k][1] = c.ver
        <5>1. c \in P
          OBVIOUS
        <5>2. c.ver \in Nat
          BY <5>1, <1>2
        <5>3. <<c.ver, c.val>>[1] = c.ver
          OBVIOUS
        <5> QED
          BY <5>2, <5>3, <3>2
      <4>2. AtLeast(z.col[k], z.col[k])
        BY <1>1, <1>4, StampOrder
      <4> QED
        BY <2>1, <3>2, <4>1, <4>2
    <3>4. Proves(c, r, z.cl, k, z.col[k])
      BY <3>2, <3>3 DEF Proves
    <3> QED
      BY <3>4
  <2>2. CASE z.cl = x.cl /\ z.col[k] = x.col[k]
    <3>1. Asks(r, x, k)
      BY <2>2, <1>4 DEF Asks
    <3>2. PICK c \in P : Proves(c, r, x.cl, k, x.col[k])
      BY <3>1, <1>4 DEF RowBacked
    <3> QED
      BY <2>2, <3>2
  <2>3. CASE ~(z.col[k][1] > 0)
    <3>1. z.col[k][1] = 0 /\ k \in ColsOf(r) /\ z.cl % 2 = 1
      BY <2>3, <1>1, <1>4 DEF Asks
    <3>2. \E c \in P : c.row = r /\ (c.cl > z.cl \/ (c.cl = z.cl /\ c.col = k /\ c.ver >= 1))
      <4>1. CASE z.cl = x.cl
        <5>1. Asks(r, x, k)
          BY <4>1, <3>1 DEF Asks
        <5>2. PICK c \in P : Proves(c, r, x.cl, k, x.col[k])
          BY <5>1, <1>4 DEF RowBacked
        <5> QED
          BY <4>1, <5>2 DEF Proves
      <4>2. CASE z.cl # x.cl
        <5>1. PICK a \in cs : z.cl = a.cl
          BY <4>2 DEF JoinsTo
        <5>2. a.row = r /\ ChangeBacked(P, a)
          OBVIOUS
        <5>3. PICK c \in P : Proves(c, r, z.cl, k, <<0, 0>>)
          BY <3>1, <5>1, <5>2, <1>4 DEF ChangeBacked
        <5> QED
          BY <5>3 DEF Proves
      <4> QED
        BY <4>1, <4>2
    <3>3. PICK c \in P : c.row = r /\ (c.cl > z.cl \/ (c.cl = z.cl /\ c.col = k /\ c.ver >= 1))
      BY <3>2
    <3>4. c.ver >= 1 => AtLeast(<<c.ver, c.val>>, z.col[k])
      <4>1. c.ver \in Nat /\ <<c.ver, c.val>>[1] = c.ver
        BY <1>2
      <4> QED
        BY <4>1, <3>1 DEF AtLeast
    <3>5. Proves(c, r, z.cl, k, z.col[k])
      BY <3>3, <3>4 DEF Proves
    <3> QED
      BY <3>5
  <2> QED
    BY <2>1, <2>2, <2>3
<1> QED
  BY <1>3, <1>4 DEF RowBacked

(* What is on offer, as an account of the tables, the marks and the log.     *)
AllOK(tbs, qs, w, b) ==
  (\A d \in Replicas : TableOK(tbs[d], b) /\ DirtyOK(qs[d])) /\ ChangesOK(SentIn(w), b)

LEMMA OffersAre ==
    ASSUME NEW tbs, NEW qs, NEW w, NEW b \in Nat, AllOK(tbs, qs, w, b)
    PROVE  /\ OffersOf(tbs, qs, w) \in SUBSET Changes /\ SentIn(w) \in SUBSET OffersOf(tbs, qs, w)
           /\ \A d \in Replicas : \A m \in Marked(qs[d]) : ChangeIn(tbs[d], m) \in OffersOf(tbs, qs, w)
<1>1. SentIn(w) \in SUBSET OffersOf(tbs, qs, w)
  BY DEF OffersOf, AllOK, ChangesOK
<1>2. ASSUME NEW d \in Replicas, NEW m \in Marked(qs[d]) PROVE ChangeIn(tbs[d], m) \in OffersOf(tbs, qs, w)
  <2>1. TableOK(tbs[d], b) /\ m \in Marks
    BY <1>2, MarkedTyped DEF AllOK
  <2>2. ChangeIn(tbs[d], m) \in Changes
    BY <2>1, ChangeOfMark
  <2> QED
    BY <1>2, <2>2 DEF OffersOf
<1>3. OffersOf(tbs, qs, w) \in SUBSET Changes
  BY DEF OffersOf
<1> QED
  BY <1>1, <1>2, <1>3

LEMMA OffersImprove ==
    ASSUME NEW tbs, NEW qs, NEW w, NEW b \in Nat, AllOK(tbs, qs, w, b),
           NEW tbs2, NEW qs2, NEW w2, NEW b2 \in Nat, AllOK(tbs2, qs2, w2, b2), SentIn(w) \subseteq SentIn(w2),
           \A d \in Replicas : \A m \in Marked(qs[d]) :
             \E a \in OffersOf(tbs2, qs2, w2) : Over(a, ChangeIn(tbs[d], m))
    PROVE  Improves(OffersOf(tbs2, qs2, w2), OffersOf(tbs, qs, w))
<1> SUFFICES ASSUME NEW c \in OffersOf(tbs, qs, w) PROVE \E a \in OffersOf(tbs2, qs2, w2) : Over(a, c)
  BY DEF Improves
<1>1. CASE c \in SentIn(w)
  <2>1. c \in OffersOf(tbs2, qs2, w2) /\ c \in Changes
    BY <1>1, OffersAre
  <2>2. Over(c, c)
    BY <2>1, ChangeTyped, StampOrder DEF Over
  <2> QED
    BY <2>1, <2>2
<1>2. CASE c \notin SentIn(w)
  <2>1. PICK d \in Replicas : \E m \in Marked(qs[d]) : c = ChangeIn(tbs[d], m)
    BY <1>2 DEF OffersOf
  <2> QED
    BY <2>1
<1> QED
  BY <1>1, <1>2

LEMMA TakeBound == ASSUME ExchangeInv PROVE \E b \in Nat : b > MaxClock /\ AllOK(tables, dirty, wire, b)
BY DEF ExchangeInv, RepairBounded, UpTo, ExchangeTypes, AllOK, Sent

(* A local statement, of a user or a pass.                                   *)
LEMMA StoreKeeps ==
    ASSUME ExchangeInv, NEW d \in Replicas, NEW b \in Nat, b > MaxClock, AllOK(tables, dirty, wire, b),
           NEW u \in Nat, b <= u, NEW z, StateOK(z, u), Wrote(Local(d), z), Store(d, z),
           wire' = wire, cursor' = cursor, stash' = stash
    PROVE  ExchangeInv'
<1>0. ExchangeTypes /\ PulledIsIn /\ RowsBacked /\ SentBacked
  BY DEF ExchangeInv
<1>1. /\ tables' = [tables EXCEPT ![d] = z[1]] /\ dirty' = [dirty EXCEPT ![d] = z[2]]
      /\ TableOK(z[1], u) /\ DirtyOK(z[2])
  BY DEF Store, StateOK
<1>2. /\ tables'[d] = z[1] /\ dirty'[d] = z[2]
      /\ \A e \in Replicas \ {d} : tables'[e] = tables[e] /\ dirty'[e] = dirty[e]
  BY <1>0, <1>1 DEF ExchangeTypes
<1>3. ChangesOK(SentIn(wire), u) /\ \A e \in Replicas : TableOK(tables[e], u) /\ DirtyOK(dirty[e])
  <2>1. ChangesOK(SentIn(wire), u)
    <3>1. SentIn(wire) \subseteq Changes /\ \A c \in SentIn(wire) : ChangeOK(c) /\ ChangeUpTo(c, b)
      BY DEF AllOK, ChangesOK
    <3>2. \A c \in SentIn(wire) : ChangeUpTo(c, u)
      <4> SUFFICES ASSUME NEW c \in SentIn(wire) PROVE ChangeUpTo(c, u)
        OBVIOUS
      <4>1. c \in Changes /\ ChangeUpTo(c, b)
        BY <3>1
      <4>2. c.cl \in Nat /\ c.ver \in Nat /\ c.val \in Nat
        BY <4>1, ChangeTyped
      <4> QED
        BY <4>1, <4>2 DEF ChangeUpTo
    <3> QED
      BY <3>1, <3>2 DEF ChangesOK
  <2>2. \A e \in Replicas : TableOK(tables[e], b) /\ DirtyOK(dirty[e])
    BY DEF AllOK
  <2> QED
    BY <2>1, <2>2, TableWeaker
<1>4. AllOK(tables, dirty, wire, u)
  BY <1>3 DEF AllOK
<1>5. AllOK(tables', dirty', wire', u)
  BY <1>1, <1>2, <1>3 DEF AllOK
<1>6. PICK O : O = OffersOf(tables, dirty, wire)
  OBVIOUS
<1>7. PICK P : P = OffersOf(tables', dirty', wire')
  OBVIOUS
<1>8. /\ O \in SUBSET Changes /\ P \in SUBSET Changes /\ SentIn(wire) \in SUBSET P
      /\ \A e \in Replicas : \A m \in Marked(dirty'[e]) : ChangeIn(tables'[e], m) \in P
  BY <1>4, <1>5, <1>6, <1>7, OffersAre
<1>9. PICK s : s = Local(d)
  OBVIOUS
<1>10. s[1] = tables[d] /\ s[2] = dirty[d] /\ StateOK(s, u) /\ Wrote(s, z)
  BY <1>3, <1>9 DEF Local, StateOK
<1>11. ASSUME NEW e \in Replicas, NEW m \in Marked(dirty[e]) PROVE \E a \in P : Over(a, ChangeIn(tables[e], m))
  <2>1. CASE e = d
    <3>1. PICK j \in Marked(z[2]) : Over(ChangeIn(z[1], j), ChangeIn(s[1], m))
      BY <2>1, <1>10, <1>11, WriteImproves
    <3>2. ChangeIn(z[1], j) \in P
      BY <1>2, <1>8
    <3> QED
      BY <2>1, <3>1, <3>2, <1>10
  <2>2. CASE e # d
    <3>1. ChangeIn(tables[e], m) \in P
      BY <2>2, <1>2, <1>8, <1>11
    <3>2. ChangeIn(tables[e], m) \in Changes
      BY <3>1, <1>8
    <3>3. Over(ChangeIn(tables[e], m), ChangeIn(tables[e], m))
      BY <3>2, ChangeTyped, StampOrder DEF Over
    <3> QED
      BY <3>1, <3>3
  <2> QED
    BY <2>1, <2>2
<1>12. Improves(P, O)
  <2>1. SentIn(wire) \subseteq SentIn(wire')
    OBVIOUS
  <2> QED
    BY <2>1, <1>4, <1>5, <1>6, <1>7, <1>11, OffersImprove
<1>13. ExchangeTypes'
  <2>1. tables' \in [Replicas -> [Rows -> RowSet]] /\ dirty' \in [Replicas -> Seq(SUBSET Marks)]
    <3>1. z[1] \in [Rows -> RowSet] /\ z[2] \in Seq(SUBSET Marks)
      BY <1>1 DEF TableOK, DirtyOK
    <3> QED
      BY <1>0, <1>1, <3>1 DEF ExchangeTypes
  <2>2. \A e \in Replicas : DirtyOK(dirty'[e])
    BY <1>1, <1>2, <1>3
  <2> QED
    BY <1>0, <2>1, <2>2 DEF ExchangeTypes, Sent
<1>14. RepairBounded'
  <2>1. u > MaxClock
    BY RepairAssumption
  <2>2. UpTo(u)'
    BY <1>5 DEF UpTo, AllOK, Sent
  <2> QED
    BY <2>1, <2>2 DEF RepairBounded
<1>15. PulledIsIn'
  <2> SUFFICES ASSUME NEW e \in Replicas, NEW i \in 1..cursor[e], NEW c \in wire[i]
               PROVE  c \in stash[e] \/ Absorbs(tables'[e][c.row], c)
    BY DEF PulledIsIn
  <2>1. c \in stash[e] \/ Absorbs(tables[e][c.row], c)
    BY <1>0 DEF PulledIsIn
  <2>2. CASE e # d
    BY <2>1, <2>2, <1>2
  <2>3. CASE e = d
    <3>1. c \in Changes
      <4>1. i \in DOMAIN wire
        BY <1>0 DEF ExchangeTypes
      <4> QED
        BY <1>0, <4>1 DEF ExchangeTypes
    <3>2. c.row \in Rows
      BY <3>1, ChangeTyped
    <3>3. s[1][c.row] \in RowSet /\ z[1][c.row] \in RowSet /\ Grown(z[1][c.row], s[1][c.row])
      BY <3>2, <1>1, <1>10, RowsTyped DEF StateOK, Wrote
    <3> QED
      BY <2>1, <2>3, <3>1, <3>3, <1>2, <1>10, AbsorbsStill
  <2> QED
    BY <2>2, <2>3
<1>16. RowsBacked'
  <2> SUFFICES ASSUME NEW e \in Replicas, NEW r \in Rows PROVE RowBacked(P, tables'[e][r], r)
    BY <1>7 DEF RowsBacked, Offers
  <2>1. RowBacked(O, tables[e][r], r)
    BY <1>0, <1>6 DEF RowsBacked, Offers
  <2>2. CASE e # d
    <3>1. tables[e][r] \in RowSet
      BY <1>3, RowsTyped
    <3> QED
      BY <2>1, <2>2, <3>1, <1>2, <1>8, <1>12, RowCarries
  <2>3. CASE e = d
    <3>1. RowBacked(O, s[1][r], r)
      BY <2>1, <2>3, <1>10
    <3>2. \A m \in Marked(z[2]) : ChangeIn(z[1], m) \in P
      BY <1>2, <1>8
    <3> QED
      BY <2>3, <3>1, <3>2, <1>2, <1>8, <1>10, <1>12, WriteBacks
  <2> QED
    BY <2>2, <2>3
<1>17. SentBacked'
  <2> SUFFICES ASSUME NEW a \in SentIn(wire) PROVE ChangeBacked(P, a)
    BY <1>7 DEF SentBacked, Offers, Sent
  <2>1. ChangeBacked(O, a) /\ a \in Changes
    BY <1>0, <1>3, <1>6 DEF SentBacked, Offers, Sent, ChangesOK
  <2> QED
    BY <2>1, <1>8, <1>12, ChangeCarries
<1> QED
  BY <1>13, <1>14, <1>15, <1>16, <1>17 DEF ExchangeInv

LEMMA SentTyped ==
    ASSUME NEW w \in Seq(SUBSET Changes)
    PROVE  SentIn(w) \in SUBSET Changes /\ \A i \in 1..Len(w) : w[i] \subseteq SentIn(w)
BY DEF SentIn

LEMMA Concatenated ==
    ASSUME NEW S, NEW w \in Seq(S), NEW q \in Seq(S)
    PROVE  /\ w \o q \in Seq(S) /\ Len(w \o q) = Len(w) + Len(q) /\ Len(w) \in Nat /\ Len(q) \in Nat
           /\ \A i \in 1..Len(w) : (w \o q)[i] = w[i]
           /\ \A i \in 1..Len(q) : (w \o q)[Len(w) + i] = q[i]
OBVIOUS

LEMMA PushKeeps == ASSUME ExchangeInv, NEW d \in Replicas, Push(d) PROVE ExchangeInv'
<1>0. ExchangeTypes /\ PulledIsIn /\ RowsBacked /\ SentBacked
  BY DEF ExchangeInv
<1>1. PICK b \in Nat : b > MaxClock /\ AllOK(tables, dirty, wire, b)
  BY TakeBound
<1> DEFINE q == [i \in DOMAIN dirty[d] |-> {ChangeOf(d, m) : m \in dirty[d][i]}]
<1>2. /\ wire' = wire \o q /\ dirty' = [dirty EXCEPT ![d] = <<>>]
      /\ tables' = tables /\ cursor' = cursor /\ stash' = stash
  BY DEF Push, scheduleVars
<1>3. TableOK(tables[d], b) /\ DirtyOK(dirty[d]) /\ dirty[d] \in Seq(SUBSET Marks)
  BY <1>1 DEF AllOK, DirtyOK
<1>4. \A m : ChangeOf(d, m) = ChangeIn(tables[d], m)
  BY DEF ChangeOf, ChangeIn
<1>5. \A i \in 1..Len(dirty[d]) : q[i] = {ChangeIn(tables[d], m) : m \in dirty[d][i]}
  BY <1>3, <1>4
<1>7. DOMAIN q = 1..Len(dirty[d]) /\ Len(dirty[d]) \in Nat /\ q = [i \in 1..Len(dirty[d]) |-> q[i]]
  BY <1>3
<1> HIDE DEF q
<1>6. \A i \in 1..Len(dirty[d]) : q[i] \in SUBSET Changes
  <2> SUFFICES ASSUME NEW i \in 1..Len(dirty[d]), NEW m \in dirty[d][i] PROVE ChangeIn(tables[d], m) \in Changes
    BY <1>5
  <2>1. m \in Marks
    BY <1>3
  <2> QED
    BY <1>3, <2>1, ChangeOfMark
<1>8. q \in Seq(SUBSET Changes) /\ Len(q) = Len(dirty[d])
  BY <1>6, <1>7
<1>10. wire \in Seq(SUBSET Changes) /\ Len(wire) \in Nat
  <2>1. wire \in Seq(SUBSET Changes)
    BY <1>0, Zenon DEF ExchangeTypes
  <2> QED
    BY <2>1
<1>9. /\ wire' \in Seq(SUBSET Changes) /\ Len(wire') = Len(wire) + Len(q)
      /\ \A i \in 1..Len(wire) : wire'[i] = wire[i]
      /\ \A i \in 1..Len(q) : wire'[Len(wire) + i] = q[i]
  <2>1. PICK S : S = SUBSET Changes
    OBVIOUS
  <2>2. wire \in Seq(S) /\ q \in Seq(S)
    BY <1>8, <1>10, <2>1
  <2>3. PICK w : w = wire \o q
    OBVIOUS
  <2>4. /\ w \in Seq(S) /\ Len(w) = Len(wire) + Len(q)
        /\ \A i \in 1..Len(wire) : w[i] = wire[i]
        /\ \A i \in 1..Len(q) : w[Len(wire) + i] = q[i]
    BY ONLY <2>2, <2>3, Concatenated
  <2> QED
    BY <1>2, <2>1, <2>3, <2>4
<1>11. \A c \in SentIn(wire) : c \in SentIn(wire')
  <2> SUFFICES ASSUME NEW c \in SentIn(wire) PROVE c \in SentIn(wire')
    OBVIOUS
  <2>1. PICK i \in 1..Len(wire) : c \in wire[i]
    BY <1>10 DEF SentIn
  <2>2. i \in 1..Len(wire') /\ c \in wire'[i]
    BY <1>8, <1>9, <1>10, <1>7, <2>1
  <2> QED
    BY <1>9, <2>2, SentTyped
<1>12. \A m \in Marked(dirty[d]) : ChangeIn(tables[d], m) \in SentIn(wire')
  <2> SUFFICES ASSUME NEW m \in Marked(dirty[d]) PROVE ChangeIn(tables[d], m) \in SentIn(wire')
    OBVIOUS
  <2>1. PICK i \in 1..Len(dirty[d]) : m \in dirty[d][i]
    BY <1>3 DEF Marked
  <2>2. ChangeIn(tables[d], m) \in q[i]
    BY <1>5, <2>1
  <2>3. Len(wire) + i \in 1..Len(wire') /\ wire'[Len(wire) + i] = q[i]
    <3>1. i \in 1..Len(q) /\ Len(q) \in Nat
      BY <1>7, <1>8
    <3>2. Len(wire) + i \in 1..Len(wire')
      BY <3>1, <1>9, <1>10
    <3> QED
      BY <3>1, <3>2, <1>9
  <2> QED
    BY <1>9, <2>2, <2>3, SentTyped
<1>13. \A c \in SentIn(wire') : c \in SentIn(wire) \/ \E m \in Marked(dirty[d]) : c = ChangeIn(tables[d], m)
  <2> SUFFICES ASSUME NEW c \in SentIn(wire')
               PROVE  c \in SentIn(wire) \/ \E m \in Marked(dirty[d]) : c = ChangeIn(tables[d], m)
    OBVIOUS
  <2>1. PICK i \in 1..Len(wire') : c \in wire'[i]
    BY <1>9 DEF SentIn
  <2>2. CASE i <= Len(wire)
    <3>1. i \in 1..Len(wire) /\ c \in wire[i]
      BY <2>1, <2>2, <1>9, <1>10
    <3> QED
      BY <3>1, <1>10, SentTyped
  <2>3. CASE ~(i <= Len(wire))
    <3>1. PICK j \in Nat : i = Len(wire) + j /\ j \in 1..Len(q)
      <4>1. i - Len(wire) \in Nat /\ i - Len(wire) \in 1..Len(q) /\ i = Len(wire) + (i - Len(wire))
        BY <2>3, <1>7, <1>8, <1>9, <1>10
      <4> QED
        BY <4>1
    <3>2. c \in q[j]
      BY <2>1, <3>1, <1>9, <1>10
    <3>3. PICK m \in dirty[d][j] : c = ChangeIn(tables[d], m)
      BY <3>1, <3>2, <1>5, <1>8
    <3>4. m \in Marked(dirty[d])
      BY <3>1, <1>3, <1>8 DEF Marked
    <3> QED
      BY <3>3, <3>4
  <2> QED
    BY <2>2, <2>3
<1>14. \A e \in Replicas : DirtyOK(dirty'[e]) /\ dirty'[e] \in Seq(SUBSET Marks) /\ (e # d => dirty'[e] = dirty[e])
  <2>1. DirtyOK(<<>>)
    BY DEF DirtyOK
  <2>2. \A e \in Replicas : DirtyOK(dirty[e])
    BY <1>1 DEF AllOK
  <2>3. \A e \in Replicas : dirty'[e] = IF e = d THEN <<>> ELSE dirty[e]
    BY <1>0, <1>2 DEF ExchangeTypes
  <2> QED
    BY <2>1, <2>2, <2>3 DEF DirtyOK
<1>15. ChangesOK(SentIn(wire'), b)
  <2>1. SentIn(wire') \subseteq Changes
    BY <1>9, SentTyped
  <2>2. ASSUME NEW c \in SentIn(wire') PROVE ChangeOK(c) /\ ChangeUpTo(c, b)
    <3>1. CASE c \in SentIn(wire)
      BY <3>1, <1>1 DEF AllOK, ChangesOK
    <3>2. CASE c \notin SentIn(wire)
      <4>1. PICK m \in Marked(dirty[d]) : c = ChangeIn(tables[d], m)
        BY <2>2, <3>2, <1>13
      <4>2. m \in Marks
        BY <1>3, MarkedTyped
      <4> QED
        BY <4>1, <4>2, <1>3, ChangeOfMark
    <3> QED
      BY <3>1, <3>2
  <2> QED
    BY <2>1, <2>2 DEF ChangesOK
<1>16. AllOK(tables', dirty', wire', b)
  <2>1. \A e \in Replicas : TableOK(tables'[e], b)
    BY <1>1, <1>2 DEF AllOK
  <2> QED
    BY <2>1, <1>14, <1>15 DEF AllOK
<1>17. PICK O : O = OffersOf(tables, dirty, wire)
  OBVIOUS
<1>18. PICK P : P = OffersOf(tables', dirty', wire')
  OBVIOUS
<1>19. /\ O \in SUBSET Changes /\ P \in SUBSET Changes /\ SentIn(wire') \in SUBSET P
       /\ \A e \in Replicas : \A m \in Marked(dirty[e]) : ChangeIn(tables[e], m) \in O
       /\ \A e \in Replicas : \A m \in Marked(dirty'[e]) : ChangeIn(tables'[e], m) \in P
  BY <1>1, <1>16, <1>17, <1>18, OffersAre
<1>20. ASSUME NEW e \in Replicas, NEW m \in Marked(dirty[e]) PROVE \E a \in P : Over(a, ChangeIn(tables[e], m))
  <2>1. ChangeIn(tables[e], m) \in P
    <3>1. CASE e = d
      BY <3>1, <1>12, <1>19, <1>20
    <3>2. CASE e # d
      BY <3>2, <1>2, <1>14, <1>19, <1>20
    <3> QED
      BY <3>1, <3>2
  <2>2. Over(ChangeIn(tables[e], m), ChangeIn(tables[e], m))
    BY <2>1, <1>19, ChangeTyped, StampOrder DEF Over
  <2> QED
    BY <2>1, <2>2
<1>21. Improves(P, O)
  <2>1. SentIn(wire) \subseteq SentIn(wire')
    BY <1>11
  <2> QED
    BY <2>1, <1>1, <1>16, <1>17, <1>18, <1>20, OffersImprove
<1>22. ExchangeTypes'
  <2>1. dirty' \in [Replicas -> Seq(SUBSET Marks)]
    BY <1>0, <1>2, <1>14 DEF ExchangeTypes
  <2>2. \A e \in Replicas : cursor[e] <= Len(wire')
    BY <1>0, <1>7, <1>8, <1>9, <1>10 DEF ExchangeTypes
  <2>3. \A e \in Replicas : stash[e] \subseteq SentIn(wire')
    BY <1>0, <1>11 DEF ExchangeTypes, Sent
  <2> QED
    BY <1>0, <1>2, <1>9, <1>14, <2>1, <2>2, <2>3 DEF ExchangeTypes, Sent
<1>23. RepairBounded'
  <2>1. UpTo(b)'
    BY <1>16 DEF UpTo, AllOK, Sent
  <2> QED
    BY <2>1, <1>1 DEF RepairBounded
<1>24. PulledIsIn'
  <2> SUFFICES ASSUME NEW e \in Replicas, NEW i \in 1..cursor[e], NEW c \in wire'[i]
               PROVE  c \in stash[e] \/ Absorbs(tables[e][c.row], c)
    BY <1>2 DEF PulledIsIn
  <2>1. i \in 1..Len(wire)
    BY <1>0, <1>10 DEF ExchangeTypes
  <2> QED
    BY <2>1, <1>0, <1>9 DEF PulledIsIn
<1>25. ASSUME NEW e \in Replicas, NEW r \in Rows PROVE RowBacked(P, tables[e][r], r)
  <2>1. RowBacked(O, tables[e][r], r)
    BY <1>0, <1>17, <1>25 DEF RowsBacked, Offers
  <2>2. tables[e][r] \in RowSet
    BY <1>1, <1>25, RowsTyped DEF AllOK
  <2> QED
    BY <2>1, <2>2, <1>19, <1>21, <1>25, RowCarries
<1>26. RowsBacked'
  BY <1>2, <1>18, <1>25 DEF RowsBacked, Offers
<1>27. SentBacked'
  <2> SUFFICES ASSUME NEW a \in SentIn(wire') PROVE ChangeBacked(P, a)
    BY <1>18 DEF SentBacked, Offers, Sent
  <2>1. CASE a \in SentIn(wire)
    <3>1. ChangeBacked(O, a) /\ a \in Changes
      BY <2>1, <1>0, <1>17, <1>10, SentTyped DEF SentBacked, Offers, Sent
    <3> QED
      BY <3>1, <1>19, <1>21, ChangeCarries
  <2>2. CASE a \notin SentIn(wire)
    <3>1. PICK m \in Marked(dirty[d]) : a = ChangeIn(tables[d], m)
      BY <2>2, <1>13
    <3>2. m \in Marks
      BY <1>3, MarkedTyped
    <3>3. PICK r \in Rows : r = m[1]
      BY <3>2 DEF Marks
    <3>4. a.row = r /\ a.cl = tables[d][r].cl
      BY <3>1, <3>2, <3>3, <1>3, ChangeOfMark
    <3>5. ASSUME NEW k \in Cols, a.cl % 2 = 1, k \in ColsOf(a.row)
          PROVE  \E c \in P : Proves(c, a.row, a.cl, k, <<0, 0>>)
      <4>1. Asks(r, tables[d][r], k)
        BY <3>4, <3>5 DEF Asks
      <4>2. PICK c \in P : Proves(c, r, tables[d][r].cl, k, tables[d][r].col[k])
        BY <4>1, <1>25, <3>5 DEF RowBacked
      <4>3. AtLeast(<<c.ver, c.val>>, <<0, 0>>)
        <5>1. c.ver \in Nat /\ c.val \in Nat
          BY <1>19, ChangeTyped
        <5> QED
          BY <5>1 DEF AtLeast
      <4>4. Proves(c, a.row, a.cl, k, <<0, 0>>)
        BY <3>4, <4>2, <4>3 DEF Proves
      <4> QED
        BY <4>4
    <3> QED
      BY <3>5 DEF ChangeBacked
  <2> QED
    BY <2>1, <2>2
<1> QED
  BY <1>22, <1>23, <1>24, <1>26, <1>27 DEF ExchangeInv

(* What a pull merges, what it sets aside and what it leaves armed.           *)
Pulled(d, fresh, page, held, clean, n) ==
  /\ page \in SUBSET Sent /\ fresh \subseteq stash[d] \cup page /\ held \subseteq stash[d] \cup page
  /\ \A c \in stash[d] \cup page : c \in fresh \/ c \in held
  /\ n \in Nat /\ cursor[d] <= n /\ n <= Len(wire) /\ (clean => n = Len(wire))
  /\ \A i \in (cursor[d] + 1)..n : wire[i] \subseteq page
  /\ tables' = [tables EXCEPT ![d] = Merged(@, fresh)] /\ stash' = [stash EXCEPT ![d] = held]
  /\ \E k \in Nat : k <= n /\ cursor[d] <= k /\ cursor' = [cursor EXCEPT ![d] = k]
  /\ UNCHANGED <<dirty, wire, converted, missed>>
Armed(d, fresh, clean) ==
  /\ cycle[d] = "pull" /\ ScheduleTypes'
  /\ \A e \in Replicas \ {d} : maint'[e] = maint[e] /\ cycle'[e] = cycle[e]
  /\ maint'[d].skipped = maint[d].skipped
  /\ \/ cycle'[d] = "maintain" \/ maint'[d].pending
     \/ fresh = {} /\ ~maint[d].pending

LEMMA PullShape ==
    ASSUME ExchangeTypes, ScheduleTypes, NEW d \in Replicas, NEW n, NEW clean \in BOOLEAN, NEW piece, Pull(d, n, piece, clean)
    PROVE  \E fresh, page, held : Pulled(d, fresh, page, held, clean, n) /\ Armed(d, fresh, clean)
<1> DEFINE page   == piece \cup UNION {wire[i] : i \in (cursor[d] + 1)..n}
           held   == stash[d] \cup {c \in page : ~Mine(d, c)}
           fresh  == {c \in page : Mine(d, c)} \cup (IF converted[d] THEN held ELSE {})
           merged == fresh # {} \/ (maint[d].skipped /\ converted[d])
           left   == IF converted[d] THEN {} ELSE held
<1>1. /\ cycle[d] = "pull" /\ n \in cursor[d]..Len(wire) /\ piece \subseteq NextOf(n) /\ (clean => n = Len(wire))
      /\ tables' = [tables EXCEPT ![d] = Merged(@, fresh)]
      /\ stash' = [stash EXCEPT ![d] = left]
      /\ \E k \in (IF clean THEN n ELSE cursor[d])..n : cursor' = [cursor EXCEPT ![d] = k]
      /\ maint' = [maint EXCEPT ![d].pending = StaysArmed(maint[d], merged, clean)]
      /\ cycle' = [cycle EXCEPT ![d] = IF Due(maint[d], merged, clean) THEN "maintain" ELSE "push"]
      /\ dirty' = dirty /\ wire' = wire /\ converted' = converted /\ missed' = missed
  BY DEF Pull
<1>2. /\ wire \in Seq(SUBSET Changes) /\ Len(wire) \in Nat /\ cursor[d] \in Nat /\ stash[d] \subseteq Sent
      /\ \A i \in 1..Len(wire) : wire[i] \subseteq Sent
  <2>1. wire \in Seq(SUBSET Changes)
    BY Zenon DEF ExchangeTypes
  <2>2. cursor \in [Replicas -> Nat] /\ \A e \in Replicas : stash[e] \subseteq Sent
    BY DEF ExchangeTypes
  <2>3. Len(wire) \in Nat
    BY <2>1
  <2> QED
    BY <2>1, <2>2, <2>3, SentTyped DEF Sent
<1>3. n \in Nat /\ cursor[d] <= n /\ n <= Len(wire)
  BY <1>1, <1>2
<1>4. page \in SUBSET Sent
  <2>1. NextOf(n) \subseteq Sent
    <3>1. CASE n < Len(wire)
      <4>1. n + 1 \in 1..Len(wire)
        BY <1>2, <1>3, <3>1
      <4> QED
        BY <3>1, <4>1, <1>2 DEF NextOf
    <3>2. CASE ~(n < Len(wire))
      BY <3>2 DEF NextOf
    <3> QED
      BY <3>1, <3>2
  <2>2. \A i \in (cursor[d] + 1)..n : wire[i] \subseteq Sent
    <3> SUFFICES ASSUME NEW i \in (cursor[d] + 1)..n PROVE wire[i] \subseteq Sent
      OBVIOUS
    <3>1. i \in 1..Len(wire)
      BY <1>2, <1>3
    <3> QED
      BY <3>1, <1>2
  <2> QED
    BY <2>1, <2>2, <1>1
<1>5. \A i \in (cursor[d] + 1)..n : wire[i] \subseteq page
  OBVIOUS
<1> HIDE DEF page
<1>6. /\ fresh \subseteq stash[d] \cup page /\ left \subseteq stash[d] \cup page
      /\ \A c \in stash[d] \cup page : c \in fresh \/ c \in left
  <2>1. CASE converted[d]
    BY <2>1
  <2>2. CASE ~converted[d]
    BY <2>2
  <2> QED
    BY <2>1, <2>2
<1> HIDE DEF held, left, fresh
<1>7. Pulled(d, fresh, page, left, clean, n)
  <2>1. \E k \in Nat : k <= n /\ cursor[d] <= k /\ cursor' = [cursor EXCEPT ![d] = k]
    <3>1. PICK k \in (IF clean THEN n ELSE cursor[d])..n : cursor' = [cursor EXCEPT ![d] = k]
      BY <1>1
    <3>2. k \in Nat /\ k <= n /\ cursor[d] <= k
      BY <1>2, <1>3
    <3> QED
      BY <3>1, <3>2
  <2>2. (clean => n = Len(wire)) /\ tables' = [tables EXCEPT ![d] = Merged(@, fresh)] /\ stash' = [stash EXCEPT ![d] = left]
    BY <1>1
  <2>3. UNCHANGED <<dirty, wire, converted, missed>>
    BY <1>1
  <2> QED
    BY <2>1, <2>2, <2>3, <1>3, <1>4, <1>5, <1>6 DEF Pulled
<1>8. PICK on \in BOOLEAN : on <=> merged
  OBVIOUS
<1>9. fresh # {} => on
  BY <1>8
<1>10. /\ StaysArmed(maint[d], merged, clean) \in BOOLEAN
       /\ StaysArmed(maint[d], merged, clean) <=> ~clean /\ (maint[d].pending \/ on)
       /\ Due(maint[d], merged, clean) <=> clean /\ (maint[d].pending \/ on)
  BY <1>8, Zenon DEF StaysArmed, Due
<1> HIDE DEF merged
<1>11. PICK arm \in BOOLEAN : arm = StaysArmed(maint[d], merged, clean)
  BY <1>10
<1>12. maint' = [maint EXCEPT ![d].pending = arm]
  BY <1>1, <1>11
<1>13. maint \in [Replicas -> [pending : BOOLEAN, skipped : BOOLEAN]] /\ cycle \in [Replicas -> {"push", "pull", "maintain"}]
       /\ converted \in [Replicas -> BOOLEAN] /\ missed \in [Replicas -> BOOLEAN]
  BY DEF ScheduleTypes
<1>14. maint' \in [Replicas -> [pending : BOOLEAN, skipped : BOOLEAN]] /\ \A e \in Replicas \ {d} : maint'[e] = maint[e]
  BY <1>12, <1>13
<1>15. (maint'[d].pending <=> arm) /\ (maint'[d].skipped = maint[d].skipped)
  BY <1>12, <1>13
<1>16. PICK at : at = IF Due(maint[d], merged, clean) THEN "maintain" ELSE "push"
  OBVIOUS
<1>17. cycle' \in [Replicas -> {"push", "pull", "maintain"}] /\ cycle'[d] = at /\ \A e \in Replicas \ {d} : cycle'[e] = cycle[e]
  <2>1. at \in {"push", "pull", "maintain"} /\ cycle' = [cycle EXCEPT ![d] = at]
    BY <1>1, <1>16
  <2> QED
    BY <2>1, <1>13
<1>18. ScheduleTypes'
  BY <1>1, <1>13, <1>14, <1>17 DEF ScheduleTypes
<1>19. cycle'[d] = "maintain" \/ maint'[d].pending \/ (fresh = {} /\ ~maint[d].pending)
  <2>1. Due(maint[d], merged, clean) => cycle'[d] = "maintain"
    BY <1>16, <1>17
  <2>2. StaysArmed(maint[d], merged, clean) => maint'[d].pending
    BY <1>11, <1>15
  <2>3. Due(maint[d], merged, clean) \/ StaysArmed(maint[d], merged, clean) \/ (~on /\ ~maint[d].pending)
    BY <1>10, Zenon
  <2> QED
    BY <2>1, <2>2, <2>3, <1>9, Zenon
<1>20. Armed(d, fresh, clean)
  BY <1>1, <1>14, <1>15, <1>17, <1>18, <1>19 DEF Armed
<1> QED
  BY <1>7, <1>20

LEMMA PullKeeps ==
    ASSUME ExchangeInv, NEW d \in Replicas, NEW fresh, NEW page, NEW held, NEW clean, NEW n,
           Pulled(d, fresh, page, held, clean, n)
    PROVE  ExchangeInv' /\ (fresh = {} => tables' = tables)
<1>0. /\ ExchangeTypes /\ PulledIsIn /\ RowsBacked /\ SentBacked
      /\ tables \in [Replicas -> [Rows -> RowSet]] /\ wire \in Seq(SUBSET Changes)
      /\ cursor \in [Replicas -> Nat] /\ stash \in [Replicas -> SUBSET Changes] /\ \A e \in Replicas : stash[e] \subseteq Sent
  BY Zenon DEF ExchangeInv, ExchangeTypes
<1>1. PICK b \in Nat : b > MaxClock /\ AllOK(tables, dirty, wire, b)
  BY TakeBound
<1>2. /\ page \in SUBSET Sent /\ fresh \subseteq stash[d] \cup page /\ held \subseteq stash[d] \cup page
      /\ \A c \in stash[d] \cup page : c \in fresh \/ c \in held
      /\ n \in Nat /\ cursor[d] <= n /\ n <= Len(wire)
      /\ \A i \in (cursor[d] + 1)..n : wire[i] \subseteq page
      /\ tables' = [tables EXCEPT ![d] = Merged(@, fresh)] /\ stash' = [stash EXCEPT ![d] = held]
      /\ dirty' = dirty /\ wire' = wire
  BY DEF Pulled
<1>3. PICK at \in Nat : at <= n /\ cursor[d] <= at /\ cursor' = [cursor EXCEPT ![d] = at]
  BY DEF Pulled
<1>4. fresh \subseteq Sent /\ held \subseteq Sent
  BY <1>0, <1>2
<1>5. ChangesOK(Sent, b) /\ Sent \subseteq Changes
  BY <1>1 DEF AllOK, Sent, ChangesOK
<1>6. ChangesOK(fresh, b)
  BY <1>4, <1>5 DEF ChangesOK
<1>7. PICK z : z = Merged(tables[d], fresh)
  OBVIOUS
<1>8. TableOK(tables[d], b) /\ TableOK(z, b) /\ \A r \in Rows : JoinsTo(z[r], tables[d][r], {c \in fresh : c.row = r})
  <2>1. TableOK(tables[d], b)
    BY <1>1 DEF AllOK
  <2> QED
    BY <2>1, <1>1, <1>6, <1>7, MergedTable
<1>9. tables' = [tables EXCEPT ![d] = z] /\ tables'[d] = z /\ \A e \in Replicas \ {d} : tables'[e] = tables[e]
  BY <1>0, <1>2, <1>7
<1>10. AllOK(tables', dirty', wire', b)
  BY <1>1, <1>2, <1>8, <1>9 DEF AllOK
<1>11. PICK O : O = OffersOf(tables, dirty, wire)
  OBVIOUS
<1>12. PICK P : P = OffersOf(tables', dirty', wire')
  OBVIOUS
<1>13. /\ O \in SUBSET Changes /\ P \in SUBSET Changes /\ Sent \in SUBSET P
       /\ \A e \in Replicas : \A m \in Marked(dirty[e]) : ChangeIn(tables'[e], m) \in P
  <2>1. O \in SUBSET Changes
    BY <1>1, <1>11, OffersAre
  <2>2. /\ P \in SUBSET Changes /\ SentIn(wire') \in SUBSET P
        /\ \A e \in Replicas : \A m \in Marked(dirty'[e]) : ChangeIn(tables'[e], m) \in P
    BY <1>10, <1>12, OffersAre
  <2> QED
    BY <2>1, <2>2, <1>2 DEF Sent
<1>14. ASSUME NEW e \in Replicas, NEW m \in Marked(dirty[e]) PROVE \E a \in P : Over(a, ChangeIn(tables[e], m))
  <2>1. m \in Marks /\ m[1] \in Rows
    BY <1>1, <1>14, MarkedTyped DEF AllOK
  <2>2. TableOK(tables[e], b) /\ TableOK(tables'[e], b)
    BY <1>1, <1>10, <1>14 DEF AllOK
  <2>3. Grown(tables'[e][m[1]], tables[e][m[1]])
    <3>1. CASE e = d
      <4>1. JoinsTo(z[m[1]], tables[d][m[1]], {c \in fresh : c.row = m[1]})
        BY <2>1, <1>8
      <4>2. Grown(z[m[1]], tables[d][m[1]])
        BY <4>1 DEF JoinsTo
      <4> QED
        BY <3>1, <4>2, <1>9
    <3>2. CASE e # d
      <4>1. tables[e][m[1]] \in RowSet /\ tables'[e][m[1]] = tables[e][m[1]]
        BY <3>2, <2>1, <2>2, <1>9, <1>14, RowsTyped
      <4> QED
        BY <4>1, GrownOrder
    <3> QED
      BY <3>1, <3>2
  <2>4. Over(ChangeIn(tables'[e], m), ChangeIn(tables[e], m))
    BY <2>1, <2>2, <2>3, MarkImproves
  <2> QED
    BY <2>4, <1>13, <1>14
<1>15. Improves(P, O)
  <2>1. SentIn(wire) \subseteq SentIn(wire')
    BY <1>2
  <2> QED
    BY <2>1, <1>1, <1>10, <1>11, <1>12, <1>14, OffersImprove
<1>16. ExchangeTypes'
  <2>1. tables' \in [Replicas -> [Rows -> RowSet]]
    <3>1. z \in [Rows -> RowSet]
      BY <1>8 DEF TableOK
    <3> QED
      BY <3>1, <1>0, <1>9
  <2>2. cursor' \in [Replicas -> Nat] /\ \A e \in Replicas : cursor'[e] <= Len(wire)
    <3>1. \A e \in Replicas : cursor[e] <= Len(wire)
      BY <1>0 DEF ExchangeTypes
    <3>2. at <= Len(wire)
      BY <1>0, <1>2, <1>3
    <3> QED
      BY <3>1, <3>2, <1>0, <1>3
  <2>3. stash' \in [Replicas -> SUBSET Changes] /\ \A e \in Replicas : stash'[e] \subseteq Sent
    BY <1>0, <1>2, <1>4, <1>5
  <2>4. dirty \in [Replicas -> Seq(SUBSET Marks)] /\ \A e \in Replicas : DirtyOK(dirty[e])
    BY <1>0 DEF ExchangeTypes
  <2> QED
    BY <2>1, <2>2, <2>3, <2>4, <1>0, <1>2 DEF ExchangeTypes, Sent
<1>17. RepairBounded'
  <2>1. UpTo(b)'
    BY <1>10 DEF UpTo, AllOK, Sent
  <2> QED
    BY <2>1, <1>1 DEF RepairBounded
<1>18. PulledIsIn'
  <2> SUFFICES ASSUME NEW e \in Replicas, NEW i \in 1..cursor'[e], NEW c \in wire[i]
               PROVE  c \in stash'[e] \/ Absorbs(tables'[e][c.row], c)
    BY <1>2 DEF PulledIsIn
  <2>1. CASE e # d
    <3>1. cursor'[e] = cursor[e] /\ stash'[e] = stash[e] /\ tables'[e] = tables[e]
      BY <2>1, <1>0, <1>2, <1>3, <1>9
    <3> QED
      BY <3>1, <1>0 DEF PulledIsIn
  <2>2. CASE e = d
    <3>1. stash'[e] = held /\ tables'[e] = z /\ cursor'[e] = at /\ i \in Nat /\ i >= 1 /\ i <= n /\ i <= Len(wire)
      BY <2>2, <1>0, <1>2, <1>3, <1>9
    <3>2. i \in 1..Len(wire) /\ c \in Changes /\ c.row \in Rows
      <4>1. i \in 1..Len(wire)
        BY <3>1, <1>0
      <4>2. c \in Changes
        BY <4>1, <1>0, SentTyped
      <4> QED
        BY <4>1, <4>2, ChangeTyped
    <3>3. ASSUME c \in fresh PROVE Absorbs(z[c.row], c)
      <4>1. JoinsTo(z[c.row], tables[d][c.row], {a \in fresh : a.row = c.row})
        BY <3>2, <1>8
      <4>2. c \in {a \in fresh : a.row = c.row}
        BY <3>3
      <4> QED
        BY <4>1, <4>2, Zenon DEF JoinsTo
    <3>4. CASE i <= cursor[d]
      <4>1. c \in stash[d] \/ Absorbs(tables[d][c.row], c)
        <5>1. i \in 1..cursor[d]
          BY <3>1, <3>4, <1>0
        <5> QED
          BY <5>1, <1>0 DEF PulledIsIn
      <4>2. CASE c \in stash[d]
        BY <4>2, <1>2, <3>1, <3>3
      <4>3. CASE Absorbs(tables[d][c.row], c)
        <5>1. Grown(z[c.row], tables[d][c.row]) /\ z[c.row] \in RowSet /\ tables[d][c.row] \in RowSet
          BY <3>2, <1>8, RowsTyped DEF JoinsTo
        <5>2. Absorbs(z[c.row], c)
          BY <4>3, <5>1, <3>2, AbsorbsStill
        <5> QED
          BY <5>2, <3>1
      <4> QED
        BY <4>1, <4>2, <4>3
    <3>5. CASE ~(i <= cursor[d])
      <4>1. i \in (cursor[d] + 1)..n
        BY <3>1, <3>5, <1>0, <1>2
      <4>2. c \in page
        BY <4>1, <1>2
      <4> QED
        BY <4>2, <1>2, <3>1, <3>3
    <3> QED
      BY <3>4, <3>5
  <2> QED
    BY <2>1, <2>2
<1>19. \A a \in Sent : ChangeBacked(P, a)
  <2> SUFFICES ASSUME NEW a \in Sent PROVE ChangeBacked(P, a)
    OBVIOUS
  <2>1. ChangeBacked(O, a) /\ a \in Changes
    BY <1>0, <1>5, <1>11 DEF SentBacked, Offers
  <2> QED
    BY <2>1, <1>13, <1>15, ChangeCarries
<1>20. RowsBacked'
  <2> SUFFICES ASSUME NEW e \in Replicas, NEW r \in Rows PROVE RowBacked(P, tables'[e][r], r)
    BY <1>12 DEF RowsBacked, Offers
  <2>1. RowBacked(O, tables[e][r], r)
    BY <1>0, <1>11 DEF RowsBacked, Offers
  <2>2. tables[e][r] \in RowSet
    BY <1>0
  <2>3. RowBacked(P, tables[e][r], r)
    BY <2>1, <2>2, <1>13, <1>15, RowCarries
  <2>4. CASE e # d
    BY <2>3, <2>4, <1>9
  <2>5. CASE e = d
    <3>1. PICK cs : cs = {c \in fresh : c.row = r}
      OBVIOUS
    <3>2. cs \in SUBSET P /\ \A c \in cs : c.row = r /\ ChangeBacked(P, c)
      BY <3>1, <1>4, <1>13, <1>19
    <3>3. JoinsTo(z[r], tables[d][r], cs)
      BY <3>1, <1>8
    <3>4. GoodRow(tables[d][r], b) /\ GoodRow(z[r], b)
      BY <1>8 DEF TableOK, GoodRow
    <3> QED
      BY <2>3, <2>5, <3>2, <3>3, <3>4, <1>9, <1>13, MergeBacks
  <2> QED
    BY <2>4, <2>5
<1>21. SentBacked'
  BY <1>2, <1>12, <1>19 DEF SentBacked, Offers, Sent
<1>22. ASSUME fresh = {} PROVE tables' = tables
  <2>1. \A r \in Rows : z[r] = tables[d][r]
    <3> SUFFICES ASSUME NEW r \in Rows PROVE z[r] = tables[d][r]
      OBVIOUS
    <3>1. {c \in fresh : c.row = r} = {}
      BY <1>22
    <3> QED
      BY <3>1, <1>8 DEF JoinsTo
  <2>2. z \in [Rows -> RowSet] /\ tables[d] \in [Rows -> RowSet]
    BY <1>8 DEF TableOK
  <2>3. z = tables[d]
    BY <2>1, <2>2
  <2> QED
    BY <2>3, <1>0, <1>9
<1> QED
  BY <1>16, <1>17, <1>18, <1>20, <1>21, <1>22 DEF ExchangeInv

(* What a device's statements do to the schedule's promise: a device with    *)
(* something to push is not idle, and the others' idleness can only end.     *)
LEMMA IdleElsewhere ==
    ASSUME IdleIsTidy, NEW d \in Replicas,
           \A e \in Replicas \ {d} :
             /\ tables'[e] = tables[e] /\ dirty'[e] = dirty[e] /\ stash'[e] = stash[e] /\ cursor'[e] = cursor[e]
             /\ maint'[e] = maint[e] /\ missed'[e] = missed[e] /\ cycle'[e] = cycle[e],
           \A i \in DOMAIN wire : i \in DOMAIN wire' /\ wire'[i] = wire[i],
           Idle(d)' => Tidy(tables'[d])
    PROVE  IdleIsTidy'
<1> SUFFICES ASSUME NEW e \in Replicas, Idle(e)' PROVE Tidy(tables'[e])
  BY DEF IdleIsTidy
<1>1. CASE e = d
  BY <1>1
<1>2. CASE e # d
  <2>1. Idle(e)
    BY <1>2 DEF Idle
  <2> QED
    BY <1>2, <2>1 DEF IdleIsTidy
<1> QED
  BY <1>1, <1>2

(* A user's statement: what it leaves is well formed, marked, and to push.    *)
UserWrote(d, z, b) == StateOK(z, b + 1) /\ Wrote(Local(d), z) /\ z[2] # <<>>

LEMMA LocalOK ==
    ASSUME NEW d \in Replicas, NEW b \in Nat, AllOK(tables, dirty, wire, b)
    PROVE  StateOK(Local(d), b) /\ Local(d)[1] = tables[d] /\ Local(d)[2] = dirty[d]
BY DEF AllOK, Local, StateOK

LEMMA NoteCols ==
    ASSUME NEW b \in Nat, b > MaxClock, NEW n \in NoteIds, NEW now \in 1..MaxClock
    PROVE  FirstCols(Note(n), [Defaults EXCEPT !.session = <<1, 1>>, !.updated = <<1, now>>], b)
<1>1. MaxClock \in Nat /\ now \in Nat /\ now <= b + 1
  BY RepairAssumption
<1>2. PICK cols : cols = [Defaults EXCEPT !.session = <<1, 1>>, !.updated = <<1, now>>]
  OBVIOUS
<1>3. Cols = {"session", "updated", "name"}
  BY DEF Cols
<1>4. cols["session"] = <<1, 1>> /\ cols["updated"] = <<1, now>> /\ cols["name"] = Defaults["name"]
  BY <1>2, <1>3, DefaultsFacts
<1>5. cols \in [Cols -> Stamps]
  <2>1. <<1, 1>> \in Stamps /\ <<1, now>> \in Stamps
    BY <1>1 DEF Stamps
  <2> QED
    BY <1>2, <2>1, DefaultsFacts
<1>6. ColsOf(Note(n)) = {"session", "updated"}
  BY RowNames DEF ColsOf
<1>7. Defaults["name"][1] = 0 /\ Defaults["name"][2] \in Nat /\ Defaults["name"][2] <= b + 1
  BY <1>1, <1>3, DefaultsFacts
<1>8. ASSUME NEW k \in Cols
      PROVE  /\ cols[k][1] <= b + 1 /\ cols[k][2] <= b + 1
             /\ cols[k][1] = 0 => cols[k] = Defaults[k]
             /\ k \in ColsOf(Note(n)) <=> cols[k][1] > 0
  <2>1. CASE k = "session"
    BY <2>1, <1>4, <1>6
  <2>2. CASE k = "updated"
    BY <2>2, <1>1, <1>4, <1>6
  <2>3. CASE k = "name"
    BY <2>3, <1>4, <1>6, <1>7
  <2> QED
    BY <2>1, <2>2, <2>3, <1>3, <1>8
<1>9. FirstCols(Note(n), cols, b)
  BY <1>5, <1>8 DEF FirstCols
<1> QED
  BY <1>2, <1>9

LEMMA TagCols ==
    ASSUME NEW b \in Nat, b > MaxClock, NEW t \in TagIds
    PROVE  /\ FirstCols(Tag(t), [Defaults EXCEPT !.name = <<1, 1>>], b)
           /\ FirstCols(Link(t), Defaults, b)
<1>1. MaxClock \in Nat
  BY RepairAssumption
<1>2. PICK cols : cols = [Defaults EXCEPT !.name = <<1, 1>>]
  OBVIOUS
<1>3. Cols = {"session", "updated", "name"}
  BY DEF Cols
<1>4. cols["name"] = <<1, 1>> /\ \A k \in Cols \ {"name"} : cols[k] = Defaults[k]
  BY <1>2, <1>3, DefaultsFacts
<1>5. cols \in [Cols -> Stamps]
  <2>1. <<1, 1>> \in Stamps
    BY DEF Stamps
  <2> QED
    BY <1>2, <2>1, DefaultsFacts
<1>6. ColsOf(Tag(t)) = {"name"} /\ ColsOf(Link(t)) = {"-1"}
  BY RowNames DEF ColsOf
<1>7. \A k \in Cols : Defaults[k][1] = 0 /\ Defaults[k][2] \in Nat /\ Defaults[k][2] <= b + 1
  BY <1>1, DefaultsFacts
<1>8. ASSUME NEW k \in Cols
      PROVE  /\ cols[k][1] <= b + 1 /\ cols[k][2] <= b + 1
             /\ cols[k][1] = 0 => cols[k] = Defaults[k]
             /\ k \in ColsOf(Tag(t)) <=> cols[k][1] > 0
  <2>1. CASE k = "name"
    BY <2>1, <1>4, <1>6
  <2>2. CASE k # "name"
    BY <2>2, <1>4, <1>6, <1>7, <1>8
  <2> QED
    BY <2>1, <2>2
<1>9. FirstCols(Tag(t), cols, b)
  BY <1>5, <1>8 DEF FirstCols
<1>10. \A k \in Cols : k \notin ColsOf(Link(t))
  BY <1>3, <1>6
<1>11. FirstCols(Link(t), Defaults, b)
  BY <1>7, <1>10, DefaultsFacts DEF FirstCols
<1> QED
  BY <1>2, <1>9, <1>11

LEMMA FreshInserts ==
    ASSUME NEW d \in Replicas, NEW b \in Nat, b > MaxClock, AllOK(tables, dirty, wire, b),
           NEW r \in Rows, ~Live(tables[d], r), NEW cols, FirstCols(r, cols, b)
    PROVE  UserWrote(d, InsertRow(Local(d), r, cols), b)
<1>1. PICK s : s = Local(d)
  OBVIOUS
<1>2. StateOK(s, b) /\ ~Live(s[1], r)
  BY <1>1, LocalOK
<1>3. Inserted(s, InsertRow(s, r, cols), r, b)
  BY <1>2, InsertWrites
<1> QED
  BY <1>1, <1>2, <1>3 DEF Inserted, UserWrote

LEMMA EditKeeps ==
    ASSUME RepairInv, NEW d \in Replicas, NEW b \in Nat, b > MaxClock, AllOK(tables, dirty, wire, b),
           NEW z, UserWrote(d, z, b), Edit(d, z)
    PROVE  RepairInv'
<1>0. ExchangeInv /\ ScheduleTypes /\ IdleIsTidy
  BY DEF RepairInv
<1>1. /\ Store(d, z) /\ wire' = wire /\ cursor' = cursor /\ cycle' = cycle
      /\ maint' = maint /\ converted' = converted /\ stash' = stash /\ missed' = missed
  BY DEF Edit, scheduleVars
<1>2. ExchangeInv'
  <2>1. StateOK(z, b + 1) /\ Wrote(Local(d), z) /\ b <= b + 1 /\ b + 1 \in Nat
    BY DEF UserWrote
  <2> QED
    BY <1>0, <1>1, <2>1, StoreKeeps
<1>3. ScheduleTypes'
  BY <1>0, <1>1 DEF ScheduleTypes
<1>4. IdleIsTidy'
  <2>1. tables \in [Replicas -> [Rows -> RowSet]] /\ dirty \in [Replicas -> Seq(SUBSET Marks)]
    BY <1>0, Zenon DEF ExchangeInv, ExchangeTypes
  <2>2. dirty'[d] # <<>>
    BY <1>1, <2>1 DEF Store, UserWrote
  <2>3. ~Idle(d)'
    BY <2>2 DEF Idle
  <2>4. \A e \in Replicas \ {d} : tables'[e] = tables[e] /\ dirty'[e] = dirty[e]
    BY <1>1, <2>1 DEF Store
  <2> QED
    BY <1>0, <1>1, <2>3, <2>4, IdleElsewhere
<1> QED
  BY <1>2, <1>3, <1>4 DEF RepairInv

LEMMA UserKeeps ==
    ASSUME RepairInv, NEW d \in Replicas,
           \/ \E now \in 1..MaxClock : SaveNote(d, now)
           \/ CreateTag(d) \/ AddSessionTag(d)
           \/ \E r \in {SessionRow} \cup {Tag(t) : t \in TagIds} : DeleteByUser(d, r)
    PROVE  RepairInv'
<1>1. PICK b \in Nat : b > MaxClock /\ AllOK(tables, dirty, wire, b)
  BY TakeBound DEF RepairInv
<1>2. StateOK(Local(d), b) /\ Local(d)[1] = tables[d] /\ \A r \in Rows : tables[d][r].cl \in Nat
  <2>1. TableOK(tables[d], b)
    BY <1>1 DEF AllOK
  <2> QED
    BY <1>1, <2>1, LocalOK, RowsTyped
<1>3. \A r \in Rows : tables[d][r].cl = 0 => ~Live(tables[d], r)
  BY DEF Live
<1>4. ASSUME NEW now \in 1..MaxClock, SaveNote(d, now) PROVE RepairInv'
  <2>1. CASE \E n \in NotesHere(d) : Edit(d, SetColumn(Local(d), Note(n), "updated", now))
    <3>1. PICK n \in NotesHere(d) : Edit(d, SetColumn(Local(d), Note(n), "updated", now))
      BY <2>1
    <3>2. n \in NoteIds /\ Live(tables[d], Note(n))
      BY DEF NotesHere
    <3>3. PICK r \in Rows : r = Note(n)
      BY <3>2, RowNames
    <3>4. PICK s : s = Local(d)
      OBVIOUS
    <3>5. PICK z : z = SetColumn(s, r, "updated", now)
      OBVIOUS
    <3>6. "updated" \in Cols /\ now \in Nat /\ now <= b
      BY <1>1, RepairAssumption DEF Cols
    <3>7. StateOK(z, b + 1) /\ Wrote(s, z) /\ z[2] # <<>>
      BY <1>1, <1>2, <3>2, <3>3, <3>4, <3>5, <3>6, ColumnWrites
    <3> QED
      BY <1>1, <3>1, <3>3, <3>4, <3>5, <3>7, EditKeeps DEF UserWrote
  <2>2. CASE \E n \in NoteIds : ~Known(n)
               /\ Edit(d, InsertRow(Local(d), Note(n), [Defaults EXCEPT !.session = <<1, 1>>, !.updated = <<1, now>>]))
    <3>1. PICK n \in NoteIds : ~Known(n)
               /\ Edit(d, InsertRow(Local(d), Note(n), [Defaults EXCEPT !.session = <<1, 1>>, !.updated = <<1, now>>]))
      BY <2>2
    <3>2. PICK cols : cols = [Defaults EXCEPT !.session = <<1, 1>>, !.updated = <<1, now>>]
      OBVIOUS
    <3>3. PICK r \in Rows : r = Note(n)
      BY RowNames
    <3>4. ~Live(tables[d], r)
      <4>1. ~(tables[d][r].cl > 0)
        BY <3>1, <3>3 DEF Known
      <4>2. tables[d][r].cl = 0
        BY <4>1, <1>2
      <4> QED
        BY <4>2, <1>3
    <3>5. FirstCols(r, cols, b)
      BY <1>1, <3>2, <3>3, NoteCols
    <3>6. UserWrote(d, InsertRow(Local(d), r, cols), b)
      BY <1>1, <3>4, <3>5, FreshInserts
    <3> QED
      BY <1>1, <3>1, <3>2, <3>3, <3>6, EditKeeps
  <2> QED
    BY <1>4, <2>1, <2>2 DEF SaveNote
<1>5. ASSUME CreateTag(d) PROVE RepairInv'
  <2>1. PICK t \in TagIds : (\A e \in Replicas : tables[e][Tag(t)].cl = 0)
                            /\ Edit(d, InsertRow(Local(d), Tag(t), [Defaults EXCEPT !.name = <<1, 1>>]))
    BY <1>5 DEF CreateTag
  <2>2. PICK cols : cols = [Defaults EXCEPT !.name = <<1, 1>>]
    OBVIOUS
  <2>3. PICK r \in Rows : r = Tag(t)
    BY RowNames
  <2>4. ~Live(tables[d], r)
    BY <1>3, <2>1, <2>3
  <2>5. FirstCols(r, cols, b)
    BY <1>1, <2>2, <2>3, TagCols
  <2>6. UserWrote(d, InsertRow(Local(d), r, cols), b)
    BY <1>1, <2>4, <2>5, FreshInserts
  <2> QED
    BY <1>1, <2>1, <2>2, <2>3, <2>6, EditKeeps
<1>6. ASSUME AddSessionTag(d) PROVE RepairInv'
  <2>1. PICK t \in NamedHere(d) : ~Live(tables[d], Link(t)) /\ Edit(d, InsertRow(Local(d), Link(t), Defaults))
    BY <1>6 DEF AddSessionTag
  <2>2. t \in TagIds
    BY DEF NamedHere
  <2>3. PICK r \in Rows : r = Link(t)
    BY <2>2, RowNames
  <2>4. FirstCols(r, Defaults, b)
    BY <1>1, <2>2, <2>3, TagCols
  <2>5. UserWrote(d, InsertRow(Local(d), r, Defaults), b)
    BY <1>1, <2>1, <2>3, <2>4, FreshInserts
  <2> QED
    BY <1>1, <2>1, <2>3, <2>5, EditKeeps
<1>7. ASSUME NEW r \in {SessionRow} \cup {Tag(t) : t \in TagIds}, DeleteByUser(d, r) PROVE RepairInv'
  <2>1. r \in Rows
    BY <1>7, RowNames
  <2>2. Live(tables[d], r) /\ Edit(d, DeleteRows(Local(d), {r}))
    BY <1>7 DEF DeleteByUser
  <2>3. PICK s : s = Local(d)
    OBVIOUS
  <2>4. PICK z : z = DeleteRows(s, {r})
    OBVIOUS
  <2>5. StateOK(z, b + 1) /\ Wrote(s, z) /\ z[2] # <<>>
    <3>1. {r} \in SUBSET Rows /\ StateOK(s, b) /\ Live(s[1], r)
      BY <1>2, <2>1, <2>2, <2>3
    <3> QED
      BY <1>1, <2>4, <3>1, DeleteWrites
  <2> QED
    BY <1>1, <2>2, <2>3, <2>4, <2>5, EditKeeps DEF UserWrote
<1> QED
  BY <1>4, <1>5, <1>6, <1>7

LEMMA PushStep == ASSUME RepairInv, NEW d \in Replicas, Push(d) PROVE RepairInv'
<1>0. /\ ExchangeInv /\ ScheduleTypes /\ IdleIsTidy
      /\ dirty \in [Replicas -> Seq(SUBSET Marks)] /\ wire \in Seq(SUBSET Changes) /\ cursor \in [Replicas -> Nat]
      /\ \A e \in Replicas : DirtyOK(dirty[e])
      /\ \A e \in Replicas : cursor[e] <= Len(wire)
  BY Zenon DEF RepairInv, ExchangeInv, ExchangeTypes
<1>1. ExchangeInv'
  BY <1>0, PushKeeps
<1>2. /\ cycle[d] = "push" /\ cycle' = [cycle EXCEPT ![d] = "pull"] /\ dirty' = [dirty EXCEPT ![d] = <<>>]
      /\ tables' = tables /\ cursor' = cursor /\ stash' = stash
      /\ maint' = maint /\ converted' = converted /\ missed' = missed
  BY DEF Push, scheduleVars
<1>3. cycle \in [Replicas -> {"push", "pull", "maintain"}]
  BY <1>0 DEF ScheduleTypes
<1>4. ScheduleTypes'
  BY <1>0, <1>2, <1>3 DEF ScheduleTypes
<1>5. PICK q : q = [i \in DOMAIN dirty[d] |-> {ChangeOf(d, m) : m \in dirty[d][i]}]
  OBVIOUS
<1>6. dirty[d] \in Seq(SUBSET Marks) /\ DirtyOK(dirty[d]) /\ Len(dirty[d]) \in Nat /\ Len(wire) \in Nat
  BY <1>0
<1>7. /\ wire' = wire \o q /\ q \in Seq(SUBSET {ChangeOf(d, m) : m \in Marks}) /\ Len(q) = Len(dirty[d])
      /\ \A i \in 1..Len(q) : q[i] = {ChangeOf(d, m) : m \in dirty[d][i]}
  <2>1. wire' = wire \o q
    BY <1>5, Zenon DEF Push
  <2>2. DOMAIN dirty[d] = 1..Len(dirty[d])
    BY <1>6
  <2>3. \A i \in 1..Len(dirty[d]) : q[i] = {ChangeOf(d, m) : m \in dirty[d][i]} /\ dirty[d][i] \subseteq Marks
    BY <1>5, <1>6, <2>2
  <2>4. PICK S : S = {ChangeOf(d, m) : m \in Marks}
    OBVIOUS
  <2>5. \A i \in 1..Len(dirty[d]) : q[i] \in SUBSET S
    BY <2>3, <2>4
  <2>6. q = [i \in 1..Len(dirty[d]) |-> q[i]]
    BY <1>5, <2>2
  <2>7. q \in Seq(SUBSET S) /\ Len(q) = Len(dirty[d])
    BY <2>5, <2>6, <1>6
  <2> QED
    BY <2>1, <2>3, <2>4, <2>7
<1>8. /\ Len(wire') = Len(wire) + Len(q)
      /\ \A i \in 1..Len(wire) : wire'[i] = wire[i] /\ i \in DOMAIN wire'
      /\ \A i \in 1..Len(q) : wire'[Len(wire) + i] = q[i] /\ Len(wire) + i \in DOMAIN wire'
  <2>1. PICK S : S = UNION {SUBSET Changes, SUBSET {ChangeOf(d, m) : m \in Marks}}
    OBVIOUS
  <2>2. wire \in Seq(S) /\ q \in Seq(S)
    BY <1>0, <1>7, <2>1
  <2>3. PICK w : w = wire \o q
    OBVIOUS
  <2>4. /\ w \in Seq(S) /\ Len(w) = Len(wire) + Len(q)
        /\ \A i \in 1..Len(wire) : w[i] = wire[i]
        /\ \A i \in 1..Len(q) : w[Len(wire) + i] = q[i]
    BY ONLY <2>2, <2>3, Concatenated
  <2>5. DOMAIN w = 1..(Len(wire) + Len(q)) /\ Len(q) \in Nat
    BY <2>2, <2>4
  <2> QED
    BY <1>6, <1>7, <2>3, <2>4, <2>5
<1>9. ASSUME Idle(d)' PROVE Tidy(tables'[d])
  <2>1. CASE dirty[d] = <<>>
    <3>1. Len(q) = 0
      BY <2>1, <1>7
    <3>2. DOMAIN wire' = 1..Len(wire) /\ DOMAIN wire = 1..Len(wire)
      <4>1. wire' \in Seq(SUBSET Changes)
        BY <1>1, Zenon DEF ExchangeInv, ExchangeTypes
      <4> QED
        BY <4>1, <3>1, <1>0, <1>6, <1>8
    <3>3. Idle(d)
      BY <2>1, <3>2, <1>2, <1>8, <1>9 DEF Idle
    <3> QED
      BY <3>3, <1>0, <1>2 DEF IdleIsTidy
  <2>2. CASE dirty[d] # <<>>
    <3>1. PICK n \in Nat : n = Len(dirty[d]) /\ n >= 1 /\ dirty[d][n] # {}
      <4>1. dirty[d][Len(dirty[d])] # {}
        BY <2>2, <1>6 DEF DirtyOK
      <4>2. Len(dirty[d]) >= 1
        BY <2>2, <1>6
      <4> QED
        BY <4>1, <4>2, <1>6
    <3>2. n \in 1..Len(q) /\ q[n] # {}
      <4>1. n \in 1..Len(q)
        BY <3>1, <1>7
      <4>2. PICK m : m \in dirty[d][n]
        BY <3>1
      <4>3. ChangeOf(d, m) \in {ChangeOf(d, x) : x \in dirty[d][n]}
        BY <4>2
      <4>4. q[n] = {ChangeOf(d, x) : x \in dirty[d][n]}
        BY <4>1, <1>7
      <4> QED
        BY <4>1, <4>3, <4>4
    <3>3. Len(wire) + n \in DOMAIN wire' /\ wire'[Len(wire) + n] # {}
      BY <3>2, <1>8
    <3>4. Len(wire) + n > cursor'[d]
      BY <3>1, <1>0, <1>2, <1>6
    <3> QED
      BY <3>3, <3>4, <1>9 DEF Idle
  <2> QED
    BY <2>1, <2>2
<1>10. IdleIsTidy'
  <2>1. \A e \in Replicas \ {d} : dirty'[e] = dirty[e] /\ cycle'[e] = cycle[e]
    BY <1>0, <1>2, <1>3
  <2>2. \A i \in DOMAIN wire : i \in DOMAIN wire' /\ wire'[i] = wire[i]
    BY <1>0, <1>8
  <2> QED
    BY <2>1, <2>2, <1>0, <1>2, <1>9, IdleElsewhere
<1> QED
  BY <1>1, <1>4, <1>10 DEF RepairInv

LEMMA PullStep ==
    ASSUME RepairInv, NEW d \in Replicas, NEW n, NEW clean \in BOOLEAN, NEW piece, Pull(d, n, piece, clean)
    PROVE  RepairInv'
<1>0. /\ ExchangeInv /\ ExchangeTypes /\ ScheduleTypes /\ IdleIsTidy /\ wire \in Seq(SUBSET Changes)
      /\ stash \in [Replicas -> SUBSET Changes] /\ tables \in [Replicas -> [Rows -> RowSet]]
      /\ cursor \in [Replicas -> Nat]
  BY Zenon DEF RepairInv, ExchangeInv, ExchangeTypes
<1>1. PICK fresh, page, held : Pulled(d, fresh, page, held, clean, n) /\ Armed(d, fresh, clean)
  BY <1>0, PullShape
<1>2. ExchangeInv' /\ (fresh = {} => tables' = tables)
  BY <1>0, <1>1, PullKeeps
<1>3. ScheduleTypes'
  BY <1>1 DEF Armed
<1>4. /\ \A c \in stash[d] \cup page : c \in fresh \/ c \in held
      /\ n \in Nat /\ \A i \in (cursor[d] + 1)..n : wire[i] \subseteq page
      /\ tables' = [tables EXCEPT ![d] = Merged(@, fresh)] /\ stash' = [stash EXCEPT ![d] = held]
      /\ dirty' = dirty /\ wire' = wire /\ missed' = missed
  BY <1>1 DEF Pulled
<1>5. PICK k \in Nat : k <= n /\ cursor[d] <= k /\ cursor' = [cursor EXCEPT ![d] = k]
  BY <1>1 DEF Pulled
<1>6. ASSUME Idle(d)' PROVE Tidy(tables'[d])
  <2>1. /\ ~maint'[d].pending /\ ~maint'[d].skipped /\ ~missed'[d] /\ cycle'[d] # "maintain"
        /\ dirty'[d] = <<>> /\ stash'[d] = {} /\ \A i \in DOMAIN wire' : i > cursor'[d] => wire'[i] = {}
    BY <1>6 DEF Idle
  <2>2. fresh = {} /\ ~maint[d].pending /\ ~maint[d].skipped /\ cycle[d] # "maintain"
    BY <2>1, <1>1 DEF Armed
  <2>3. held = {} /\ stash[d] = {} /\ page = {}
    BY <1>0, <1>4, <2>1, <2>2
  <2>4. ASSUME NEW i \in DOMAIN wire, i > cursor[d] PROVE wire[i] = {}
    <3>1. i \in Nat /\ cursor[d] \in Nat /\ cursor'[d] = k
      BY <1>0, <1>5, <2>4
    <3>2. CASE i <= n
      <4>1. i \in (cursor[d] + 1)..n
        BY <2>4, <3>1, <3>2, <1>4
      <4> QED
        BY <4>1, <1>4, <2>3
    <3>3. CASE ~(i <= n)
      <4>1. i > k
        BY <3>1, <3>3, <1>4, <1>5
      <4> QED
        BY <4>1, <3>1, <2>1, <2>4, <1>4
    <3> QED
      BY <3>2, <3>3
  <2>5. Idle(d)
    BY <2>1, <2>2, <2>3, <2>4, <1>4 DEF Idle
  <2> QED
    BY <2>2, <2>5, <1>0, <1>2 DEF IdleIsTidy
<1>7. IdleIsTidy'
  <2>1. \A e \in Replicas \ {d} : tables'[e] = tables[e] /\ stash'[e] = stash[e] /\ cursor'[e] = cursor[e]
    BY <1>0, <1>4, <1>5
  <2>2. \A e \in Replicas \ {d} : maint'[e] = maint[e] /\ cycle'[e] = cycle[e]
    BY <1>1 DEF Armed
  <2> QED
    BY <2>1, <2>2, <1>0, <1>4, <1>6, IdleElsewhere
<1> QED
  BY <1>2, <1>3, <1>7 DEF RepairInv

LEMMA MaintainStep == ASSUME RepairInv, NEW d \in Replicas, Maintain(d) PROVE RepairInv'
<1>0. /\ ExchangeInv /\ ScheduleTypes /\ IdleIsTidy
      /\ tables \in [Replicas -> [Rows -> RowSet]] /\ dirty \in [Replicas -> Seq(SUBSET Marks)]
  BY Zenon DEF RepairInv, ExchangeInv, ExchangeTypes
<1>1. PICK b \in Nat : b > MaxClock /\ AllOK(tables, dirty, wire, b)
  BY <1>0, TakeBound
<1>2. PICK on \in BOOLEAN : on <=> converted[d]
  OBVIOUS
<1>3. PICK s : s = Local(d)
  OBVIOUS
<1>4. PICK u : u = DedupNotes(Cascade(s, on))
  OBVIOUS
<1>5. PICK z : z = IF on THEN DedupTags(u) ELSE u
  OBVIOUS
<1>6. StateOK(z, b + 4) /\ Wrote(s, z) /\ (on => Tidy(z[1]))
  <2>1. StateOK(s, b)
    BY <1>1, <1>3, LocalOK
  <2> QED
    BY <2>1, <1>1, <1>4, <1>5, MaintainPass
<1>7. /\ cycle[d] = "maintain" /\ cycle' = [cycle EXCEPT ![d] = "push"]
      /\ maint' = [maint EXCEPT ![d].skipped = ~converted[d]] /\ missed' = [missed EXCEPT ![d] = FALSE]
      /\ wire' = wire /\ cursor' = cursor /\ converted' = converted /\ stash' = stash
  BY DEF Maintain
<1>8. Store(d, z)
  <2>1. converted[d] = on
    BY <1>0, <1>2 DEF ScheduleTypes
  <2>2. Store(d, IF converted[d] THEN DedupTags(DedupNotes(Cascade(Local(d), converted[d])))
                 ELSE DedupNotes(Cascade(Local(d), converted[d])))
    BY DEF Maintain
  <2> QED
    BY <2>1, <2>2, <1>3, <1>4, <1>5
<1>9. ExchangeInv'
  <2>1. b + 4 \in Nat /\ b <= b + 4
    OBVIOUS
  <2> QED
    BY <2>1, <1>0, <1>1, <1>3, <1>6, <1>7, <1>8, StoreKeeps
<1>10. /\ maint \in [Replicas -> [pending : BOOLEAN, skipped : BOOLEAN]] /\ cycle \in [Replicas -> {"push", "pull", "maintain"}]
       /\ converted \in [Replicas -> BOOLEAN] /\ missed \in [Replicas -> BOOLEAN]
  BY <1>0 DEF ScheduleTypes
<1>11. PICK off \in BOOLEAN : off = ~converted[d]
  OBVIOUS
<1>12. /\ maint' \in [Replicas -> [pending : BOOLEAN, skipped : BOOLEAN]] /\ (maint'[d].skipped <=> off)
       /\ \A e \in Replicas \ {d} : maint'[e] = maint[e]
  BY <1>7, <1>10, <1>11
<1>13. ScheduleTypes'
  BY <1>7, <1>10, <1>12 DEF ScheduleTypes
<1>14. Idle(d)' => Tidy(tables'[d])
  <2>1. tables'[d] = z[1]
    BY <1>0, <1>8 DEF Store
  <2>2. Idle(d)' => ~maint'[d].skipped
    BY DEF Idle
  <2>3. ~maint'[d].skipped => on
    BY <1>2, <1>11, <1>12, Zenon
  <2> QED
    BY <2>1, <2>2, <2>3, <1>6
<1>15. IdleIsTidy'
  <2>1. \A e \in Replicas \ {d} : /\ tables'[e] = tables[e] /\ dirty'[e] = dirty[e]
                                  /\ missed'[e] = missed[e] /\ cycle'[e] = cycle[e]
    <3>1. \A e \in Replicas \ {d} : tables'[e] = tables[e] /\ dirty'[e] = dirty[e]
      BY <1>0, <1>8 DEF Store
    <3>2. \A e \in Replicas \ {d} : missed'[e] = missed[e] /\ cycle'[e] = cycle[e]
      BY <1>7, <1>10
    <3> QED
      BY <3>1, <3>2
  <2>2. \A e \in Replicas \ {d} : maint'[e] = maint[e] /\ stash'[e] = stash[e] /\ cursor'[e] = cursor[e]
    BY <1>7, <1>12
  <2>3. \A i \in DOMAIN wire : i \in DOMAIN wire' /\ wire'[i] = wire[i]
    BY <1>7
  <2>4. IdleIsTidy
    BY <1>0
  <2> QED
    BY ONLY <2>1, <2>2, <2>3, <2>4, <1>14, IdleElsewhere, d \in Replicas
<1> QED
  BY <1>9, <1>13, <1>15 DEF RepairInv

LEMMA ExchangeStands ==
    ASSUME ExchangeInv, tables' = tables, dirty' = dirty, wire' = wire, cursor' = cursor, stash' = stash
    PROVE  ExchangeInv'
BY DEF ExchangeInv, ExchangeTypes, RepairBounded, UpTo, PulledIsIn, RowsBacked, SentBacked, Offers, Sent

LEMMA OtherSteps ==
    ASSUME RepairInv, NEW d \in Replicas, MaintainFails(d) \/ Convert(d) \/ Restart(d)
    PROVE  RepairInv'
<1>0. ExchangeInv /\ ScheduleTypes /\ IdleIsTidy
  BY DEF RepairInv
<1>1. tables' = tables /\ dirty' = dirty /\ wire' = wire /\ cursor' = cursor /\ stash' = stash
  BY DEF MaintainFails, Convert, Restart
<1>2. ExchangeInv'
  BY <1>0, <1>1, ExchangeStands
<1>3. /\ maint \in [Replicas -> [pending : BOOLEAN, skipped : BOOLEAN]] /\ cycle \in [Replicas -> {"push", "pull", "maintain"}]
      /\ converted \in [Replicas -> BOOLEAN] /\ missed \in [Replicas -> BOOLEAN]
  BY <1>0 DEF ScheduleTypes
<1>4. CASE MaintainFails(d)
  <2>1. /\ maint' = [maint EXCEPT ![d].skipped = FALSE] /\ missed' = [missed EXCEPT ![d] = TRUE]
        /\ cycle' = [cycle EXCEPT ![d] = "push"] /\ converted' = converted
    BY <1>4 DEF MaintainFails
  <2>2. /\ maint' \in [Replicas -> [pending : BOOLEAN, skipped : BOOLEAN]] /\ missed'[d]
        /\ \A e \in Replicas \ {d} : maint'[e] = maint[e] /\ missed'[e] = missed[e] /\ cycle'[e] = cycle[e]
    BY <1>3, <2>1
  <2>3. ScheduleTypes'
    BY <1>3, <2>1, <2>2 DEF ScheduleTypes
  <2>4. ~Idle(d)'
    BY <2>2 DEF Idle
  <2>5. IdleIsTidy'
    BY <1>0, <1>1, <2>2, <2>4, IdleElsewhere
  <2> QED
    BY <1>2, <2>3, <2>5 DEF RepairInv
<1>5. CASE Convert(d)
  <2>1. maint' = maint /\ missed' = missed /\ cycle' = cycle /\ converted' = [converted EXCEPT ![d] = TRUE]
    BY <1>5 DEF Convert
  <2>2. ScheduleTypes'
    BY <1>3, <2>1 DEF ScheduleTypes
  <2>3. IdleIsTidy'
    BY <1>0, <1>1, <2>1 DEF IdleIsTidy, Idle
  <2> QED
    BY <1>2, <2>2, <2>3 DEF RepairInv
<1>6. CASE Restart(d)
  <2>1. /\ maint' = [maint EXCEPT ![d] = Startup] /\ missed' = missed
        /\ cycle' = [cycle EXCEPT ![d] = "push"] /\ converted' = converted
    BY <1>6 DEF Restart
  <2>2. /\ maint' \in [Replicas -> [pending : BOOLEAN, skipped : BOOLEAN]] /\ maint'[d].pending
        /\ \A e \in Replicas \ {d} : maint'[e] = maint[e] /\ cycle'[e] = cycle[e]
    <3>1. Startup \in [pending : BOOLEAN, skipped : BOOLEAN] /\ Startup.pending
      BY DEF Startup
    <3> QED
      BY <3>1, <1>3, <2>1
  <2>3. ScheduleTypes'
    BY <1>3, <2>1, <2>2 DEF ScheduleTypes
  <2>4. ~Idle(d)'
    BY <2>2 DEF Idle
  <2>5. IdleIsTidy'
    BY <1>0, <1>1, <2>1, <2>2, <2>4, IdleElsewhere
  <2> QED
    BY <1>2, <2>3, <2>5 DEF RepairInv
<1> QED
  BY <1>4, <1>5, <1>6

LEMMA RepairKeeps == RepairInv /\ [RepairNext]_repairVars => RepairInv'
<1> SUFFICES ASSUME RepairInv, [RepairNext]_repairVars PROVE RepairInv'
  OBVIOUS
<1>1. CASE UNCHANGED repairVars
  <2>1. ExchangeInv'
    BY <1>1, ExchangeStands DEF repairVars, RepairInv
  <2>2. ScheduleTypes' /\ IdleIsTidy'
    BY <1>1 DEF repairVars, RepairInv, ScheduleTypes, IdleIsTidy, Idle
  <2> QED
    BY <2>1, <2>2 DEF RepairInv
<1>2. CASE RepairNext
  <2>1. PICK d \in Replicas :
          \/ \E now \in 1..MaxClock : SaveNote(d, now)
          \/ CreateTag(d) \/ AddSessionTag(d)
          \/ \E r \in {SessionRow} \cup {Tag(t) : t \in TagIds} : DeleteByUser(d, r)
          \/ Push(d)
          \/ \E n \in 0..Len(wire), clean \in BOOLEAN : \E piece \in SUBSET NextOf(n) : Pull(d, n, piece, clean)
          \/ Maintain(d) \/ MaintainFails(d) \/ Convert(d) \/ Restart(d)
    BY <1>2 DEF RepairNext
  <2>2. CASE \/ \E now \in 1..MaxClock : SaveNote(d, now)
             \/ CreateTag(d) \/ AddSessionTag(d)
             \/ \E r \in {SessionRow} \cup {Tag(t) : t \in TagIds} : DeleteByUser(d, r)
    BY <2>2, UserKeeps
  <2>3. CASE Push(d)
    BY <2>3, PushStep
  <2>4. CASE \E n \in 0..Len(wire), clean \in BOOLEAN : \E piece \in SUBSET NextOf(n) : Pull(d, n, piece, clean)
    BY <2>4, PullStep
  <2>5. CASE Maintain(d)
    BY <2>5, MaintainStep
  <2>6. CASE MaintainFails(d) \/ Convert(d) \/ Restart(d)
    BY <2>6, OtherSteps
  <2> QED
    BY <2>1, <2>2, <2>3, <2>4, <2>5, <2>6
<1> QED
  BY <1>1, <1>2

LEMMA RepairStarts == RepairInit => RepairInv
<1> SUFFICES ASSUME RepairInit PROVE RepairInv
  OBVIOUS
<1>1. /\ tables = [d \in Replicas |-> Bare] /\ dirty = [d \in Replicas |-> <<>>] /\ wire = <<>>
      /\ cursor = [d \in Replicas |-> 0] /\ cycle = [d \in Replicas |-> "push"]
      /\ maint = [d \in Replicas |-> Startup] /\ stash = [d \in Replicas |-> {}]
      /\ missed = [d \in Replicas |-> FALSE] /\ converted \in [Replicas -> BOOLEAN]
  BY DEF RepairInit
<1>2. SentIn(wire) = {}
  BY <1>1 DEF SentIn
<1>3. PICK b \in Nat : b = MaxClock + 1 /\ b > MaxClock
  BY RepairAssumption
<1>4. TableOK(Bare, b)
  <2>1. ASSUME NEW r \in Rows PROVE RowOK(Bare[r]) /\ RowUpTo(Bare[r], b) /\ Bare[r].cl >= Bare[r].cl
    <3>1. Bare[r].cl \in {0, 1} /\ Bare[r].col = Defaults
      BY <2>1, BareFacts
    <3>2. \A k \in Cols : Defaults[k][1] = 0 /\ Defaults[k][2] \in Nat /\ Defaults[k][2] <= b
      BY <1>3, DefaultsFacts
    <3>3. MaxClock \in Nat
      BY DefaultsFacts
    <3> QED
      BY <3>1, <3>2, <3>3, <1>3 DEF RowOK, RowUpTo
  <2> QED
    BY <2>1, BareFacts DEF TableOK
<1>5. DirtyOK(<<>>) /\ Marked(<<>>) = {}
  BY DEF DirtyOK, Marked
<1>6. ExchangeTypes
  <2>1. tables \in [Replicas -> [Rows -> RowSet]]
    BY <1>1, BareFacts
  <2>2. dirty \in [Replicas -> Seq(SUBSET Marks)] /\ wire \in Seq(SUBSET Changes) /\ Len(wire) = 0
    BY <1>1
  <2>3. cursor \in [Replicas -> Nat] /\ stash \in [Replicas -> SUBSET Changes]
    BY <1>1
  <2>4. \A d \in Replicas : DirtyOK(dirty[d]) /\ cursor[d] <= Len(wire) /\ stash[d] \subseteq Sent
    BY <1>1, <1>5, <2>2
  <2> QED
    BY <2>1, <2>2, <2>3, <2>4 DEF ExchangeTypes
<1>7. UpTo(b)
  BY <1>1, <1>2, <1>4 DEF UpTo, ChangesOK, Sent
<1>8. PulledIsIn
  BY <1>1 DEF PulledIsIn
<1>9. RowsBacked
  <2> SUFFICES ASSUME NEW d \in Replicas, NEW r \in Rows PROVE RowBacked(Offers, Bare[r], r)
    BY <1>1 DEF RowsBacked
  <2>1. Bare[r].cl \in {0, 1} /\ Bare[r].col = Defaults /\ (Bare[r].cl = 1 => r = SessionRow)
    <3>1. Bare[r].cl = 1 => r = SessionRow
      BY DEF Bare
    <3> QED
      BY <3>1, BareFacts
  <2>2. ASSUME NEW k \in Cols PROVE ~Asks(r, Bare[r], k)
    <3>1. Defaults[k][1] = 0
      BY <2>2, DefaultsFacts
    <3>2. SessionRow[1] = "session"
      BY DEF SessionRow
    <3>3. k \notin ColsOf(SessionRow)
      BY <2>2, <3>2 DEF ColsOf, Cols
    <3> QED
      BY <2>1, <3>1, <3>3 DEF Asks
  <2> QED
    BY <2>1, <2>2 DEF RowBacked
<1>10. SentBacked
  BY <1>2 DEF SentBacked, Sent
<1>11. ScheduleTypes /\ IdleIsTidy
  <2>1. Startup \in [pending : BOOLEAN, skipped : BOOLEAN] /\ Startup.pending
    BY DEF Startup
  <2>2. \A d \in Replicas : maint[d].pending
    BY <1>1, <2>1
  <2> QED
    BY <1>1, <2>1, <2>2 DEF ScheduleTypes, IdleIsTidy, Idle
<1> QED
  BY <1>3, <1>6, <1>7, <1>8, <1>9, <1>10, <1>11 DEF RepairInv, ExchangeInv, RepairBounded

(* Everything exchanged, each device has all that any device has.            *)
LEMMA RowsAgree ==
    ASSUME NEW O \in SUBSET Changes, NEW r \in Rows, NEW b \in Nat,
           NEW x, GoodRow(x, b), x.cl >= Bare[r].cl, RowBacked(O, x, r),
           NEW y, GoodRow(y, b), y.cl >= Bare[r].cl, RowBacked(O, y, r),
           \A c \in O : c.row = r => Absorbs(x, c) /\ Absorbs(y, c)
    PROVE  x = y /\ \A k \in Cols : Asks(r, x, k) => x.col[k][1] > 0
<1>1. /\ x.cl \in Nat /\ y.cl \in Nat /\ Bare[r].cl \in Nat /\ RowOK(x) /\ RowOK(y)
      /\ x.col \in [Cols -> Stamps] /\ y.col \in [Cols -> Stamps]
      /\ x = [cl |-> x.cl, col |-> x.col] /\ y = [cl |-> y.cl, col |-> y.col]
      /\ \A k \in Cols : x.col[k][1] \in Nat /\ y.col[k][1] \in Nat
  BY BareFacts DEF GoodRow, RowSet, Stamps
<1>2. \A c \in O : c.cl \in Nat /\ c.ver \in Nat /\ <<c.ver, c.val>> \in Stamps
  BY ChangeTyped
<1>3. x.cl = y.cl
  <2>1. x.cl <= y.cl
    <3>1. CASE x.cl > Bare[r].cl
      <4>1. PICK c \in O : c.row = r /\ c.cl >= x.cl
        BY <3>1 DEF RowBacked
      <4>2. Absorbs(y, c)
        BY <4>1
      <4>3. y.cl > c.cl \/ y.cl = c.cl
        BY <4>2 DEF Absorbs
      <4>4. c.cl \in Nat
        BY <1>2
      <4>5. PICK nx \in Nat, ny \in Nat, nc \in Nat : nx = x.cl /\ ny = y.cl /\ nc = c.cl
        BY <1>1, <4>4
      <4>6. nc >= nx /\ (ny > nc \/ ny = nc)
        BY ONLY <4>1, <4>3, <4>5
      <4>7. nx <= ny
        BY ONLY <4>6, nx \in Nat, ny \in Nat, nc \in Nat
      <4> QED
        BY <4>5, <4>7
    <3>2. CASE ~(x.cl > Bare[r].cl)
      BY <3>2, <1>1
    <3> QED
      BY <3>1, <3>2
  <2>2. y.cl <= x.cl
    <3>1. CASE y.cl > Bare[r].cl
      <4>1. PICK c \in O : c.row = r /\ c.cl >= y.cl
        BY <3>1 DEF RowBacked
      <4>2. Absorbs(x, c)
        BY <4>1
      <4>3. x.cl > c.cl \/ x.cl = c.cl
        BY <4>2 DEF Absorbs
      <4>4. c.cl \in Nat
        BY <1>2
      <4>5. PICK nx \in Nat, ny \in Nat, nc \in Nat : nx = y.cl /\ ny = x.cl /\ nc = c.cl
        BY <1>1, <4>4
      <4>6. nc >= nx /\ (ny > nc \/ ny = nc)
        BY ONLY <4>1, <4>3, <4>5
      <4>7. nx <= ny
        BY ONLY <4>6, nx \in Nat, ny \in Nat, nc \in Nat
      <4> QED
        BY <4>5, <4>7
    <3>2. CASE ~(y.cl > Bare[r].cl)
      BY <3>2, <1>1
    <3> QED
      BY <3>1, <3>2
  <2> QED
    BY <2>1, <2>2, <1>1
<1>4. ASSUME NEW k \in Cols, Asks(r, x, k) PROVE AtLeast(y.col[k], x.col[k]) /\ x.col[k][1] > 0
  <2>1. PICK c \in O : Proves(c, r, x.cl, k, x.col[k])
    BY <1>4 DEF RowBacked
  <2>2. c.row = r /\ Absorbs(x, c) /\ Absorbs(y, c)
    BY <2>1 DEF Proves
  <2>3. c.cl = x.cl /\ c.col = k /\ c.ver >= 1 /\ AtLeast(<<c.ver, c.val>>, x.col[k])
    BY <2>1, <2>2, <1>1, <1>2 DEF Proves, Absorbs
  <2>4. k # "-1" /\ c.cl % 2 # 0
    <3>1. c.cl % 2 = 1
      BY <2>3, <1>4 DEF Asks
    <3> QED
      BY <3>1, <1>4 DEF Cols
  <2>5. AtLeast(x.col[k], <<c.ver, c.val>>) /\ AtLeast(y.col[k], <<c.ver, c.val>>)
    BY <2>2, <2>3, <2>4, <1>1, <1>2, <1>3 DEF Absorbs
  <2>6. AtLeast(y.col[k], x.col[k])
    BY <2>3, <2>5, <1>1, <1>2, <1>4, StampOrder
  <2>7. x.col[k][1] > 0
    <3>1. x.col[k] \in Stamps /\ <<c.ver, c.val>>[1] = c.ver /\ c.ver \in Nat /\ x.col[k][1] \in Nat
      BY <1>1, <1>2, <1>4
    <3>2. x.col[k][1] >= c.ver
      BY <2>5, <3>1, <1>2, StampOrder
    <3> QED
      BY <2>3, <3>1, <3>2
  <2> QED
    BY <2>6, <2>7
<1>5. ASSUME NEW k \in Cols, Asks(r, y, k) PROVE AtLeast(x.col[k], y.col[k])
  <2>1. PICK c \in O : Proves(c, r, y.cl, k, y.col[k])
    BY <1>5 DEF RowBacked
  <2>2. c.row = r /\ Absorbs(x, c) /\ Absorbs(y, c)
    BY <2>1 DEF Proves
  <2>3. c.cl = y.cl /\ c.col = k /\ c.ver >= 1 /\ AtLeast(<<c.ver, c.val>>, y.col[k])
    BY <2>1, <2>2, <1>1, <1>2 DEF Proves, Absorbs
  <2>4. k # "-1" /\ c.cl % 2 # 0
    <3>1. c.cl % 2 = 1
      BY <2>3, <1>5 DEF Asks
    <3> QED
      BY <3>1, <1>5 DEF Cols
  <2>5. AtLeast(x.col[k], <<c.ver, c.val>>)
    BY <2>2, <2>3, <2>4, <1>1, <1>2, <1>3 DEF Absorbs
  <2> QED
    BY <2>3, <2>5, <1>1, <1>2, <1>5, StampOrder
<1>6. ASSUME NEW k \in Cols PROVE x.col[k] = y.col[k]
  <2>1. CASE x.cl % 2 = 0
    BY <2>1, <1>1, <1>3, <1>6 DEF RowOK
  <2>2. CASE x.cl % 2 # 0
    <3>0. x.cl % 2 = 1 /\ y.cl % 2 = 1
      BY <2>2, <1>1, <1>3
    <3>1. CASE x.col[k][1] > 0 /\ y.col[k][1] > 0
      <4>1. Asks(r, x, k) /\ Asks(r, y, k)
        BY <3>0, <3>1 DEF Asks
      <4>2. AtLeast(x.col[k], y.col[k]) /\ AtLeast(y.col[k], x.col[k])
        BY <4>1, <1>4, <1>5, <1>6
      <4> QED
        BY <4>2, <1>1, <1>6, StampOrder
    <3>2. CASE x.col[k][1] > 0 /\ ~(y.col[k][1] > 0)
      <4>1. AtLeast(y.col[k], x.col[k])
        BY <3>0, <3>2, <1>4, <1>6 DEF Asks
      <4>2. y.col[k][1] >= x.col[k][1]
        BY <4>1, <1>1, <1>6, StampOrder
      <4> QED
        BY <4>2, <3>2, <1>1, <1>6
    <3>3. CASE ~(x.col[k][1] > 0) /\ y.col[k][1] > 0
      <4>1. AtLeast(x.col[k], y.col[k])
        BY <3>0, <3>3, <1>5, <1>6 DEF Asks
      <4>2. x.col[k][1] >= y.col[k][1]
        BY <4>1, <1>1, <1>6, StampOrder
      <4> QED
        BY <4>2, <3>3, <1>1, <1>6
    <3>4. CASE ~(x.col[k][1] > 0) /\ ~(y.col[k][1] > 0)
      <4>1. x.col[k][1] = 0 /\ y.col[k][1] = 0
        BY <3>4, <1>1, <1>6
      <4> QED
        BY <4>1, <1>1, <1>6 DEF RowOK
    <3> QED
      BY <3>1, <3>2, <3>3, <3>4
  <2> QED
    BY <2>1, <2>2
<1>7. x.col = y.col
  BY <1>1, <1>6
<1>8. x = y
  BY <1>1, <1>3, <1>7
<1> QED
  BY <1>4, <1>8

LEMMA OneAtMost ==
    ASSUME NEW S, \A x \in S, y \in S : x = y
    PROVE  Cardinality(S) <= 1
<1>1. CASE S = {}
  BY <1>1, FS_EmptySet
<1>2. CASE S # {}
  <2>1. PICK x : S = {x}
    BY <1>2
  <2> QED
    BY <2>1, FS_Singleton
<1> QED
  BY <1>1, <1>2

LEMMA SettledAgrees ==
    ASSUME RepairInv, Settled, NEW d \in Replicas, NEW e \in Replicas, NEW r \in Rows
    PROVE  /\ tables[d][r] = tables[e][r]
           /\ \A k \in Cols : Asks(r, tables[d][r], k) => tables[d][r].col[k][1] > 0
<1>0. /\ PulledIsIn /\ RowsBacked /\ wire \in Seq(SUBSET Changes)
      /\ dirty \in [Replicas -> Seq(SUBSET Marks)]
  BY Zenon DEF RepairInv, ExchangeInv, ExchangeTypes
<1>1. PICK b \in Nat : b > MaxClock /\ AllOK(tables, dirty, wire, b)
  BY TakeBound DEF RepairInv
<1>2. \A f \in Replicas : dirty[f] = <<>> /\ cursor[f] = Len(wire) /\ stash[f] = {}
  BY DEF Settled
<1>3. PICK O : O = OffersOf(tables, dirty, wire)
  OBVIOUS
<1>4. O \in SUBSET Changes
  BY <1>1, <1>3, OffersAre
<1>5. \A c \in O : c \in SentIn(wire)
  <2>1. \A f \in Replicas : Marked(dirty[f]) = {}
    BY <1>2 DEF Marked
  <2> QED
    BY <2>1, <1>3 DEF OffersOf
<1>6. ASSUME NEW f \in Replicas, NEW c \in O, c.row = r PROVE Absorbs(tables[f][r], c)
  <2>1. PICK i \in 1..Len(wire) : c \in wire[i]
    BY <1>0, <1>5, <1>6 DEF SentIn
  <2> QED
    BY <2>1, <1>0, <1>2, <1>6 DEF PulledIsIn
<1>7. \A f \in Replicas : GoodRow(tables[f][r], b) /\ tables[f][r].cl >= Bare[r].cl /\ RowBacked(O, tables[f][r], r)
  BY <1>0, <1>1, <1>3 DEF AllOK, TableOK, GoodRow, RowsBacked, Offers
<1>8. PICK x : x = tables[d][r]
  OBVIOUS
<1>9. PICK y : y = tables[e][r]
  OBVIOUS
<1>10. /\ GoodRow(x, b) /\ x.cl >= Bare[r].cl /\ RowBacked(O, x, r)
       /\ GoodRow(y, b) /\ y.cl >= Bare[r].cl /\ RowBacked(O, y, r)
       /\ \A c \in O : c.row = r => Absorbs(x, c) /\ Absorbs(y, c)
  BY <1>6, <1>7, <1>8, <1>9
<1>11. x = y /\ \A k \in Cols : Asks(r, x, k) => x.col[k][1] > 0
  BY <1>4, <1>10, RowsAgree
<1> QED
  BY <1>8, <1>9, <1>11

LEMMA SettledIsTidy ==
    ASSUME RepairInv, Settled, NEW d \in Replicas
    PROVE  /\ Cardinality({n \in NoteIds : Live(tables[d], Note(n))}) <= 1
           /\ Cardinality({t \in TagIds : Live(tables[d], Tag(t))}) <= 1
           /\ Orphans(tables[d], TRUE) = {}
<1>1. Tidy(tables[d])
  <2>1. Idle(d)
    <3>1. wire \in Seq(SUBSET Changes) /\ cursor[d] = Len(wire)
      <4>1. wire \in Seq(SUBSET Changes)
        BY Zenon DEF RepairInv, ExchangeInv, ExchangeTypes
      <4> QED
        BY <4>1 DEF Settled
    <3>2. \A i \in DOMAIN wire : ~(i > cursor[d])
      BY <3>1
    <3> QED
      BY <3>2 DEF Settled, Idle
  <2> QED
    BY <2>1 DEF RepairInv, IdleIsTidy
<1>2. \A r \in Rows : \A k \in Cols : Asks(r, tables[d][r], k) => tables[d][r].col[k][1] > 0
  BY SettledAgrees
<1>3. ASSUME NEW n \in NoteIds, Live(tables[d], Note(n)) PROVE NoteProven(tables[d], n)
  <2>1. Note(n) \in Rows /\ ColsOf(Note(n)) = {"session", "updated"} /\ "session" \in Cols /\ "updated" \in Cols
    BY <1>3, RowNames DEF ColsOf, Cols
  <2>2. Asks(Note(n), tables[d][Note(n)], "session") /\ Asks(Note(n), tables[d][Note(n)], "updated")
    BY <2>1, <1>3 DEF Asks, Live
  <2> QED
    BY <2>1, <2>2, <1>2, <1>3 DEF NoteProven, Proven
<1>4. ASSUME NEW t \in TagIds, Live(tables[d], Tag(t)) PROVE t \in Named(tables[d])
  <2>1. Tag(t) \in Rows /\ ColsOf(Tag(t)) = {"name"} /\ "name" \in Cols
    BY <1>4, RowNames DEF ColsOf, Cols
  <2>2. Asks(Tag(t), tables[d][Tag(t)], "name")
    BY <2>1, <1>4 DEF Asks, Live
  <2> QED
    BY <2>1, <2>2, <1>2, <1>4 DEF Named, Proven
<1>5. Cardinality({n \in NoteIds : Live(tables[d], Note(n))}) <= 1
  <2>1. \A m \in NoteIds, w \in NoteIds : Live(tables[d], Note(m)) /\ Live(tables[d], Note(w)) => m = w
    BY <1>1, <1>3 DEF Tidy
  <2> QED
    BY <2>1, OneAtMost
<1>6. Cardinality({t \in TagIds : Live(tables[d], Tag(t))}) <= 1
  <2>1. \A t \in TagIds, u \in TagIds : Live(tables[d], Tag(t)) /\ Live(tables[d], Tag(u)) => t = u
    BY <1>1, <1>4 DEF Tidy
  <2> QED
    BY <2>1, OneAtMost
<1> QED
  BY <1>1, <1>5, <1>6 DEF Tidy

LEMMA RepairPromise == RepairInv => RepairsSound
<1> SUFFICES ASSUME RepairInv PROVE RepairTypeOK /\ RepairsConverge
  BY DEF RepairsSound
<1>1. RepairTypeOK
  <2>1. \A d \in Replicas : cursor[d] <= Len(wire) /\ cycle[d] \in {"push", "pull", "maintain"}
    BY DEF RepairInv, ExchangeInv, ExchangeTypes, ScheduleTypes
  <2>2. ASSUME NEW d \in Replicas, NEW i \in DOMAIN dirty[d], NEW m \in dirty[d][i] PROVE m[1] \in Rows
    <3>1. DirtyOK(dirty[d])
      BY DEF RepairInv, ExchangeInv, ExchangeTypes
    <3>2. m \in Marked(dirty[d])
      BY DEF Marked
    <3> QED
      BY <3>1, <3>2, MarkedTyped
  <2> QED
    BY <2>1, <2>2 DEF RepairTypeOK
<1>2. RepairsConverge
  BY SettledAgrees, SettledIsTidy DEF RepairsConverge
<1> QED
  BY <1>1, <1>2

(* With any number of devices, notes, tags, edits and mishaps: when           *)
(* everything is exchanged and no pass of the maintenance is owed, the        *)
(* devices agree on every row, a session has at most one note, a name one     *)
(* tag, and nothing hangs from a deleted parent.                              *)
THEOREM RepairsSoundHolds == AccountSpec => []RepairsSound
<1>1. AccountInit => RepairInv
  BY RepairStarts, Zenon DEF AccountInit
<1>2. RepairInv /\ [AccountNext]_accountVars => RepairInv'
  <2> SUFFICES ASSUME RepairInv, [AccountNext]_accountVars PROVE RepairInv'
    OBVIOUS
  <2>1. [RepairNext]_repairVars
    BY DEF AccountNext, accountVars
  <2> QED
    BY <2>1, RepairKeeps, Zenon
<1> QED
  BY <1>1, <1>2, RepairPromise, PTL DEF AccountSpec
===============================================================================
