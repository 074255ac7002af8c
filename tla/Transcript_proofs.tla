--------------------------- MODULE Transcript_proofs ---------------------------
(* Proofs about the samples between a capture callback and a transcription   *)
(* job: the ring under its two threads, the drain of two rings, the cuts of  *)
(* the backfill and the live loop with its file, for rings, bursts, rates,   *)
(* buffers and chunks of any size and any number of dictations.              *)
EXTENDS MC_Live, WellFoundedInduction, FiniteSetTheorems, SequenceTheorems, TLAPS

(* A set of naturals that is not empty has a least element, and a greatest   *)
(* one when it is bounded.                                                   *)
LEMMA LeastOf ==
    ASSUME NEW S \in SUBSET Nat, S # {}
    PROVE  \E m \in S : \A n \in S : m <= n
<1>1. PICK m \in S : \A n \in S : ~(<<n, m>> \in OpToRel(<, Nat))
  BY NatLessThanWellFounded, WFMin
<1>2. \A n \in S : ~(n < m)
  BY <1>1 DEF OpToRel
<1> QED
  BY <1>2

LEMMA GreatestOf ==
    ASSUME NEW S \in SUBSET Nat, S # {}, NEW b \in Nat, \A n \in S : n <= b
    PROVE  Max(S) \in S
<1> DEFINE T == {b - n : n \in S}
<1>1. T \in SUBSET Nat /\ T # {}
  <2>1. \A n \in S : b - n \in Nat
    OBVIOUS
  <2> QED
    BY <2>1
<1>2. PICK t \in T : \A u \in T : t <= u
  <2> HIDE DEF T
  <2> QED
    BY <1>1, LeastOf
<1>3. PICK m \in S : t = b - m
  OBVIOUS
<1>4. \A n \in S : b - m <= b - n
  BY <1>2, <1>3
<1>5. \A n \in S : m >= n
  BY <1>3, <1>4
<1> HIDE DEF T
<1> QED
  BY <1>3, <1>5 DEF Max

------------------------------------------------------------------------------
(* The ring under its two threads.                                           *)

(* Two positions of one cell less than a lap apart are the same.             *)
LEMMA ModIsNat ==
    ASSUME NEW a \in Int, NEW n \in Nat, n > 0
    PROVE  a % n \in 0..(n - 1)
OBVIOUS

LEMMA OneLap ==
    ASSUME NEW n \in Nat, n > 0, NEW k \in Int, n * k < n, 0 - n < n * k
    PROVE  k = 0
<1>1. ~(k >= 1)
  OBVIOUS
<1>2. ~(k <= 0 - 1)
  OBVIOUS
<1> QED
  BY <1>1, <1>2

LEMMA SameCell ==
    ASSUME NEW a \in Int, NEW b \in Int, NEW n \in Nat, n > 0, a % n = b % n,
           a - b < n, b - a < n
    PROVE  a = b
<1>1. PICK p \in Int, q \in Int : p = a \div n /\ q = b \div n
  OBVIOUS
<1>2. a = n * p + (a % n) /\ b = n * q + (b % n)
  BY <1>1
<1>3. a - b = n * (p - q)
  BY <1>1, <1>2
<1>4. p - q = 0
  BY <1>1, <1>3, OneLap
<1> QED
  BY <1>2, <1>4

(* Two positions whose samples share a cell are whole laps apart.            *)
Laps(a, b, n) == (a - b) % n = 0

LEMMA LapsApart ==
    ASSUME NEW a \in Int, NEW b \in Int, NEW n \in Nat, n > 0, a % n = b % n
    PROVE  Laps(a, b, n)
<1>1. PICK p \in Int, q \in Int : p = a \div n /\ q = b \div n
  OBVIOUS
<1>2. a = n * p + (a % n) /\ b = n * q + (b % n)
  BY <1>1
<1>3. a - b = n * (p - q)
  BY <1>1, <1>2
<1>4. PICK c \in Int, r \in 0..(n - 1) : a - b = n * c + r /\ r = (a - b) % n
  <2>1. (a - b) \div n \in Int /\ (a - b) % n \in 0..(n - 1)
    OBVIOUS
  <2>2. a - b = n * ((a - b) \div n) + ((a - b) % n)
    OBVIOUS
  <2> QED
    BY <2>1, <2>2
<1>5. n * ((p - q) - c) = r
  BY <1>1, <1>3, <1>4
<1>6. (p - q) - c = 0
  BY <1>1, <1>4, <1>5, OneLap
<1> QED
  BY <1>1, <1>4, <1>5, <1>6 DEF Laps

(* The writer.  `low' is where the buffer begins once the burst is stored.   *)
Cells == 0..(RingCapacity - 1)

WriterInv ==
  /\ writePos \in Nat /\ burstEnd \in Nat /\ writePos <= burstEnd /\ burstEnd <= MaxSamples
  /\ burst \subseteq {p \in writePos..(burstEnd - 1) : p >= burstEnd - RingCapacity}
  /\ cell \in [Cells -> Silence..(MaxSamples - 1)]
  /\ \A i \in Cells : cell[i] < burstEnd /\ (cell[i] # Silence => cell[i] % RingCapacity = i)

Holds(p) == cell[p % RingCapacity] >= p

(* The samples that are held: the published ones of the last lap, and of the *)
(* burst those that are stored.                                              *)
HeldInv ==
  /\ \A p \in 0..(writePos - 1) : p >= writePos - RingCapacity => Holds(p)
  /\ \A p \in writePos..(burstEnd - 1) :
       p >= burstEnd - RingCapacity /\ p \notin burst => Holds(p)

(* The reader: what its range covers is held or overwritten by a later lap.  *)
Reads == [at : {"idle", "copy"}, start : Nat, next : Nat, end : Nat, seen : Nat]

ReaderInv ==
  /\ cursor \in Nat /\ cursor <= writePos
  /\ reading \in Reads
  /\ reading.at = "copy" =>
       /\ reading.start <= reading.next /\ reading.next <= reading.end /\ reading.end <= writePos
       /\ \A p \in reading.start..(reading.end - 1) : Holds(p)

CopyInv ==
  reading.at = "copy" =>
    \A p \in reading.start..(reading.next - 1) :
      /\ copied[p] \in Int /\ copied[p] >= p /\ copied[p] < burstEnd
      /\ (copied[p] - p) % RingCapacity = 0

RingInv == WriterInv /\ HeldInv /\ ReaderInv /\ CopyInv

(* A burst that is not empty has a least sample.                             *)
LEMMA LeastSample ==
    ASSUME NEW S \in SUBSET Nat, S # {}
    PROVE  Min(S) \in S /\ \A n \in S : Min(S) <= n
<1>1. PICK m \in S : \A n \in S : m <= n
  BY LeastOf
<1> QED
  BY <1>1 DEF Min

LEMMA RingConstants ==
  RingCapacity \in Nat /\ MaxSamples \in Nat /\ MaxBurst \in Nat /\ RingCapacity > 0
BY RingAssumption

LEMMA RingInitInv == RingInit => RingInv
<1> SUFFICES ASSUME RingInit PROVE RingInv
  OBVIOUS
<1> USE RingConstants
<1>1. WriterInv
  BY DEF RingInit, WriterInv, Cells, Silence
<1>2. HeldInv
  BY DEF RingInit, HeldInv
<1>3. ReaderInv
  BY DEF RingInit, ReaderInv, NoRead, Reads
<1>4. CopyInv
  BY DEF RingInit, CopyInv, NoRead
<1> QED
  BY <1>1, <1>2, <1>3, <1>4 DEF RingInv

(* Storing a sample overwrites an older one.                                 *)
LEMMA StoresNewer ==
    ASSUME WriterInv, NEW p \in burst
    PROVE  /\ p \in Nat /\ p % RingCapacity \in Cells /\ cell[p % RingCapacity] <= p
<1>1. p \in Nat /\ p >= burstEnd - RingCapacity /\ burstEnd \in Nat /\ p < burstEnd
  BY DEF WriterInv
<1>2. PICK i : i = p % RingCapacity
  OBVIOUS
<1>3. i \in Cells
  BY <1>1, <1>2, ModIsNat, RingConstants DEF Cells
<1>4. cell[i] \in Int /\ cell[i] < burstEnd
  BY <1>3, RingConstants DEF WriterInv, Silence
<1>5. CASE cell[i] = Silence
  BY <1>1, <1>2, <1>3, <1>5 DEF Silence
<1>6. CASE cell[i] # Silence
  <2>1. cell[i] % RingCapacity = i
    BY <1>3, <1>6 DEF WriterInv
  <2>2. ASSUME cell[i] > p PROVE FALSE
    <3>1. cell[i] = p
      BY <1>1, <1>2, <1>4, <2>1, <2>2, SameCell, RingConstants
    <3> QED
      BY <1>1, <2>2, <3>1
  <2> QED
    BY <1>1, <1>2, <1>3, <1>4, <2>2
<1> QED
  BY <1>5, <1>6

(* A cell never goes back.                                                   *)
LEMMA HoldsOn ==
    ASSUME WriterInv, NEW q \in burst, cell' = [cell EXCEPT ![q % RingCapacity] = q],
           NEW p \in Nat, Holds(p)
    PROVE  Holds(p)'
<1>1. PICK i, j : i = p % RingCapacity /\ j = q % RingCapacity
  OBVIOUS
<1>2. i \in Cells /\ j \in Cells
  BY <1>1, ModIsNat, RingConstants, StoresNewer DEF Cells
<1>3. cell[j] <= q /\ q \in Nat
  BY <1>1, StoresNewer
<1>4. cell'[i] = IF i = j THEN q ELSE cell[i]
  BY <1>1, <1>2 DEF WriterInv
<1>5. cell[i] >= p /\ cell[i] \in Int
  BY <1>1, <1>2, RingConstants DEF Holds, WriterInv, Silence
<1>6. cell'[i] >= p
  BY <1>3, <1>4, <1>5
<1> QED
  BY <1>1, <1>6 DEF Holds

LEMMA WriteBeginsStep ==
    ASSUME RingInv, WriteBegins
    PROVE  RingInv'
<1> USE RingConstants
<1>1. PICK n \in 1..MaxBurst :
        /\ burst = {} /\ burstEnd = writePos /\ writePos + n <= MaxSamples /\ burstEnd' = writePos + n
        /\ burst' = {p \in writePos..(burstEnd' - 1) : p >= burstEnd' - RingCapacity}
        /\ UNCHANGED <<cell, writePos, readerVars>>
  BY DEF WriteBegins
<1>2. writePos \in Nat /\ burstEnd \in Nat /\ n \in Nat
  BY DEF RingInv, WriterInv
<1>3. WriterInv'
  BY <1>1, <1>2 DEF RingInv, WriterInv, Silence, Cells
<1>4. HeldInv'
  BY <1>1, <1>2 DEF RingInv, HeldInv, Holds
<1>5. ReaderInv'
  BY <1>1, <1>2 DEF RingInv, ReaderInv, Holds, readerVars
<1>6. CopyInv'
  BY <1>1, <1>2 DEF RingInv, CopyInv, ReaderInv, Reads, readerVars
<1> QED
  BY <1>3, <1>4, <1>5, <1>6 DEF RingInv

LEMMA WriteCellStep ==
    ASSUME RingInv, WriteCell
    PROVE  RingInv'
<1> USE RingConstants
<1>0. WriterInv /\ HeldInv /\ ReaderInv /\ CopyInv
  BY DEF RingInv
<1>1. PICK q : q = Min(burst)
  OBVIOUS
<1>2. /\ cell' = [cell EXCEPT ![q % RingCapacity] = q] /\ burst' = burst \ {q} /\ burst # {}
      /\ UNCHANGED <<writePos, burstEnd, readerVars>>
  BY <1>1 DEF WriteCell
<1>3. burst \in SUBSET Nat
  BY <1>0 DEF WriterInv
<1>4. q \in burst
  BY <1>1, <1>2, <1>3, LeastSample
<1>5. \A p \in Nat : Holds(p) => Holds(p)'
  BY <1>0, <1>2, <1>4, HoldsOn
<1>6. PICK j : j = q % RingCapacity
  OBVIOUS
<1>7. j \in Cells /\ q \in Nat /\ q < burstEnd
  BY <1>0, <1>4, <1>6, StoresNewer DEF WriterInv
<1>8. writePos \in Nat /\ burstEnd \in Nat /\ writePos <= burstEnd /\ burstEnd <= MaxSamples
  BY <1>0 DEF WriterInv
<1>9. Holds(q)'
  BY <1>0, <1>2, <1>6, <1>7 DEF Holds, WriterInv
<1>10. WriterInv'
  <2>1. burst' \subseteq {p \in writePos..(burstEnd - 1) : p >= burstEnd - RingCapacity}
    BY <1>0, <1>2 DEF WriterInv
  <2>2. cell' \in [Cells -> Silence..(MaxSamples - 1)]
    BY <1>0, <1>2, <1>6, <1>7, <1>8 DEF WriterInv, Silence
  <2>3. \A i \in Cells : cell'[i] < burstEnd /\ (cell'[i] # Silence => cell'[i] % RingCapacity = i)
    BY <1>0, <1>2, <1>6, <1>7 DEF WriterInv
  <2> QED
    BY <1>2, <1>8, <2>1, <2>2, <2>3 DEF WriterInv
<1>11. HeldInv'
  <2>1. \A p \in 0..(writePos - 1) : p >= writePos - RingCapacity => Holds(p)'
    BY <1>0, <1>5 DEF HeldInv
  <2>2. ASSUME NEW p \in writePos..(burstEnd - 1), p >= burstEnd - RingCapacity, p \notin burst'
        PROVE  Holds(p)'
    <3>1. CASE p = q
      BY <1>9, <3>1
    <3>2. CASE p # q
      BY <1>0, <1>2, <1>5, <1>8, <2>2, <3>2 DEF HeldInv
    <3> QED
      BY <3>1, <3>2
  <2> QED
    BY <1>2, <2>1, <2>2 DEF HeldInv
<1>12. ReaderInv'
  <2>1. ASSUME reading.at = "copy", NEW p \in reading.start..(reading.end - 1) PROVE Holds(p)'
    BY <1>0, <1>5, <2>1 DEF ReaderInv, Reads
  <2> QED
    BY <1>0, <1>2, <2>1 DEF ReaderInv, readerVars
<1>13. CopyInv'
  BY <1>0, <1>2 DEF CopyInv, readerVars
<1> QED
  BY <1>10, <1>11, <1>12, <1>13 DEF RingInv

LEMMA PublishStep ==
    ASSUME RingInv, Publish
    PROVE  RingInv'
<1> USE RingConstants
<1>1. /\ burst = {} /\ writePos' = burstEnd
      /\ UNCHANGED <<cell, burst, burstEnd, readerVars>>
  BY DEF Publish
<1>2. writePos \in Nat /\ burstEnd \in Nat /\ writePos <= burstEnd /\ burstEnd <= MaxSamples
  BY DEF RingInv, WriterInv
<1>3. WriterInv'
  BY <1>1, <1>2 DEF RingInv, WriterInv
<1>4. HeldInv'
  <2>1. ASSUME NEW p \in 0..(burstEnd - 1), p >= burstEnd - RingCapacity PROVE Holds(p)
    BY <1>1, <1>2, <2>1 DEF RingInv, HeldInv
  <2> QED
    BY <1>1, <1>2, <2>1 DEF HeldInv, Holds
<1>5. ReaderInv'
  BY <1>1, <1>2 DEF RingInv, ReaderInv, Reads, Holds, readerVars
<1>6. CopyInv'
  BY <1>1 DEF RingInv, CopyInv, readerVars
<1> QED
  BY <1>3, <1>4, <1>5, <1>6 DEF RingInv

LEMMA ReadBeginsStep ==
    ASSUME RingInv, ReadBegins
    PROVE  RingInv'
<1> USE RingConstants
<1>1. UNCHANGED <<cell, writePos, burst, burstEnd>> /\ reading.at = "idle"
  BY DEF ReadBegins, writerVars
<1>2. PICK bounded \in BOOLEAN, until \in (cursor + 1)..MaxSamples :
        LET end == IF bounded /\ until < writePos THEN until ELSE writePos
            start == IF cursor > Earliest THEN cursor ELSE Earliest
        IN /\ end > cursor
           /\ \/ /\ end <= start /\ cursor' = start /\ UNCHANGED <<reading, copied>>
              \/ /\ end > start /\ copied' = <<>> /\ UNCHANGED cursor
                 /\ reading' = [at |-> "copy", start |-> start, next |-> start, end |-> end,
                                seen |-> writePos]
  BY DEF ReadBegins
<1>3. PICK end, start : /\ end = IF bounded /\ until < writePos THEN until ELSE writePos
                        /\ start = IF cursor > Earliest THEN cursor ELSE Earliest
  OBVIOUS
<1>4. writePos \in Nat /\ cursor \in Nat /\ cursor <= writePos
  BY DEF RingInv, WriterInv, ReaderInv
<1>5. end \in Nat /\ end <= writePos
  BY <1>3, <1>4
<1>6. start \in Nat /\ start <= writePos /\ start >= writePos - RingCapacity
  BY <1>3, <1>4 DEF Earliest
<1>7. \/ /\ end <= start /\ cursor' = start /\ UNCHANGED <<reading, copied>>
      \/ /\ end > start /\ copied' = <<>> /\ UNCHANGED cursor
         /\ reading' = [at |-> "copy", start |-> start, next |-> start, end |-> end, seen |-> writePos]
  BY <1>2, <1>3
<1>8. WriterInv' /\ HeldInv'
  BY <1>1 DEF RingInv, WriterInv, HeldInv, Holds
<1>9. \A p \in start..(end - 1) : Holds(p)
  BY <1>4, <1>5, <1>6 DEF RingInv, HeldInv
<1>10. CASE cursor' = start /\ UNCHANGED <<reading, copied>>
  BY <1>1, <1>6, <1>8, <1>10 DEF RingInv, ReaderInv, CopyInv
<1>11. CASE /\ end > start /\ copied' = <<>> /\ UNCHANGED cursor
            /\ reading' = [at |-> "copy", start |-> start, next |-> start, end |-> end, seen |-> writePos]
  <2>1. reading' \in Reads /\ reading'.start = start /\ reading'.next = start /\ reading'.end = end
    BY <1>4, <1>5, <1>6, <1>11 DEF Reads
  <2>2. ReaderInv'
    BY <1>1, <1>4, <1>5, <1>6, <1>9, <1>11, <2>1 DEF ReaderInv, Holds
  <2>3. CopyInv'
    BY <1>6, <2>1 DEF CopyInv
  <2> QED
    BY <1>8, <2>2, <2>3 DEF RingInv
<1> QED
  BY <1>7, <1>10, <1>11

LEMMA ReadCellStep ==
    ASSUME RingInv, ReadCell
    PROVE  RingInv'
<1> USE RingConstants
<1>0. WriterInv /\ HeldInv /\ ReaderInv /\ CopyInv
  BY DEF RingInv
<1>1. /\ reading.at = "copy" /\ reading.next < reading.end
      /\ copied' = [p \in reading.start..reading.next |->
                      IF p = reading.next THEN cell[p % RingCapacity] ELSE copied[p]]
      /\ reading' = [reading EXCEPT !.next = @ + 1]
      /\ UNCHANGED <<cell, writePos, burst, burstEnd, cursor>>
  BY DEF ReadCell, writerVars
<1>2. PICK s, n, e : s = reading.start /\ n = reading.next /\ e = reading.end
  OBVIOUS
<1>3. s \in Nat /\ n \in Nat /\ e \in Nat /\ s <= n /\ n < e /\ reading \in Reads
  BY <1>0, <1>1, <1>2 DEF ReaderInv, Reads
<1>4. /\ reading' \in Reads /\ reading'.start = s /\ reading'.next = n + 1 /\ reading'.end = e
      /\ reading'.at = "copy"
  <2>1. PICK r : r = [reading EXCEPT !.next = n + 1]
    OBVIOUS
  <2>2. r \in Reads /\ r.start = s /\ r.next = n + 1 /\ r.end = e /\ r.at = "copy"
    <3>1. r \in Reads
      BY <1>3, <2>1 DEF Reads
    <3>2. r.at = reading.at /\ r.start = reading.start /\ r.next = n + 1 /\ r.end = reading.end
      BY <1>3, <2>1 DEF Reads
    <3> QED
      BY <1>1, <1>2, <3>1, <3>2
  <2>3. reading' = r
    BY <1>1, <1>2, <2>1
  <2> QED
    BY <2>2, <2>3
<1>5. WriterInv' /\ HeldInv'
  BY <1>0, <1>1 DEF WriterInv, HeldInv, Holds
<1>6. ReaderInv'
  BY <1>0, <1>1, <1>2, <1>3, <1>4 DEF ReaderInv, Holds
<1>7. PICK i : i = n % RingCapacity
  OBVIOUS
<1>8. i \in Cells
  BY <1>3, <1>7, ModIsNat DEF Cells
<1>9. Holds(n)
  BY <1>0, <1>1, <1>2, <1>3 DEF ReaderInv
<1>10. cell[i] \in Int /\ cell[i] >= n /\ cell[i] < burstEnd
  BY <1>0, <1>7, <1>8, <1>9 DEF Holds, WriterInv, Silence
<1>11. (cell[i] - n) % RingCapacity = 0
  <2>1. cell[i] % RingCapacity = i
    BY <1>0, <1>3, <1>8, <1>10 DEF WriterInv, Silence
  <2>2. PICK c \in Int : c = cell[i]
    BY <1>10
  <2>3. c % RingCapacity = n % RingCapacity
    BY <1>7, <2>1, <2>2
  <2>4. Laps(c, n, RingCapacity)
    BY <1>3, <2>3, LapsApart
  <2> QED
    BY <2>2, <2>4 DEF Laps
<1>12. ASSUME NEW p \in s..n
       PROVE  /\ copied'[p] \in Int /\ copied'[p] >= p /\ copied'[p] < burstEnd
              /\ (copied'[p] - p) % RingCapacity = 0
  <2>1. CASE p = n
    <3>1. copied'[p] = cell[i]
      BY <1>1, <1>2, <1>3, <1>7, <2>1
    <3> QED
      BY <1>10, <1>11, <2>1, <3>1
  <2>2. CASE p # n
    <3>1. copied'[p] = copied[p] /\ p \in s..(n - 1)
      BY <1>1, <1>2, <1>3, <2>2
    <3> QED
      BY <1>0, <1>1, <1>2, <3>1 DEF CopyInv
  <2> QED
    BY <2>1, <2>2
<1>13. CopyInv'
  <2>1. ASSUME NEW p \in s..n
        PROVE  /\ copied'[p] \in Int /\ copied'[p] >= p /\ copied'[p] < burstEnd'
               /\ (copied'[p] - p) % RingCapacity = 0
    BY <1>1, <1>12
  <2>2. s..((n + 1) - 1) = s..n
    BY <1>3
  <2> QED
    BY <1>4, <2>1, <2>2 DEF CopyInv
<1> QED
  BY <1>5, <1>6, <1>13 DEF RingInv

LEMMA ReadEndsStep ==
    ASSUME RingInv, ReadEnds
    PROVE  RingInv'
<1> USE RingConstants
<1>1. /\ UNCHANGED <<cell, writePos, burst, burstEnd>> /\ reading.at = "copy"
      /\ cursor' = reading.end /\ reading' = NoRead
  BY DEF ReadEnds, writerVars
<1>2. WriterInv' /\ HeldInv'
  BY <1>1 DEF RingInv, WriterInv, HeldInv, Holds
<1>3. ReaderInv' /\ CopyInv'
  BY <1>1 DEF RingInv, ReaderInv, CopyInv, Reads, NoRead
<1> QED
  BY <1>2, <1>3 DEF RingInv

LEMMA RingStep == RingInv /\ [RingNext]_ringVars => RingInv'
<1> SUFFICES ASSUME RingInv, [RingNext]_ringVars PROVE RingInv'
  OBVIOUS
<1>1. CASE UNCHANGED ringVars
  BY <1>1 DEF ringVars, RingInv, WriterInv, HeldInv, ReaderInv, CopyInv, Holds
<1> QED
  BY <1>1, WriteBeginsStep, WriteCellStep, PublishStep, ReadBeginsStep, ReadCellStep, ReadEndsStep
     DEF RingNext

LEMMA RingInvSuffices == RingInv => RingTypeOK /\ SnapshotSound
<1> SUFFICES ASSUME RingInv PROVE RingTypeOK /\ SnapshotSound
  OBVIOUS
<1> USE RingConstants
<1>1. RingTypeOK
  BY DEF RingInv, WriterInv, ReaderInv, RingTypeOK, Cells
<1>2. ASSUME reading.at = "copy", NEW p \in reading.start..(reading.next - 1)
      PROVE  /\ copied[p] >= p /\ (copied[p] - p) % RingCapacity = 0
             /\ burstEnd <= reading.start + RingCapacity => copied[p] = p
  <2>1. /\ copied[p] \in Int /\ copied[p] >= p /\ copied[p] < burstEnd
        /\ (copied[p] - p) % RingCapacity = 0
    BY <1>2 DEF RingInv, CopyInv
  <2>2. reading.start \in Nat /\ p \in Nat /\ p >= reading.start /\ burstEnd \in Nat
    BY <1>2 DEF RingInv, ReaderInv, Reads, WriterInv
  <2>3. ASSUME burstEnd <= reading.start + RingCapacity PROVE copied[p] = p
    <3>1. PICK d \in Int : d = copied[p] - p
      BY <2>1, <2>2
    <3>2. d % RingCapacity = 0 % RingCapacity /\ d >= 0 /\ d < RingCapacity
      BY <2>1, <2>2, <2>3, <3>1
    <3>3. d = 0
      BY <3>1, <3>2, SameCell
    <3> QED
      BY <2>1, <2>2, <3>1, <3>3
  <2> QED
    BY <2>1, <2>3
<1> QED
  BY <1>1, <1>2 DEF SnapshotSound

------------------------------------------------------------------------------
(* The drain of two rings.                                                   *)

(* What a source has in [from, limit) is never more than lies between `from' *)
(* and the position the drain goes on to, and all of it when the ring has    *)
(* not lapped.                                                               *)
LEMMA HeldBounds ==
    ASSUME NEW a \in Nat, NEW from \in Nat, NEW limit \in Nat, from <= a, DrainCapacity \in Nat
    PROVE  /\ Held(a, from, limit) \in Nat
           /\ EndOf(a, from, limit) \in Nat
           /\ from + Held(a, from, limit) <= EndOf(a, from, limit)
           /\ EndOf(a, from, limit) <= a
           /\ a <= DrainCapacity => from + Held(a, from, limit) = EndOf(a, from, limit)
BY DEF Held, EndOf, Least, FloorSub

LEMMA DivIsNat ==
    ASSUME NEW a \in Nat, NEW b \in Nat, b > 0
    PROVE  a \div b \in Nat
OBVIOUS

LEMMA ProductIsNat ==
    ASSUME NEW a \in Nat, NEW b \in Nat
    PROVE  a * b \in Nat
OBVIOUS

(* The frames kept are frames there are.                                     *)
LEMMA KeepBounds ==
    ASSUME NEW l \in Nat, NEW rate \in Nat, NEW other \in Nat, NEW otherRate \in Nat, otherRate > 0
    PROVE  Keep(l, rate, other, otherRate) \in Nat /\ Keep(l, rate, other, otherRate) <= l
<1>1. PICK d : d = (other * rate) \div otherRate
  OBVIOUS
<1>2. d \in Nat
  BY <1>1, DivIsNat, ProductIsNat
<1> QED
  BY <1>1, <1>2 DEF Keep, Least

(* One source: written, drained up to d, u frames used.                      *)
SourceInv(a, d, u) ==
  /\ a \in Nat /\ d \in Nat /\ u \in Nat
  /\ u <= d /\ d <= a /\ a <= MaxFrames
  /\ MaxFrames <= DrainCapacity => u = d

DrainInv ==
  /\ drained = [mic |-> drained.mic, sys |-> drained.sys]
  /\ used = [mic |-> used.mic, sys |-> used.sys]
  /\ SourceInv(micAt, drained.mic, used.mic)
  /\ SourceInv(sysAt, drained.sys, used.sys)

LEMMA SourceTakenWhole ==
    ASSUME NEW a, NEW d, NEW u, SourceInv(a, d, u), NEW limit \in Nat
    PROVE  SourceInv(a, EndOf(a, d, limit), u + Held(a, d, limit))
<1>1. a \in Nat /\ d \in Nat /\ u \in Nat /\ d <= a /\ u <= d /\ a <= MaxFrames
  BY DEF SourceInv
<1>2. DrainCapacity \in Nat /\ MaxFrames \in Nat
  BY MixedDrainAssumption
<1>3. PICK h, e : h = Held(a, d, limit) /\ e = EndOf(a, d, limit)
  OBVIOUS
<1>4. h \in Nat /\ e \in Nat /\ d + h <= e /\ e <= a /\ (a <= DrainCapacity => d + h = e)
  BY <1>1, <1>2, <1>3, HeldBounds
<1>5. MaxFrames <= DrainCapacity => u = d
  BY DEF SourceInv
<1> QED
  BY <1>1, <1>2, <1>3, <1>4, <1>5 DEF SourceInv

LEMMA SourceTrimmed ==
    ASSUME NEW a, NEW d, NEW u, SourceInv(a, d, u), NEW limit \in Nat,
           NEW n \in Nat, n <= Held(a, d, limit)
    PROVE  SourceInv(a, FloorSub(EndOf(a, d, limit), Held(a, d, limit) - n), u + n)
<1>1. a \in Nat /\ d \in Nat /\ u \in Nat /\ d <= a /\ u <= d /\ a <= MaxFrames
  BY DEF SourceInv
<1>2. DrainCapacity \in Nat /\ MaxFrames \in Nat
  BY MixedDrainAssumption
<1>3. PICK h, e : h = Held(a, d, limit) /\ e = EndOf(a, d, limit)
  OBVIOUS
<1>4. h \in Nat /\ e \in Nat /\ d + h <= e /\ e <= a /\ (a <= DrainCapacity => d + h = e)
  BY <1>1, <1>2, <1>3, HeldBounds
<1>5. MaxFrames <= DrainCapacity => u = d
  BY DEF SourceInv
(* n of the h frames are taken, the others given back. *)
<1>6. PICK g : g = FloorSub(e, h - n)
  OBVIOUS
<1>7. g \in Nat /\ d + n <= g /\ g <= e /\ (d + h = e => d + n = g)
  <2>1. n <= h
    BY <1>3
  <2> QED
    BY <1>1, <1>4, <1>6, <2>1 DEF FloorSub
<1>8. SourceInv(a, g, u + n)
  BY <1>1, <1>2, <1>4, <1>5, <1>7 DEF SourceInv
<1> QED
  BY <1>3, <1>6, <1>8

LEMMA ExtractionStep ==
    ASSUME DrainInv, NEW ml \in Nat, NEW sl \in Nat, Extraction(ml, sl)
    PROVE  DrainInv'
<1>1. PICK m, s, em, es : /\ m = Held(micAt, drained.mic, ml) /\ em = EndOf(micAt, drained.mic, ml)
                          /\ s = Held(sysAt, drained.sys, sl) /\ es = EndOf(sysAt, drained.sys, sl)
  OBVIOUS
<1>2. m \in Nat /\ s \in Nat
  BY <1>1, HeldBounds, MixedDrainAssumption DEF DrainInv, SourceInv
<1>3. MicRate \in Nat /\ SysRate \in Nat /\ MicRate > 0 /\ SysRate > 0
  BY MixedDrainAssumption
<1>4. SourceInv(micAt, drained.mic, used.mic) /\ SourceInv(sysAt, drained.sys, used.sys)
  BY DEF DrainInv
<1>5. micAt' = micAt /\ sysAt' = sysAt
  BY DEF Extraction
<1>6. CASE m = 0 \/ s = 0
  <2>1. drained' = [mic |-> em, sys |-> es] /\ used' = [mic |-> used.mic + m, sys |-> used.sys + s]
    BY <1>1, <1>6 DEF Extraction
  <2>2. SourceInv(micAt, em, used.mic + m) /\ SourceInv(sysAt, es, used.sys + s)
    BY <1>1, <1>4, SourceTakenWhole
  <2>3. drained'.mic = em /\ drained'.sys = es /\ used'.mic = used.mic + m /\ used'.sys = used.sys + s
    BY <2>1
  <2> QED
    BY <1>5, <2>1, <2>2, <2>3 DEF DrainInv, SourceInv
<1>7. CASE ~(m = 0 \/ s = 0)
  <2>1. PICK mk, sk : mk = Keep(m, MicRate, s, SysRate) /\ sk = Keep(s, SysRate, m, MicRate)
    OBVIOUS
  <2>2. mk \in Nat /\ mk <= m /\ sk \in Nat /\ sk <= s
    BY <1>2, <1>3, <2>1, KeepBounds
  <2>3. PICK gm, gs : gm = FloorSub(em, m - mk) /\ gs = FloorSub(es, s - sk)
    OBVIOUS
  <2>4. drained' = [mic |-> gm, sys |-> gs] /\ used' = [mic |-> used.mic + mk, sys |-> used.sys + sk]
    BY <1>1, <1>7, <2>1, <2>3 DEF Extraction, Trimmed
  <2>5. SourceInv(micAt, gm, used.mic + mk) /\ SourceInv(sysAt, gs, used.sys + sk)
    BY <1>1, <1>4, <2>2, <2>3, SourceTrimmed
  <2>6. drained'.mic = gm /\ drained'.sys = gs /\ used'.mic = used.mic + mk /\ used'.sys = used.sys + sk
    BY <2>4
  <2> QED
    BY <1>5, <2>4, <2>5, <2>6 DEF DrainInv, SourceInv
<1> QED
  BY <1>6, <1>7

LEMMA DrainInitInv == DrainInit => DrainInv
BY MixedDrainAssumption DEF DrainInit, DrainInv, SourceInv

LEMMA DrainStep == DrainInv /\ [DrainNext]_drainVars => DrainInv'
<1> SUFFICES ASSUME DrainInv, [DrainNext]_drainVars PROVE DrainInv'
  OBVIOUS
<1>0. MaxFrames \in Nat /\ MaxWrite \in Nat
  BY MixedDrainAssumption
<1>1. CASE MicWrites
  BY <1>0, <1>1 DEF MicWrites, DrainInv, SourceInv
<1>2. CASE SysWrites
  BY <1>0, <1>2 DEF SysWrites, DrainInv, SourceInv
<1>3. CASE ExtractSince
  BY <1>0, <1>3, ExtractionStep DEF ExtractSince
<1>4. CASE ExtractSinceUntil
  BY <1>0, <1>4, ExtractionStep DEF ExtractSinceUntil
<1>5. CASE UNCHANGED drainVars
  BY <1>5 DEF drainVars, DrainInv, SourceInv
<1> QED
  BY <1>1, <1>2, <1>3, <1>4, <1>5 DEF DrainNext

LEMMA DrainInvSuffices == DrainInv => DrainTypeOK /\ DrainedOnce
BY MixedDrainAssumption DEF DrainInv, SourceInv, DrainTypeOK, DrainedOnce

------------------------------------------------------------------------------
(* The backfill.                                                             *)

LEMMA BackfillConstants ==
  /\ FrameLen \in Nat /\ FrameLen > 0 /\ PauseFrames \in Nat /\ PauseFrames > 0
  /\ MinPiece \in Nat /\ MinPiece > 0 /\ Quantum \in Nat /\ Quantum > 2 * MinPiece
  /\ PreRollLen \in Nat
BY BackfillAssumption

(* Frames and samples.                                                       *)
LEMMA FrameStarts ==
    ASSUME NEW k \in Nat
    PROVE  /\ FrameStart(k) \in Nat /\ FrameStart(k + 1) = FrameStart(k) + FrameLen
           /\ Middle(k) \in Nat
<1>1. FrameStart(k) \in Nat /\ FrameStart(k + 1) = FrameStart(k) + FrameLen
  BY BackfillConstants DEF FrameStart
<1>2. PICK a \in Nat : a = FrameStart(k) + FrameStart(k + 1)
  BY <1>1, BackfillConstants
<1>3. a \div 2 \in Nat
  OBVIOUS
<1> QED
  BY <1>1, <1>2, <1>3 DEF Middle

LEMMA FrameOf ==
    ASSUME NEW x \in Nat, NEW n \in Nat
    PROVE  /\ FrameAt(x) \in Nat
           /\ FrameAt(x) < n => x < FrameStart(n)
           /\ FrameAt(x) = n => FrameStart(n) <= x
<1>1. PICK q \in Int, r \in Int : q = x \div FrameLen /\ r = x % FrameLen
  BY BackfillConstants
<1>2. x = FrameLen * q + r /\ 0 <= r /\ r < FrameLen
  BY <1>1, BackfillConstants
<1>3. q \in Nat
  BY <1>1, BackfillConstants
<1>4. ASSUME q < n PROVE x < n * FrameLen
  <2>1. PICK d \in Nat : n = q + 1 + d
    <3>1. n - q - 1 \in Nat
      BY <1>3, <1>4
    <3> QED
      BY <1>3, <3>1
  <2>2. n * FrameLen = FrameLen * q + FrameLen + d * FrameLen
    BY <1>3, <2>1, BackfillConstants
  <2>3. d * FrameLen \in Nat /\ FrameLen * q \in Nat
    BY <1>3, <2>1, BackfillConstants
  <2> QED
    BY <1>1, <1>2, <2>2, <2>3, BackfillConstants
<1>5. q * FrameLen <= x
  <2>1. q * FrameLen = FrameLen * q
    BY <1>3, BackfillConstants
  <2>2. FrameLen * q \in Nat
    BY <1>3, BackfillConstants
  <2> QED
    BY <1>1, <1>2, <2>1, <2>2
<1> QED
  BY <1>1, <1>3, <1>4, <1>5 DEF FrameAt, FrameStart

(* A cut lies behind `from' and not behind `cap'.                            *)
LEMMA QuietestBounds ==
    ASSUME NEW sc \in Seq(0..2), NEW from \in Nat, NEW cap \in Nat, from < cap
    PROVE  QuietestOr(sc, from, cap) \in (from + 1)..cap
<1> DEFINE inside == {k \in 0..Len(sc) - 1 : Middle(k) > from /\ Middle(k) <= cap}
           window == {k \in inside : k > Max(inside) - PauseFrames}
           low    == {k \in window : \A j \in window : sc[k + 1] <= sc[j + 1]}
<1>1. QuietestOr(sc, from, cap) = IF inside = {} THEN cap ELSE Middle(Max(low))
  BY DEF QuietestOr
<1>2. CASE inside = {}
  BY <1>1, <1>2
<1>3. CASE inside # {}
  <2>1. inside \in SUBSET Nat /\ Len(sc) \in Nat /\ \A k \in inside : k <= Len(sc)
    OBVIOUS
  <2>2. Max(inside) \in inside
    <3> HIDE DEF inside
    <3> QED
      BY <1>3, <2>1, GreatestOf
  <2>3. Max(inside) \in window
    <3>1. PICK m \in Nat : m = Max(inside) /\ m \in inside
      BY <2>1, <2>2
    <3> HIDE DEF inside
    <3> QED
      BY <3>1, BackfillConstants
  <2>4. low # {}
    <3> DEFINE T == {sc[k + 1] : k \in window}
    <3>1. \A k \in window : k + 1 \in 1..Len(sc)
      OBVIOUS
    <3>2. \A k \in window : sc[k + 1] \in Nat
      BY <3>1
    <3>3. T \in SUBSET Nat /\ T # {}
      <4> HIDE DEF window
      <4> QED
        BY <2>3, <3>2
    <3>4. PICK t \in T : \A u \in T : t <= u
      <4> HIDE DEF T
      <4> QED
        BY <3>3, LeastOf
    <3>5. PICK k \in window : t = sc[k + 1]
      OBVIOUS
    <3>6. \A j \in window : sc[k + 1] <= sc[j + 1]
      <4> HIDE DEF window
      <4> QED
        BY <3>4, <3>5
    <3>7. k \in low
      <4> HIDE DEF window
      <4> QED
        BY <3>5, <3>6
    <3> QED
      BY <3>7
  <2>5. low \in SUBSET inside
    OBVIOUS
  <2>6. Max(low) \in low
    <3>1. low \in SUBSET Nat /\ \A k \in low : k <= Len(sc)
      BY <2>1, <2>5
    <3> HIDE DEF low
    <3> QED
      BY <2>1, <2>4, <3>1, GreatestOf
  <2>7. PICK k : k = Max(low) /\ k \in inside
    BY <2>5, <2>6
  <2>8. Middle(k) \in Nat /\ Middle(k) > from /\ Middle(k) <= cap
    BY <2>7, FrameStarts
  <2>9. QuietestOr(sc, from, cap) = Middle(k)
    BY <1>1, <1>3, <2>7
  <2> HIDE DEF inside
  <2> QED
    BY <2>8, <2>9
<1> HIDE DEF inside
<1> QED
  BY <1>2, <1>3

------------------------------------------------------------------------------
(* Sequences of spans, in order and apart.                                   *)
Spans == [start : Nat, end : Nat]

In(cs, x)   == \E i \in DOMAIN cs : cs[i].start <= x /\ x < cs[i].end
UpTo(cs, e) == \A i \in DOMAIN cs : cs[i].end <= e
Apart(cs) ==
  /\ cs \in Seq(Spans)
  /\ \A i \in DOMAIN cs : cs[i].start < cs[i].end /\ cs[i].end <= total
  /\ \A i, j \in DOMAIN cs : i < j => cs[i].end <= cs[j].start

LEMMA PieceFields ==
    ASSUME NEW a \in Nat, NEW b \in Nat
    PROVE  Piece(a, b) \in Spans /\ Piece(a, b).start = a /\ Piece(a, b).end = b
BY DEF Piece, Spans

LEMMA SpanAt ==
    ASSUME NEW cs \in Seq(Spans), NEW i \in DOMAIN cs
    PROVE  /\ cs[i] \in Spans /\ cs[i].start \in Nat /\ cs[i].end \in Nat
           /\ i \in Nat /\ 1 <= i /\ i <= Len(cs)
<1>1. i \in 1..Len(cs) /\ Len(cs) \in Nat
  OBVIOUS
<1>2. cs[i] \in Spans
  BY <1>1, ElementOfSeq
<1> QED
  BY <1>1, <1>2 DEF Spans

(* One more span behind the others.                                          *)
LEMMA AppendApart ==
    ASSUME NEW cs, Apart(cs), NEW a \in Nat, NEW b \in Nat, UpTo(cs, a), a < b, b <= total
    PROVE  Apart(Append(cs, Piece(a, b)))
<1>1. PICK s \in Spans : s = Piece(a, b) /\ s.start = a /\ s.end = b
  BY PieceFields
<1>2. PICK t : t = Append(cs, s)
  OBVIOUS
<1>3. cs \in Seq(Spans)
  BY DEF Apart
<1>4. /\ t \in Seq(Spans) /\ DOMAIN t = 1..Len(cs) + 1 /\ t[Len(cs) + 1] = s
      /\ \A i \in DOMAIN cs : t[i] = cs[i]
  BY <1>2, <1>3
<1>5. \A i \in DOMAIN t : i \in DOMAIN cs \/ i = Len(cs) + 1
  BY <1>3, <1>4
<1>6. \A i \in DOMAIN t : t[i].start < t[i].end /\ t[i].end <= total
  BY <1>1, <1>4, <1>5 DEF Apart
<1>7. ASSUME NEW i \in DOMAIN t, NEW j \in DOMAIN t, i < j PROVE t[i].end <= t[j].start
  <2>1. i \in DOMAIN cs
    BY <1>3, <1>4, <1>7
  <2>2. CASE j \in DOMAIN cs
    BY <1>4, <1>7, <2>1, <2>2 DEF Apart
  <2>3. CASE j = Len(cs) + 1
    BY <1>1, <1>4, <2>1, <2>3 DEF UpTo
  <2> QED
    BY <1>5, <2>2, <2>3
<1>8. Apart(t)
  BY <1>4, <1>6, <1>7 DEF Apart
<1> QED
  BY <1>1, <1>2, <1>8

LEMMA AppendSpan ==
    ASSUME NEW cs \in Seq(Spans), NEW a \in Nat, NEW b \in Nat, NEW e \in Nat, UpTo(cs, e),
           b >= e
    PROVE  UpTo(Append(cs, Piece(a, b)), b)
<1>1. PICK s \in Spans : s = Piece(a, b) /\ s.start = a /\ s.end = b
  BY PieceFields
<1>2. PICK t : t = Append(cs, s)
  OBVIOUS
<1>4. /\ DOMAIN t = 1..Len(cs) + 1 /\ t[Len(cs) + 1] = s
      /\ \A i \in DOMAIN cs : t[i] = cs[i]
  BY <1>2
<1>5. \A i \in DOMAIN t : i \in DOMAIN cs \/ i = Len(cs) + 1
  BY <1>4
<1>6. ASSUME NEW i \in DOMAIN t PROVE t[i].end <= b
  <2>1. CASE i \in DOMAIN cs
    <3>1. cs[i].end \in Nat /\ cs[i].end <= e /\ t[i] = cs[i]
      BY <1>4, <2>1, SpanAt DEF UpTo
    <3> QED
      BY <3>1
  <2>2. CASE i = Len(cs) + 1
    BY <1>1, <1>4, <2>2
  <2> QED
    BY <1>5, <2>1, <2>2
<1> QED
  BY <1>1, <1>2, <1>6 DEF UpTo

(* What it covers: what was covered, and itself.                             *)
LEMMA AppendIn ==
    ASSUME NEW cs \in Seq(Spans), NEW a \in Nat, NEW b \in Nat, NEW x \in Int
    PROVE  In(Append(cs, Piece(a, b)), x) <=> (In(cs, x) \/ (a <= x /\ x < b))
<1>1. PICK s \in Spans : s = Piece(a, b) /\ s.start = a /\ s.end = b
  BY PieceFields
<1>2. PICK t : t = Append(cs, s)
  OBVIOUS
<1>4. /\ DOMAIN t = 1..Len(cs) + 1 /\ t[Len(cs) + 1] = s
      /\ \A i \in DOMAIN cs : t[i] = cs[i] /\ i \in DOMAIN t
  BY <1>2
<1>5. \A i \in DOMAIN t : i \in DOMAIN cs \/ i = Len(cs) + 1
  BY <1>4
<1>6. ASSUME In(t, x) PROVE In(cs, x) \/ (a <= x /\ x < b)
  BY <1>1, <1>4, <1>5, <1>6 DEF In
<1>7. ASSUME In(cs, x) PROVE In(t, x)
  BY <1>4, <1>7 DEF In
<1>8. ASSUME a <= x, x < b PROVE In(t, x)
  <2>1. Len(cs) + 1 \in DOMAIN t
    BY <1>4
  <2> QED
    BY <1>1, <1>4, <1>8, <2>1 DEF In
<1> QED
  BY <1>1, <1>2, <1>6, <1>7, <1>8

(* A sample lies in one span at most.                                        *)
LEMMA SameCover ==
    ASSUME NEW cs, Apart(cs), NEW x \in Int
    PROVE  \A i, j \in Covers(cs, x) : i = j
<1> SUFFICES ASSUME NEW i \in Covers(cs, x), NEW j \in Covers(cs, x), i < j PROVE FALSE
  <2>1. \A i \in Covers(cs, x) : i \in Nat
    BY SpanAt DEF Covers, Apart
  <2> QED
    BY <2>1
<1>1. /\ i \in DOMAIN cs /\ j \in DOMAIN cs /\ cs[i].end \in Nat /\ cs[j].start \in Nat
      /\ x < cs[i].end /\ cs[j].start <= x
  BY SpanAt DEF Covers, Apart
<1>2. cs[i].end <= cs[j].start
  BY <1>1 DEF Apart
<1> QED
  BY <1>1, <1>2

LEMMA OneCover ==
    ASSUME NEW cs, Apart(cs), NEW x \in Int
    PROVE  Cardinality(Covers(cs, x)) = IF In(cs, x) THEN 1 ELSE 0
<1>1. \A i, j \in Covers(cs, x) : i = j
  BY SameCover
<1>2. CASE In(cs, x)
  <2>1. PICK i : i \in Covers(cs, x)
    BY <1>2 DEF In, Covers
  <2>2. Covers(cs, x) = {i}
    BY <1>1, <2>1
  <2>3. Cardinality({i}) = 1
    BY FS_Singleton
  <2> QED
    BY <1>2, <2>2, <2>3
<1>3. CASE ~In(cs, x)
  <2>1. Covers(cs, x) = {}
    BY <1>3 DEF In, Covers
  <2> QED
    BY <1>3, <2>1, FS_EmptySet
<1> QED
  BY <1>2, <1>3

LEMMA InIsCovers ==
    ASSUME NEW cs, NEW x
    PROVE  In(cs, x) <=> Covers(cs, x) # {}
BY DEF In, Covers

(* The short last chunk joins its predecessor: the same samples.             *)
LEMMA JoinedSame ==
    ASSUME NEW cs, Apart(cs), total \in Nat
    PROVE  Apart(Joined(cs)) /\ \A x \in Int : In(Joined(cs), x) <=> In(cs, x)
<1>1. cs \in Seq(Spans)
  BY DEF Apart
<1>2. PICK n \in Nat : n = Len(cs)
  BY <1>1
<1>3. CASE ~(n >= 2 /\ cs[n].end = total /\ cs[n].end - cs[n].start < MinPiece /\ cs[n - 1].end = cs[n].start)
  <2>1. Joined(cs) = cs
    BY <1>2, <1>3 DEF Joined
  <2> QED
    BY <2>1
<1>4. CASE n >= 2 /\ cs[n].end = total /\ cs[n].end - cs[n].start < MinPiece /\ cs[n - 1].end = cs[n].start
  <2>1. PICK t, a : t = SubSeq(cs, 1, n - 2) /\ a = cs[n - 1].start
    OBVIOUS
  <2>2. Joined(cs) = Append(t, Piece(a, total))
    BY <1>2, <1>4, <2>1 DEF Joined
  <2>3. n \in DOMAIN cs /\ n - 1 \in DOMAIN cs /\ DOMAIN cs = 1..n
    BY <1>1, <1>2, <1>4
  <2>4. t \in Seq(Spans) /\ DOMAIN t = 1..(n - 2) /\ \A i \in DOMAIN t : t[i] = cs[i]
    BY <1>1, <1>2, <1>4, <2>1
  <2>5. \A i \in DOMAIN t : i \in DOMAIN cs /\ i < n - 1
    BY <2>3, <2>4
  <2>6. a \in Nat /\ a < cs[n - 1].end /\ cs[n - 1].end <= total /\ cs[n - 1].end \in Nat
    BY <1>1, <2>1, <2>3, SpanAt DEF Apart
  <2>7. Apart(t)
    BY <2>4, <2>5 DEF Apart
  <2>8. UpTo(t, a)
    BY <2>1, <2>3, <2>4, <2>5 DEF Apart, UpTo
  <2>9. Apart(Append(t, Piece(a, total)))
    BY <2>6, <2>7, <2>8, AppendApart
  <2>10. ASSUME NEW x \in Int PROVE In(cs, x) <=> (In(t, x) \/ (a <= x /\ x < total))
    <3>1. ASSUME In(cs, x) PROVE In(t, x) \/ (a <= x /\ x < total)
      <4>1. PICK i \in DOMAIN cs : cs[i].start <= x /\ x < cs[i].end
        BY <3>1 DEF In
      <4>2. i \in DOMAIN t \/ i = n - 1 \/ i = n
        BY <2>3, <2>4
      <4>3. CASE i \in DOMAIN t
        BY <2>4, <4>1, <4>3 DEF In
      <4>4. CASE i = n - 1
        BY <2>1, <2>6, <4>1, <4>4
      <4>5. CASE i = n
        <5>1. cs[n].start \in Nat /\ cs[n].end \in Nat
          BY <1>1, <2>3, SpanAt
        <5> QED
          BY <1>4, <2>1, <2>6, <4>1, <4>5, <5>1
      <4> QED
        BY <4>2, <4>3, <4>4, <4>5
    <3>2. ASSUME In(t, x) PROVE In(cs, x)
      BY <2>4, <2>5, <3>2 DEF In
    <3>3. ASSUME a <= x, x < total PROVE In(cs, x)
      <4>1. cs[n].start \in Nat /\ cs[n].end \in Nat
        BY <1>1, <2>3, SpanAt
      <4>2. CASE x < cs[n].start
        BY <1>4, <2>1, <2>3, <3>3, <4>1, <4>2 DEF In
      <4>3. CASE ~(x < cs[n].start)
        <5>1. cs[n].start <= x /\ x < cs[n].end
          BY <1>4, <3>3, <4>1, <4>3
        <5> QED
          BY <2>3, <5>1 DEF In
      <4> QED
        BY <4>2, <4>3
    <3> QED
      BY <3>1, <3>2, <3>3
  <2>11. ASSUME NEW x \in Int PROVE In(Joined(cs), x) <=> In(cs, x)
    BY <2>2, <2>4, <2>6, <2>10, AppendIn
  <2> QED
    BY <2>2, <2>9, <2>11
<1> QED
  BY <1>3, <1>4

------------------------------------------------------------------------------
(* The scan and the splitting.                                               *)
Fields(s) ==
  s = [speaking |-> s.speaking, start |-> s.start, silence |-> s.silence, run |-> s.run,
       prevEnd |-> s.prevEnd]
Counts(s) == s.start \in Nat /\ s.silence \in Int /\ s.run \in Int /\ s.prevEnd \in Nat
IsScan(s) == Fields(s) /\ Counts(s)
Results == {"short", "emitted", "skipped", "dead"}

Here == Len(scores)

(* Speech under way begins behind the last chunk and not behind the frame    *)
(* that comes next.                                                          *)
ScanInv ==
  /\ total \in Nat /\ total > 0 /\ scores \in Seq(0..2) /\ IsScan(scan)
  /\ scan.prevEnd <= total /\ scan.start <= total
  /\ scan.prevEnd <= FrameStart(Here) /\ scan.start <= FrameStart(Here)
  /\ scan.speaking => scan.prevEnd <= scan.start

ChunksInv ==
  /\ Apart(chunks)
  /\ backfillAt = "scan" => UpTo(chunks, scan.prevEnd)

(* Every sample of a spoken frame has its chunk.                             *)
SpokenInv ==
  \A x \in 0..total - 1 :
    FrameAt(x) < Here /\ scores[FrameAt(x) + 1] = 2 => In(chunks, x) \/ Open(x)

(* A piece is a chunk, or long enough a part of one.                         *)
PartOf(p, c) ==
  /\ c.start <= p.start /\ p.end <= c.end
  /\ p = c \/ p.end - p.start >= MinPiece

(* Where the splitting is: what it has left of its chunk is a whole chunk or *)
(* long enough a part of one.                                                *)
AtSplit ==
  split.chunk \in DOMAIN chunks =>
    LET c == chunks[split.chunk]
    IN /\ c.start <= split.start /\ split.start < c.end
       /\ split.start = c.start \/ c.end - split.start >= MinPiece
       /\ UpTo(pieces, split.start)

PiecesInv ==
  /\ Apart(pieces)
  /\ \A i \in DOMAIN pieces :
       /\ pieces[i].end - pieces[i].start <= Quantum
       /\ \E c \in DOMAIN chunks : PartOf(pieces[i], chunks[c])
  /\ \A c \in DOMAIN chunks : \A x \in Int :
       chunks[c].start <= x /\ x < chunks[c].end
         /\ (c < split.chunk \/ (c = split.chunk /\ x < split.start)) => In(pieces, x)

SplitInv ==
  /\ backfillAt \in {"scan", "split", "send", "done"}
  /\ split \in [chunk : Nat \ {0}, start : Nat]
  /\ sentTo \in Seq(Results) /\ Len(sentTo) <= Len(pieces)
  /\ backfillAt = "scan" => pieces = <<>>
  /\ backfillAt = "split" => AtSplit
  /\ backfillAt # "scan" => PiecesInv
  /\ backfillAt \in {"send", "done"} => split.chunk > Len(chunks)

BackfillInv == ScanInv /\ ChunksInv /\ SpokenInv /\ SplitInv

LEMMA EmptyApart == Apart(<<>>) /\ \A e : UpTo(<<>>, e)
<1>1. <<>> \in Seq(Spans) /\ DOMAIN <<>> = {}
  OBVIOUS
<1> QED
  BY <1>1 DEF Apart, UpTo

LEMMA BackfillInitInv == BackfillInit => BackfillInv
<1> SUFFICES ASSUME BackfillInit PROVE BackfillInv
  OBVIOUS
<1>1. total \in Nat /\ total > 0
  BY BackfillAssumption DEF BackfillInit
<1>2. scores = <<>> /\ Here = 0 /\ scores \in Seq(0..2)
  BY DEF BackfillInit, Here
<1>3. IsScan(scan) /\ scan.prevEnd = 0 /\ scan.start = 0 /\ ~scan.speaking
  BY DEF BackfillInit, Silent0, IsScan, Fields, Counts
<1>4. ScanInv
  BY <1>1, <1>2, <1>3, FrameStarts DEF ScanInv
<1>5. ChunksInv
  BY EmptyApart DEF BackfillInit, ChunksInv
<1>6. SpokenInv
  <2>1. \A x \in 0..total - 1 : FrameAt(x) \in Nat
    BY <1>1, FrameOf
  <2> QED
    BY <1>2, <2>1 DEF SpokenInv
<1>7. SplitInv
  BY DEF BackfillInit, SplitInv, Results
<1> QED
  BY <1>4, <1>5, <1>6, <1>7 DEF BackfillInv

(* A frame that ends no chunk.                                               *)
LEMMA FrameTime ==
    ASSUME BackfillInv, NEW p \in 0..2, Frame(p)
    PROVE  /\ backfillAt = "scan" /\ backfillAt' = "scan"
           /\ UNCHANGED <<total, split, pieces, sentTo>>
           /\ scores' = Append(scores, p) /\ scores' \in Seq(0..2) /\ Here' = Here + 1 /\ Here \in Nat
           /\ FrameStart(Here) < total
           /\ \A k \in 1..Here : scores'[k] = scores[k]
           /\ scores'[Here + 1] = p
<1>1. scores \in Seq(0..2)
  BY DEF BackfillInv, ScanInv
<1>2. backfillAt = "scan" /\ scores' = Append(scores, p) /\ UNCHANGED <<total, split, pieces, backfillAt, sentTo>>
  BY DEF Frame
<1>3. FrameStart(Len(scores)) < total
  BY DEF Frame
<1> QED
  BY <1>1, <1>2, <1>3 DEF Here

(* What a frame does to the scan: it opens speech, ends a chunk at `cut', or *)
(* goes on.                                                                  *)
Opens(w, a) ==
  /\ ~scan.speaking /\ scan'.speaking /\ UNCHANGED chunks
  /\ scan'.start = a /\ scan.prevEnd <= a /\ a <= w /\ scan'.prevEnd = scan.prevEnd
EndsAt(cut, e, on) ==
  /\ scan.speaking /\ (scan'.speaking <=> on)
  /\ chunks' = Append(chunks, Piece(scan.start, cut))
  /\ cut \in Nat /\ scan.start < cut /\ cut <= e
  /\ scan'.prevEnd = cut /\ scan'.start = (IF on THEN cut ELSE 0)
GoesOn ==
  /\ UNCHANGED chunks /\ (scan'.speaking <=> scan.speaking)
  /\ scan'.start = scan.start /\ scan'.prevEnd = scan.prevEnd

LEMMA MaxOfTwo ==
    ASSUME NEW a \in Int, NEW b \in Int
    PROVE  Max({a, b}) = IF a >= b THEN a ELSE b
<1>1. PICK m \in {a, b} : \A n \in {a, b} : m >= n
  OBVIOUS
<1>2. Max({a, b}) \in {a, b} /\ \A n \in {a, b} : Max({a, b}) >= n
  BY <1>1 DEF Max
<1> QED
  BY <1>2

(* What the assignments of a frame do to the fields of the scan.             *)
Became(n, speaking, start, prevEnd) ==
  IsScan(n) /\ (n.speaking <=> speaking) /\ n.start = start /\ n.prevEnd = prevEnd

LEMMA ScanOpened ==
    ASSUME NEW s, IsScan(s), NEW a \in Nat, NEW n,
           n = [s EXCEPT !.speaking = TRUE, !.run = 1, !.silence = 0, !.start = a]
    PROVE  Became(n, TRUE, a, s.prevEnd)
<1>1. Fields(n)
  BY DEF IsScan, Fields
<1>2. Counts(n)
  BY DEF IsScan, Fields, Counts
<1>3. n.speaking /\ n.start = a /\ n.prevEnd = s.prevEnd
  BY DEF IsScan, Fields
<1> QED
  BY <1>1, <1>2, <1>3 DEF Became, IsScan

LEMMA ScanCut ==
    ASSUME NEW s, IsScan(s), NEW c \in Nat, NEW r \in Int, NEW n,
           n = [s EXCEPT !.start = c, !.prevEnd = c, !.silence = 0, !.run = r]
    PROVE  Became(n, s.speaking, c, c)
<1>1. Fields(n)
  BY DEF IsScan, Fields
<1>2. Counts(n)
  BY DEF IsScan, Fields, Counts
<1>3. (n.speaking <=> s.speaking) /\ n.start = c /\ n.prevEnd = c
  BY DEF IsScan, Fields
<1> QED
  BY <1>1, <1>2, <1>3 DEF Became, IsScan

LEMMA ScanEnded ==
    ASSUME NEW e \in Nat, NEW n,
           n = [Silent0 EXCEPT !.prevEnd = e]
    PROVE  Became(n, FALSE, 0, e)
<1>1. Fields(n)
  BY DEF Silent0, Fields
<1>2. Counts(n)
  BY DEF Silent0, Fields, Counts
<1>3. ~n.speaking /\ n.start = 0 /\ n.prevEnd = e
  BY DEF Silent0, Fields
<1> QED
  BY <1>1, <1>2, <1>3 DEF Became, IsScan

LEMMA ScanLouder ==
    ASSUME NEW s, IsScan(s), NEW n,
           n = [s EXCEPT !.run = @ + 1, !.silence = 0]
    PROVE  Became(n, s.speaking, s.start, s.prevEnd)
<1>1. Fields(n)
  BY DEF IsScan, Fields
<1>2. Counts(n)
  BY DEF IsScan, Fields, Counts
<1>3. (n.speaking <=> s.speaking) /\ n.start = s.start /\ n.prevEnd = s.prevEnd
  BY DEF IsScan, Fields
<1> QED
  BY <1>1, <1>2, <1>3 DEF Became, IsScan

LEMMA ScanQuieter ==
    ASSUME NEW s, IsScan(s), NEW n,
           n = [s EXCEPT !.run = @ + 1, !.silence = @ + 1]
    PROVE  Became(n, s.speaking, s.start, s.prevEnd)
<1>1. Fields(n)
  BY DEF IsScan, Fields
<1>2. Counts(n)
  BY DEF IsScan, Fields, Counts
<1>3. (n.speaking <=> s.speaking) /\ n.start = s.start /\ n.prevEnd = s.prevEnd
  BY DEF IsScan, Fields
<1> QED
  BY <1>1, <1>2, <1>3 DEF Became, IsScan

LEMMA FrameScan ==
    ASSUME BackfillInv, NEW p \in 0..2, Frame(p), NEW w, NEW e,
           w = FrameStart(Here), e = LowestScore(FrameStart(Here + 1), total)
    PROVE  /\ IsScan(scan)'
           /\ \/ GoesOn /\ (p = 2 => scan.speaking)
              \/ \E a \in Nat : Opens(w, a)
              \/ \E cut : EndsAt(cut, e, TRUE)
              \/ EndsAt(e, e, FALSE) /\ p = 0
<1>1. /\ IsScan(scan) /\ scores \in Seq(0..2) /\ Here \in Nat /\ total \in Nat
      /\ scan.start \in Nat /\ scan.prevEnd \in Nat /\ scan.start <= w /\ scan.prevEnd <= w
  BY FrameTime DEF BackfillInv, ScanInv, IsScan, Counts
<1>2. w \in Nat /\ w < total /\ e \in Nat /\ w < e /\ e <= total
  <2>1. FrameStart(Here) \in Nat /\ FrameStart(Here + 1) = FrameStart(Here) + FrameLen
    BY <1>1, FrameStarts
  <2>2. FrameStart(Here) < total
    BY FrameTime
  <2> QED
    BY <1>1, <2>1, <2>2, BackfillConstants DEF LowestScore
<1>3. CASE ~scan.speaking /\ p # 2
  <2>1. scan' = scan /\ UNCHANGED chunks
    BY <1>3 DEF Frame
  <2> QED
    BY <1>1, <1>3, <2>1 DEF GoesOn
<1>4. CASE ~scan.speaking /\ p = 2
  <2>1. scan' = OnsetAt(scan, w) /\ UNCHANGED chunks
    BY <1>4 DEF Frame, Here
  <2>2. PICK a : a = Max({w - PreRollLen, scan.prevEnd})
    OBVIOUS
  <2>3. a \in Nat /\ scan.prevEnd <= a /\ a <= w
    <3>1. PICK u \in Int, v \in Int : u = w - PreRollLen /\ v = scan.prevEnd /\ u <= w
      BY <1>1, <1>2, BackfillConstants
    <3>2. a = IF u >= v THEN u ELSE v
      BY <2>2, <3>1, MaxOfTwo
    <3> QED
      BY <1>1, <1>2, <3>1, <3>2
  <2>4. PICK n : n = [scan EXCEPT !.speaking = TRUE, !.run = 1, !.silence = 0, !.start = a]
    OBVIOUS
  <2>5. scan' = n
    BY <2>1, <2>2, <2>4 DEF OnsetAt
  <2>a. Became(n, TRUE, a, scan.prevEnd)
    BY <1>1, <2>3, <2>4, ScanOpened
  <2>6. IsScan(n) /\ n.speaking /\ n.start = a /\ n.prevEnd = scan.prevEnd
    BY <2>a DEF Became
  <2>7. Opens(w, a)
    BY <1>4, <2>1, <2>3, <2>5, <2>6 DEF Opens
  <2> QED
    BY <2>3, <2>5, <2>6, <2>7
<1>5. CASE scan.speaking /\ p > 0 /\ scan.run + 1 >= ChunkFrames
  <2>1. PICK cut : cut = QuietestOr(Append(scores, p), scan.start, e)
    OBVIOUS
  <2>2. chunks' = Append(chunks, Piece(scan.start, cut)) /\ scan' = LengthCut(scan, Here, cut, e)
    <3> DEFINE end == LowestScore(FrameStart(Len(scores) + 1), total)
               at == QuietestOr(Append(scores, p), scan.start, end)
    <3>1. chunks' = Append(chunks, Piece(scan.start, at)) /\ scan' = LengthCut(scan, Len(scores), at, end)
      <4>1. scan.run \in Int /\ ChunkFrames \in Int
        BY <1>1, BackfillAssumption DEF IsScan, Counts
      <4> QED
        BY <1>5, <4>1 DEF Frame
    <3>2. end = e /\ at = cut
      BY <2>1 DEF Here
    <3> HIDE DEF end, at
    <3> QED
      BY <3>1, <3>2 DEF Here
  <2>3. Append(scores, p) \in Seq(0..2)
    BY <1>1
  <2>4. cut \in Nat /\ scan.start < cut /\ cut <= e
    <3>1. scan.start < e
      BY <1>1, <1>2
    <3>2. cut \in (scan.start + 1)..e
      BY <1>1, <1>2, <2>1, <2>3, <3>1, QuietestBounds
    <3> QED
      BY <1>1, <1>2, <3>2
  <2>5. PICK r : r = IF cut < e THEN Here - FrameAt(cut) ELSE 0
    OBVIOUS
  <2>6. r \in Int
    <3>1. FrameAt(cut) \in Nat
      BY <1>1, <2>4, FrameOf
    <3> QED
      BY <1>1, <2>5, <3>1
  <2>7. PICK n : n = [scan EXCEPT !.start = cut, !.prevEnd = cut, !.silence = 0, !.run = r]
    OBVIOUS
  <2>8. scan' = n
    BY <2>2, <2>5, <2>7 DEF LengthCut
  <2>9. IsScan(n) /\ (n.speaking <=> scan.speaking) /\ n.start = cut /\ n.prevEnd = cut
    <3>1. Became(n, scan.speaking, cut, cut)
      BY <1>1, <2>4, <2>6, <2>7, ScanCut
    <3> QED
      BY <3>1 DEF Became
  <2>10. EndsAt(cut, e, TRUE)
    BY <1>5, <2>2, <2>4, <2>8, <2>9 DEF EndsAt
  <2> QED
    BY <2>8, <2>9, <2>10
<1>6. CASE scan.speaking /\ p = 0 /\ scan.silence + 1 >= SilenceFrames
  <2>1. chunks' = Append(chunks, Piece(scan.start, e)) /\ scan' = [Silent0 EXCEPT !.prevEnd = e]
    BY <1>6 DEF Frame, Here
  <2>2. IsScan(scan)' /\ ~scan'.speaking /\ scan'.start = 0 /\ scan'.prevEnd = e
    <3>1. PICK n : n = [Silent0 EXCEPT !.prevEnd = e]
      OBVIOUS
    <3>2. IsScan(n) /\ ~n.speaking /\ n.start = 0 /\ n.prevEnd = e
      BY <1>2, <3>1, ScanEnded DEF Became
    <3> QED
      BY <2>1, <3>1, <3>2
  <2>3. EndsAt(e, e, FALSE)
    BY <1>1, <1>2, <1>6, <2>1, <2>2 DEF EndsAt
  <2> QED
    BY <1>6, <2>2, <2>3
<1>7. CASE /\ scan.speaking /\ ~(p > 0 /\ scan.run + 1 >= ChunkFrames)
           /\ ~(p = 0 /\ scan.silence + 1 >= SilenceFrames)
  <2>1. UNCHANGED chunks /\ \/ scan' = [scan EXCEPT !.run = @ + 1, !.silence = 0]
                            \/ scan' = [scan EXCEPT !.run = @ + 1, !.silence = @ + 1]
    BY <1>7 DEF Frame
  <2>2. PICK n : n = scan'
    OBVIOUS
  <2>3. IsScan(n) /\ (n.speaking <=> scan.speaking) /\ n.start = scan.start /\ n.prevEnd = scan.prevEnd
    BY <1>1, <2>1, <2>2, ScanLouder, ScanQuieter DEF Became
  <2> QED
    BY <1>7, <2>1, <2>2, <2>3 DEF GoesOn
<1> QED
  BY <1>3, <1>4, <1>5, <1>6, <1>7

LEMMA UpToMore ==
    ASSUME NEW cs \in Seq(Spans), NEW a \in Nat, NEW b \in Nat, UpTo(cs, a), a <= b
    PROVE  UpTo(cs, b)
<1> SUFFICES ASSUME NEW i \in DOMAIN cs PROVE cs[i].end <= b
  BY DEF UpTo
<1>1. cs[i].end \in Nat /\ cs[i].end <= a
  BY SpanAt DEF UpTo
<1> QED
  BY <1>1

LEMMA FrameStep ==
    ASSUME BackfillInv, NEW p \in 0..2, Frame(p)
    PROVE  BackfillInv'
<1>1. PICK w, e : w = FrameStart(Here) /\ e = LowestScore(FrameStart(Here + 1), total)
  OBVIOUS
<1>2. /\ IsScan(scan) /\ scores \in Seq(0..2) /\ Here \in Nat /\ total \in Nat /\ total > 0
      /\ scan.start \in Nat /\ scan.prevEnd \in Nat /\ scan.start <= w /\ scan.prevEnd <= w
      /\ scan.start <= total /\ scan.prevEnd <= total
      /\ (scan.speaking => scan.prevEnd <= scan.start)
  BY <1>1, FrameTime DEF BackfillInv, ScanInv, IsScan, Counts
<1>3. w \in Nat /\ w < total /\ e \in Nat /\ w < e /\ e <= total /\ e <= FrameStart(Here + 1)
  <2>1. FrameStart(Here) \in Nat /\ FrameStart(Here + 1) = FrameStart(Here) + FrameLen
    BY <1>2, FrameStarts
  <2>2. FrameStart(Here) < total
    BY FrameTime
  <2> QED
    BY <1>1, <1>2, <2>1, <2>2, BackfillConstants DEF LowestScore
<1>4. /\ backfillAt = "scan" /\ backfillAt' = "scan" /\ UNCHANGED <<total, split, pieces, sentTo>>
      /\ scores' \in Seq(0..2) /\ Here' = Here + 1
      /\ (\A k \in 1..Here : scores'[k] = scores[k]) /\ scores'[Here + 1] = p
  BY FrameTime
<1>5. Apart(chunks) /\ UpTo(chunks, scan.prevEnd) /\ chunks \in Seq(Spans)
  BY <1>4 DEF BackfillInv, ChunksInv, Apart
<1>6. /\ IsScan(scan)'
      /\ \/ GoesOn /\ (p = 2 => scan.speaking)
         \/ \E a \in Nat : Opens(w, a)
         \/ \E cut : EndsAt(cut, e, TRUE)
         \/ EndsAt(e, e, FALSE) /\ p = 0
  BY <1>1, FrameScan
<1>7. FrameStart(Here') = FrameStart(Here + 1) /\ FrameStart(Here + 1) \in Nat
  <2>1. PICK m \in Nat : m = Here + 1
    BY <1>2
  <2>2. FrameStart(m) \in Nat
    BY FrameStarts
  <2> QED
    BY <1>4, <2>1, <2>2
<1>8. SplitInv'
  BY <1>4 DEF BackfillInv, SplitInv
<1>9. ASSUME NEW x \in 0..total - 1, FrameAt(x) < Here + 1, scores'[FrameAt(x) + 1] = 2
      PROVE  (x < w /\ (In(chunks, x) \/ Open(x))) \/ (p = 2 /\ w <= x)
  <2>1. PICK k \in Nat : k = FrameAt(x)
    BY <1>2, FrameOf
  <2>2. CASE k < Here
    <3>1. scores[k + 1] = 2
      BY <1>2, <1>4, <1>9, <2>1, <2>2
    <3>2. In(chunks, x) \/ Open(x)
      BY <2>1, <2>2, <3>1 DEF BackfillInv, SpokenInv
    <3>3. x < w
      BY <1>1, <1>2, <2>1, <2>2, FrameOf
    <3> QED
      BY <3>2, <3>3
  <2>3. CASE k = Here
    <3>1. p = 2
      BY <1>4, <1>9, <2>1, <2>3
    <3>2. x \in Nat /\ FrameAt(x) = Here
      BY <1>2, <2>1, <2>3
    <3>3. w <= x
      BY <1>1, <1>2, <3>2, FrameOf
    <3> QED
      BY <3>1, <3>3
  <2> QED
    BY <1>2, <1>9, <2>1, <2>2, <2>3
<1>10. CASE GoesOn /\ (p = 2 => scan.speaking)
  <2>1. /\ chunks' = chunks /\ (scan'.speaking <=> scan.speaking)
        /\ scan'.start = scan.start /\ scan'.prevEnd = scan.prevEnd
    BY <1>10 DEF GoesOn
  <2>2. ScanInv'
    BY <1>2, <1>3, <1>4, <1>6, <1>7, <2>1 DEF ScanInv
  <2>3. ChunksInv'
    BY <1>4, <1>5, <2>1 DEF ChunksInv, Apart, UpTo
  <2>4. SpokenInv'
    <3> SUFFICES ASSUME NEW x \in 0..total - 1, FrameAt(x) < Here + 1, scores'[FrameAt(x) + 1] = 2
                 PROVE  In(chunks, x) \/ (scan.speaking /\ x >= scan.start)
      BY <1>4, <2>1 DEF SpokenInv, Open, In, FrameAt
    <3>1. CASE In(chunks, x) \/ Open(x)
      BY <3>1 DEF Open
    <3>2. CASE p = 2 /\ w <= x
      BY <1>2, <1>3, <1>10, <3>2
    <3> QED
      BY <1>9, <3>1, <3>2
  <2> QED
    BY <1>8, <2>2, <2>3, <2>4 DEF BackfillInv
<1>11. ASSUME NEW a \in Nat, Opens(w, a) PROVE BackfillInv'
  <2>1. /\ chunks' = chunks /\ ~scan.speaking /\ scan'.speaking /\ scan'.start = a
        /\ scan'.prevEnd = scan.prevEnd /\ scan.prevEnd <= a /\ a <= w
    BY <1>11 DEF Opens
  <2>2. ScanInv'
    BY <1>2, <1>3, <1>4, <1>6, <1>7, <2>1 DEF ScanInv
  <2>3. ChunksInv'
    BY <1>4, <1>5, <2>1 DEF ChunksInv, Apart, UpTo
  <2>4. SpokenInv'
    <3> SUFFICES ASSUME NEW x \in 0..total - 1, FrameAt(x) < Here + 1, scores'[FrameAt(x) + 1] = 2
                 PROVE  In(chunks, x) \/ x >= a
      BY <1>4, <2>1 DEF SpokenInv, Open, In, FrameAt
    <3>1. CASE In(chunks, x) \/ Open(x)
      BY <2>1, <3>1 DEF Open
    <3>2. CASE p = 2 /\ w <= x
      BY <1>2, <1>3, <2>1, <3>2
    <3> QED
      BY <1>9, <3>1, <3>2
  <2> QED
    BY <1>8, <2>2, <2>3, <2>4 DEF BackfillInv
<1>12. ASSUME NEW cut, NEW on \in BOOLEAN, EndsAt(cut, e, on), on \/ (cut = e /\ p = 0) PROVE BackfillInv'
  <2>1. /\ scan.speaking /\ (scan'.speaking <=> on) /\ chunks' = Append(chunks, Piece(scan.start, cut))
        /\ cut \in Nat /\ scan.start < cut /\ cut <= e /\ scan'.prevEnd = cut
        /\ scan'.start = (IF on THEN cut ELSE 0)
    BY <1>12 DEF EndsAt
  <2>2. ScanInv'
    BY <1>2, <1>3, <1>4, <1>6, <1>7, <2>1 DEF ScanInv
  <2>3. UpTo(chunks, scan.start)
    BY <1>2, <1>5, <2>1, UpToMore
  <2>4. PICK a, cs : a = scan.start /\ cs = Append(chunks, Piece(a, cut))
    OBVIOUS
  <2>5. Apart(cs) /\ UpTo(cs, cut)
    <3>1. a \in Nat /\ UpTo(chunks, a) /\ a < cut /\ cut <= total
      BY <1>2, <1>3, <2>1, <2>3, <2>4
    <3>2. Apart(cs)
      BY <1>5, <2>1, <2>4, <3>1, AppendApart
    <3>3. UpTo(cs, cut)
      BY <1>5, <2>1, <2>4, <3>1, AppendSpan
    <3> QED
      BY <3>2, <3>3
  <2>6. ChunksInv'
    <3>1. chunks' = cs /\ scan'.prevEnd = cut /\ total' = total
      BY <1>4, <2>1, <2>4
    <3> QED
      BY <2>5, <3>1 DEF ChunksInv, Apart, UpTo
  <2>7. \A x \in Int : In(chunks, x) \/ (a <= x /\ x < cut) => In(cs, x)
    BY <1>2, <1>5, <2>1, <2>4, AppendIn
  <2>8. SpokenInv'
    <3> SUFFICES ASSUME NEW x \in 0..total - 1, FrameAt(x) < Here + 1, scores'[FrameAt(x) + 1] = 2
                 PROVE  In(cs, x) \/ (on /\ x >= cut)
      <4>1. chunks' = cs
        BY <2>1, <2>4
      <4> QED
        BY <1>4, <2>1, <4>1 DEF SpokenInv, Open, In, FrameAt
    <3>1. CASE x < w /\ (In(chunks, x) \/ Open(x))
      <4>1. In(chunks, x) \/ a <= x
        BY <2>4, <3>1 DEF Open
      <4>2. on \/ x < cut
        BY <1>3, <1>12, <3>1
      <4> QED
        BY <1>2, <2>1, <2>7, <4>1, <4>2
    <3>2. CASE p = 2 /\ w <= x
      <4>1. on /\ a <= x
        BY <1>2, <1>3, <1>12, <2>4, <3>2
      <4> QED
        BY <1>2, <2>1, <2>7, <4>1
    <3> QED
      BY <1>9, <3>1, <3>2
  <2> QED
    BY <1>8, <2>2, <2>6, <2>8 DEF BackfillInv
<1> QED
  BY <1>6, <1>10, <1>11, <1>12

(* The splitting begins.                                                     *)
LEMMA SplitStarts ==
    ASSUME BackfillInv, backfillAt = "scan", backfillAt' = "split", Apart(chunks)',
           split' = SplitFrom(chunks', 1), UNCHANGED <<total, pieces, sentTo>>
    PROVE  SplitInv'
<1>1. PICK cs : cs = chunks'
  OBVIOUS
<1>2. Apart(cs) /\ cs \in Seq(Spans) /\ total \in Nat
  BY <1>1 DEF Apart, BackfillInv, ScanInv
<1>3. pieces = <<>> /\ sentTo \in Seq(Results) /\ Len(sentTo) <= Len(pieces)
  BY DEF BackfillInv, SplitInv
<1>4. PICK a \in Nat : split' = [chunk |-> 1, start |-> a] /\ (1 \in DOMAIN cs => a = cs[1].start)
  <2>1. PICK a : a = IF 1 \in DOMAIN cs THEN cs[1].start ELSE total
    OBVIOUS
  <2>2. a \in Nat
    BY <1>2, <2>1, SpanAt
  <2>3. split' = [chunk |-> 1, start |-> a]
    BY <1>1, <2>1 DEF SplitFrom
  <2> QED
    BY <2>1, <2>2, <2>3
<1>5. split'.chunk = 1 /\ split'.start = a /\ split' \in [chunk : Nat \ {0}, start : Nat]
  BY <1>4
<1>6. AtSplit'
  <2>1. UpTo(<<>>, a)
    BY EmptyApart
  <2>2. ASSUME 1 \in DOMAIN cs PROVE a = cs[1].start /\ a < cs[1].end /\ cs[1].start <= a
    BY <1>2, <1>4, <2>2, SpanAt DEF Apart
  <2> QED
    BY <1>1, <1>3, <1>5, <2>1, <2>2 DEF AtSplit, UpTo
<1>7. PiecesInv'
  <2>1. Apart(pieces)'
    BY <1>2, <1>3 DEF Apart
  <2>2. ASSUME NEW c \in DOMAIN cs, NEW x \in Int, cs[c].start <= x,
               c < 1 \/ (c = 1 /\ x < a)
        PROVE  FALSE
    <3>1. c \in Nat /\ 1 <= c /\ cs[c].start \in Nat
      BY <1>2, SpanAt
    <3> QED
      BY <1>4, <2>2, <3>1
  <2>3. DOMAIN pieces' = {}
    BY <1>3
  <2> QED
    BY <1>1, <1>5, <2>1, <2>2, <2>3 DEF PiecesInv
<1> QED
  BY <1>3, <1>5, <1>6, <1>7 DEF SplitInv

LEMMA EndScanStep ==
    ASSUME BackfillInv, EndScan
    PROVE  BackfillInv'
<1>1. /\ backfillAt = "scan" /\ backfillAt' = "split" /\ chunks' = Joined(ClosedTail)
      /\ split' = SplitFrom(chunks', 1) /\ UNCHANGED <<total, scores, scan, pieces, sentTo>>
  BY DEF EndScan
<1>2. /\ ScanInv /\ total \in Nat /\ scan.start \in Nat /\ scan.prevEnd \in Nat
      /\ (scan.speaking => scan.prevEnd <= scan.start) /\ scan.start <= total
  BY DEF BackfillInv, ScanInv, IsScan, Counts
<1>3. Apart(chunks) /\ UpTo(chunks, scan.prevEnd) /\ chunks \in Seq(Spans)
  BY <1>1 DEF BackfillInv, ChunksInv, Apart
<1>4. PICK ct, cs : ct = ClosedTail /\ cs = Joined(ct)
  OBVIOUS
<1>5. Apart(ct) /\ \A x \in 0..total - 1 : In(chunks, x) \/ Open(x) => In(ct, x)
  <2>1. CASE scan.speaking /\ scan.start < total
    <3>1. UpTo(chunks, scan.start)
      BY <1>2, <1>3, <2>1, UpToMore
    <3>2. ct = Append(chunks, Piece(scan.start, total))
      BY <1>4, <2>1 DEF ClosedTail
    <3>3. PICK a : a = scan.start
      OBVIOUS
    <3>4. Apart(Append(chunks, Piece(a, total)))
      BY <1>2, <1>3, <2>1, <3>1, <3>3, AppendApart
    <3>5. \A x \in Int : In(chunks, x) \/ (a <= x /\ x < total) => In(ct, x)
      BY <1>2, <1>3, <3>2, <3>3, AppendIn
    <3>6. \A x \in 0..total - 1 : Open(x) => a <= x /\ x < total
      BY <1>2, <3>3 DEF Open
    <3> QED
      BY <1>2, <3>2, <3>3, <3>4, <3>5, <3>6
  <2>2. CASE ~(scan.speaking /\ scan.start < total)
    <3>1. ct = chunks
      BY <1>4, <2>2 DEF ClosedTail
    <3>2. \A x \in 0..total - 1 : ~Open(x)
      BY <1>2, <2>2 DEF Open
    <3> QED
      BY <1>3, <3>1, <3>2
  <2> QED
    BY <2>1, <2>2
<1>6. Apart(cs) /\ \A x \in Int : In(cs, x) <=> In(ct, x)
  BY <1>2, <1>4, <1>5, JoinedSame
<1>7. chunks' = cs
  BY <1>1, <1>4
<1>8. Apart(chunks)'
  BY <1>1, <1>6, <1>7 DEF Apart
<1>9. ScanInv'
  BY <1>1, <1>2 DEF ScanInv, Here, IsScan, Fields, Counts
<1>10. ChunksInv'
  BY <1>1, <1>8 DEF ChunksInv
<1>11. SpokenInv'
  <2>1. ASSUME NEW x \in 0..total - 1, FrameAt(x) < Here, scores[FrameAt(x) + 1] = 2
        PROVE  In(cs, x)
    <3>1. In(chunks, x) \/ Open(x)
      BY <2>1 DEF BackfillInv, SpokenInv
    <3>2. x \in Int
      BY <1>2
    <3> QED
      BY <1>5, <1>6, <3>1, <3>2
  <2> QED
    BY <1>1, <1>7, <2>1 DEF SpokenInv, Here, FrameAt, In
<1>12. SplitInv'
  BY <1>1, <1>8, SplitStarts
<1> QED
  BY <1>9, <1>10, <1>11, <1>12 DEF BackfillInv

LEMMA NoVadStep ==
    ASSUME BackfillInv, NoVad
    PROVE  BackfillInv'
<1>1. /\ backfillAt = "scan" /\ backfillAt' = "split" /\ chunks' = <<Piece(0, total)>> /\ scores = <<>>
      /\ split' = SplitFrom(chunks', 1) /\ UNCHANGED <<total, scores, scan, pieces, sentTo>>
  BY DEF NoVad
<1>2. ScanInv /\ total \in Nat /\ total > 0
  BY DEF BackfillInv, ScanInv
<1>3. PICK cs : cs = Append(<<>>, Piece(0, total))
  OBVIOUS
<1>4. chunks' = cs
  BY <1>1, <1>3
<1>5. Apart(cs)
  <2>1. PICK e : e = <<>>
    OBVIOUS
  <2>2. PICK z \in Nat : z = 0
    OBVIOUS
  <2>3. Apart(e) /\ UpTo(e, z) /\ z < total
    BY <1>2, <2>1, <2>2, EmptyApart
  <2>4. Apart(Append(e, Piece(z, total)))
    BY <1>2, <2>2, <2>3, AppendApart
  <2> QED
    BY <1>3, <2>1, <2>2, <2>4
<1>6. Apart(chunks)'
  BY <1>1, <1>4, <1>5 DEF Apart
<1>7. ScanInv'
  BY <1>1, <1>2 DEF ScanInv, Here, IsScan, Fields, Counts
<1>8. ChunksInv'
  BY <1>1, <1>6 DEF ChunksInv
<1>9. SpokenInv'
  <2>1. Here' = 0
    BY <1>1 DEF Here
  <2>2. \A x \in 0..total - 1 : FrameAt(x) \in Nat
    BY <1>2, FrameOf
  <2> QED
    BY <1>1, <2>1, <2>2 DEF SpokenInv, FrameAt
<1>10. SplitInv'
  BY <1>1, <1>6, SplitStarts
<1> QED
  BY <1>7, <1>8, <1>9, <1>10 DEF BackfillInv

(* A piece more, of the chunk at hand.                                       *)
Sized(ps, cs) ==
  \A i \in DOMAIN ps :
    /\ ps[i].end - ps[i].start <= Quantum
    /\ \E c \in DOMAIN cs : PartOf(ps[i], cs[c])

LEMMA PieceTaken ==
    ASSUME total \in Nat, NEW ps, Apart(ps), NEW cs, Apart(cs), Sized(ps, cs),
           NEW n \in DOMAIN cs, NEW a \in Nat, NEW b \in Nat, UpTo(ps, a), a < b,
           b <= cs[n].end, b - a <= Quantum, PartOf(Piece(a, b), cs[n])
    PROVE  /\ Apart(Append(ps, Piece(a, b))) /\ Sized(Append(ps, Piece(a, b)), cs)
           /\ UpTo(Append(ps, Piece(a, b)), b)
           /\ \A x \in Int : In(ps, x) \/ (a <= x /\ x < b) => In(Append(ps, Piece(a, b)), x)
           /\ Len(Append(ps, Piece(a, b))) = Len(ps) + 1
<1>1. ps \in Seq(Spans) /\ cs \in Seq(Spans)
  BY DEF Apart
<1>2. b <= total
  BY <1>1, SpanAt DEF Apart
<1>3. PICK s \in Spans : s = Piece(a, b) /\ s.start = a /\ s.end = b
  BY PieceFields
<1>4. PICK t : t = Append(ps, s)
  OBVIOUS
<1>5. Apart(t)
  BY <1>2, <1>3, <1>4, AppendApart
<1>6. UpTo(t, b)
  BY <1>1, <1>3, <1>4, AppendSpan
<1>7. \A x \in Int : In(ps, x) \/ (a <= x /\ x < b) => In(t, x)
  BY <1>1, <1>3, <1>4, AppendIn
<1>8. /\ DOMAIN t = 1..Len(ps) + 1 /\ t[Len(ps) + 1] = s /\ Len(t) = Len(ps) + 1
      /\ \A i \in DOMAIN ps : t[i] = ps[i]
  BY <1>1, <1>4
<1>9. \A i \in DOMAIN t : i \in DOMAIN ps \/ i = Len(ps) + 1
  BY <1>1, <1>8
<1>10. Sized(t, cs)
  <2> SUFFICES ASSUME NEW i \in DOMAIN t
               PROVE  t[i].end - t[i].start <= Quantum /\ \E c \in DOMAIN cs : PartOf(t[i], cs[c])
    BY DEF Sized
  <2>1. CASE i \in DOMAIN ps
    BY <1>8, <2>1 DEF Sized
  <2>2. CASE i = Len(ps) + 1
    BY <1>3, <1>8, <2>2
  <2> QED
    BY <1>9, <2>1, <2>2
<1> QED
  BY <1>3, <1>4, <1>5, <1>6, <1>7, <1>8, <1>10

LEMMA SplitStep ==
    ASSUME BackfillInv, Split
    PROVE  BackfillInv'
<1>1. PICK n, a, c, b : /\ n = split.chunk /\ a = split.start /\ c = chunks[n]
                        /\ b = QuietestOr(scores, a + MinPiece, SplitCap(c, a))
  OBVIOUS
<1>2. /\ backfillAt = "split" /\ n <= Len(chunks)
      /\ UNCHANGED <<total, scores, scan, chunks, backfillAt, sentTo>>
  BY <1>1 DEF Split
<1>3. \/ /\ c.end - a > Quantum
         /\ pieces' = Append(pieces, Piece(a, b)) /\ split' = [split EXCEPT !.start = b]
      \/ /\ c.end - a <= Quantum
         /\ pieces' = IF a < c.end THEN Append(pieces, Piece(a, c.end)) ELSE pieces
         /\ split' = SplitFrom(chunks, n + 1)
  BY <1>1 DEF Split
<1>4. /\ ScanInv /\ ChunksInv /\ SpokenInv /\ AtSplit /\ PiecesInv /\ total \in Nat
      /\ split \in [chunk : Nat \ {0}, start : Nat] /\ sentTo \in Seq(Results) /\ Len(sentTo) <= Len(pieces)
      /\ scores \in Seq(0..2) /\ Apart(chunks) /\ chunks \in Seq(Spans) /\ Apart(pieces) /\ pieces \in Seq(Spans)
  BY <1>2 DEF BackfillInv, SplitInv, ChunksInv, ScanInv, PiecesInv, Apart
<1>5. n \in Nat /\ n >= 1 /\ a \in Nat /\ n \in DOMAIN chunks
  BY <1>1, <1>2, <1>4
<1>6. c \in Spans /\ c.start \in Nat /\ c.end \in Nat /\ c = Piece(c.start, c.end) /\ c.end <= total
  <2>1. c \in Spans /\ c.start \in Nat /\ c.end \in Nat
    BY <1>1, <1>4, <1>5, SpanAt
  <2> QED
    BY <1>1, <1>4, <1>5, <2>1 DEF Spans, Piece, Apart
<1>7. /\ c.start <= a /\ a < c.end /\ (a = c.start \/ c.end - a >= MinPiece) /\ UpTo(pieces, a)
  BY <1>1, <1>4, <1>5 DEF AtSplit
<1>8. ScanInv' /\ ChunksInv' /\ SpokenInv'
  <2>1. ScanInv'
    BY <1>2, <1>4 DEF ScanInv, Here, IsScan, Fields, Counts
  <2>2. ChunksInv'
    BY <1>2, <1>4 DEF ChunksInv, Apart
  <2>3. SpokenInv'
    BY <1>2, <1>4 DEF SpokenInv, Here, FrameAt, In, Open
  <2> QED
    BY <2>1, <2>2, <2>3
<1>9. Sized(pieces, chunks)
  BY <1>4 DEF PiecesInv, Sized
<1>10. \A k \in DOMAIN chunks : \A x \in Int :
         chunks[k].start <= x /\ x < chunks[k].end /\ (k < n \/ (k = n /\ x < a)) => In(pieces, x)
  BY <1>1, <1>4 DEF PiecesInv
<1>11. CASE c.end - a > Quantum
  <2>1. pieces' = Append(pieces, Piece(a, b)) /\ split' = [split EXCEPT !.start = b]
    BY <1>3, <1>6, <1>5, <1>11, BackfillConstants
  <2>2. PICK from, cap : from = a + MinPiece /\ cap = SplitCap(c, a)
    OBVIOUS
  <2>3. from \in Nat /\ cap \in Nat /\ from < cap /\ cap <= a + Quantum /\ cap <= c.end - MinPiece
    BY <1>5, <1>6, <1>11, <2>2, BackfillConstants DEF SplitCap, LowestScore
  <2>4. b \in Nat /\ b >= a + MinPiece /\ b <= a + Quantum /\ b <= c.end - MinPiece
    <3>1. b \in (from + 1)..cap
      BY <1>1, <1>4, <2>2, <2>3, QuietestBounds
    <3> QED
      BY <1>5, <1>6, <2>2, <2>3, <3>1, BackfillConstants
  <2>5. PICK s : s = Piece(a, b) /\ s.start = a /\ s.end = b
    BY <1>5, <2>4, PieceFields
  <2>6. PartOf(s, c) /\ a < b /\ b <= c.end /\ b - a <= Quantum /\ b < c.end
    BY <1>5, <1>6, <1>7, <2>4, <2>5, BackfillConstants DEF PartOf
  <2>7. PICK ps : ps = Append(pieces, Piece(a, b))
    OBVIOUS
  <2>8. /\ Apart(ps) /\ Sized(ps, chunks) /\ UpTo(ps, b) /\ Len(ps) = Len(pieces) + 1
        /\ \A x \in Int : In(pieces, x) \/ (a <= x /\ x < b) => In(ps, x)
    BY <1>1, <1>4, <1>5, <1>7, <1>9, <2>4, <2>5, <2>6, <2>7, PieceTaken
  <2>9. split' \in [chunk : Nat \ {0}, start : Nat] /\ split'.chunk = n /\ split'.start = b
    BY <1>1, <1>4, <2>1, <2>4
  <2>10. AtSplit'
    <3>1. c.start <= b /\ b < c.end /\ c.end - b >= MinPiece
      BY <1>5, <1>6, <1>7, <2>4, <2>6, BackfillConstants
    <3> QED
      BY <1>1, <1>2, <2>1, <2>7, <2>8, <2>9, <3>1 DEF AtSplit, UpTo
  <2>11. PiecesInv'
    <3>1. ASSUME NEW k \in DOMAIN chunks, NEW x \in Int, chunks[k].start <= x, x < chunks[k].end,
                 k < n \/ (k = n /\ x < b)
          PROVE  In(ps, x)
      <4>1. CASE k < n \/ (k = n /\ x < a)
        BY <1>10, <2>8, <3>1, <4>1
      <4>2. CASE k = n /\ a <= x /\ x < b
        BY <2>8, <4>2
      <4> QED
        BY <1>5, <2>4, <3>1, <4>1, <4>2
    <3>2. Apart(pieces)' /\ pieces' = ps
      BY <1>2, <2>1, <2>7, <2>8 DEF Apart
    <3> QED
      BY <1>2, <2>8, <2>9, <3>1, <3>2 DEF PiecesInv, Sized, PartOf, In
  <2>12. SplitInv'
    BY <1>2, <1>4, <2>1, <2>7, <2>8, <2>9, <2>10, <2>11 DEF SplitInv
  <2> QED
    BY <1>8, <2>12 DEF BackfillInv
<1>12. CASE ~(c.end - a > Quantum)
  <2>1. pieces' = Append(pieces, Piece(a, c.end)) /\ split' = SplitFrom(chunks, n + 1)
    BY <1>3, <1>7, <1>12
  <2>2. PICK b2 \in Nat : b2 = c.end
    BY <1>6
  <2>3. PICK s : s = Piece(a, b2) /\ s.start = a /\ s.end = b2
    BY <1>5, PieceFields
  <2>4. PartOf(s, c) /\ a < b2 /\ b2 <= c.end /\ b2 - a <= Quantum
    BY <1>5, <1>6, <1>7, <1>12, <2>2, <2>3, BackfillConstants DEF PartOf
  <2>5. PICK ps : ps = Append(pieces, Piece(a, b2))
    OBVIOUS
  <2>6. /\ Apart(ps) /\ Sized(ps, chunks) /\ UpTo(ps, b2) /\ Len(ps) = Len(pieces) + 1
        /\ \A x \in Int : In(pieces, x) \/ (a <= x /\ x < b2) => In(ps, x)
    BY <1>1, <1>4, <1>5, <1>7, <1>9, <2>2, <2>3, <2>4, <2>5, PieceTaken
  <2>7. PICK m \in Nat : m = n + 1
    BY <1>5
  <2>8. PICK d : d = IF m \in DOMAIN chunks THEN chunks[m].start ELSE total
    OBVIOUS
  <2>9. d \in Nat /\ (m \in DOMAIN chunks => d = chunks[m].start /\ b2 <= d /\ d < chunks[m].end)
    <3>1. CASE m \in DOMAIN chunks
      <4>1. chunks[n].end <= chunks[m].start /\ chunks[m].start \in Nat /\ chunks[m].start < chunks[m].end
        BY <1>4, <1>5, <2>7, <3>1, SpanAt DEF Apart
      <4> QED
        BY <1>1, <2>2, <2>8, <3>1, <4>1
    <3>2. CASE m \notin DOMAIN chunks
      BY <1>4, <2>8, <3>2
    <3> QED
      BY <3>1, <3>2
  <2>10. split' = [chunk |-> m, start |-> d]
    BY <2>1, <2>7, <2>8 DEF SplitFrom
  <2>11. split' \in [chunk : Nat \ {0}, start : Nat] /\ split'.chunk = m /\ split'.start = d
    BY <1>5, <2>7, <2>9, <2>10
  <2>12. AtSplit'
    <3>1. ASSUME m \in DOMAIN chunks PROVE UpTo(ps, d)
      <4>1. ps \in Seq(Spans)
        BY <2>6 DEF Apart
      <4> QED
        BY <2>6, <2>9, <3>1, <4>1, UpToMore
    <3> QED
      BY <1>2, <2>1, <2>2, <2>5, <2>9, <2>11, <3>1 DEF AtSplit, UpTo
  <2>13. PiecesInv'
    <3>1. ASSUME NEW k \in DOMAIN chunks, NEW x \in Int, chunks[k].start <= x, x < chunks[k].end,
                 k < m \/ (k = m /\ x < d)
          PROVE  In(ps, x)
      <4>1. k \in Nat /\ chunks[k].start \in Nat
        BY <1>4, SpanAt
      <4>2. CASE k < n \/ (k = n /\ x < a)
        BY <1>10, <2>6, <3>1, <4>2
      <4>3. CASE k = n /\ a <= x
        BY <1>1, <2>2, <2>6, <3>1, <4>3
      <4>4. CASE k = m
        BY <2>9, <3>1, <4>1, <4>4
      <4> QED
        BY <1>5, <2>7, <3>1, <4>1, <4>2, <4>3, <4>4
    <3>2. Apart(pieces)' /\ pieces' = ps
      BY <1>2, <2>1, <2>2, <2>5, <2>6 DEF Apart
    <3> QED
      BY <1>2, <2>6, <2>11, <3>1, <3>2 DEF PiecesInv, Sized, PartOf, In
  <2>14. SplitInv'
    BY <1>2, <1>4, <2>1, <2>2, <2>5, <2>6, <2>11, <2>12, <2>13 DEF SplitInv
  <2> QED
    BY <1>8, <2>14 DEF BackfillInv
<1> QED
  BY <1>11, <1>12

(* Neither the scan nor its chunks change any more.                          *)
LEMMA SameScan ==
    ASSUME BackfillInv, backfillAt # "scan", backfillAt' # "scan", UNCHANGED <<total, scores, scan, chunks>>
    PROVE  ScanInv' /\ ChunksInv' /\ SpokenInv'
<1>1. ScanInv'
  BY DEF BackfillInv, ScanInv, Here, IsScan, Fields, Counts
<1>2. ChunksInv'
  BY DEF BackfillInv, ChunksInv, Apart
<1>3. SpokenInv'
  BY DEF BackfillInv, SpokenInv, Here, FrameAt, In, Open
<1> QED
  BY <1>1, <1>2, <1>3

LEMMA SplitDoneStep ==
    ASSUME BackfillInv, SplitDone
    PROVE  BackfillInv'
<1>1. /\ backfillAt = "split" /\ split.chunk > Len(chunks) /\ backfillAt' = "send"
      /\ UNCHANGED <<total, scores, scan, chunks, split, pieces, sentTo>>
  BY DEF SplitDone
<1>2. ScanInv' /\ ChunksInv' /\ SpokenInv'
  BY <1>1, SameScan
<1>3. SplitInv'
  <2>1. PiecesInv'
    BY <1>1 DEF BackfillInv, SplitInv, PiecesInv, Apart, PartOf, In
  <2> QED
    BY <1>1, <2>1 DEF BackfillInv, SplitInv
<1> QED
  BY <1>2, <1>3 DEF BackfillInv

LEMMA SendPieceStep ==
    ASSUME BackfillInv, NEW r \in {"emitted", "skipped", "dead"}, SendPiece(r)
    PROVE  BackfillInv'
<1>1. /\ backfillAt = "send" /\ Len(sentTo) < Len(pieces) /\ backfillAt' \in {"send", "done"}
      /\ UNCHANGED <<total, scores, scan, chunks, split, pieces>>
  BY DEF SendPiece
<1>2. PICK d \in Results : sentTo' = Append(sentTo, d)
  BY DEF SendPiece, Results
<1>3. ScanInv' /\ ChunksInv' /\ SpokenInv'
  BY <1>1, SameScan
<1>4. sentTo' \in Seq(Results) /\ Len(sentTo') <= Len(pieces)
  <2>1. sentTo \in Seq(Results) /\ pieces \in Seq(Spans)
    BY <1>1 DEF BackfillInv, SplitInv, PiecesInv, Apart
  <2>2. Append(sentTo, d) \in Seq(Results) /\ Len(Append(sentTo, d)) = Len(sentTo) + 1
    BY <2>1
  <2>3. Len(sentTo) \in Nat /\ Len(pieces) \in Nat
    BY <2>1
  <2> QED
    BY <1>1, <1>2, <2>2, <2>3
<1>5. SplitInv'
  <2>1. PiecesInv'
    BY <1>1 DEF BackfillInv, SplitInv, PiecesInv, Apart, PartOf, In
  <2> QED
    BY <1>1, <1>4, <2>1 DEF BackfillInv, SplitInv
<1> QED
  BY <1>3, <1>5 DEF BackfillInv

LEMMA BackfillDoneStep ==
    ASSUME BackfillInv, BackfillDone
    PROVE  BackfillInv'
<1>1. /\ backfillAt = "send" /\ backfillAt' = "done"
      /\ UNCHANGED <<total, scores, scan, chunks, split, pieces, sentTo>>
  BY DEF BackfillDone
<1>2. ScanInv' /\ ChunksInv' /\ SpokenInv'
  BY <1>1, SameScan
<1>3. SplitInv'
  <2>1. PiecesInv'
    BY <1>1 DEF BackfillInv, SplitInv, PiecesInv, Apart, PartOf, In
  <2> QED
    BY <1>1, <2>1 DEF BackfillInv, SplitInv
<1> QED
  BY <1>2, <1>3 DEF BackfillInv

LEMMA BackfillStep == BackfillInv /\ [BackfillNext]_backfillVars => BackfillInv'
<1> SUFFICES ASSUME BackfillInv, [BackfillNext]_backfillVars PROVE BackfillInv'
  OBVIOUS
<1>1. ASSUME NEW p \in 0..2, Frame(p) PROVE BackfillInv'
  BY <1>1, FrameStep
<1>2. ASSUME NEW r \in {"emitted", "skipped", "dead"}, SendPiece(r) PROVE BackfillInv'
  BY <1>2, SendPieceStep
<1>3. CASE UNCHANGED backfillVars
  BY <1>3 DEF backfillVars, BackfillInv, ScanInv, ChunksInv, SpokenInv, SplitInv, AtSplit, PiecesInv,
     Here, FrameAt, IsScan, Fields, Counts, Apart, UpTo, In, Open, PartOf
<1> QED
  BY <1>1, <1>2, <1>3, EndScanStep, NoVadStep, SplitStep, SplitDoneStep, BackfillDoneStep DEF BackfillNext

(* What the invariant says of the samples.                                   *)
LEMMA BackfillCut ==
    ASSUME BackfillInv
    PROVE  SpeechCutOnce
<1>1. /\ total \in Nat /\ scan.start \in Nat /\ scan.prevEnd \in Nat /\ Apart(chunks) /\ chunks \in Seq(Spans)
      /\ (scan.speaking => scan.prevEnd <= scan.start)
  BY DEF BackfillInv, ScanInv, ChunksInv, IsScan, Counts, Apart
<1>2. ASSUME NEW x \in 0..total - 1, Open(x) PROVE ~In(chunks, x)
  <2>1. UpTo(chunks, scan.prevEnd) /\ scan.prevEnd <= scan.start /\ scan.start <= x
    BY <1>1, <1>2 DEF Open, BackfillInv, ChunksInv
  <2> SUFFICES ASSUME NEW i \in DOMAIN chunks, x < chunks[i].end PROVE FALSE
    BY DEF In
  <2>2. chunks[i].end \in Nat /\ chunks[i].end <= scan.prevEnd
    BY <1>1, <2>1, SpanAt DEF UpTo
  <2> QED
    BY <1>1, <2>1, <2>2
<1>3. ASSUME NEW x \in 0..total - 1
      PROVE  Cardinality(Covers(chunks, x)) + (IF Open(x) THEN 1 ELSE 0) <= 1
  <2>1. x \in Int
    BY <1>1
  <2>2. Cardinality(Covers(chunks, x)) = IF In(chunks, x) THEN 1 ELSE 0
    BY <1>1, <2>1, OneCover
  <2> QED
    BY <1>2, <2>2
<1>4. ASSUME NEW x \in SpokenFrames PROVE Covers(chunks, x) # {} \/ Open(x)
  <2>1. In(chunks, x) \/ Open(x)
    BY DEF SpokenFrames, BackfillInv, SpokenInv, Here
  <2> QED
    BY <2>1, InIsCovers
<1> QED
  BY <1>3, <1>4 DEF SpeechCutOnce

LEMMA BackfillPieces ==
    ASSUME BackfillInv
    PROVE  PiecesExact
<1> SUFFICES ASSUME backfillAt \in {"send", "done"} PROVE PiecesExact
  BY DEF PiecesExact
<1>1. /\ Apart(chunks) /\ Apart(pieces) /\ chunks \in Seq(Spans) /\ pieces \in Seq(Spans)
      /\ PiecesInv /\ split.chunk > Len(chunks) /\ split.chunk \in Nat /\ total \in Nat
  BY DEF BackfillInv, ScanInv, ChunksInv, SplitInv, PiecesInv, Apart
<1>2. ASSUME NEW x \in Int, In(pieces, x) PROVE In(chunks, x)
  <2>1. PICK i \in DOMAIN pieces : pieces[i].start <= x /\ x < pieces[i].end
    BY <1>2 DEF In
  <2>2. PICK c \in DOMAIN chunks : PartOf(pieces[i], chunks[c])
    BY <1>1, <2>1 DEF PiecesInv
  <2>3. /\ pieces[i].start \in Nat /\ pieces[i].end \in Nat /\ chunks[c].start \in Nat /\ chunks[c].end \in Nat
    BY <1>1, SpanAt
  <2>4. chunks[c].start <= x /\ x < chunks[c].end
    BY <2>1, <2>2, <2>3 DEF PartOf
  <2> QED
    BY <2>4 DEF In
<1>3. ASSUME NEW x \in Int, In(chunks, x) PROVE In(pieces, x)
  <2>1. PICK c \in DOMAIN chunks : chunks[c].start <= x /\ x < chunks[c].end
    BY <1>3 DEF In
  <2>2. c < split.chunk
    <3>1. c \in Nat /\ c <= Len(chunks) /\ Len(chunks) \in Nat
      BY <1>1, SpanAt
    <3> QED
      BY <1>1, <3>1
  <2> QED
    BY <1>1, <2>1, <2>2 DEF PiecesInv
<1>4. ASSUME NEW x \in 0..total - 1
      PROVE  Cardinality(Covers(pieces, x)) = Cardinality(Covers(chunks, x))
  <2>1. x \in Int
    BY <1>1
  <2>2. /\ Cardinality(Covers(pieces, x)) = (IF In(pieces, x) THEN 1 ELSE 0)
        /\ Cardinality(Covers(chunks, x)) = (IF In(chunks, x) THEN 1 ELSE 0)
    BY <1>1, <2>1, OneCover
  <2> QED
    BY <1>2, <1>3, <2>1, <2>2
<1>5. /\ \A i \in DOMAIN pieces : pieces[i].end - pieces[i].start <= Quantum
      /\ \A i, j \in DOMAIN pieces : i < j => pieces[i].end <= pieces[j].start
  BY <1>1 DEF PiecesInv, Apart
<1>6. ASSUME NEW i \in DOMAIN pieces, NEW c \in Covers(chunks, pieces[i].start)
      PROVE  pieces[i] = chunks[c] \/ pieces[i].end - pieces[i].start >= MinPiece
  <2>1. PICK d \in DOMAIN chunks : PartOf(pieces[i], chunks[d])
    BY <1>1 DEF PiecesInv
  <2>2. PICK x : x = pieces[i].start
    OBVIOUS
  <2>3. x \in Nat /\ pieces[i].end \in Nat /\ x < pieces[i].end /\ chunks[d].start \in Nat /\ chunks[d].end \in Nat
    BY <1>1, <2>2, SpanAt DEF Apart
  <2>4. c \in Covers(chunks, x) /\ d \in Covers(chunks, x)
    BY <2>1, <2>2, <2>3 DEF Covers, PartOf
  <2>5. c = d
    BY <1>1, <2>3, <2>4, SameCover
  <2> QED
    BY <2>1, <2>5 DEF PartOf
<1> QED
  BY <1>4, <1>5, <1>6 DEF PiecesExact

LEMMA BackfillInvSuffices == BackfillInv => BackfillExact
<1> SUFFICES ASSUME BackfillInv PROVE BackfillExact
  OBVIOUS
<1>1. BackfillTypeOK
  BY DEF BackfillInv, ScanInv, SplitInv, IsScan, Counts, BackfillTypeOK
<1> QED
  BY <1>1, BackfillCut, BackfillPieces DEF BackfillExact

------------------------------------------------------------------------------
(* The parts together: each is in one of its own states.                     *)
AudioInv == RingInv /\ DrainInv /\ BackfillInv

LEMMA AudioStart == LiveInit => AudioInv
BY RingInitInv, DrainInitInv, BackfillInitInv DEF LiveInit, AudioInv

LEMMA AudioStep == AudioInv /\ [LiveNext]_liveVars => AudioInv'
<1> SUFFICES ASSUME AudioInv, [LiveNext]_liveVars PROVE AudioInv'
  OBVIOUS
<1>1. [RingNext]_ringVars
  BY DEF LiveNext, liveVars
<1>2. [DrainNext]_drainVars
  BY DEF LiveNext, liveVars
<1>3. [BackfillNext]_backfillVars
  BY DEF LiveNext, liveVars
<1> QED
  BY <1>1, <1>2, <1>3, RingStep, DrainStep, BackfillStep DEF AudioInv

(* However the callback writes beside a snapshot, whatever the rates of the  *)
(* two rings and whatever the VAD scores: a snapshot holds no older sample   *)
(* than it names, and the very one while the writer has not lapped it; a     *)
(* drain takes no frame twice and leaves none out that the ring still holds; *)
(* and every spoken frame of the backfill is in one chunk and in one job.    *)
THEOREM AudioReadOnceHolds == LiveSpec => []AudioReadOnce
<1>1. AudioInv => AudioReadOnce
  BY RingInvSuffices, DrainInvSuffices, BackfillInvSuffices DEF AudioInv, AudioReadOnce
<1> QED
  BY <1>1, AudioStart, AudioStep, PTL DEF LiveSpec
==============================================================================
