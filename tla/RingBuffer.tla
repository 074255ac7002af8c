------------------------------ MODULE RingBuffer ------------------------------
(* AudioRingBuffer: one writer, the capture callback, stores a burst of      *)
(* samples cell by cell and then publishes the write position; readers load  *)
(* the position, work out the range that is still held and copy it cell by   *)
(* cell while the writer goes on.  A sample is the position it was written   *)
(* at.  Cells are relaxed atomics: the release store of the position makes   *)
(* everything before it visible, and a reader may also see what is newer.    *)
EXTENDS Integers, FiniteSets, FiniteSetsExt

CONSTANTS RingCapacity, MaxSamples, MaxBurst
ASSUME RingAssumption ==
  /\ {RingCapacity, MaxSamples, MaxBurst} \subseteq Nat /\ RingCapacity > 0

VARIABLES cell,      \* the buffer
          writePos,  \* the published position
          burst,     \* the samples of the burst that are still to be stored
          burstEnd,  \* the position after the burst
          reading,   \* a read under way: its range and the next position
          copied,    \* what it has copied
          cursor     \* where the reader goes on
ringVars == <<cell, writePos, burst, burstEnd, reading, copied, cursor>>
writerVars == <<cell, writePos, burst, burstEnd>>
readerVars == <<reading, copied, cursor>>

NoRead == [at |-> "idle", start |-> 0, next |-> 0, end |-> 0, seen |-> 0]
Silence == -1

RingInit ==
  /\ cell = [i \in 0..(RingCapacity - 1) |-> Silence] /\ writePos = 0
  /\ burst = {} /\ burstEnd = 0 /\ reading = NoRead /\ copied = <<>> /\ cursor = 0

(* write: of a burst larger than the buffer only the last part is stored.    *)
WriteBegins ==
  /\ burst = {} /\ burstEnd = writePos
  /\ \E n \in 1..MaxBurst :
       /\ writePos + n <= MaxSamples /\ burstEnd' = writePos + n
       /\ burst' = {p \in writePos..(burstEnd' - 1) : p >= burstEnd' - RingCapacity}
  /\ UNCHANGED <<cell, writePos, readerVars>>
WriteCell ==
  /\ burst # {} /\ LET p == Min(burst) IN cell' = [cell EXCEPT ![p % RingCapacity] = p]
  /\ burst' = burst \ {Min(burst)}
  /\ UNCHANGED <<writePos, burstEnd, readerVars>>
(* Mutant: the position is published before the samples are stored. *)
PublishEarly ==
  /\ burstEnd # writePos /\ writePos' = burstEnd
  /\ UNCHANGED <<cell, burst, burstEnd, readerVars>>
Publish ==
  /\ burst = {} /\ burstEnd # writePos /\ writePos' = burstEnd
  /\ UNCHANGED <<cell, burst, burstEnd, readerVars>>

Earliest == IF writePos > RingCapacity THEN writePos - RingCapacity ELSE 0

(* snapshot_range, and snapshot_since_with_pos when there is no limit: the   *)
(* start moves up to what is held.                                           *)
ReadBegins ==
  /\ reading.at = "idle"
  /\ \E bounded \in BOOLEAN, until \in (cursor + 1)..MaxSamples :
       LET end == IF bounded /\ until < writePos THEN until ELSE writePos
           start == IF cursor > Earliest THEN cursor ELSE Earliest
       IN /\ end > cursor
          /\ \/ /\ end <= start /\ cursor' = start /\ UNCHANGED <<reading, copied>>
             \/ /\ end > start /\ copied' = <<>> /\ UNCHANGED cursor
                /\ reading' = [at |-> "copy", start |-> start, next |-> start, end |-> end,
                               seen |-> writePos]
  /\ UNCHANGED writerVars
ReadCell ==
  /\ reading.at = "copy" /\ reading.next < reading.end
  /\ copied' = [p \in reading.start..reading.next |->
                  IF p = reading.next THEN cell[p % RingCapacity] ELSE copied[p]]
  /\ reading' = [reading EXCEPT !.next = @ + 1]
  /\ UNCHANGED <<writerVars, cursor>>
ReadEnds ==
  /\ reading.at = "copy" /\ reading.next = reading.end
  /\ cursor' = reading.end /\ reading' = NoRead /\ copied' = <<>>
  /\ UNCHANGED writerVars

RingNext == WriteBegins \/ WriteCell \/ Publish \/ ReadBegins \/ ReadCell \/ ReadEnds
RingSpec == RingInit /\ [][RingNext]_ringVars

------------------------------------------------------------------------------
RingTypeOK ==
  /\ cell \in [0..(RingCapacity - 1) -> Silence..(MaxSamples - 1)]
  /\ {writePos, burstEnd, cursor} \subseteq 0..MaxSamples /\ burst \subseteq 0..(MaxSamples - 1)

(* A snapshot never returns an older sample than it was asked for, nor an    *)
(* unwritten one: a copied cell holds its position or, where the writer has  *)
(* lapped the reader since, a later lap of the same cell; and while the      *)
(* writer stays within a capacity of the range's start it is exact.          *)
SnapshotSound ==
  reading.at = "copy" =>
    \A p \in reading.start..(reading.next - 1) :
      /\ copied[p] >= p /\ (copied[p] - p) % RingCapacity = 0
      /\ burstEnd <= reading.start + RingCapacity => copied[p] = p
================================================================================
