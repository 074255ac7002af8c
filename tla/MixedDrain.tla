------------------------------ MODULE MixedDrain ------------------------------
(* How a mixed session drains its two rings: extract_since takes what both   *)
(* have, trims each source to the shorter duration at its own rate, and      *)
(* gives the rest back by its position.  Positions count mono frames.  The   *)
(* durations are exact here; the code's f64 product may truncate one frame   *)
(* more.                                                                     *)
EXTENDS Naturals

CONSTANTS MicRate, SysRate,   \* frames per unit of time
          DrainCapacity,      \* of both rings
          MaxFrames, MaxWrite \* bounds on the frames of a ring and of a callback
ASSUME MixedDrainAssumption ==
  /\ {MicRate, SysRate, DrainCapacity, MaxFrames, MaxWrite} \subseteq Nat
  /\ MicRate > 0 /\ SysRate > 0 /\ DrainCapacity > 0

VARIABLES micAt, sysAt,   \* frames written
          drained,        \* BufferPositions of the session's file
          used,           \* frames taken from each source
          paired          \* those of them taken while both sources had audio
drainVars == <<micAt, sysAt, drained, used, paired>>

Least(a, b)    == IF a < b THEN a ELSE b
FloorSub(a, b) == IF a > b THEN a - b ELSE 0

DrainInit == /\ micAt = 0 /\ sysAt = 0 /\ drained = [mic |-> 0, sys |-> 0]
             /\ used = [mic |-> 0, sys |-> 0] /\ paired = used

MicWrites ==
  \E n \in 1..MaxWrite : micAt + n <= MaxFrames /\ micAt' = micAt + n
                         /\ UNCHANGED <<sysAt, drained, used, paired>>
SysWrites ==
  \E n \in 1..MaxWrite : sysAt + n <= MaxFrames /\ sysAt' = sysAt + n
                         /\ UNCHANGED <<micAt, drained, used, paired>>

(* snapshot_since_with_pos and snapshot_range: how much [from, limit) holds. *)
Held(at, from, limit) ==
  LET end == Least(at, limit)
      start == IF FloorSub(at, DrainCapacity) > from THEN at - DrainCapacity ELSE from
  IN FloorSub(end, start)
EndOf(at, from, limit) ==
  IF Least(at, limit) > from THEN
    LET start == IF FloorSub(at, DrainCapacity) > from THEN at - DrainCapacity ELSE from
    IN IF Least(at, limit) > start THEN Least(at, limit) ELSE start
  ELSE from

(* The frames of m that fit the duration both sources have. *)
Keep(len, rate, other, otherRate) == Least(len, (other * rate) \div otherRate)

(* Mutant: the surplus is taken off the other source's position. *)
TrimmedSwapped(m, s, micEnd, sysEnd) ==
  LET mk == Keep(m, MicRate, s, SysRate)
      sk == Keep(s, SysRate, m, MicRate)
  IN [mic |-> FloorSub(micEnd, s - sk), sys |-> FloorSub(sysEnd, m - mk), mk |-> mk, sk |-> sk]
(* The trimming, and the surplus given back. *)
Trimmed(m, s, micEnd, sysEnd) ==
  LET mk == Keep(m, MicRate, s, SysRate)
      sk == Keep(s, SysRate, m, MicRate)
  IN [mic |-> FloorSub(micEnd, m - mk), sys |-> FloorSub(sysEnd, s - sk), mk |-> mk, sk |-> sk]

(* extract_since and, with limits, extract_since_until, for a mixed source:  *)
(* one source alone is taken whole, at once.                                 *)
Extraction(micLimit, sysLimit) ==
  LET m == Held(micAt, drained.mic, micLimit)
      s == Held(sysAt, drained.sys, sysLimit)
      t == Trimmed(m, s, EndOf(micAt, drained.mic, micLimit), EndOf(sysAt, drained.sys, sysLimit))
  IN /\ m > 0 \/ s > 0
     /\ IF m = 0 \/ s = 0
          THEN /\ drained' = [mic |-> EndOf(micAt, drained.mic, micLimit),
                              sys |-> EndOf(sysAt, drained.sys, sysLimit)]
               /\ used' = [mic |-> used.mic + m, sys |-> used.sys + s]
               /\ UNCHANGED paired
          ELSE /\ drained' = [mic |-> t.mic, sys |-> t.sys]
               /\ used' = [mic |-> used.mic + t.mk, sys |-> used.sys + t.sk]
               /\ paired' = [mic |-> paired.mic + t.mk, sys |-> paired.sys + t.sk]
     /\ UNCHANGED <<micAt, sysAt>>
ExtractSince == Extraction(MaxFrames, MaxFrames)
ExtractSinceUntil == \E ml, sl \in 0..MaxFrames : Extraction(ml, sl)

DrainNext == MicWrites \/ SysWrites \/ ExtractSince \/ ExtractSinceUntil
DrainSpec == DrainInit /\ [][DrainNext]_drainVars

------------------------------------------------------------------------------
DrainTypeOK == {micAt, sysAt, drained.mic, drained.sys, used.mic, used.sys} \subseteq 0..MaxFrames

(* A drain never moves a position backwards or past what was written, and    *)
(* takes every frame at most once: the frames used are at most the frames    *)
(* passed, and all of them while the ring has not lapped the session.        *)
DrainedOnce ==
  /\ drained.mic <= micAt /\ drained.sys <= sysAt
  /\ used.mic <= drained.mic /\ used.sys <= drained.sys
  /\ MaxFrames <= DrainCapacity => used.mic = drained.mic /\ used.sys = drained.sys

(* What the extractions took while both sources had audio lasts the same     *)
(* time in both, to a frame.  The code does not keep this when the rates     *)
(* differ: the fraction of a frame each trimming cuts off is never made up.  *)
MixedAligned ==
  LET a == paired.mic * SysRate
      b == paired.sys * MicRate
      frame == IF MicRate > SysRate THEN MicRate ELSE SysRate
  IN a <= b + frame /\ b <= a + frame
================================================================================
