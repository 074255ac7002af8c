---------------------------- MODULE MC_AudioBlobs ----------------------------
(***************************************************************************)
(* TLC instance of AudioBlobs for two populations of clients: desktops,    *)
(* which reseal every attempt, with the collector at work; and clients     *)
(* that present the same hashes again, which the relay deduplicates, with  *)
(* the collector at rest and every presign awaited.                        *)
(***************************************************************************)
EXTENDS AudioBlobs

CONSTANT MaxShared   \* bound: hashes the deduplicated clients present

VARIABLE desktops    \* the population

lane == <<vars, desktops>>

LaneInit == Init /\ desktops \in BOOLEAN

Shared == sweeps' = 0 /\ giveups' = 0 /\ Cardinality(tried') <= MaxShared

LaneNext ==
    /\ Next
    /\ IF desktops THEN Resealed ELSE Shared
    /\ UNCHANGED desktops

(* FairSpec, with the collector's timer where it runs.                     *)
LaneSpec ==
    /\ LaneInit /\ [][LaneNext]_lane
    /\ \A h \in Handlers : WF_vars(Presign(h))
    /\ \A p \in Parts : WF_vars(Put(p))
    /\ \A x \in Hashes : WF_vars(Age(x))
    /\ WF_vars(desktops /\ Sweep)

(* Nothing in the desktops' lane stays half done: an upload that has begun *)
(* ends, and what nobody references is collected.  (Deduplicated clients   *)
(* can swap two blobs and deadlock on their rows; PostgreSQL then aborts   *)
(* one of the two, which is a fault here.)                                 *)
LaneSettles == desktops => UploadsEnd /\ Reclaimed
=============================================================================
