----------------------------- MODULE MC_Accounts -----------------------------
(* What an account's devices share through the relay and keep for it, in     *)
(* parts that are explored each from its own states: the roster, the session *)
(* at rest, the fetches and uploads of audio, the repair of merged tables    *)
(* and the snapshots.                                                        *)
EXTENDS DeviceRoster, SessionStore, AudioFetch, UploadQueue, Repair, SnapshotStore

VARIABLE part
accountVars ==
  <<part, rosterVars, storeVars, fetchVars, uploadVars, repairVars, snapVars>>

AccountInit ==
  /\ part \in {"roster", "store", "fetch", "upload", "repair", "snapshot"}
  /\ RosterInit /\ StoreInit /\ FetchInit /\ UploadInit /\ RepairInit /\ SnapInit
  /\ part # "repair" => \A d \in Replicas : converted[d]

AccountNext ==
  \/ /\ part = "roster" /\ RosterNext
     /\ UNCHANGED <<part, storeVars, fetchVars, uploadVars, repairVars, snapVars>>
  \/ /\ part = "store" /\ StoreNext
     /\ UNCHANGED <<part, rosterVars, fetchVars, uploadVars, repairVars, snapVars>>
  \/ /\ part = "fetch" /\ FetchNext
     /\ UNCHANGED <<part, rosterVars, storeVars, uploadVars, repairVars, snapVars>>
  \/ /\ part = "upload" /\ UploadNext
     /\ UNCHANGED <<part, rosterVars, storeVars, fetchVars, repairVars, snapVars>>
  \/ /\ part = "repair" /\ RepairNext
     /\ UNCHANGED <<part, rosterVars, storeVars, fetchVars, uploadVars, snapVars>>
  \/ /\ part = "snapshot" /\ SnapNext
     /\ UNCHANGED <<part, rosterVars, storeVars, fetchVars, uploadVars, repairVars>>

AccountSpec == AccountInit /\ [][AccountNext]_accountVars

SizeOf  == [s \in Seals |-> IF s = "a" THEN 1 ELSE 2]
LevelOf == [s \in Seals |-> IF s = "b" THEN 1 ELSE 0]

(* The desktop's two audio lanes: the fetch registry serves whoever waits    *)
(* within its permits, and no recording is forgotten by the uploader.        *)
AudioLanesSound == FetchSound /\ UploadTypeOK /\ NoneForgotten
==============================================================================
