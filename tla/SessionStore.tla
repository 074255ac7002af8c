----------------------------- MODULE SessionStore -----------------------------
(***************************************************************************)
(* Where the desktop keeps its signed-in session (sync.rs, release build): *)
(* a sealed file and, in the keychain, the key and epoch that open it; the *)
(* device identity in a keychain entry of its own; and the credential      *)
(* cache in front of both.  Writers are serialised by session_store_lock,  *)
(* readers take no lock, every store call can fail, and the process can    *)
(* die between any two.  What the session says is in SessionTokens; here   *)
(* it is a version, the epoch it is sealed under, and the key.             *)
(***************************************************************************)
EXTENDS Naturals

CONSTANTS Writers, Ui,        \* threads that write: the commands (Ui) and the drain
          Epochs,             \* vault key epochs a sign-in may bring
          MaxWrites, MaxStoreFaults, MaxDeaths
ASSUME StoreAssumption ==
  /\ {MaxWrites, MaxStoreFaults, MaxDeaths} \subseteq Nat /\ 0 \in Epochs
  /\ Ui \in Writers /\ "nobody" \notin Writers

VARIABLES sealed,      \* sync-session.enc: [v, id, epoch, key], or Nothing
          entry,       \* session-key-v1: [epoch, key], or Nothing
          identity,    \* identity-v1, 0 before there is one
          cached,      \* CredCacheInner: [loaded, v, id]; 0 is None
          storeLock,   \* session_store_lock
          job,         \* what each writer does
          minted,      \* keys, identities and versions handed out so far
          kept,        \* the version of the last store that completed, 0 after a sign-out
          out,         \* the last thing done was a sign-out
          storeUsed
storeVars == <<sealed, entry, identity, cached, storeLock, job, minted, kept, out, storeUsed>>
atRest    == <<sealed, entry, identity>>

Nothing == [v |-> 0, id |-> 0, epoch |-> 0, key |-> 0]
NoOne   == "nobody"
NoJob   == [at |-> "idle", kind |-> "none", s |-> Nothing]
Cold    == [loaded |-> FALSE, v |-> 0, id |-> 0]

StoreInit ==
  /\ sealed = Nothing /\ entry = Nothing /\ identity = 0 /\ cached = Cold
  /\ storeLock = NoOne /\ job = [w \in Writers |-> NoJob]
  /\ minted = [key |-> 0, id |-> 0, v |-> 0] /\ kept = 0 /\ out = FALSE
  /\ storeUsed = [write |-> 0, fault |-> 0, death |-> 0]

(* A keychain or file call that fails, and one that works. *)
Fails == storeUsed.fault < MaxStoreFaults /\ storeUsed' = [storeUsed EXCEPT !.fault = @ + 1]
Works == UNCHANGED storeUsed
To(w, at) == job' = [job EXCEPT ![w].at = at]
Done(w)   == job' = [job EXCEPT ![w] = NoJob]
Begins(w, kind, id, e) ==
  job' = [job EXCEPT ![w] = [at |-> "lock", kind |-> kind, s |-> [Nothing EXCEPT !.id = id, !.epoch = e]]]
Unlocks(w) == storeLock' = IF storeLock = w THEN NoOne ELSE storeLock

(* load_session_wrapped: the session opens under the entry's key and epoch; *)
(* every other combination reads as signed out, and nothing is deleted.     *)
Opens == IF sealed # Nothing /\ entry # Nothing /\ sealed.key = entry.key /\ sealed.epoch = entry.epoch
           THEN sealed.v ELSE 0

------------------------------------------------------------------------------
(* Writers.                                                                *)

(* store_session of a sign-in, which carries the identity and brings an     *)
(* epoch; of a refresh, which writes back the whole session it had read;    *)
(* update_session; clear_session.                                           *)
Write(w) ==
  /\ job[w].at = "idle" /\ storeUsed.write < MaxWrites
  /\ storeUsed' = [storeUsed EXCEPT !.write = @ + 1]
  /\ \/ w = Ui /\ identity # 0 /\ \E e \in Epochs : Begins(w, "store", identity, e)
     \/ w # Ui /\ Opens # 0 /\ Begins(w, "store", sealed.id, sealed.epoch)
     \/ Begins(w, "update", 0, 0)
     \/ w = Ui /\ Begins(w, "clear", 0, 0)
  /\ UNCHANGED <<atRest, cached, storeLock, minted, kept, out>>

Entered(w) ==
  /\ job' = [job EXCEPT ![w].at = CASE job[w].kind = "store" -> "key" [] job[w].kind = "update" -> "load" [] OTHER -> "remove",
                        ![w].s.v = minted.v + 1]
  /\ minted' = [minted EXCEPT !.v = @ + 1] /\ storeLock' = w
  /\ UNCHANGED <<atRest, cached, kept, out, storeUsed>>

(* Mutant: the writers do not wait for each other. *)
LockFree(w) == job[w].at = "lock" /\ Entered(w)
Lock(w)     == job[w].at = "lock" /\ storeLock = NoOne /\ Entered(w)

(* update_session re-reads the session under the lock. *)
LoadForUpdate(w) ==
  /\ job[w].at = "load"
  /\ \/ Works /\ Opens # 0 /\ UNCHANGED storeLock
        /\ job' = [job EXCEPT ![w].at = "key", ![w].s.epoch = sealed.epoch, ![w].s.id = sealed.id]
     \/ Works /\ Opens = 0 /\ Done(w) /\ Unlocks(w)
     \/ Fails /\ Done(w) /\ Unlocks(w)
  /\ UNCHANGED <<atRest, cached, minted, kept, out>>

(* store_session_wrapped_locked: reuse the wrapping key or mint one ... *)
(* Mutant: every store mints a key of its own. *)
TakeKeyFresh(w) ==
  /\ job[w].at = "key" /\ Works /\ UNCHANGED storeLock
  /\ job' = [job EXCEPT ![w].at = "seal", ![w].s.key = minted.key + 1]
  /\ minted' = [minted EXCEPT !.key = @ + 1]
  /\ UNCHANGED <<atRest, cached, kept, out>>
TakeKey(w) ==
  /\ job[w].at = "key"
  /\ \/ Works /\ entry # Nothing /\ UNCHANGED <<storeLock, minted>>
        /\ job' = [job EXCEPT ![w].at = "seal", ![w].s.key = entry.key]
     \/ Works /\ entry = Nothing /\ UNCHANGED storeLock
        /\ job' = [job EXCEPT ![w].at = "seal", ![w].s.key = minted.key + 1]
        /\ minted' = [minted EXCEPT !.key = @ + 1]
     \/ Fails /\ Done(w) /\ Unlocks(w) /\ UNCHANGED minted
  /\ UNCHANGED <<atRest, cached, kept, out>>

(* ... write_session_blob: a temporary file, fsync, one rename ... *)
WriteBlob(w) ==
  /\ job[w].at = "seal"
  /\ \/ /\ Works /\ sealed' = job[w].s /\ To(w, "entry") /\ UNCHANGED storeLock
        /\ kept' = IF entry # Nothing /\ entry.epoch # job[w].s.epoch THEN 0 ELSE kept
        /\ out' = FALSE
     \/ Fails /\ Done(w) /\ Unlocks(w) /\ UNCHANGED <<sealed, kept, out>>
  /\ UNCHANGED <<entry, identity, cached, minted>>

(* ... then the entry, which commits the pair. *)
SetKey(w) ==
  /\ job[w].at = "entry" /\ Unlocks(w)
  /\ \/ Works /\ entry' = [job[w].s EXCEPT !.v = 0, !.id = 0] /\ To(w, "publish") /\ kept' = job[w].s.v
     \/ Fails /\ Done(w) /\ UNCHANGED <<entry, kept>>
  /\ UNCHANGED <<sealed, identity, cached, minted, out>>

(* clear_session_wrapped: both removals are tried, neither result matters. *)
(* Mutant: the key is left when the file could not be removed. *)
RemoveBlobFirst(w) ==
  /\ job[w].at = "remove"
  /\ \/ Works /\ sealed' = Nothing /\ To(w, "forget") /\ UNCHANGED storeLock
     \/ Fails /\ UNCHANGED sealed /\ To(w, "publish") /\ Unlocks(w)
  /\ kept' = 0 /\ out' = TRUE
  /\ UNCHANGED <<entry, identity, cached, minted>>
RemoveBlob(w) ==
  /\ job[w].at = "remove" /\ To(w, "forget")
  /\ \/ Works /\ sealed' = Nothing
     \/ Fails /\ UNCHANGED sealed
  /\ kept' = 0 /\ out' = FALSE
  /\ UNCHANGED <<entry, identity, cached, storeLock, minted>>
DeleteKey(w) ==
  /\ job[w].at = "forget" /\ Unlocks(w) /\ To(w, "publish") /\ out' = TRUE
  /\ \/ Works /\ entry' = Nothing
     \/ Fails /\ UNCHANGED entry
  /\ UNCHANGED <<sealed, identity, cached, minted, kept>>

(* The cache follows, after the lock is gone. *)
Publish(w) ==
  /\ job[w].at = "publish" /\ Done(w)
  /\ cached' = [cached EXCEPT !.loaded = TRUE, !.v = IF job[w].kind = "clear" THEN 0 ELSE job[w].s.v]
  /\ UNCHANGED <<atRest, storeLock, minted, kept, out, storeUsed>>

------------------------------------------------------------------------------
(* Readers and the identity.                                               *)

(* ensure_cache_loaded: once both reads succeed the cache is authoritative; *)
(* a failed read leaves its half empty and the next access reads again.     *)
Loaded == IF cached.loaded THEN cached ELSE [loaded |-> TRUE, v |-> Opens, id |-> identity]
Ensure == \/ Works /\ cached' = Loaded
          \/ /\ ~cached.loaded /\ Fails
             /\ cached' \in {Cold, [Cold EXCEPT !.v = Opens], [Cold EXCEPT !.id = identity]}

(* sync_status polls. *)
Poll == Ensure /\ UNCHANGED <<atRest, storeLock, job, minted, kept, out>>

(* load_or_create_device_identity: the identity entry, whose absence is    *)
(* what a failed read looks like ...                                       *)
FindIdentity(w) ==
  /\ w = Ui /\ job[w].at = "idle" /\ storeUsed.write < MaxWrites
  /\ Ensure /\ cached'.id = 0
  /\ job' = [job EXCEPT ![w] = [NoJob EXCEPT !.at = "adopt", !.kind = "identity"]]
  /\ UNCHANGED <<atRest, storeLock, minted, kept, out>>

(* ... or the one the session carries ... *)
AdoptIdentity(w) ==
  /\ job[w].at = "adopt" /\ Ensure
  /\ job' = [job EXCEPT ![w].at = "mint", ![w].s.id = IF cached'.v # 0 THEN sealed.id ELSE minted.id + 1]
  /\ UNCHANGED <<atRest, storeLock, minted, kept, out>>

(* ... or a new one; store_identity marks the cache loaded. *)
StoreIdentity(w) ==
  /\ job[w].at = "mint" /\ Done(w)
  /\ \/ /\ Works /\ identity' = job[w].s.id /\ minted' = [minted EXCEPT !.id = IF @ < identity' THEN identity' ELSE @]
        /\ cached' = [cached EXCEPT !.loaded = TRUE, !.id = identity']
     \/ Fails /\ UNCHANGED <<identity, minted, cached>>
  /\ UNCHANGED <<sealed, entry, storeLock, kept, out>>

(* The process dies and starts again with a cold cache. *)
Die ==
  /\ storeUsed.death < MaxDeaths /\ storeUsed' = [storeUsed EXCEPT !.death = @ + 1]
  /\ cached' = Cold /\ storeLock' = NoOne /\ job' = [w \in Writers |-> NoJob]
  /\ UNCHANGED <<atRest, minted, kept, out>>

StoreNext == \/ Poll \/ Die
             \/ \E w \in Writers : \/ Write(w) \/ Lock(w) \/ LoadForUpdate(w) \/ TakeKey(w)
                                   \/ WriteBlob(w) \/ SetKey(w) \/ RemoveBlob(w) \/ DeleteKey(w)
                                   \/ Publish(w) \/ FindIdentity(w) \/ AdoptIdentity(w) \/ StoreIdentity(w)
StoreSpec == StoreInit /\ [][StoreNext]_storeVars

------------------------------------------------------------------------------
StoreTypeOK ==
  /\ storeLock \in Writers \cup {NoOne} /\ out \in BOOLEAN /\ kept \in Nat
  /\ \A x \in {sealed, entry} : x.epoch \in Epochs /\ x.key <= minted.key
  /\ cached.v <= minted.v /\ cached.id <= minted.id /\ identity <= minted.id

(* A session whose store completed can always be opened again, at that or a *)
(* later version, wherever the process dies, whichever single call fails    *)
(* and however the drain's refresh and a command write at once - until a    *)
(* sign-out, or a sign-in at another epoch that died half way.              *)
StoreSurvives == kept # 0 => Opens >= kept

(* A sign-out of which one removal failed still leaves nothing to open.     *)
SignOutEffective == out /\ storeUsed.fault <= 1 => Opens = 0

(* The identity of an install is minted once: "a re-login on the SAME       *)
(* install presents the SAME client_id".                                    *)
IdentityKept == [][identity # 0 => identity' = identity]_storeVars

(* The session at rest: no crash or failed call between the key and the file *)
(* loses a session that was stored, and none lets a signed-out one be opened *)
(* again.                                                                    *)
StoreSound == StoreTypeOK /\ StoreSurvives /\ SignOutEffective
==============================================================================
