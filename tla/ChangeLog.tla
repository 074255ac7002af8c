------------------------------ MODULE ChangeLog ------------------------------
(***************************************************************************)
(* What the relay promises about one tenant's change log: a dense,         *)
(* append-only sequence of opaque changesets whose index is the            *)
(* changeset_seq, in which a (client_id, client_seq) pair is stored once.  *)
(* A push is idempotent on the pair; a pair that is already stored under a *)
(* different ciphertext rejects the whole batch (409).                     *)
(*                                                                         *)
(* This is the abstract specification: a push is one atomic step.          *)
(* RelayTx implements it with row locks and READ COMMITTED transactions,   *)
(* SyncEngine drives it from the clients' outboxes.                        *)
(***************************************************************************)
EXTENDS Naturals, Sequences

CONSTANTS Clients,      \* device client_ids of the tenant
          ClientSeqs,   \* client_seq numbers
          Ciphertexts   \* opaque sealed changesets

VARIABLE log   \* the tenant's rows of `changesets', by changeset_seq

Entries == [client : Clients, cseq : ClientSeqs, ct : Ciphertexts]

SamePair(a, b) == a.client = b.client /\ a.cseq = b.cseq

Stored == {log[i] : i \in DOMAIN log}

(* The unique key of a batch: no pair occurs under two ciphertexts.        *)
Coherent(batch) == \A a, b \in batch : SamePair(a, b) => a = b

(* A pair of the batch is held under a different ciphertext.               *)
Conflict(batch) == \E e \in batch : \E s \in Stored : SamePair(e, s) /\ e.ct # s.ct

(* What a batch adds: its entries that are not stored yet.                 *)
Fresh(batch) == batch \ Stored

(* The entries a step adds.                                                *)
Added == {log'[i] : i \in (Len(log) + 1) .. Len(log')}

(* Append the fresh entries, each once, at the next changeset_seqs.        *)
Admit(batch) ==
    /\ Coherent(batch)
    /\ ~Conflict(batch)
    /\ Len(log) <= Len(log')
    /\ \A i \in DOMAIN log : log'[i] = log[i]
    /\ Added = Fresh(batch)
    /\ \A i, j \in (Len(log) + 1) .. Len(log') : log'[i] = log'[j] => i = j

Init == log = << >>

(* A batch that adds less than it carries (a retry) looks like the smaller *)
(* batch of its new entries.                                               *)
Next == log' \in Seq(Entries) /\ Admit(Added)

Spec == Init /\ [][Next]_log

-----------------------------------------------------------------------------
(* A pair is stored at most once: no retry duplicates a changeset, and a   *)
(* re-minted client_seq never shadows what the relay already holds.        *)
PairUnique ==
    \A i, j \in DOMAIN log : SamePair(log[i], log[j]) => i = j

(* The log only grows at its end: what a device has pulled up to its       *)
(* watermark never changes behind it.                                      *)
AppendOnly == [][/\ Len(log) <= Len(log')
                 /\ \A i \in DOMAIN log : log'[i] = log[i]]_log
=============================================================================
