--------------------------- MODULE SnapshotStore ---------------------------
(***************************************************************************)
(* The relay's snapshot store: a seed device asks for a generation         *)
(* (presign), uploads the sealed library straight to the object store and  *)
(* is done; a joining device asks for the latest generation (head),        *)
(* downloads it and resumes incremental pull at its baseline.  The relay   *)
(* only has a row per generation; what is really stored it learns from     *)
(* HEAD requests made outside its transactions.                            *)
(***************************************************************************)
EXTENDS Integers, FiniteSets, FiniteSetsExt

CONSTANTS Seeds,                \* devices that publish
          Seals,                \* sealed snapshots: each seal has a fresh key, so a hash of its own
          SealSize,             \* [Seals -> Nat]
          SealLevel,            \* [Seals -> Nat]: the content level declared for it
          Generations,          \* a set of naturals
          Quota,                \* storage_bytes cap
          NoSeal,
          MaxPublishes, MaxHeadErrors
ASSUME SnapAssumption ==
  /\ SealSize \in [Seals -> Nat] /\ SealLevel \in [Seals -> Nat]
  /\ Generations \subseteq Nat /\ NoSeal \notin Seals /\ {Quota, MaxPublishes, MaxHeadErrors} \subseteq Nat

VARIABLES
  snapRows,     \* [Generations -> [seal, baseline] or Vacant]; a row's size is its seal's
  objects,      \* seals whose ciphertext the object store has
  storedBytes,  \* tenant_usage.storage_bytes
  snapFloor,    \* required_sync_capability
  seedCalls,    \* [Seeds -> the put_snapshot in progress]
  flying,       \* seals whose PUT was cut off at the client but may still land
  joiner,       \* the get_snapshot in progress, or what it returned
  told,         \* history: [Generations -> seals put_snapshot returned Ok for]
  snapUsed
snapVars == <<snapRows, objects, storedBytes, snapFloor, seedCalls, flying, joiner, told, snapUsed>>

Vacant   == [seal |-> NoSeal, baseline |-> NoSeal]
RowOf(s) == [seal |-> s, baseline |-> s]      \* a seal stands for its own baseline_seq
Quiet    == [at |-> "idle", seal |-> NoSeal, gen |-> 0, found |-> NoSeal]
Outside  == [at |-> "idle", gen |-> 0, row |-> Vacant]

SnapInit ==
  /\ snapRows = [g \in Generations |-> Vacant] /\ objects = {} /\ storedBytes = 0 /\ snapFloor = 0
  /\ seedCalls = [d \in Seeds |-> Quiet] /\ flying = {} /\ joiner = Outside
  /\ told = [g \in Generations |-> {}] /\ snapUsed = [publish |-> 0, error |-> 0]

Moved(d, to)   == seedCalls' = [seedCalls EXCEPT ![d].at = to]
Returned(d)    == seedCalls' = [seedCalls EXCEPT ![d] = Quiet]
Succeeds(d)    == Returned(d) /\ told' = [told EXCEPT ![seedCalls[d].gen] = @ \cup {seedCalls[d].seal}]
(* admit_publication: the declared content level is at or below the floor. *)
Publishable(s) == SealLevel[s] <= snapFloor
(* choke::admit of a transaction that goes on to commit. *)
Charged(bytes) == storedBytes + bytes <= Quota /\ storedBytes' = storedBytes + bytes
Overdrawn(bytes) == storedBytes + bytes > Quota
(* object_exists(..).unwrap_or_default(): a HEAD that fails counts as absent. *)
HeadAnswers(s, answer) ==
  \/ answer = (s \in objects) /\ UNCHANGED snapUsed
  \/ ~answer /\ snapUsed.error < MaxHeadErrors /\ snapUsed' = [snapUsed EXCEPT !.error = @ + 1]

------------------------------------------------------------------------------
(* put_snapshot.  A retry may present the same sealed bytes or a new seal.   *)
BeginPublish(d, s, g) ==
  /\ seedCalls[d].at = "idle" /\ snapUsed.publish < MaxPublishes
  /\ seedCalls' = [seedCalls EXCEPT ![d] = [at |-> "gate", seal |-> s, gen |-> g, found |-> NoSeal]]
  /\ snapUsed' = [snapUsed EXCEPT !.publish = @ + 1]
  /\ UNCHANGED <<snapRows, objects, storedBytes, snapFloor, flying, joiner, told>>

(* The gated read of presign: refused early when the content is above the    *)
(* floor, otherwise on to the publication transaction.                       *)
PresignGate(d) ==
  /\ seedCalls[d].at = "gate"
  /\ IF Publishable(seedCalls[d].seal) THEN Moved(d, "read") ELSE Returned(d)
  /\ UNCHANGED <<snapRows, objects, storedBytes, snapFloor, flying, joiner, told, snapUsed>>

(* The publication transaction's read: a row of this generation is looked at *)
(* outside it, an unknown generation is inserted in it.                      *)
PresignRead(d) ==
  /\ seedCalls[d].at = "read"
  /\ LET found == snapRows[seedCalls[d].gen].seal IN
     seedCalls' = [seedCalls EXCEPT ![d].found = found, ![d].at = IF found = NoSeal THEN "insert" ELSE "head"]
  /\ UNCHANGED <<snapRows, objects, storedBytes, snapFloor, flying, joiner, told, snapUsed>>

(* The INSERT waits for a concurrent one and fails on its primary key; the   *)
(* choke point's refusal rolls it back.                                      *)
PresignInsert(d) ==
  LET c == seedCalls[d] IN
  /\ c.at = "insert"
  /\ \/ /\ snapRows[c.gen] = Vacant /\ Charged(SealSize[c.seal])
        /\ snapRows' = [snapRows EXCEPT ![c.gen] = RowOf(c.seal)] /\ Moved(d, "put")
     \/ /\ snapRows[c.gen] # Vacant \/ Overdrawn(SealSize[c.seal])
        /\ Returned(d) /\ UNCHANGED <<snapRows, storedBytes>>
  /\ UNCHANGED <<objects, snapFloor, flying, joiner, told, snapUsed>>

(* HEAD on the row's object, with no transaction open.  The same hash is     *)
(* done or uploaded again; another hash is a conflict if the row's object is *)
(* there and otherwise replaces it.                                          *)
PresignHead(d) ==
  LET c == seedCalls[d] IN
  /\ c.at = "head"
  /\ \E present \in BOOLEAN :
       /\ HeadAnswers(c.found, present)
       /\ CASE c.found = c.seal /\ present  -> Succeeds(d)
            [] c.found = c.seal /\ ~present -> Moved(d, "put") /\ UNCHANGED told
            [] c.found # c.seal /\ present  -> Returned(d) /\ UNCHANGED told
            [] OTHER                        -> Moved(d, "swap") /\ UNCHANGED told
  /\ UNCHANGED <<snapRows, objects, storedBytes, snapFloor, flying, joiner>>

(* What a replacement is larger by. *)
GrowthOver(s, old) == IF SealSize[s] > SealSize[old] THEN SealSize[s] - SealSize[old] ELSE 0
(* Mutant: the baseline is left out of the UPDATE. *)
PresignSwapKeepsBaseline(d) ==
  LET c == seedCalls[d] IN
  /\ c.at = "swap"
  /\ \/ /\ snapRows[c.gen].seal = c.found /\ Charged(GrowthOver(c.seal, c.found))
        /\ snapRows' = [snapRows EXCEPT ![c.gen].seal = c.seal] /\ Moved(d, "put")
     \/ /\ snapRows[c.gen].seal # c.found \/ Overdrawn(GrowthOver(c.seal, c.found))
        /\ Returned(d) /\ UNCHANGED <<snapRows, storedBytes>>
  /\ UNCHANGED <<objects, snapFloor, flying, joiner, told, snapUsed>>
(* The compare-and-swap of the row's hash, charging what the new seal is     *)
(* larger by: a row that moved on is a conflict and rolls the charge back.   *)
PresignSwap(d) ==
  LET c == seedCalls[d] IN
  /\ c.at = "swap"
  /\ \/ /\ snapRows[c.gen].seal = c.found /\ Charged(GrowthOver(c.seal, c.found))
        /\ snapRows' = [snapRows EXCEPT ![c.gen] = RowOf(c.seal)] /\ Moved(d, "put")
     \/ /\ snapRows[c.gen].seal # c.found \/ Overdrawn(GrowthOver(c.seal, c.found))
        /\ Returned(d) /\ UNCHANGED <<snapRows, storedBytes>>
  /\ UNCHANGED <<objects, snapFloor, flying, joiner, told, snapUsed>>

(* The direct upload: it succeeds, or the client sees it fail (dies, times   *)
(* out) and the bytes arrive later or never.                                 *)
PutDone(d) ==
  /\ seedCalls[d].at = "put" /\ objects' = objects \cup {seedCalls[d].seal} /\ Succeeds(d)
  /\ UNCHANGED <<snapRows, storedBytes, snapFloor, flying, joiner, snapUsed>>
PutCut(d) ==
  /\ seedCalls[d].at = "put" /\ Returned(d) /\ flying' = flying \cup {seedCalls[d].seal}
  /\ UNCHANGED <<snapRows, objects, storedBytes, snapFloor, joiner, told, snapUsed>>
PutLands(s) ==
  /\ s \in flying /\ flying' = flying \ {s} /\ objects' = objects \cup {s}
  /\ UNCHANGED <<snapRows, storedBytes, snapFloor, seedCalls, joiner, told, snapUsed>>

RaiseFloor ==
  /\ snapFloor < Max({SealLevel[s] : s \in Seals}) /\ snapFloor' = snapFloor + 1
  /\ UNCHANGED <<snapRows, objects, storedBytes, seedCalls, flying, joiner, told, snapUsed>>

------------------------------------------------------------------------------
(* get_snapshot: the row of the highest generation, HEAD on its object -     *)
(* absent means no snapshot at all - and the download by the row's hash.     *)
Recorded == {g \in Generations : snapRows[g] # Vacant}
HeadRow ==
  /\ joiner.at = "idle" /\ Recorded # {}
  /\ LET g == Max(Recorded) IN joiner' = [at |-> "head", gen |-> g, row |-> snapRows[g]]
  /\ UNCHANGED <<snapRows, objects, storedBytes, snapFloor, seedCalls, flying, told, snapUsed>>
HeadObject ==
  /\ joiner.at = "head"
  /\ \E present \in BOOLEAN :
       /\ HeadAnswers(joiner.row.seal, present)
       /\ joiner' = IF present THEN [joiner EXCEPT !.at = "joined"] ELSE Outside
  /\ UNCHANGED <<snapRows, objects, storedBytes, snapFloor, seedCalls, flying, told>>
JoinAgain ==
  /\ joiner.at = "joined" /\ joiner' = Outside
  /\ UNCHANGED <<snapRows, objects, storedBytes, snapFloor, seedCalls, flying, told, snapUsed>>

SnapNext ==
  \/ \E d \in Seeds : \/ \E s \in Seals, g \in Generations : BeginPublish(d, s, g)
                      \/ PresignGate(d) \/ PresignRead(d) \/ PresignInsert(d) \/ PresignHead(d) \/ PresignSwap(d)
                      \/ PutDone(d) \/ PutCut(d)
  \/ (\E s \in Seals : PutLands(s)) \/ RaiseFloor \/ HeadRow \/ HeadObject \/ JoinAgain
SnapSpec == SnapInit /\ [][SnapNext]_snapVars

------------------------------------------------------------------------------
(* Type correctness of the relay's rows, the object store and the calls.     *)
SnapTypeOK ==
  /\ snapRows \in [Generations -> [seal : Seals \cup {NoSeal}, baseline : Seals \cup {NoSeal}]]
  /\ objects \subseteq Seals /\ flying \subseteq Seals /\ storedBytes \in 0..Quota /\ snapFloor \in Nat
  /\ seedCalls \in [Seeds -> [at : {"idle", "gate", "read", "insert", "head", "swap", "put"},
                              seal : Seals \cup {NoSeal}, gen : Nat, found : Seals \cup {NoSeal}]]
  /\ joiner \in [at : {"idle", "head", "joined"}, gen : Nat, row : [seal : Seals \cup {NoSeal}, baseline : Seals \cup {NoSeal}]]
  /\ told \in [Generations -> SUBSET Seals]

(* What a joining device is given is there to download, resumes at the       *)
(* baseline those very bytes were produced at - a later one would skip       *)
(* changes for good - and holds nothing above the floor its reader meets.    *)
JoinComplete ==
  joiner.at = "joined" => /\ joiner.row.seal \in objects /\ joiner.row.baseline = joiner.row.seal
                          /\ SealLevel[joiner.row.seal] <= snapFloor

(* The metered bytes cover every generation the relay has a row for: what    *)
(* racing retries, replacements and rolled back attempts add up to never     *)
(* falls below what the rows pin.                                            *)
Pinned      == UNION {{g} \X (1..SealSize[snapRows[g].seal]) : g \in Recorded}     \* byte by byte
RowsMetered == Cardinality(Pinned) <= storedBytes

(* A generation whose upload was reported successful keeps pointing at it    *)
(* ("we must NOT blind-overwrite it").  Refuted: the upload that lands       *)
(* between the HEAD and the compare-and-swap does not change the row.        *)
PublishedKept == \A g \in Generations : \A s \in told[g] : snapRows[g].seal = s

(* The relay's snapshot rows: a joiner given a snapshot can restore it with  *)
(* the baseline that belongs to it, and stored bytes are paid for.           *)
SnapshotsSound == SnapTypeOK /\ JoinComplete /\ RowsMetered
=============================================================================
