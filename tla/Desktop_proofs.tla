---------------------------- MODULE Desktop_proofs ----------------------------
(* Proofs about what sync keeps in the desktop's database, for any sessions,  *)
(* rows and devices and any number of crashes and restarts, and about the     *)
(* threads of the service that writes it.                                     *)
EXTENDS Cutover, Migrations, RecordingRecovery, Quarantine, CapabilityGate, WriteTurnstile, DrainLanes,
        FiniteSetTheorems, WellFoundedInduction, TLAPS

------------------------------------------------------------------------------
(* The recovery of recordings.  A row is this device's or a peer's, never    *)
(* both; a peer's is never attributed to this device, and only this device's *)
(* have files here.  What a boot still has to do depends on its phase.       *)
RecRows == [st : {"none", "recording", "completed"}, owner : {Me, Peer, NoOwner}, segs : BOOLEAN,
            parts : SUBSET (1..MaxParts), old : BOOLEAN]

RecFields ==
  /\ sess \in [Sessions -> RecRows]
  /\ files \subseteq Sessions \X (1..MaxParts)
  /\ recording = {} \/ \E s \in Sessions : recording = {s}
  /\ live \subseteq Sessions /\ recording \subseteq ownIds /\ ownIds \subseteq Sessions
  /\ synced \in BOOLEAN /\ ident \in {Me, NoOwner} /\ (~synced => ident = NoOwner)
  /\ phase \in {"off", "sweep", "reconcile", "up"} /\ (phase # "up" => recording = {})
  /\ boots \in 0..MaxBoots

Spared(r) == r.st = "recording" \/ (r.owner = NoOwner /\ r.old)

RowOK(s) ==
  /\ s \in live => s \notin ownIds /\ sess[s].owner # Me /\ Spared(sess[s])
  /\ s \in ownIds => sess[s].owner # Peer
  /\ ~synced => sess[s].owner = NoOwner /\ s \notin live
  /\ s \notin ownIds => \A p \in 1..MaxParts : <<s, p>> \notin files
  /\ phase = "reconcile" /\ (ident = Me \/ ~synced) /\ s \in ownIds /\ sess[s].st = "recording" =>
        sess[s].owner = NoOwner /\ ~sess[s].old
  /\ phase = "up" /\ s \notin recording /\ sess[s].st # "none" =>
        \A p \in 1..MaxParts : <<s, p>> \in files => p \in sess[s].parts

RecInv == RecFields /\ \A s \in Sessions : RowOK(s)

(* A row after a write to it.                                                *)
LEMMA RowFields ==
    ASSUME NEW r \in RecRows
    PROVE  /\ [r EXCEPT !.segs = TRUE, !.old = FALSE] \in RecRows
           /\ [r EXCEPT !.segs = TRUE, !.old = FALSE].st = r.st
           /\ [r EXCEPT !.segs = TRUE, !.old = FALSE].owner = r.owner
           /\ [r EXCEPT !.segs = TRUE, !.old = FALSE].parts = r.parts
           /\ [r EXCEPT !.st = "completed"] \in RecRows
           /\ [r EXCEPT !.st = "completed"].st = "completed"
           /\ [r EXCEPT !.st = "completed"].owner = r.owner
           /\ [r EXCEPT !.st = "completed"].parts = r.parts
           /\ [r EXCEPT !.st = "completed"].old = r.old
           /\ [r EXCEPT !.old = TRUE] \in RecRows
           /\ [r EXCEPT !.old = TRUE].st = r.st
           /\ [r EXCEPT !.old = TRUE].owner = r.owner
           /\ [r EXCEPT !.old = TRUE].parts = r.parts
           /\ [r EXCEPT !.old = TRUE].old
BY DEF RecRows

LEMMA NewRow ==
    /\ NoRow \in RecRows /\ NoRow.st = "none" /\ NoRow.owner = NoOwner
    /\ \A o \in {Me, Peer, NoOwner} : Row(o) \in RecRows /\ Row(o).st = "recording" /\ Row(o).owner = o
BY DEF NoRow, Row, RecRows

(* One row is written; nothing else of the table is.                         *)
LEMMA RowSet ==
    ASSUME RecFields, NEW s \in Sessions, NEW r \in RecRows, sess' = [sess EXCEPT ![s] = r]
    PROVE  /\ sess' \in [Sessions -> RecRows] /\ sess'[s] = r
           /\ \A t \in Sessions : t # s => sess'[t] = sess[t]
BY DEF RecFields

LEMMA StartRecordingKeeps ==
    ASSUME RecInv, NEW s \in Sessions, StartRecording(s) \/ ResumeRecording(s)
    PROVE  RecInv'
<1>0. RecFields /\ phase = "up" /\ recording = {} /\ s \notin live
      /\ recording' = {s} /\ ownIds' = ownIds \cup {s}
      /\ UNCHANGED <<files, live, synced, ident, phase, boots>>
  BY DEF RecInv, StartRecording, ResumeRecording
<1>1. \E r \in RecRows : sess' = [sess EXCEPT ![s] = r] /\ r.owner = ident
  <2>1. CASE StartRecording(s)
    BY <1>0, <2>1, NewRow DEF StartRecording, RecFields
  <2>2. CASE ResumeRecording(s)
    <3> DEFINE r == [sess[s] EXCEPT !.st = "recording", !.owner = ident, !.old = FALSE]
    <3>1. sess[s] \in RecRows /\ ident \in {Me, Peer, NoOwner}
      BY <1>0 DEF RecFields
    <3>2. sess' = [sess EXCEPT ![s] = r]
      BY <1>0, <2>2, <3>1 DEF ResumeRecording, RecFields, RecRows
    <3>3. r \in RecRows /\ r.owner = ident
      BY <3>1 DEF RecRows
    <3> HIDE DEF r
    <3> QED
      BY <3>2, <3>3
  <2> QED
    BY <2>1, <2>2
<1>2. PICK r \in RecRows : sess' = [sess EXCEPT ![s] = r] /\ r.owner = ident
  BY <1>1
<1>3. /\ sess' \in [Sessions -> RecRows] /\ sess'[s] = r
      /\ \A t \in Sessions : t # s => sess'[t] = sess[t]
  BY <1>0, <1>2, RowSet
<1>4. RecFields'
  BY <1>0, <1>3 DEF RecFields
<1>5. ASSUME NEW t \in Sessions PROVE RowOK(t)'
  <2>1. CASE t = s
    BY <1>0, <1>2, <1>3, <2>1, RecoveryAssumption DEF RecInv, RowOK, RecFields, Spared
  <2>2. CASE t # s
    BY <1>0, <1>3, <2>2 DEF RecInv, RowOK, Spared
  <2> QED
    BY <2>1, <2>2
<1> QED
  BY <1>4, <1>5 DEF RecInv

(* A write to a row that changes neither whose it is nor what it has.        *)
LEMMA TouchKeeps ==
    ASSUME RecInv, NEW s \in Sessions, NEW r \in RecRows, sess' = [sess EXCEPT ![s] = r],
           r.owner = sess[s].owner, sess[s].parts \subseteq r.parts, r.st # "none" => sess[s].st # "none",
           s \in live => Spared(r),
           phase = "reconcile" => r.st # "recording",
           UNCHANGED <<files, recording, live, synced, ident, phase, ownIds, boots>>
    PROVE  RecInv'
<1>1. /\ sess' \in [Sessions -> RecRows] /\ sess'[s] = r
      /\ \A t \in Sessions : t # s => sess'[t] = sess[t]
  BY RowSet DEF RecInv
<1>2. RecFields'
  BY <1>1 DEF RecFields, RecInv
<1>3. ASSUME NEW t \in Sessions PROVE RowOK(t)'
  <2>1. CASE t = s
    BY <1>1, <2>1 DEF RecInv, RowOK
  <2>2. CASE t # s
    BY <1>1, <2>2 DEF RecInv, RowOK, Spared
  <2> QED
    BY <2>1, <2>2
<1> QED
  BY <1>2, <1>3 DEF RecInv

LEMMA TouchesKeep ==
    ASSUME RecInv, NEW s \in Sessions,
           \/ AddSegment(s) \/ PeerSegment(s) \/ GrowOld(s)
           \/ \E p \in 1..MaxParts : InsertPartRow(s, p)
    PROVE  RecInv'
<1>0. /\ sess[s] \in RecRows /\ UNCHANGED <<files, recording, live, synced, ident, phase, ownIds, boots>>
      /\ sess \in [Sessions -> RecRows]
  BY DEF RecInv, RecFields, AddSegment, PeerSegment, GrowOld, InsertPartRow
<1>1. phase # "reconcile" /\ (s \in recording => s \notin live)
  BY DEF RecInv, RecFields, RowOK, AddSegment, PeerSegment, GrowOld, InsertPartRow
<1>2. CASE AddSegment(s) \/ PeerSegment(s)
  <2> DEFINE r == [sess[s] EXCEPT !.segs = TRUE, !.old = FALSE]
  <2>1. sess' = [sess EXCEPT ![s] = r]
    BY <1>0, <1>2 DEF AddSegment, PeerSegment, RecRows
  <2>2. r \in RecRows /\ r.st = sess[s].st /\ r.owner = sess[s].owner /\ r.parts = sess[s].parts
    BY <1>0, RowFields
  <2> HIDE DEF r
  <2>3. s \in live => Spared(r)
    BY <1>1, <1>2, <2>2 DEF AddSegment, PeerSegment, Spared
  <2> QED
    BY <1>0, <1>1, <2>1, <2>2, <2>3, TouchKeeps
<1>3. CASE GrowOld(s)
  <2> DEFINE r == [sess[s] EXCEPT !.old = TRUE]
  <2>1. sess' = [sess EXCEPT ![s] = r]
    BY <1>0, <1>3 DEF GrowOld, RecRows
  <2>2. r \in RecRows /\ r.st = sess[s].st /\ r.owner = sess[s].owner /\ r.parts = sess[s].parts
    BY <1>0, RowFields
  <2> HIDE DEF r
  <2>3. s \in live => Spared(r)
    BY <1>3, <2>2 DEF GrowOld, Spared
  <2> QED
    BY <1>0, <1>1, <2>1, <2>2, <2>3, TouchKeeps
<1>4. ASSUME NEW p \in 1..MaxParts, InsertPartRow(s, p)
      PROVE  RecInv'
  <2> DEFINE P == sess[s].parts \cup {p}
             r == [sess[s] EXCEPT !.parts = P]
  <2>1. sess' = [sess EXCEPT ![s] = r]
    BY <1>0, <1>4 DEF InsertPartRow, RecRows
  <2>2. P \in SUBSET (1..MaxParts)
    BY <1>0 DEF RecRows
  <2>3. r \in RecRows /\ r.st = sess[s].st /\ r.owner = sess[s].owner /\ r.parts = P
    BY <1>0, <2>2 DEF RecRows
  <2> HIDE DEF r
  <2>4. s \notin live
    BY <1>1, <1>4 DEF InsertPartRow
  <2> QED
    BY <1>0, <1>1, <2>1, <2>3, <2>4, TouchKeeps
<1> QED
  BY <1>2, <1>3, <1>4

LEMMA CompletesKeep ==
    ASSUME RecInv, NEW s \in Sessions, CompleteSession(s) \/ PeerCompletes(s)
    PROVE  RecInv'
<1>0. sess[s] \in RecRows /\ RecFields
  BY DEF RecInv, RecFields
<1>1. CASE CompleteSession(s)
  <2> DEFINE r == [sess[s] EXCEPT !.st = "completed"]
  <2>1. sess' = [sess EXCEPT ![s] = r]
    BY <1>0, <1>1 DEF CompleteSession, RecFields, RecRows
  <2>2. r \in RecRows /\ r.st = "completed" /\ r.owner = sess[s].owner /\ r.parts = sess[s].parts
    BY <1>0, RowFields
  <2> HIDE DEF r
  <2>3. /\ sess' \in [Sessions -> RecRows] /\ sess'[s] = r
        /\ \A t \in Sessions : t # s => sess'[t] = sess[t]
    BY <1>0, <2>1, <2>2, RowSet
  <2>4. /\ s \in recording /\ recording' = {} /\ recording = {s} /\ phase = "up"
        /\ \A p \in 1..MaxParts : <<s, p>> \in files => p \in sess[s].parts
        /\ UNCHANGED <<files, live, synced, ident, phase, ownIds, boots>>
    BY <1>0, <1>1 DEF CompleteSession, RecFields
  <2>5. RecFields'
    BY <1>0, <2>3, <2>4 DEF RecFields
  <2>6. ASSUME NEW t \in Sessions PROVE RowOK(t)'
    <3>1. CASE t = s
      <4>1. s \in ownIds /\ s \notin live
        BY <1>0, <2>4 DEF RecFields, RecInv, RowOK
      <4> QED
        BY <2>2, <2>3, <2>4, <3>1, <4>1 DEF RecInv, RowOK
    <3>2. CASE t # s
      BY <2>3, <2>4, <3>2 DEF RecInv, RowOK, Spared
    <3> QED
      BY <3>1, <3>2
  <2> QED
    BY <2>5, <2>6 DEF RecInv
<1>2. CASE PeerCompletes(s)
  <2>1. /\ s \in live /\ phase = "up" /\ live' = live \ {s}
        /\ UNCHANGED <<files, recording, synced, ident, phase, ownIds, boots>>
    BY <1>2 DEF PeerCompletes
  <2>2. \E r \in RecRows : /\ sess' = [sess EXCEPT ![s] = r] /\ r.owner = sess[s].owner
                           /\ r.parts = sess[s].parts
    <3>1. CASE sess[s].st = "none"
      <4>1. sess' = [sess EXCEPT ![s] = sess[s]]
        BY <1>0, <1>2, <3>1 DEF PeerCompletes, RecFields, RecRows
      <4> QED
        BY <1>0, <4>1
    <3>2. CASE sess[s].st # "none"
      <4> DEFINE r == [sess[s] EXCEPT !.st = "completed"]
      <4>1. sess' = [sess EXCEPT ![s] = r]
        BY <1>0, <1>2, <3>2 DEF PeerCompletes, RecFields, RecRows
      <4>2. r \in RecRows /\ r.owner = sess[s].owner /\ r.parts = sess[s].parts
        BY <1>0, RowFields
      <4> HIDE DEF r
      <4> QED
        BY <4>1, <4>2
    <3> QED
      BY <3>1, <3>2
  <2>3. PICK r \in RecRows : /\ sess' = [sess EXCEPT ![s] = r] /\ r.owner = sess[s].owner
                             /\ r.parts = sess[s].parts
    BY <2>2
  <2>4. /\ sess' \in [Sessions -> RecRows] /\ sess'[s] = r
        /\ \A t \in Sessions : t # s => sess'[t] = sess[t]
    BY <1>0, <2>3, RowSet
  <2>5. RecFields'
    BY <1>0, <2>1, <2>4 DEF RecFields
  <2>6. ASSUME NEW t \in Sessions PROVE RowOK(t)'
    <3>1. CASE t = s
      BY <2>1, <2>3, <2>4, <3>1 DEF RecInv, RowOK
    <3>2. CASE t # s
      BY <2>1, <2>4, <3>2 DEF RecInv, RowOK, Spared
    <3> QED
      BY <3>1, <3>2
  <2> QED
    BY <2>5, <2>6 DEF RecInv
<1> QED
  BY <1>1, <1>2

LEMMA PeerStartsKeeps ==
    ASSUME RecInv, NEW s \in Sessions, PeerStarts(s)
    PROVE  RecInv'
<1>0. /\ RecFields /\ synced /\ s \notin ownIds /\ phase = "up" /\ live' = live \cup {s}
      /\ UNCHANGED <<files, recording, synced, ident, phase, ownIds, boots>>
  BY DEF RecInv, PeerStarts
<1>1. PICK o \in {Peer, NoOwner} : sess' = [sess EXCEPT ![s] = Row(o)]
  BY DEF PeerStarts
<1>2. Row(o) \in RecRows /\ Row(o).st = "recording" /\ Row(o).owner = o /\ o # Me
  BY NewRow, RecoveryAssumption
<1>3. /\ sess' \in [Sessions -> RecRows] /\ sess'[s] = Row(o)
      /\ \A t \in Sessions : t # s => sess'[t] = sess[t]
  BY <1>0, <1>1, <1>2, RowSet
<1>4. RecFields'
  BY <1>0, <1>3 DEF RecFields
<1>5. ASSUME NEW t \in Sessions PROVE RowOK(t)'
  <2>1. CASE t = s
    BY <1>0, <1>2, <1>3, <2>1 DEF RecInv, RowOK, Spared
  <2>2. CASE t # s
    BY <1>0, <1>3, <2>2 DEF RecInv, RowOK, Spared
  <2> QED
    BY <2>1, <2>2
<1> QED
  BY <1>4, <1>5 DEF RecInv

LEMMA FinalizeFileKeeps ==
    ASSUME RecInv, NEW s \in Sessions, NEW p \in 1..MaxParts, FinalizeFile(s, p)
    PROVE  RecInv'
<1>1. /\ s \in recording /\ files' = files \cup {<<s, p>>}
      /\ UNCHANGED <<sess, recording, live, synced, ident, phase, ownIds, boots>>
  BY DEF FinalizeFile
<1>2. RecFields'
  BY <1>1 DEF RecInv, RecFields
<1>3. s \in ownIds
  BY <1>1 DEF RecInv, RecFields
<1>4. ASSUME NEW t \in Sessions PROVE RowOK(t)'
  <2>1. t # s => \A q \in 1..MaxParts : <<t, q>> \in files' => <<t, q>> \in files
    BY <1>1
  <2>2. CASE t = s
    BY <1>1, <1>3, <2>2 DEF RecInv, RowOK, Spared
  <2>3. CASE t # s
    BY <1>1, <2>1, <2>3 DEF RecInv, RowOK, Spared
  <2> QED
    BY <2>2, <2>3
<1> QED
  BY <1>2, <1>4 DEF RecInv

LEMMA DieStartKeep ==
    ASSUME RecInv, Die \/ Start
    PROVE  RecInv'
<1>1. /\ UNCHANGED <<sess, files, live, synced, ownIds>> /\ phase' \in {"off", "sweep"}
      /\ recording' = {}
  BY DEF Die, Start, RecInv, RecFields
<1>2. ident' \in {Me, NoOwner} /\ (~synced => ident' = NoOwner)
  BY DEF Die, Start, RecInv, RecFields
<1>3. boots' \in 0..MaxBoots
  BY RecoveryAssumption DEF Die, Start, RecInv, RecFields
<1>4. RecFields'
  BY <1>1, <1>2, <1>3 DEF RecInv, RecFields
<1>5. ASSUME NEW t \in Sessions PROVE RowOK(t)'
  BY <1>1 DEF RecInv, RowOK, Spared
<1> QED
  BY <1>4, <1>5 DEF RecInv

(* What the sweep does to one row.                                           *)
LEMMA SweptRow ==
    ASSUME NEW r \in RecRows, ident \in {Me, NoOwner}
    PROVE  /\ Swept(r) \in RecRows
           /\ Swept(r).owner \in {r.owner, NoOwner}
           /\ r.owner = Peer => Swept(r) = r
           /\ r.owner = NoOwner /\ ident = Me => Swept(r) = r \/ (r.old /\ Swept(r).owner = NoOwner /\ Swept(r).old)
           /\ Swept(r).st = "recording" /\ r.owner \in {ident, NoOwner} => Swept(r).owner = NoOwner /\ ~Swept(r).old
<1> USE RecoveryAssumption
<1>0. ident # Peer
  OBVIOUS
<1>1. CASE r.st # "recording" \/ ~NotForeign(r)
  <2>1. Swept(r) = r
    BY <1>1 DEF Swept
  <2>2. r.owner \in {ident, NoOwner} => NotForeign(r)
    BY DEF NotForeign
  <2> QED
    BY <1>1, <2>1, <2>2
<1>2. CASE r.st = "recording" /\ NotForeign(r) /\ Deletable(r)
  <2>1. Swept(r) = NoRow
    BY <1>2 DEF Swept, Finalizable
  <2>2. r.owner # Peer /\ ~(r.owner = NoOwner /\ ident = Me)
    BY <1>0, <1>2 DEF NotForeign, Deletable
  <2> QED
    BY <2>1, <2>2, NewRow
<1>3. CASE r.st = "recording" /\ NotForeign(r) /\ ~Deletable(r) /\ Finalizable(r)
  <2>1. Swept(r) = [r EXCEPT !.st = "completed"]
    BY <1>3 DEF Swept
  <2>2. r.owner # Peer /\ (r.owner = NoOwner => r.old)
    BY <1>0, <1>3 DEF NotForeign, Finalizable
  <2>3. Swept(r) \in RecRows /\ Swept(r).st = "completed" /\ Swept(r).owner = r.owner /\ Swept(r).old = r.old
    BY <2>1 DEF RecRows
  <2> QED
    BY <2>2, <2>3
<1>4. CASE r.st = "recording" /\ NotForeign(r) /\ ~Deletable(r) /\ ~Finalizable(r)
  <2>1. Swept(r) = r
    BY <1>4 DEF Swept
  <2>2. r.owner # Peer /\ r.owner = NoOwner /\ ~r.old
    BY <1>0, <1>4 DEF NotForeign, Finalizable
  <2> QED
    BY <2>1, <2>2
<1> QED
  BY <1>1, <1>2, <1>3, <1>4

LEMMA SweepKeeps ==
    ASSUME RecInv, Sweep
    PROVE  RecInv'
<1>0. /\ RecFields /\ phase = "sweep" /\ phase' = "reconcile" /\ recording = {}
      /\ UNCHANGED <<files, recording, live, synced, ident, ownIds, boots>>
  BY DEF RecInv, RecFields, Sweep
<1>1. CASE ident = NoOwner /\ synced
  <2>1. sess' = sess
    BY <1>1 DEF Sweep
  <2>2. RecFields'
    BY <1>0, <2>1 DEF RecFields
  <2>3. ASSUME NEW t \in Sessions PROVE RowOK(t)'
    BY <1>0, <1>1, <2>1, RecoveryAssumption DEF RecInv, RowOK, Spared
  <2> QED
    BY <2>2, <2>3 DEF RecInv
<1>2. CASE ~(ident = NoOwner /\ synced)
  <2>1. sess' = [s \in Sessions |-> Swept(sess[s])]
    BY <1>2 DEF Sweep
  <2>2. \A s \in Sessions : sess'[s] = Swept(sess[s]) /\ sess[s] \in RecRows /\ Swept(sess[s]) \in RecRows
    BY <1>0, <2>1, SweptRow DEF RecFields
  <2>3. RecFields'
    BY <1>0, <2>1, <2>2 DEF RecFields
  <2>4. ASSUME NEW t \in Sessions PROVE RowOK(t)'
    <3> DEFINE r == sess[t]
               q == sess'[t]
    <3>1. /\ q \in RecRows /\ r \in RecRows
          /\ q.owner \in {r.owner, NoOwner}
          /\ r.owner = Peer => q = r
          /\ r.owner = NoOwner /\ ident = Me => q = r \/ (r.old /\ q.owner = NoOwner /\ q.old)
          /\ q.st = "recording" /\ r.owner \in {ident, NoOwner} => q.owner = NoOwner /\ ~q.old
      BY <1>0, <2>2, SweptRow DEF RecFields
    <3>2. r.owner \in {Me, Peer, NoOwner}
      BY <3>1 DEF RecRows
    <3>3. t \in live => t \notin ownIds /\ q.owner # Me /\ Spared(q)
      <4> SUFFICES ASSUME t \in live PROVE t \notin ownIds /\ q.owner # Me /\ Spared(q)
        OBVIOUS
      <4>1. t \notin ownIds /\ r.owner # Me /\ Spared(r) /\ synced
        BY DEF RecInv, RowOK
      <4>2. ident = Me
        BY <1>0, <1>2, <4>1 DEF RecFields
      <4> QED
        BY <3>1, <3>2, <4>1, <4>2, RecoveryAssumption DEF Spared
    <3>4. t \in ownIds => r.owner # Peer /\ q.owner # Peer
      BY <3>1, RecoveryAssumption DEF RecInv, RowOK
    <3>5. ~synced => q.owner = NoOwner /\ t \notin live
      BY <3>1 DEF RecInv, RowOK
    <3>6. (ident = Me \/ ~synced) /\ t \in ownIds => r.owner \in {ident, NoOwner}
      BY <3>2, <3>4 DEF RecInv, RowOK
    <3>7. (ident = Me \/ ~synced) /\ t \in ownIds /\ q.st = "recording" => q.owner = NoOwner /\ ~q.old
      BY <3>1, <3>6
    <3>8. t \notin ownIds => \A p \in 1..MaxParts : <<t, p>> \notin files
      BY DEF RecInv, RowOK
    <3> QED
      BY <1>0, <3>3, <3>4, <3>5, <3>7, <3>8 DEF RowOK
  <2> QED
    BY <2>3, <2>4 DEF RecInv
<1> QED
  BY <1>1, <1>2

LEMMA ReconcileKeeps ==
    ASSUME RecInv, Reconcile
    PROVE  RecInv'
<1> DEFINE found(s) == sess[s].parts \cup {p \in 1..MaxParts : Recoverable(s, p)}
<1>0. /\ RecFields /\ phase = "reconcile" /\ phase' = "up" /\ recording = {}
      /\ UNCHANGED <<files, recording, live, synced, ident, ownIds, boots>>
  BY DEF RecInv, RecFields, Reconcile
<1>1. sess' = [s \in Sessions |-> [sess[s] EXCEPT !.parts = found(s)]]
  BY <1>0 DEF Reconcile, RecFields, RecRows
<1>2. ASSUME NEW s \in Sessions
      PROVE  /\ sess'[s] \in RecRows /\ sess'[s].st = sess[s].st /\ sess'[s].owner = sess[s].owner
             /\ sess'[s].old = sess[s].old /\ sess'[s].parts = found(s)
  <2>1. sess[s] \in RecRows /\ found(s) \in SUBSET (1..MaxParts)
    BY <1>0 DEF RecFields, RecRows
  <2>2. sess'[s] = [sess[s] EXCEPT !.parts = found(s)]
    BY <1>1
  <2> HIDE DEF found
  <2> QED
    BY <2>1, <2>2 DEF RecRows
<1>3. sess' \in [Sessions -> RecRows]
  BY <1>1, <1>2
<1>4. RecFields'
  BY <1>0, <1>3 DEF RecFields
<1>5. ASSUME NEW t \in Sessions PROVE RowOK(t)'
  <2>1. sess[t].st # "none" => \A p \in 1..MaxParts : <<t, p>> \in files => p \in found(t)
    BY DEF Recoverable
  <2>2. Spared(sess[t]) => Spared(sess'[t])
    BY <1>2 DEF Spared
  <2> HIDE DEF found
  <2> QED
    BY <1>0, <1>2, <2>1, <2>2 DEF RecInv, RowOK
<1> QED
  BY <1>4, <1>5 DEF RecInv

(* However often the device dies, with or without an identity at the next    *)
(* boot (db.rs, close_orphaned_recordings and reconcile_audio_parts): a      *)
(* recording that is live on a peer is neither ended nor deleted, a crash of *)
(* this device is closed, and no file of a session is left without its row.  *)
THEOREM RecoverySoundHolds == RecSpec => []RecoverySound
<1>1. RecInit => RecInv
  <2> SUFFICES ASSUME RecInit PROVE RecInv
    OBVIOUS
  <2>1. sess \in [Sessions -> RecRows] /\ \A s \in Sessions : sess[s] = NoRow
    BY NewRow DEF RecInit
  <2>2. ident \in {Me, NoOwner} /\ (~synced => ident = NoOwner) /\ synced \in BOOLEAN
    BY DEF RecInit
  <2>3. RecFields
    BY <2>1, <2>2, RecoveryAssumption DEF RecInit, RecFields
  <2>4. ASSUME NEW s \in Sessions PROVE RowOK(s)
    BY <2>1, NewRow DEF RecInit, RowOK
  <2> QED
    BY <2>3, <2>4 DEF RecInv
<1>2. RecInv /\ [RecNext]_recVars => RecInv'
  <2> SUFFICES ASSUME RecInv, [RecNext]_recVars PROVE RecInv'
    OBVIOUS
  <2>1. CASE UNCHANGED recVars
    BY <2>1 DEF recVars, RecInv, RecFields, RowOK, Spared
  <2> QED
    BY <2>1, StartRecordingKeeps, TouchesKeep, CompletesKeep, PeerStartsKeeps, FinalizeFileKeeps,
       DieStartKeep, SweepKeeps, ReconcileKeeps DEF RecNext
<1>3. RecInv => RecoverySound
  <2> SUFFICES ASSUME RecInv PROVE RecoverySound
    OBVIOUS
  <2>1. Cardinality(recording) <= 1
    <3>1. CASE recording = {}
      BY <3>1, FS_EmptySet
    <3>2. ASSUME NEW s \in Sessions, recording = {s}
          PROVE  Cardinality(recording) <= 1
      BY <3>2, FS_Singleton
    <3> QED
      BY <3>1, <3>2 DEF RecInv, RecFields
  <2>2. RecTypeOK
    BY <2>1 DEF RecInv, RecFields, RecTypeOK, RecRows
  <2>3. LivePeersSpared
    BY DEF RecInv, RecFields, RowOK, Spared, LivePeersSpared
  <2>5. OwnCrashesClosed
    <3> SUFFICES ASSUME phase = "reconcile", ident = Me \/ ~synced, NEW s \in ownIds \ live,
                        sess[s].st = "recording"
                 PROVE  sess[s].owner = NoOwner /\ ~sess[s].old
      BY DEF OwnCrashesClosed
    <3> QED
      BY DEF RecInv, RecFields, RowOK
  <2>4. FilesListed
    BY DEF RecInv, RowOK, FilesListed
  <2> QED
    BY <2>2, <2>3, <2>4, <2>5 DEF RecoverySound
<1> QED
  BY <1>1, <1>2, <1>3, PTL DEF RecSpec

------------------------------------------------------------------------------
(* The capability gate.  A proof of the gate that has gone stale is known to *)
(* be: the relay was replaced unseen.  A drain that is told of a blocker's   *)
(* end finds the request, or has no refusal to wait out.                     *)
Backoffs == [kind : {"none", "missing", "blocked"}, delay : 0..MaxDelay, left : 0..MaxDelay,
             seen : SUBSET ({0, 1} \X {0, 1}), who : SUBSET Peers]

CapFields ==
  /\ relayGate \in BOOLEAN /\ relayUp \in BOOLEAN /\ floor \in {0, 1} /\ asked \in {0, 1}
  /\ below \subseteq Peers /\ queue \in Seq({0, 1})
  /\ backoff \in Backoffs /\ backoff.left <= backoff.delay
  /\ capPc \in {"top", "push", "raise", "again", "send", "resend", "pull", "idle"}
  /\ resets \in BOOLEAN /\ told \in BOOLEAN /\ proven \in BOOLEAN /\ unseenSwap \in BOOLEAN
  /\ leaked \in BOOLEAN

Publishing == {"send", "again", "resend"}

CapProof ==
  /\ proven /\ ~relayGate => unseenSwap
  /\ capPc \in Publishing => proven
  /\ capPc \in Publishing \cup {"raise"} => queue # <<>>
  /\ ~leaked

CapTold ==
  /\ told => below = {} /\ relayGate
  /\ told /\ ~resets => backoff.kind # "blocked"

CapInv == CapFields /\ CapProof /\ CapTold

LEMMA NoBackoffType == NoBackoff \in Backoffs /\ NoBackoff.left <= NoBackoff.delay /\ NoBackoff.kind = "none"
BY CapabilityAssumption DEF NoBackoff, Backoffs

LEMMA RefusedType ==
    ASSUME CapFields, NEW kind \in {"missing", "blocked"}, NEW who \in SUBSET Peers
    PROVE  /\ Refused(kind, who) \in Backoffs /\ Refused(kind, who).left <= Refused(kind, who).delay
           /\ Refused(kind, who).kind = kind
<1> DEFINE d == IF backoff.kind = kind
                  THEN IF backoff.delay * 2 > MaxDelay THEN MaxDelay ELSE backoff.delay * 2
                  ELSE 1
           seen == IF backoff.kind = "none" THEN {} ELSE backoff.seen
<1>1. MaxDelay \in Nat \ {0} /\ backoff.delay \in 0..MaxDelay /\ backoff.seen \in SUBSET ({0, 1} \X {0, 1})
  BY CapabilityAssumption DEF CapFields, Backoffs
<1>2. d \in 0..MaxDelay /\ d <= d
  BY <1>1
<1>3. seen \in SUBSET ({0, 1} \X {0, 1})
  BY <1>1
<1>4. Refused(kind, who) = [kind |-> kind, delay |-> d, left |-> d, who |-> who, seen |-> seen]
  BY DEF Refused
<1> HIDE DEF d, seen
<1> QED
  BY <1>2, <1>3, <1>4 DEF Backoffs

LEMMA NotedType ==
    ASSUME CapFields
    PROVE  /\ Noted(backoff) \in Backoffs /\ Noted(backoff).left <= Noted(backoff).delay
           /\ Noted(backoff).kind \in {"none", backoff.kind}
<1> DEFINE b == [backoff EXCEPT !.seen = {<<floor, asked>>}]
<1>1. Noted(backoff) \in {backoff, NoBackoff, b}
  BY DEF Noted
<1>2. {<<floor, asked>>} \in SUBSET ({0, 1} \X {0, 1}) /\ backoff \in Backoffs
  BY DEF CapFields
<1>3. b \in Backoffs /\ b.left = backoff.left /\ b.delay = backoff.delay /\ b.kind = backoff.kind
  <2> DEFINE z == {<<floor, asked>>}
  <2> HIDE DEF z
  <2> QED
    BY <1>2 DEF Backoffs, z
<1> HIDE DEF b
<1> QED
  BY <1>1, <1>3, NoBackoffType DEF CapFields

LEMMA QueueTail ==
    ASSUME NEW q \in Seq({0, 1}), q # <<>>
    PROVE  Tail(q) \in Seq({0, 1})
OBVIOUS

LEMMA CapQuiet ==
    ASSUME CapInv, PeerMoves \/ RelayGoesDown \/ ListDevices \/ RemoveDevice
    PROVE  CapInv'
<1> USE DEF drainCell, relayCell
<1>1. UNCHANGED <<relayGate, floor, asked, unseenSwap, leaked, queue, proven, backoff, capPc>>
  BY DEF PeerMoves, RelayGoesDown, ListDevices, RemoveDevice
<1>2. below' \subseteq Peers /\ resets' \in BOOLEAN /\ told' \in BOOLEAN /\ relayUp' \in BOOLEAN
  BY DEF PeerMoves, RelayGoesDown, ListDevices, RemoveDevice, RequestReset, CapInv, CapFields
<1>3. told' => below' = {} /\ relayGate
  <2>1. CASE PeerMoves
    BY <2>1 DEF PeerMoves, CapInv, CapTold
  <2>2. CASE RelayGoesDown
    BY <2>2 DEF RelayGoesDown, CapInv, CapTold
  <2>3. CASE ListDevices
    BY <2>3 DEF ListDevices
  <2>4. CASE RemoveDevice
    BY <2>4 DEF RemoveDevice
  <2> QED
    BY <2>1, <2>2, <2>3, <2>4
<1>4. told' /\ ~resets' => told /\ ~resets
  BY DEF PeerMoves, RelayGoesDown, ListDevices, RemoveDevice, RequestReset
<1>5. CapFields'
  BY <1>1, <1>2 DEF CapInv, CapFields
<1>6. CapProof'
  BY <1>1 DEF CapInv, CapProof
<1>7. CapTold'
  BY <1>1, <1>3, <1>4 DEF CapInv, CapTold
<1> QED
  BY <1>5, <1>6, <1>7 DEF CapInv

LEMMA ComesBackKeeps ==
    ASSUME CapInv, RelayComesBack
    PROVE  CapInv'
<1> USE DEF drainCell, relayCell
<1>1. CapFields'
  BY DEF RelayComesBack, CapInv, CapFields
<1>2. CapProof'
  BY DEF RelayComesBack, CapInv, CapFields, CapProof
<1>3. CapTold'
  BY DEF RelayComesBack, CapInv, CapFields, CapTold
<1> QED
  BY <1>1, <1>2, <1>3 DEF CapInv

LEMMA CycleEndsKeep ==
    ASSUME CapInv, ApplyResets \/ IdleEnds \/ Respawn \/ BackoffTicks \/ PullAndPublish
    PROVE  CapInv'
<1> USE DEF relayCell
<1>1. CASE ApplyResets \/ IdleEnds \/ Respawn
  <2>1. CapFields'
    BY <1>1, NoBackoffType, ZenonT(60) DEF ApplyResets, IdleEnds, Respawn, CapInv, CapFields
  <2>2. CapProof'
    BY <1>1 DEF ApplyResets, IdleEnds, Respawn, CapInv, CapProof, Publishing
  <2>3. CapTold'
    BY <1>1, NoBackoffType DEF ApplyResets, IdleEnds, Respawn, CapInv, CapTold, CapFields
  <2> QED
    BY <2>1, <2>2, <2>3 DEF CapInv
<1>2. CASE BackoffTicks
  <2> DEFINE b == [backoff EXCEPT !.left = backoff.left - 1]
  <2>1. backoff \in Backoffs /\ backoff.left > 0 /\ backoff' = b /\ MaxDelay \in Nat
    BY <1>2, CapabilityAssumption DEF BackoffTicks, CapInv, CapFields, Backoffs
  <2>2. b \in Backoffs /\ b.left = backoff.left - 1 /\ b.delay = backoff.delay /\ b.kind = backoff.kind
    BY <2>1 DEF Backoffs
  <2> HIDE DEF b
  <2>3. b.left <= b.delay
    BY <2>1, <2>2 DEF CapInv, CapFields, Backoffs
  <2> QED
    BY <1>2, <2>1, <2>2, <2>3 DEF BackoffTicks, CapInv, CapFields, CapProof, CapTold
<1>3. CASE PullAndPublish
  <2>1. /\ capPc' = "idle"
        /\ UNCHANGED <<relayGate, floor, asked, relayUp, leaked, below, queue, resets, told>>
    BY <1>3 DEF PullAndPublish
  <2>2. /\ backoff' \in Backoffs /\ backoff'.left <= backoff'.delay
        /\ backoff'.kind \in {"none", backoff.kind}
    BY <1>3, NotedType, NoBackoffType DEF PullAndPublish, ForgetGate, CapInv, CapFields
  <2>3. /\ proven' \in BOOLEAN /\ unseenSwap' \in BOOLEAN
        /\ proven' => proven /\ unseenSwap' = unseenSwap
    BY <1>3 DEF PullAndPublish, ForgetGate, CapInv, CapFields
  <2>4. CapFields'
    BY <2>1, <2>2, <2>3 DEF CapInv, CapFields
  <2>5. CapProof'
    BY <2>1, <2>3 DEF CapInv, CapProof, Publishing
  <2>6. CapTold'
    BY <2>1, <2>2 DEF CapInv, CapTold
  <2> QED
    BY <2>4, <2>5, <2>6 DEF CapInv
<1> QED
  BY <1>1, <1>2, <1>3

LEMMA PushKeeps ==
    ASSUME CapInv, PushUngated \/ RequireGate
    PROVE  CapInv'
<1> USE DEF relayCell
<1>1. CASE PushUngated
  <2>1. queue' \in Seq({0, 1}) /\ capPc' \in {"push", "pull"}
        /\ UNCHANGED <<relayGate, floor, asked, relayUp, unseenSwap, leaked, below, proven, backoff, resets, told>>
    BY <1>1, QueueTail DEF PushUngated, CapInv, CapFields
  <2> QED
    BY <2>1 DEF CapInv, CapFields, CapProof, CapTold, Publishing
<1>2. CASE RequireGate
  <2>1. queue # <<>>
    BY <1>2 DEF RequireGate, BatchLevel
  <2>2. /\ capPc' \in {"pull", "send", "raise"} /\ (capPc' = "send" => proven)
        /\ UNCHANGED <<relayGate, floor, asked, relayUp, unseenSwap, leaked, below, queue, proven, backoff, resets, told>>
    BY <1>2 DEF RequireGate
  <2> QED
    BY <2>1, <2>2 DEF CapInv, CapFields, CapProof, CapTold, Publishing
<1> QED
  BY <1>1, <1>2

LEMMA RaiseKeeps ==
    ASSUME CapInv, Raise
    PROVE  CapInv'
<1>0. /\ capPc \in {"raise", "again"} /\ queue # <<>> /\ CapFields
      /\ UNCHANGED <<relayGate, relayUp, unseenSwap, leaked, below, queue, resets, told>>
  BY DEF Raise, CapInv, CapProof, Publishing
<1>1. CASE ~relayUp /\ capPc' = "pull" /\ UNCHANGED <<floor, asked, proven, backoff>>
  BY <1>0, <1>1 DEF CapInv, CapFields, CapProof, CapTold, Publishing
<1>2. CASE /\ relayUp /\ ~relayGate /\ backoff' = Refused("missing", {}) /\ capPc' = "pull"
           /\ UNCHANGED <<floor, asked, proven>>
  <2>1. backoff' \in Backoffs /\ backoff'.left <= backoff'.delay /\ backoff'.kind = "missing"
    BY <1>0, <1>2, RefusedType
  <2> QED
    BY <1>0, <1>2, <2>1 DEF CapInv, CapFields, CapProof, CapTold, Publishing
<1>3. CASE /\ relayGate /\ below # {} /\ proven' = TRUE /\ backoff' = Refused("blocked", below)
           /\ capPc' = "pull" /\ asked' = 1 /\ UNCHANGED floor
  <2>1. backoff' \in Backoffs /\ backoff'.left <= backoff'.delay
    BY <1>0, <1>3, RefusedType DEF CapFields
  <2> QED
    BY <1>0, <1>3, <2>1 DEF CapInv, CapFields, CapProof, CapTold, Publishing
<1>4. CASE /\ relayGate /\ floor' = 1 /\ proven' = TRUE /\ backoff' = NoBackoff
           /\ capPc' \in {"send", "resend"} /\ UNCHANGED asked
  BY <1>0, <1>4, NoBackoffType DEF CapInv, CapFields, CapProof, CapTold, Publishing
<1> QED
  BY <1>1, <1>2, <1>3, <1>4 DEF Raise

LEMMA SendKeeps ==
    ASSUME CapInv, SendGated
    PROVE  CapInv'
<1>0. /\ capPc \in {"send", "resend"} /\ queue # <<>> /\ proven /\ CapFields
      /\ UNCHANGED <<relayGate, floor, asked, relayUp, unseenSwap, below, backoff, resets, told>>
  BY DEF SendGated, CapInv, CapProof, Publishing
<1>1. CASE capPc' \in {"pull", "again"} /\ UNCHANGED <<queue, leaked>> /\ proven' \in {proven, TRUE}
           /\ (capPc' = "again" => proven' = TRUE) /\ (proven' # proven => relayGate)
  BY <1>0, <1>1 DEF CapInv, CapFields, CapProof, CapTold, Publishing
<1>2. CASE /\ queue' = Tail(queue) /\ leaked' = (leaked \/ (~relayGate /\ ~unseenSwap))
           /\ capPc' = "push" /\ UNCHANGED proven
  <2>1. queue' \in Seq({0, 1})
    BY <1>0, <1>2, QueueTail DEF CapFields
  <2>2. ~leaked' /\ leaked' \in BOOLEAN
    BY <1>0, <1>2 DEF CapInv, CapProof, CapFields
  <2> QED
    BY <1>0, <1>2, <2>1, <2>2 DEF CapInv, CapFields, CapProof, CapTold, Publishing
<1> QED
  BY <1>0, <1>1, <1>2 DEF SendGated

(* However often the relay is replaced and devices come and go               *)
(* (capability.rs, push_outbox): no gated batch reaches a relay that does    *)
(* not enforce the gate, unless it was replaced unseen, and a refusal is     *)
(* not waited out once its cause is gone and somebody said so.               *)
THEOREM GateSoundHolds == CapSpec => []GateSound
<1>1. CapInit => CapInv
  <2> SUFFICES ASSUME CapInit PROVE CapInv
    OBVIOUS
  <2>1. CapFields
    BY NoBackoffType, CapabilityAssumption DEF CapInit, CapFields
  <2>2. CapProof /\ CapTold
    BY DEF CapInit, CapProof, CapTold, Publishing
  <2> QED
    BY <2>1, <2>2 DEF CapInv
<1>2. CapInv /\ [CapNext]_gateVars => CapInv'
  <2> SUFFICES ASSUME CapInv, [CapNext]_gateVars PROVE CapInv'
    OBVIOUS
  <2>1. CASE UNCHANGED gateVars
    BY <2>1 DEF gateVars, CapInv, CapFields, CapProof, CapTold
  <2> QED
    BY <2>1, CapQuiet, ComesBackKeeps, CycleEndsKeep, PushKeeps, RaiseKeeps, SendKeeps
       DEF CapNext, DrainCycle
<1>3. CapInv => GateSound
  <2> SUFFICES ASSUME CapInv PROVE GateSound
    OBVIOUS
  <2>1. backoff.kind \in {"none", "missing", "blocked"} /\ backoff.delay \in 0..MaxDelay
        /\ backoff.left \in 0..MaxDelay /\ backoff.left <= backoff.delay /\ MaxDelay \in Nat
    BY CapabilityAssumption DEF CapInv, CapFields, Backoffs
  <2>2. backoff.left \in 0..backoff.delay
    BY <2>1
  <2>3. CapTypeOK
    BY <2>1, <2>2 DEF CapInv, CapFields, CapTypeOK
  <2>4. GateProofFresh /\ PromptRaise
    BY DEF CapInv, CapProof, CapTold, GateProofFresh, PromptRaise
  <2> QED
    BY <2>3, <2>4 DEF GateSound
<1> QED
  BY <1>1, <1>2, <1>3, PTL DEF CapSpec

------------------------------------------------------------------------------
(* The migration runner.  The schema only grows, a CRR stays one and a       *)
(* trigger once fresh stays fresh, so what has landed stays landed: only the *)
(* cutover makes a plain database a CRR one, and it converts every table     *)
(* there is.  No column is without its table, and only tables of the oldest   *)
(* database ever had stale triggers.                                         *)
OnCrr == {"alter", "record", "create", "convert", "index"}
Steps == OnCrr \cup {"off", "next", "plain", "failed", "prepare", "alters", "triggers", "up"}
Busy  == OnCrr \cup {"plain", "failed"}

WellFormed ==
  /\ \A o \in schema : o[1] # "table" => o[2] \in Tables(schema)
  /\ crr \subseteq Tables(schema) /\ stale \subseteq Tables(Base)

\* What the boot has checked so far is present or reported, and reported only
\* after an error.
Visited ==
  step # "off" =>
    \A i \in DOMAIN List :
      List[i].kind = "CreateSyncTable" /\ i < cur /\ ~EffectsPresent(List[i].makes)
        => i \in failures /\ hurt

StepOK ==
  /\ step \in Steps /\ hurt \in BOOLEAN
  /\ step \in Busy => cur \in DOMAIN List
  /\ step \in OnCrr => Prepared
  /\ step \in {"create", "convert", "index"} => M.kind = "CreateSyncTable"
  /\ step \in {"alter", "record"} => M.kind = "Plain"
  /\ step \in {"convert", "index"} => {o \in M.makes : o[1] = "table"} \subseteq schema
  /\ step = "index" => EffectsPresent({o \in M.makes : o[1] = "table"})
  /\ step = "record" => EffectsPresent(M.makes)
  /\ step = "plain" /\ Prepared => Synced(M.makes) = {} /\ M.kind # "CreateSyncTable"
  /\ step = "failed" /\ M.kind = "CreateSyncTable" => hurt
  /\ step \in {"prepare", "alters", "triggers", "up"} => cur = Len(List) + 1

HealOK == step = "up" /\ ~hurt => stale = {} \/ ~Prepared

MigInv == MigTypeOK /\ WellFormed /\ RecordedIsLanded /\ Visited /\ StepOK /\ HealOK

Grows ==
  /\ schema \subseteq schema' /\ crr \subseteq crr' /\ stale' \subseteq stale
  /\ Prepared' => Prepared

LEMMA PresentSub ==
    ASSUME NEW r, NEW s \in SUBSET r, EffectsPresent(r)
    PROVE  EffectsPresent(s)
<1>1. Synced(s) \subseteq Synced(r)
  BY DEF Synced
<1> QED
  BY <1>1 DEF EffectsPresent, Landed

LEMMA PresentStays ==
    ASSUME NEW s, EffectsPresent(s), Grows
    PROVE  EffectsPresent(s)'
BY DEF EffectsPresent, Landed, Grows, Stale

LEMMA PresentConverts ==
    ASSUME NEW s, EffectsPresent(s), WellFormed, ConvertAll
    PROVE  EffectsPresent(s)'
<1>1. s \subseteq schema /\ schema \subseteq schema' /\ stale' = {} /\ crr' = Tables(schema) \cap SyncTables
  BY DEF EffectsPresent, Landed, ConvertAll
<1>2. \A o \in s : o[1] # "index" => o[2] \in Tables(schema)
  BY <1>1 DEF WellFormed, Tables
<1>3. Synced(s) \subseteq crr'
  BY <1>1, <1>2 DEF Synced
<1> QED
  BY <1>1, <1>3 DEF EffectsPresent, Landed, Stale

LEMMA ListFacts ==
    ASSUME NEW i \in DOMAIN List
    PROVE  /\ i \in Nat /\ i >= 1 /\ i <= Len(List) /\ Len(List) \in Nat
           /\ List[i].kind \in Kinds /\ List[i].makes \subseteq Objects
           /\ Effects(List[i]) \subseteq List[i].makes
<1> DEFINE R == [kind : Kinds, makes : SUBSET Objects, declares : SUBSET Objects,
                 alters : BOOLEAN, mentions : BOOLEAN]
<1>1. List \in Seq(R) /\ List[i].declares \subseteq List[i].makes
  BY MigrationsAssumption
<1> HIDE DEF R
<1>2. Len(List) \in Nat /\ DOMAIN List = 1..Len(List) /\ List[i] \in R
  BY <1>1
<1>3. i \in Nat /\ i >= 1 /\ i <= Len(List)
  BY <1>2
<1>4. List[i].kind \in Kinds /\ List[i].makes \subseteq Objects
  BY <1>2 DEF R
<1> QED
  BY <1>1, <1>2, <1>3, <1>4 DEF Effects

LEMMA ListLen == Len(List) \in Nat /\ DOMAIN List = 1..Len(List)
<1> DEFINE R == [kind : Kinds, makes : SUBSET Objects, declares : SUBSET Objects,
                 alters : BOOLEAN, mentions : BOOLEAN]
<1>1. List \in Seq(R)
  BY MigrationsAssumption
<1> HIDE DEF R
<1> QED
  BY <1>1

LEMMA MigInitial == MigInit => MigInv
<1> SUFFICES ASSUME MigInit PROVE MigInv
  OBVIOUS
<1>1. Len(List) \in Nat
  BY MigrationsAssumption
<1>2. MigTypeOK
  BY <1>1, MigrationsAssumption DEF MigInit, MigTypeOK, Objects, Tables
<1>3. WellFormed
  BY MigrationsAssumption DEF MigInit, WellFormed
<1> QED
  BY <1>2, <1>3 DEF MigInit, MigInv, RecordedIsLanded, Visited, StepOK, HealOK, Steps, Busy, OnCrr

\* What landed stays so: a step owes an account only of what it adds.
LEMMA MigCommon ==
    ASSUME MigInv, Grows \/ ConvertAll, step # "off", hurt => hurt',
           \A i \in recorded' : i \in recorded \/ EffectsPresent(Effects(List[i]))',
           \A i \in DOMAIN List :
              List[i].kind = "CreateSyncTable" /\ i < cur'
                => i < cur \/ EffectsPresent(List[i].makes)' \/ (i \in failures' /\ hurt'),
           \A i \in failures : List[i].kind = "CreateSyncTable" =>
              i \in failures' \/ EffectsPresent(List[i].makes)'
    PROVE  RecordedIsLanded' /\ Visited'
<1>1. ASSUME NEW s, EffectsPresent(s) PROVE EffectsPresent(s)'
  BY <1>1, PresentStays, PresentConverts DEF MigInv
<1>2. RecordedIsLanded'
  <2> SUFFICES ASSUME NEW i \in recorded' PROVE EffectsPresent(Effects(List[i]))'
    BY DEF RecordedIsLanded
  <2>1. CASE i \in recorded
    <3>1. EffectsPresent(Effects(List[i]))
      BY <2>1 DEF MigInv, RecordedIsLanded
    <3> QED
      BY <1>1, <3>1
  <2> QED
    BY <2>1
<1>3. Visited'
  <2> SUFFICES ASSUME NEW i \in DOMAIN List, List[i].kind = "CreateSyncTable", i < cur',
                      ~EffectsPresent(List[i].makes)'
               PROVE  i \in failures' /\ hurt'
    BY DEF Visited
  <2>1. CASE i < cur
    <3>1. ~EffectsPresent(List[i].makes)
      BY <1>1
    <3>2. i \in failures /\ hurt
      BY <2>1, <3>1 DEF MigInv, Visited
    <3> QED
      BY <3>2
  <2> QED
    BY <2>1
<1> QED
  BY <1>2, <1>3

LEMMA BootKeeps ==
    ASSUME MigInv, Boot
    PROVE  MigInv'
<1> USE DEF Boot, database
<1>1. MigTypeOK'
  BY ListLen, MigrationsAssumption DEF MigInv, MigTypeOK
<1>2. WellFormed' /\ HealOK'
  BY DEF MigInv, WellFormed, HealOK
<1>3. RecordedIsLanded'
  BY DEF MigInv, RecordedIsLanded, EffectsPresent, Landed, Stale, Prepared
<1>4. Visited'
  BY ListFacts DEF Visited
<1>5. StepOK'
  BY DEF MigInv, StepOK, Steps, Busy, OnCrr
<1> QED
  BY <1>1, <1>2, <1>3, <1>4, <1>5 DEF MigInv

LEMMA SkipKeeps ==
    ASSUME MigInv, Skip
    PROVE  MigInv'
<1> USE DEF Skip, database, Clean
<1>1. MigTypeOK'
  BY ListLen DEF MigInv, MigTypeOK
<1>2. WellFormed' /\ HealOK'
  BY DEF MigInv, WellFormed, HealOK, Prepared
<1>3. Grows
  BY DEF Grows, Prepared
<1>4. ASSUME NEW i \in DOMAIN List, List[i].kind = "CreateSyncTable", i < cur', ~(i < cur)
      PROVE  EffectsPresent(List[i].makes)'
  <2>1. i \in recorded
    BY <1>4, ListFacts DEF MigInv, MigTypeOK
  <2>2. EffectsPresent(List[i].makes)
    BY <1>4, <2>1 DEF MigInv, RecordedIsLanded, Effects
  <2> QED
    BY <1>3, <2>2, PresentStays
<1>5. RecordedIsLanded' /\ Visited'
  BY <1>3, <1>4, MigCommon
<1>6. StepOK'
  BY DEF MigInv, MigTypeOK, StepOK, Steps, Busy, OnCrr
<1> QED
  BY <1>1, <1>2, <1>5, <1>6 DEF MigInv

LEMMA RouteKeeps ==
    ASSUME MigInv, Route
    PROVE  MigInv'
<1> USE DEF Route, database, Clean
<1>1. cur \in DOMAIN List
  BY ListLen DEF MigInv, MigTypeOK
<1>2. MigTypeOK' /\ WellFormed' /\ HealOK'
  BY DEF MigInv, MigTypeOK, WellFormed, HealOK, Prepared
<1>3. Grows
  BY DEF Grows, Prepared
<1>4. RecordedIsLanded' /\ Visited'
  BY <1>3, MigCommon
<1>5. step' \in {"create", "alter", "failed", "plain"} /\ M' = M /\ (Prepared' <=> Prepared)
  BY DEF M, Prepared
<1>6. /\ step' = "create" => M.kind = "CreateSyncTable" /\ Prepared
      /\ step' \in {"alter", "failed"} => M.kind = "Plain"
      /\ step' = "alter" => Prepared
      /\ step' = "plain" /\ Prepared => M.kind # "CreateSyncTable" /\ (M.kind = "SyncIndex" \/ ~M.mentions)
  <2>1. M.kind \in Kinds
    BY <1>1, ListFacts DEF M
  <2>2. CASE M.kind = "CreateSyncTable"
    BY <2>2 
  <2>3. CASE M.kind = "SyncIndex"
    BY <2>3
  <2>4. CASE M.kind = "Plain"
    <3>1. CASE Prepared /\ M.alters
      BY <2>4, <3>1
    <3>2. CASE Prepared /\ ~M.alters /\ M.mentions
      BY <2>4, <3>2
    <3>3. CASE ~Prepared \/ (~M.alters /\ ~M.mentions)
      BY <2>4, <3>3
    <3> QED
      BY <3>1, <3>2, <3>3
  <2> QED
    BY <2>1, <2>2, <2>3, <2>4 DEF Kinds
<1>7. M.kind \in Kinds /\ (M.kind = "SyncIndex" \/ ~M.mentions => Synced(M.makes) = {})
  BY <1>1, ListFacts, MigrationsAssumption DEF M, Synced
<1>8. StepOK'
  BY <1>1, <1>5, <1>6, <1>7 DEF MigInv, StepOK, Steps, Busy, OnCrr
<1> QED
  BY <1>2, <1>4, <1>8 DEF MigInv

LEMMA FailKeeps ==
    ASSUME MigInv, step \in Busy, step' = "failed", UNCHANGED <<database, failures, cur, starts>>,
           Inject \/ (Clean /\ M.kind # "CreateSyncTable")
    PROVE  MigInv'
<1> USE DEF database, Inject, Clean
<1>1. errors' \in 0..MaxErrors /\ (hurt => hurt') /\ hurt' \in BOOLEAN
  <2>1. errors' \in 0..MaxErrors
    BY MigrationsAssumption DEF MigInv, MigTypeOK
  <2>2. (hurt => hurt') /\ hurt' \in BOOLEAN
    BY Zenon DEF MigInv, StepOK
  <2> QED
    BY <2>1, <2>2
<1>2. MigTypeOK' /\ WellFormed' /\ HealOK'
  BY <1>1 DEF MigInv, MigTypeOK, WellFormed, HealOK
<1>3. Grows /\ step # "off"
  BY DEF Grows, Prepared, Busy, OnCrr
<1>4. RecordedIsLanded' /\ Visited'
  BY <1>1, <1>3, MigCommon
<1>5. cur \in DOMAIN List /\ M' = M
  BY DEF MigInv, StepOK, M
<1>6. StepOK'
  BY <1>1, <1>5 DEF StepOK, Steps, Busy, OnCrr
<1> QED
  BY <1>2, <1>4, <1>6 DEF MigInv

\* The version at hand is recorded and the runner goes on.
LEMMA RecordKeeps ==
    ASSUME MigInv, step \in Busy, Clean, Advance, recorded' = recorded \cup {cur},
           UNCHANGED <<failures, starts>>, Grows, schema' \subseteq Objects, crr' \subseteq SyncTables,
           stale' \subseteq crr', WellFormed', NEW m, m = List[cur], EffectsPresent(Effects(m))'
    PROVE  MigInv'
<1> USE DEF Clean, Advance
<1>1. cur \in DOMAIN List /\ cur \in 1..Len(List) /\ Len(List) \in Nat
  BY ListLen DEF MigInv, StepOK
<1>2. MigTypeOK' /\ HealOK'
  BY <1>1 DEF MigInv, MigTypeOK, HealOK
<1>3. ASSUME NEW i \in recorded', i \notin recorded PROVE EffectsPresent(Effects(List[i]))'
  <2>1. List[i] = m
    BY <1>3
  <2> QED
    BY <2>1
<1>4. ASSUME NEW i \in DOMAIN List, List[i].kind = "CreateSyncTable", i < cur', ~(i < cur)
      PROVE  EffectsPresent(List[i].makes)'
  <2>1. i = cur
    BY <1>1, <1>4, ListLen
  <2>2. List[i] = m /\ Effects(m) = List[i].makes
    BY <1>4, <2>1 DEF Effects
  <2> QED
    BY <2>2
<1>5. step # "off"
  BY DEF Busy, OnCrr
<1>6. RecordedIsLanded' /\ Visited'
  BY <1>3, <1>4, <1>5, MigCommon
<1>7. StepOK'
  BY DEF MigInv, StepOK, Steps, Busy, OnCrr
<1> QED
  BY <1>2, <1>6, <1>7 DEF MigInv

LEMMA ApplyPlainKeeps ==
    ASSUME MigInv, ApplyPlain
    PROVE  MigInv'
<1>0. step = "plain" /\ step \in Busy /\ cur \in DOMAIN List
  BY DEF MigInv, StepOK, ApplyPlain, Busy
<1>1. CASE Applies(M) /\ Clean /\ Advance /\ schema' = schema \cup M.makes /\ recorded' = recorded \cup {cur}
  <2> USE DEF ApplyPlain
  <2>1. Grows /\ M.makes \subseteq Objects /\ M.declares \subseteq M.makes
    BY <1>0, <1>1, ListFacts, MigrationsAssumption DEF Grows, Prepared, M
  <2>2. schema' \subseteq Objects /\ crr' \subseteq SyncTables /\ stale' \subseteq crr' /\ crr' = crr
    BY <1>1, <2>1 DEF MigInv, MigTypeOK
  <2>3. WellFormed'
    BY <1>1, <2>2 DEF MigInv, WellFormed, Applies, Tables
  <2>4. PICK m : m = List[cur]
    OBVIOUS
  <2>5. EffectsPresent(Effects(m))'
    <3>1. Effects(m) \subseteq m.makes /\ m = M
      BY <1>0, <2>4, ListFacts DEF M
    <3>2. Synced(Effects(m)) \subseteq Synced(m.makes)
      BY <3>1 DEF Synced
    <3>3. Prepared' => Synced(m.makes) = {}
      BY <1>0, <2>2, <3>1 DEF MigInv, StepOK, Prepared
    <3>4. m.makes \subseteq schema'
      BY <1>1, <3>1
    <3> QED
      BY <3>1, <3>2, <3>3, <3>4 DEF EffectsPresent, Landed
  <2> QED
    BY <1>0, <1>1, <2>1, <2>2, <2>3, <2>4, <2>5, RecordKeeps
<1>2. CASE step' = "failed" /\ UNCHANGED <<cur, schema, recorded>> /\ (Inject \/ (~Applies(M) /\ Clean))
  <2>1. M.kind = "CreateSyncTable" => Applies(M)
    <3> SUFFICES ASSUME M.kind = "CreateSyncTable" PROVE Applies(M)
      OBVIOUS
    <3>1. PICK t \in SyncTables : Tables(M.makes) = {t} /\ \A o \in M.makes : o[2] = t /\ o[1] \in {"table", "index"}
      BY <1>0, MigrationsAssumption DEF M
    <3>2. t \in Tables(schema \cup M.makes)
      BY <3>1 DEF Tables
    <3> QED
      BY <3>1, <3>2 DEF Applies
  <2> QED
    BY <1>0, <1>2, <2>1, FailKeeps DEF ApplyPlain, database
<1> QED
  BY <1>1, <1>2 DEF ApplyPlain

\* A step that stays with its migration, or heals the schema after the last.
LEMMA OnKeeps ==
    ASSUME MigInv, step # "off", Clean \/ Inject, Grows \/ ConvertAll, UNCHANGED <<recorded, cur, starts>>,
           failures' \subseteq failures,
           \A i \in failures : List[i].kind = "CreateSyncTable" =>
              i \in failures' \/ EffectsPresent(List[i].makes)',
           schema' \subseteq Objects, crr' \subseteq SyncTables, stale' \subseteq crr'
    PROVE  MigTypeOK' /\ RecordedIsLanded' /\ Visited' /\ hurt' \in BOOLEAN
<1>1. errors' \in 0..MaxErrors
  BY MigrationsAssumption DEF MigInv, MigTypeOK, Clean, Inject
<1>2. (hurt => hurt') /\ hurt' \in BOOLEAN
  BY Zenon DEF MigInv, StepOK, Clean, Inject
<1>3. MigTypeOK'
  BY <1>1 DEF MigInv, MigTypeOK
<1> QED
  BY <1>2, <1>3, MigCommon

LEMMA AlterKeeps ==
    ASSUME MigInv, AlterOnCrr
    PROVE  MigInv'
<1>0. step = "alter" /\ step \in Busy /\ cur \in DOMAIN List /\ M.kind = "Plain" /\ Prepared
  BY DEF MigInv, StepOK, AlterOnCrr, Busy, OnCrr
<1>1. CASE /\ Applies(M) /\ Clean /\ step' = "record" /\ schema' = schema \cup M.makes
           /\ crr' = crr \cup Synced(M.makes) /\ stale' = stale \ Synced(M.makes)
  <2> USE DEF AlterOnCrr
  <2>1. M.makes \subseteq Objects /\ M' = M /\ Synced(M.makes) \subseteq SyncTables
    BY <1>0, ListFacts DEF M, Synced
  <2>2. Grows /\ Prepared'
    BY <1>0, <1>1 DEF Grows, Prepared
  <2>3. schema' \subseteq Objects /\ crr' \subseteq SyncTables /\ stale' \subseteq crr' /\ stale' \subseteq stale
    BY <1>1, <2>1 DEF MigInv, MigTypeOK
  <2>4. WellFormed'
    <3>1. \A o \in schema' : o[1] # "table" => o[2] \in Tables(schema')
      BY <1>1 DEF MigInv, WellFormed, Applies, Tables
    <3>2. Synced(M.makes) \subseteq Tables(schema')
      BY <1>1, <3>1 DEF Synced, Tables
    <3>3. Tables(schema) \subseteq Tables(schema')
      BY <1>1 DEF Tables
    <3> QED
      BY <1>1, <2>3, <3>1, <3>2, <3>3 DEF MigInv, WellFormed
  <2>5. MigTypeOK' /\ RecordedIsLanded' /\ Visited' /\ hurt' \in BOOLEAN
    BY <1>0, <1>1, <2>2, <2>3, OnKeeps
  <2>6. EffectsPresent(M.makes)'
    BY <1>1, <2>1 DEF EffectsPresent, Landed, Stale
  <2>7. StepOK' /\ HealOK'
    BY <1>0, <1>1, <2>1, <2>2, <2>5, <2>6 DEF StepOK, HealOK, Steps, Busy, OnCrr
  <2> QED
    BY <2>4, <2>5, <2>7 DEF MigInv
<1>2. CASE step' = "failed" /\ UNCHANGED <<schema, crr, stale>> /\ (Inject \/ Clean)
  BY <1>0, <1>2, FailKeeps DEF AlterOnCrr, database
<1> QED
  BY <1>1, <1>2 DEF AlterOnCrr

LEMMA CreateKeeps ==
    ASSUME MigInv, CreateOnCrr
    PROVE  MigInv'
<1>0. step = "create" /\ step \in Busy /\ cur \in DOMAIN List /\ M.kind = "CreateSyncTable" /\ Prepared
  BY DEF MigInv, StepOK, CreateOnCrr, Busy, OnCrr
<1>1. CASE Clean /\ step' = "convert" /\ schema' = schema \cup {o \in M.makes : o[1] = "table"}
  <2> USE DEF CreateOnCrr
  <2>1. M.makes \subseteq Objects /\ M' = M
    BY <1>0, ListFacts DEF M
  <2>2. Grows /\ Prepared'
    BY <1>0, <1>1 DEF Grows, Prepared
  <2>3. schema' \subseteq Objects /\ crr' \subseteq SyncTables /\ stale' \subseteq crr'
    BY <1>1, <2>1 DEF MigInv, MigTypeOK
  <2>4. WellFormed'
    BY <1>1 DEF MigInv, WellFormed, Tables
  <2>5. MigTypeOK' /\ RecordedIsLanded' /\ Visited' /\ hurt' \in BOOLEAN
    BY <1>0, <1>1, <2>2, <2>3, OnKeeps
  <2>6. StepOK' /\ HealOK'
    BY <1>0, <1>1, <2>1, <2>2, <2>5 DEF StepOK, HealOK, Steps, Busy, OnCrr
  <2> QED
    BY <2>4, <2>5, <2>6 DEF MigInv
<1>2. CASE step' = "failed" /\ Inject /\ UNCHANGED schema
  BY <1>0, <1>2, FailKeeps DEF CreateOnCrr, database
<1> QED
  BY <1>1, <1>2 DEF CreateOnCrr

LEMMA ConvertKeeps ==
    ASSUME MigInv, ConvertOnCrr
    PROVE  MigInv'
<1>0. step = "convert" /\ step \in Busy /\ cur \in DOMAIN List /\ M.kind = "CreateSyncTable" /\ Prepared
  BY DEF MigInv, StepOK, ConvertOnCrr, Busy, OnCrr
<1>1. CASE Clean /\ step' = "index" /\ \E t \in Tables(M.makes) : EnsureCrr(t)
  <2> USE DEF ConvertOnCrr
  <2>1. PICK t \in Tables(M.makes) : crr' = crr \cup {t} /\ stale' = stale
    BY <1>1 DEF EnsureCrr
  <2>2. t \in SyncTables /\ t \notin Tables(Base) /\ \A o \in M.makes : o[2] = t
    BY <1>0, <2>1, MigrationsAssumption DEF M
  <2>3. Grows /\ Prepared' /\ M' = M
    BY <1>0, <2>1 DEF Grows, Prepared, M
  <2>4. schema' \subseteq Objects /\ crr' \subseteq SyncTables /\ stale' \subseteq crr'
    BY <2>1, <2>2 DEF MigInv, MigTypeOK
  <2>5. {o \in M.makes : o[1] = "table"} \subseteq schema
    BY <1>0 DEF MigInv, StepOK
  <2>6. WellFormed'
    BY <2>1, <2>5 DEF MigInv, WellFormed, Tables
  <2>7. MigTypeOK' /\ RecordedIsLanded' /\ Visited' /\ hurt' \in BOOLEAN
    BY <1>0, <1>1, <2>3, <2>4, OnKeeps
  <2>8. EffectsPresent({o \in M.makes : o[1] = "table"})'
    BY <2>1, <2>2, <2>3, <2>5 DEF MigInv, WellFormed, EffectsPresent, Landed, Stale, Synced
  <2>9. StepOK' /\ HealOK'
    BY <1>0, <1>1, <2>3, <2>5, <2>7, <2>8 DEF StepOK, HealOK, Steps, Busy, OnCrr
  <2> QED
    BY <2>6, <2>7, <2>9 DEF MigInv
<1>2. CASE step' = "failed" /\ Inject /\ UNCHANGED <<crr, stale>>
  BY <1>0, <1>2, FailKeeps DEF ConvertOnCrr, database
<1> QED
  BY <1>1, <1>2 DEF ConvertOnCrr

LEMMA IndexKeeps ==
    ASSUME MigInv, IndexOnCrr
    PROVE  MigInv'
<1>0. step = "index" /\ step \in Busy /\ cur \in DOMAIN List /\ M.kind = "CreateSyncTable" /\ Prepared
  BY DEF MigInv, StepOK, IndexOnCrr, Busy, OnCrr
<1>1. CASE Clean /\ Advance /\ schema' = schema \cup M.makes /\ recorded' = recorded \cup {cur}
  <2> USE DEF IndexOnCrr
  <2>1. PICK m : m = List[cur]
    OBVIOUS
  <2>2. m = M /\ m.makes \subseteq Objects /\ Effects(m) = m.makes
    BY <1>0, <2>1, ListFacts DEF M, Effects
  <2>3. Grows /\ schema' \subseteq Objects /\ crr' \subseteq SyncTables /\ stale' \subseteq crr'
    BY <1>1, <2>2 DEF MigInv, MigTypeOK, Grows, Prepared
  <2>4. PICK t \in SyncTables : Tables(m.makes) = {t} /\ \A o \in m.makes : o[2] = t
    BY <1>0, <2>2, MigrationsAssumption DEF M
  <2>5. t \in Tables({o \in m.makes : o[1] = "table"})
    BY <2>4 DEF Tables
  <2>6. EffectsPresent({o \in m.makes : o[1] = "table"})
    BY <1>0, <2>2 DEF MigInv, StepOK
  <2>7. t \in Synced({o \in m.makes : o[1] = "table"}) /\ Synced(m.makes) \subseteq {t}
    BY <2>4, <2>5 DEF Synced, Tables
  <2>8. t \in crr /\ t \notin stale
    BY <1>0, <2>6, <2>7 DEF EffectsPresent, Stale
  <2>9. EffectsPresent(Effects(m))'
    BY <1>1, <2>2, <2>7, <2>8 DEF EffectsPresent, Landed, Stale
  <2>10. WellFormed'
    <3>1. t \in Tables(schema')
      BY <1>1, <2>2, <2>4 DEF Tables
    <3>2. \A o \in schema' : o[1] # "table" => o[2] \in Tables(schema')
      BY <1>1, <2>2, <2>4, <3>1 DEF MigInv, WellFormed, Tables
    <3> QED
      BY <1>1, <3>2 DEF MigInv, WellFormed, Tables
  <2> QED
    BY <1>0, <1>1, <2>1, <2>3, <2>9, <2>10, RecordKeeps
<1>2. CASE step' = "failed" /\ Inject /\ UNCHANGED <<cur, schema, recorded>>
  BY <1>0, <1>2, FailKeeps DEF IndexOnCrr, database
<1> QED
  BY <1>1, <1>2 DEF IndexOnCrr

LEMMA RecordAlterKeeps ==
    ASSUME MigInv, RecordAlter
    PROVE  MigInv'
<1>0. step = "record" /\ step \in Busy /\ cur \in DOMAIN List /\ EffectsPresent(M.makes)
  BY DEF MigInv, StepOK, RecordAlter, Busy, OnCrr
<1>1. CASE Clean /\ Advance /\ recorded' = recorded \cup {cur}
  <2> USE DEF RecordAlter
  <2>1. PICK m : m = List[cur]
    OBVIOUS
  <2>2. Effects(m) \in SUBSET m.makes /\ m = M
    BY <1>0, <2>1, ListFacts DEF M
  <2>3. Grows /\ schema' \subseteq Objects /\ crr' \subseteq SyncTables /\ stale' \subseteq crr' /\ WellFormed'
    BY DEF MigInv, MigTypeOK, Grows, Prepared, WellFormed
  <2>4. EffectsPresent(Effects(m))'
    BY <1>0, <2>2, <2>3, PresentSub, PresentStays
  <2> QED
    BY <1>0, <1>1, <2>1, <2>3, <2>4, RecordKeeps
<1>2. CASE step' = "failed" /\ Inject /\ UNCHANGED <<cur, recorded>>
  BY <1>0, <1>2, FailKeeps DEF RecordAlter, database
<1> QED
  BY <1>1, <1>2 DEF RecordAlter

LEMMA FallbackKeeps ==
    ASSUME MigInv, Fallback
    PROVE  MigInv'
<1> USE DEF Fallback
<1>0. step = "failed" /\ step \in Busy /\ cur \in DOMAIN List /\ (M.kind = "CreateSyncTable" => hurt)
  BY DEF MigInv, StepOK, Busy
<1>1. Grows /\ schema' \subseteq Objects /\ crr' \subseteq SyncTables /\ stale' \subseteq crr' /\ WellFormed'
  BY DEF MigInv, MigTypeOK, Grows, Prepared, WellFormed
<1>2. CASE RecordIfPresent
  <2>1. PICK m : m = List[cur]
    OBVIOUS
  <2>2. EffectsPresent(Effects(m))
    BY <1>2, <2>1 DEF RecordIfPresent, M
  <2>3. EffectsPresent(Effects(m))'
    BY <1>1, <2>2, PresentStays
  <2> QED
    BY <1>0, <1>1, <1>2, <2>1, <2>3, RecordKeeps
<1>3. CASE ~RecordIfPresent
  <2> USE DEF Clean, Advance
  <2>1. /\ UNCHANGED recorded
        /\ failures' = IF M.kind = "CreateSyncTable" THEN failures \cup {cur} ELSE failures
    BY <1>3
  <2>2. MigTypeOK' /\ HealOK'
    BY <1>0, <1>1, <2>1, ListLen DEF MigInv, MigTypeOK, HealOK
  <2>3. ASSUME NEW i \in DOMAIN List, List[i].kind = "CreateSyncTable", i < cur', ~(i < cur)
        PROVE  i \in failures' /\ hurt'
    <3>1. i = cur
      BY <1>0, <2>3, ListLen
    <3>2. M.kind = "CreateSyncTable"
      BY <2>3, <3>1 DEF M
    <3>3. i \in failures'
      BY <2>1, <3>1, <3>2
    <3>4. hurt'
      BY <1>0, <3>2
    <3> QED
      BY <3>3, <3>4
  <2>4. RecordedIsLanded' /\ Visited'
    BY <1>0, <1>1, <2>1, <2>3, MigCommon
  <2>5. StepOK'
    BY DEF MigInv, StepOK, Steps, Busy, OnCrr
  <2> QED
    BY <1>1, <2>2, <2>4, <2>5 DEF MigInv
<1> QED
  BY <1>2, <1>3

LEMMA HealUnconvertedKeeps ==
    ASSUME MigInv, HealUnconverted
    PROVE  MigInv'
<1> USE DEF HealUnconverted
<1>1. PICK done \in SUBSET Unconverted : (Clean \/ Inject) /\ crr' = crr \cup done /\ stale' = stale
  BY DEF HealTables
<1>2. done \subseteq Tables(schema) /\ done \subseteq SyncTables
  BY <1>1 DEF Unconverted
<1>3. Grows /\ Prepared'
  BY <1>1 DEF Grows, Prepared
<1>4. schema' \subseteq Objects /\ crr' \subseteq SyncTables /\ stale' \subseteq crr'
  BY <1>1, <1>2 DEF MigInv, MigTypeOK
<1>5. WellFormed'
  BY <1>1, <1>2 DEF MigInv, WellFormed
<1>6. failures' \subseteq failures
  BY DEF ResolveLanded
<1>7. ASSUME NEW i \in failures, List[i].kind = "CreateSyncTable", i \notin failures'
      PROVE  EffectsPresent(List[i].makes)'
  <2>1. EffectsPresent(Effects(List[i]))'
    BY <1>7 DEF ResolveLanded
  <2>2. Effects(List[i]) = List[i].makes
    BY <1>7 DEF Effects
  <2> QED
    BY <2>1, <2>2
<1>8. MigTypeOK' /\ RecordedIsLanded' /\ Visited' /\ hurt' \in BOOLEAN
  BY <1>1, <1>3, <1>4, <1>6, <1>7, OnKeeps
<1>9. StepOK' /\ HealOK'
  BY <1>8 DEF MigInv, StepOK, HealOK, Steps, Busy, OnCrr
<1> QED
  BY <1>5, <1>8, <1>9 DEF MigInv

LEMMA OutOfBandKeeps ==
    ASSUME MigInv, OutOfBandAlters
    PROVE  MigInv'
<1> USE DEF OutOfBandAlters
<1>1. PICK done \in SUBSET Missing : (Clean \/ Inject) /\ schema' = schema \cup done /\ stale' = stale \ Synced(done)
  OBVIOUS
<1>2. \A o \in done : o \in OutOfBand /\ o[1] = "column" /\ o[2] \in crr
  BY <1>1, MigrationsAssumption DEF Missing
<1>3. Grows
  BY <1>1 DEF Grows, Prepared
<1>4. schema' \subseteq Objects /\ crr' \subseteq SyncTables /\ stale' \subseteq crr' /\ stale' \subseteq stale
  BY <1>1, <1>2 DEF MigInv, MigTypeOK, Objects
<1>5. WellFormed'
  <2>1. Tables(schema') = Tables(schema)
    BY <1>1, <1>2 DEF Tables
  <2> QED
    BY <1>1, <1>2, <1>4, <2>1 DEF MigInv, WellFormed
<1>6. MigTypeOK' /\ RecordedIsLanded' /\ Visited' /\ hurt' \in BOOLEAN
  BY <1>1, <1>3, <1>4, OnKeeps
<1>7. StepOK' /\ HealOK'
  BY <1>6 DEF MigInv, StepOK, HealOK, Steps, Busy, OnCrr
<1> QED
  BY <1>5, <1>6, <1>7 DEF MigInv

LEMMA HealTriggersKeeps ==
    ASSUME MigInv, HealTriggers
    PROVE  MigInv'
<1> USE DEF HealTriggers
<1>1. PICK left \in SUBSET {t \in crr : Stale(t)} : ((Clean /\ left = {}) \/ Inject) /\ stale' = left
  OBVIOUS
<1>2. stale' \subseteq stale
  BY <1>1 DEF Stale
<1>3. Grows /\ schema' \subseteq Objects /\ crr' \subseteq SyncTables /\ stale' \subseteq crr' /\ WellFormed'
  BY <1>2 DEF MigInv, MigTypeOK, Grows, Prepared, WellFormed
<1>4. MigTypeOK' /\ RecordedIsLanded' /\ Visited' /\ hurt' \in BOOLEAN
  BY <1>1, <1>3, OnKeeps
<1>5. StepOK'
  BY <1>4 DEF MigInv, StepOK, Steps, Busy, OnCrr
<1>6. HealOK'
  BY <1>1 DEF HealOK, Inject
<1> QED
  BY <1>3, <1>4, <1>5, <1>6 DEF MigInv

LEMMA NoDrainKeeps ==
    ASSUME MigInv, NoDrain
    PROVE  MigInv'
<1> USE DEF NoDrain, database
<1>1. Grows /\ schema' \subseteq Objects /\ crr' \subseteq SyncTables /\ stale' \subseteq crr' /\ WellFormed'
  BY DEF MigInv, MigTypeOK, Grows, Prepared, WellFormed
<1>2. MigTypeOK' /\ RecordedIsLanded' /\ Visited' /\ hurt' \in BOOLEAN
  BY <1>1, OnKeeps
<1>3. StepOK' /\ HealOK'
  BY <1>2 DEF MigInv, StepOK, HealOK, Steps, Busy, OnCrr, Prepared
<1> QED
  BY <1>1, <1>2, <1>3 DEF MigInv

LEMMA ConvertAllKeeps ==
    ASSUME MigInv, ConvertAll
    PROVE  MigInv'
<1> USE DEF ConvertAll
<1>1. schema' \subseteq Objects /\ crr' \subseteq SyncTables /\ stale' \subseteq crr'
  BY DEF MigInv, MigTypeOK, Objects
<1>2. Tables(schema') = Tables(schema)
  <2>1. \A o \in OutOfBand : o[1] = "column"
    BY MigrationsAssumption
  <2> QED
    BY <2>1 DEF Tables
<1>3. WellFormed'
  BY <1>2 DEF MigInv, WellFormed
<1>4. MigTypeOK' /\ RecordedIsLanded' /\ Visited' /\ hurt' \in BOOLEAN
  BY <1>1, OnKeeps
<1>5. StepOK' /\ HealOK'
  BY <1>4 DEF MigInv, StepOK, HealOK, Steps, Busy, OnCrr
<1> QED
  BY <1>3, <1>4, <1>5 DEF MigInv

LEMMA StopKeeps ==
    ASSUME MigInv, Stop \/ UNCHANGED migVars
    PROVE  MigInv'
<1> USE DEF Stop, migVars, database
<1>1. MigTypeOK' /\ WellFormed' /\ StepOK' /\ HealOK'
  BY DEF MigInv, MigTypeOK, WellFormed, StepOK, HealOK, Steps, Busy, OnCrr, Prepared, M, EffectsPresent, Landed, Stale
<1>2. RecordedIsLanded'
  BY DEF MigInv, RecordedIsLanded, EffectsPresent, Landed, Stale, Prepared
<1>3. Visited'
  BY DEF MigInv, Visited, EffectsPresent, Landed, Stale, Prepared
<1> QED
  BY <1>1, <1>2, <1>3 DEF MigInv

LEMMA MigIsSound == MigInv => MigrationsLand
<1> SUFFICES ASSUME MigInv PROVE MigrationsLand
  OBVIOUS
<1>1. step = "up" => \A i \in DOMAIN List :
          List[i].kind = "CreateSyncTable" /\ ~EffectsPresent(List[i].makes) => i \in failures /\ hurt
  BY ListLen DEF MigInv, Visited, StepOK
<1>2. CleanBootRepairs
  BY <1>1 DEF MigInv, CleanBootRepairs, HealOK
<1>3. UnreadyReported
  BY <1>1 DEF UnreadyReported
<1> QED
  BY <1>2, <1>3 DEF MigInv, MigrationsLand

(* However often a start is cut short or fails between a create, its        *)
(* conversion and its record (run_migrations_list_with, ensure_crr and the   *)
(* drain's heals): what is recorded has landed, one start without an error   *)
(* repairs the rest, and what is not ready is among the reported failures.   *)
THEOREM MigrationsLandHolds == MigSpec => []MigrationsLand
<1>1. MigInv /\ [MigNext]_migVars => MigInv'
  <2> SUFFICES ASSUME MigInv, [MigNext]_migVars PROVE MigInv'
    OBVIOUS
  <2> QED
    BY BootKeeps, SkipKeeps, RouteKeeps, ApplyPlainKeeps, AlterKeeps, CreateKeeps, ConvertKeeps,
       IndexKeeps, RecordAlterKeeps, FallbackKeeps, HealUnconvertedKeeps, OutOfBandKeeps,
       HealTriggersKeeps, NoDrainKeeps, ConvertAllKeeps, StopKeeps DEF MigNext
<1> QED
  BY <1>1, MigInitial, MigIsSound, PTL DEF MigSpec

------------------------------------------------------------------------------
(* The cutover.  Which files are there and hold every answered write the     *)
(* repairs keep follows from where the process is: the live file until it is *)
(* moved away, the backup from then until the counts are compared, the       *)
(* staging file between the copy and the swap.  A second failed operation,   *)
(* or a crash after one, may cost the complete live file; even then one      *)
(* failure leaves each write in the live file, the backup or an earlier one. *)
Files == [on : BOOLEAN, rows : SUBSET Writes, crr : BOOLEAN, bound : Tenants \cup {NoTenant},
          outbox : SUBSET (Tenants \cup {NoTenant}), marks : Tenants \cup {NoTenant}]
Disks == [Names -> Files]
Ats   == Swapping \cup Booting
           \cup {"idle", "gate", "vacuum", "vacuuming", "bind", "outbox", "bound", "spawn"}

Kept     == safe \ Orphans
Has(n)   == On(n) /\ Kept \subseteq disk[n].rows
InAsides == UNION {f.rows : f \in asides}
Sound    == faults = 0 \/ (crashes = 0 /\ faults = 1)

\* The steps at which staging is a copy of the live file, the backup is what
\* the live file was, no connection is open, and the live path may be bare.
Copied   == {"prepare", "close", "aside", "journal", "move", "moved", "swap"}
Moved    == {"moved", "swap", "unswap", "swapped", "reopen", "verify", "rollback", "restore"}
Closed   == {"aside", "journal", "move", "moved", "swap", "unswap", "swapped", "reopen",
             "restore", "unroll"} \cup Booting
LiveAway == {"moved", "swap", "unswap", "restore", "off"}

FlagsOK == pool \in BOOLEAN /\ swapping \in BOOLEAN

PlacesOK ==
  /\ at \in Ats
  /\ journal.phase \in {"none", "SwapStarted", "BackupMoved", "SwapCompleted"}
  /\ drain \in Tenants \cup {NoTenant} /\ tenant \in Tenants \cup {NoTenant}
  /\ safe \subseteq Writes
  /\ faults \in 0..MaxFaults /\ crashes \in 0..MaxCrashes

ShutOK ==
  /\ \A n \in Names : ~On(n) => disk[n].rows = {}
  /\ at \in Closed => ~pool
  /\ pool => On("live")
  /\ at \in Booting => crashes > 0
  /\ at = "unswap" => faults > 0

UnionOK == faults <= 1 =>
  /\ Kept \subseteq disk["live"].rows \cup disk["backup"].rows \cup InAsides
  /\ at \in Moved => Kept \subseteq disk["backup"].rows \cup InAsides
  /\ at \in {"journal", "move"} => Kept \subseteq disk["live"].rows \cup InAsides

FullOK == Sound =>
  /\ at \notin LiveAway => Has("live")
  /\ at \in Copied => Has("staging")
  /\ at \in Swapping /\ On("staging") => Has("staging")
  /\ at \in Moved => Has("backup")
  /\ at = "restore" /\ faults = 0 => Has("failed")
  /\ at \in {"moved", "swap", "unswap"} \/ (at = "restore" /\ faults = 0) => ~On("live")
  /\ at = "off" => Has("live") \/ (Has("backup") /\ ~On("live") /\ (On("staging") => Has("staging")))

Own(f, t) == f.outbox \subseteq {t} /\ f.marks \in {NoTenant, t} /\ f.bound \in {NoTenant, t}
OwnOK ==
  /\ \A n \in Names : disk[n].bound # NoTenant => Own(disk[n], disk[n].bound)
  /\ enabled => tenant # NoTenant
  /\ at \notin Booting \cup {"idle"} => tenant # NoTenant
  /\ at \in Booting => drain = NoTenant
  /\ at = "bound" => disk["live"].outbox \subseteq {tenant} /\ disk["live"].marks \in {NoTenant, tenant}
  /\ at = "spawn" => disk["live"].bound = tenant
  /\ drain # NoTenant =>
       /\ drain = tenant
       /\ Own(disk["live"], drain)
       /\ at \in Copied => Own(disk["staging"], drain)
       /\ at \in Moved => Own(disk["backup"], drain)
       /\ at = "restore" => Own(disk["failed"], drain)

CutInv == disk \in Disks /\ FlagsOK /\ PlacesOK /\ ShutOK /\ UnionOK /\ FullOK /\ OwnOK

(* The file operations, on any disk.                                        *)
LEMMA EmptyFiles ==
    /\ NoFile \in Files /\ NoFile.rows = {} /\ ~NoFile.on
    /\ NewDb \in Files /\ NewDb.rows = {} /\ NewDb.on
BY DEF NoFile, NewDb, Files

LEMMA Renamed ==
    ASSUME NEW d \in Disks, NEW a \in Names, NEW b \in Names, a # b
    PROVE  /\ Rename(a, b, d) \in Disks /\ Rename(a, b, d)[b] = d[a] /\ Rename(a, b, d)[a] = NoFile
           /\ \A n \in Names \ {a, b} : Rename(a, b, d)[n] = d[n]
BY EmptyFiles DEF Disks, Rename

LEMMA Removed ==
    ASSUME NEW d \in Disks, NEW a \in Names
    PROVE  /\ RemoveDb(a, d) \in Disks /\ RemoveDb(a, d)[a] = NoFile
           /\ \A n \in Names \ {a} : RemoveDb(a, d)[n] = d[n]
BY EmptyFiles DEF Disks, RemoveDb

LEMMA OpenedLive ==
    ASSUME NEW d \in Disks
    PROVE  /\ Opened(d) \in Disks /\ Opened(d)["live"].on
           /\ Opened(d)["live"] = IF d["live"].on THEN d["live"] ELSE NewDb
           /\ \A n \in Names \ {"live"} : Opened(d)[n] = d[n]
BY EmptyFiles DEF Disks, Opened, Names

(* The conversion and its repairs: the orphans go, the watermarks restart.   *)
LEMMA ConvertedFile ==
    ASSUME NEW f \in Files
    PROVE  Converted(f) \in Files /\ Converted(f).rows = f.rows \ Orphans /\ Converted(f).on = f.on
           /\ Converted(f).outbox = f.outbox /\ Converted(f).bound = f.bound /\ Converted(f).marks = NoTenant
BY DEF Converted, Files

(* A write of the app and a pass of the drain.                               *)
LEMMA Appended ==
    ASSUME NEW f \in Files, NEW w \in Inserts
    PROVE  [f EXCEPT !.rows = @ \cup {w}] \in Files
<1>1. w \in Writes
  BY DEF Writes
<1> QED
  BY <1>1 DEF Files

LEMMA Drained ==
    ASSUME NEW f \in Files, NEW u \in Tenants \cup {NoTenant}
    PROVE  [f EXCEPT !.outbox = @ \cup {u}, !.marks = u] \in Files
BY DEF Files

LEMMA DrainedDisk ==
    ASSUME disk \in Disks, DrainPass
    PROVE  /\ \A n \in Names \ {"live"} : disk'[n] = disk[n]
           /\ disk'["live"].outbox = disk["live"].outbox \cup {drain}
           /\ disk'["live"].marks = drain /\ disk'["live"].bound = disk["live"].bound
           /\ disk'["live"].on = disk["live"].on /\ disk'["live"].rows = disk["live"].rows
<1>1. PICK f \in Files : f = disk["live"]
  BY DEF Disks, Names
<1>2. PICK g : g = [f EXCEPT !.outbox = @ \cup {drain}, !.marks = drain]
  OBVIOUS
<1>3. /\ g.outbox = f.outbox \cup {drain} /\ g.marks = drain /\ g.bound = f.bound
      /\ g.on = f.on /\ g.rows = f.rows
  BY <1>2 DEF Files
<1>4. disk' = [disk EXCEPT !["live"] = g]
  BY <1>1, <1>2 DEF DrainPass, Disks, Names
<1> QED
  BY <1>1, <1>3, <1>4 DEF Disks, Names

LEMMA Cleared ==
    ASSUME NEW f \in Files
    PROVE  ResetForBinding(f) \in Files
BY DEF Files, ResetForBinding

(* The two flags of the service stay flags.                                  *)
LEMMA CutFlags ==
    ASSUME CutInv, CutNext
    PROVE  FlagsOK'
<1> USE CutoverAssumption DEF stored, service, account, bounds, CutInv, FlagsOK, CutoverAssumption
<1>1. ASSUME NEW w \in Inserts, AppWrite(w) PROVE FlagsOK'
  BY <1>1, Zenon DEF AppWrite, Committed, Swapping
<1>2. ASSUME NEW w \in Inserts, DirectWrite(w) PROVE FlagsOK'
  BY <1>2, Zenon DEF DirectWrite, Booting, Committed, Swapping
<1>3. CASE DrainPass
  BY <1>3, Zenon DEF DrainPass
<1>4. ASSUME NEW t \in Tenants, SignIn(t) PROVE FlagsOK'
  BY <1>4, Zenon DEF SignIn
<1>5. CASE SignOut
  BY <1>5, Zenon DEF SignOut
<1>6. CASE SyncDisable
  BY <1>6, Zenon DEF SyncDisable
<1>7. CASE SyncEnable
  BY <1>7, Zenon DEF SyncEnable
<1>8. CASE CutGate
  BY <1>8, Zenon DEF CutGate, Artifacts, Counts, CrrPrepared, NoUserRows, SyncedRows
<1>9. CASE CutVacuum
  BY <1>9, Zenon DEF CutVacuum
<1>10. CASE CutPrepare
  BY <1>10, Zenon DEF CutPrepare
<1>11. CASE CloseForSwap
  BY <1>11, Zenon DEF CloseForSwap
<1>12. CASE CutAside
  BY <1>12, Zenon DEF CutAside
<1>13. CASE CutJournal
  BY <1>13, Zenon DEF CutJournal
<1>14. CASE CutMove
  BY <1>14, Zenon DEF CutMove, NoJournal
<1>15. CASE CutPhase
  BY <1>15, Zenon DEF CutPhase
<1>16. CASE CutSwap
  BY <1>16, Zenon DEF CutSwap
<1>17. CASE CutUnswap
  BY <1>17, Zenon DEF CutUnswap, NoJournal
<1>18. CASE CutGiveUp
  BY <1>18, Zenon DEF CutGiveUp
<1>19. CASE CutReopen
  BY <1>19, Zenon DEF CutReopen
<1>20. CASE CutVerify
  BY <1>20, Zenon DEF CutVerify, Counts, NoJournal
<1>21. CASE RollAside
  BY <1>21, Zenon DEF RollAside
<1>22. CASE RollRestore
  BY <1>22, Zenon DEF RollRestore
<1>23. CASE RollEnd
  BY <1>23, Zenon DEF RollEnd, NoJournal
<1>24. CASE BindReset
  BY <1>24, Zenon DEF BindReset
<1>25. CASE BindClear
  BY <1>25, Zenon DEF BindClear, ResetForBinding
<1>26. CASE BindRecord
  BY <1>26, Zenon DEF BindRecord
<1>27. CASE SpawnDrain
  BY <1>27, Zenon DEF SpawnDrain
<1>28. CASE Crash
  BY <1>28, Zenon DEF Crash
<1>29. CASE Upgrade
  BY <1>29, Zenon DEF Upgrade, Names
<1>30. CASE BootRecover
  BY <1>30, Zenon DEF BootRecover, RecoverFromJournal, RecoverWithoutJournal, RestoreOrReport,
      CopyIntoLive, RenameIntoLive, StagingValid, Counts
<1>31. CASE BootUnjournal
  BY <1>31, Zenon DEF BootUnjournal, NoJournal
<1>32. CASE BootOpen
  BY <1>32, Zenon DEF BootOpen
<1> QED
  BY <1>1, <1>2, <1>3, <1>4, <1>5, <1>6, <1>7, <1>8, <1>9, <1>10, <1>11, <1>12, <1>13,
     <1>14, <1>15, <1>16, <1>17, <1>18, <1>19, <1>20, <1>21, <1>22, <1>23, <1>24, <1>25, <1>26,
     <1>27, <1>28, <1>29, <1>30, <1>31, <1>32, Zenon DEF CutNext, CutStep

(* The disk stays four files, whatever a step renames, copies or drops.      *)
LEMMA CutFiles ==
    ASSUME CutInv, CutNext
    PROVE  disk' \in Disks
<1> USE EmptyFiles, Renamed, Removed, OpenedLive, ConvertedFile, CutoverAssumption DEF stored,
      service, account, bounds, Working, CutInv, Names, PlacesOK, CutoverAssumption
<1>1. ASSUME NEW w \in Inserts, AppWrite(w) PROVE disk' \in Disks
  <2>1. PICK f \in Files : f = disk["live"]
    BY DEF Disks
  <2>2. PICK g \in Files : g = [f EXCEPT !.rows = @ \cup {w}]
    BY <2>1, Appended
  <2>3. disk' = [disk EXCEPT !["live"] = g]
    BY <1>1, <2>1, <2>2 DEF AppWrite, Committed, Disks
  <2> QED
    BY <2>3 DEF Disks
<1>2. ASSUME NEW w \in Inserts, DirectWrite(w) PROVE disk' \in Disks
  <2>1. PICK f \in Files : f = disk["live"]
    BY DEF Disks
  <2>2. PICK g \in Files : g = [f EXCEPT !.rows = @ \cup {w}]
    BY <2>1, Appended
  <2>3. disk' = [disk EXCEPT !["live"] = g]
    BY <1>2, <2>1, <2>2 DEF DirectWrite, Committed, Disks
  <2> QED
    BY <2>3 DEF Disks
<1>3. CASE DrainPass
  <2>1. PICK f \in Files, u \in Tenants \cup {NoTenant} : f = disk["live"] /\ u = drain
    BY DEF Disks
  <2>2. PICK g \in Files : g = [f EXCEPT !.outbox = @ \cup {u}, !.marks = u]
    BY Drained
  <2>3. disk' = [disk EXCEPT !["live"] = g]
    BY <1>3, <2>1, <2>2 DEF DrainPass, Disks
  <2> QED
    BY <2>3 DEF Disks
<1>4. ASSUME NEW t \in Tenants, SignIn(t) PROVE disk' \in Disks
  BY <1>4 DEF SignIn
<1>5. CASE SignOut
  BY <1>5 DEF SignOut
<1>6. CASE SyncDisable
  BY <1>6 DEF SyncDisable
<1>7. CASE SyncEnable
  BY <1>7 DEF SyncEnable
<1>8. CASE CutGate
  BY <1>8 DEF CutGate, Artifacts, Counts, CrrPrepared, Failing, GiveUp, NoUserRows, On, SyncedRows
<1>9. CASE CutVacuum
  BY <1>9 DEF CutVacuum, Failing, GiveUp, Disks, Files
<1>10. CASE CutPrepare
  BY <1>10 DEF CutPrepare, Failing, GiveUp, Disks, Files
<1>11. CASE CloseForSwap
  BY <1>11 DEF CloseForSwap, Failing
<1>12. CASE CutAside
  BY <1>12 DEF CutAside, Failing, On
<1>13. CASE CutJournal
  BY <1>13 DEF CutJournal, Failing
<1>14. CASE CutMove
  BY <1>14 DEF CutMove, Failing
<1>15. CASE CutPhase
  BY <1>15 DEF CutPhase, Failing
<1>16. CASE CutSwap
  BY <1>16 DEF CutSwap, Failing
<1>17. CASE CutUnswap
  BY <1>17 DEF CutUnswap, Failing
<1>18. CASE CutGiveUp
  BY <1>18 DEF CutGiveUp, Failing, GiveUp
<1>19. CASE CutReopen
  BY <1>19 DEF CutReopen, Failing
<1>20. CASE CutVerify
  BY <1>20 DEF CutVerify, Counts, Failing
<1>21. CASE RollAside
  BY <1>21 DEF RollAside, Failing
<1>22. CASE RollRestore
  BY <1>22 DEF RollRestore, Failing, On
<1>23. CASE RollEnd
  BY <1>23 DEF RollEnd, Failing, GiveUp
<1>24. CASE BindReset
  BY <1>24 DEF BindReset, Disks, Files
<1>25. CASE BindClear
  <2>1. PICK f \in Files : f = disk["live"]
    BY DEF Disks
  <2>2. PICK g \in Files : g = ResetForBinding(f)
    BY Cleared
  <2>3. disk' = [disk EXCEPT !["live"] = g]
    BY <1>25, <2>1, <2>2 DEF BindClear, Disks
  <2> QED
    BY <2>3 DEF Disks
<1>26. CASE BindRecord
  BY <1>26 DEF BindRecord, Disks, Files
<1>27. CASE SpawnDrain
  BY <1>27 DEF SpawnDrain
<1>28. CASE Crash
  BY <1>28 DEF Crash
<1>29. CASE Upgrade
  <2>1. \A f \in Files : [f EXCEPT !.crr = FALSE] \in Files
    BY DEF Files
  <2>2. disk' = [n \in Names |-> [disk[n] EXCEPT !.crr = FALSE]]
    BY <1>29 DEF Upgrade
  <2> QED
    BY <2>1, <2>2 DEF Disks
<1>30. CASE BootRecover
  <2>1. PICK restored \in {RecoverFromJournal, RecoverWithoutJournal} : disk' \in {disk, restored}
    BY <1>30 DEF BootRecover, RestoreOrReport
  <2>2. \A n \in {"backup", "staging"} : CopyIntoLive(n) \in Disks /\ RenameIntoLive(n) \in Disks
    BY DEF CopyIntoLive, RenameIntoLive, Disks
  <2>3. RecoverFromJournal \in Disks
    BY <2>2 DEF RecoverFromJournal
  <2>4. RecoverWithoutJournal \in Disks
    BY <2>2 DEF RecoverWithoutJournal
  <2> QED
    BY <2>1, <2>3, <2>4
<1>31. CASE BootUnjournal
  BY <1>31 DEF BootUnjournal, Failing
<1>32. CASE BootOpen
  BY <1>32 DEF BootOpen
<1> QED
  BY <1>1, <1>2, <1>3, <1>4, <1>5, <1>6, <1>7, <1>8, <1>9, <1>10, <1>11, <1>12, <1>13,
     <1>14, <1>15, <1>16, <1>17, <1>18, <1>19, <1>20, <1>21, <1>22, <1>23, <1>24, <1>25, <1>26,
     <1>27, <1>28, <1>29, <1>30, <1>31, <1>32, Zenon DEF CutNext, CutStep

(* The process is at a step of a cutover or a boot, or at a command.         *)
LEMMA CutPlaces ==
    ASSUME CutInv, CutNext
    PROVE  PlacesOK'
<1> USE CutoverAssumption DEF stored, service, account, bounds, GiveUp, Swapping, Booting, CutInv,
      PlacesOK, Ats, Failing, Working, NoJournal, Names, CutoverAssumption
<1>1. ASSUME NEW w \in Inserts, AppWrite(w) PROVE PlacesOK'
  BY <1>1 DEF AppWrite, Committed, Writes
<1>2. ASSUME NEW w \in Inserts, DirectWrite(w) PROVE PlacesOK'
  BY <1>2 DEF DirectWrite, Committed, On, Writes
<1>3. CASE DrainPass
  BY <1>3 DEF DrainPass
<1>4. ASSUME NEW t \in Tenants, SignIn(t) PROVE PlacesOK'
  BY <1>4 DEF SignIn
<1>5. CASE SignOut
  BY <1>5 DEF SignOut
<1>6. CASE SyncDisable
  BY <1>6 DEF SyncDisable
<1>7. CASE SyncEnable
  BY <1>7 DEF SyncEnable
<1>8. CASE CutGate
  BY <1>8 DEF CutGate, Artifacts, Counts, CrrPrepared, NoUserRows, On, SyncedRows
<1>9. CASE CutVacuum
  BY <1>9 DEF CutVacuum
<1>10. CASE CutPrepare
  BY <1>10 DEF CutPrepare
<1>11. CASE CloseForSwap
  BY <1>11 DEF CloseForSwap
<1>12. CASE CutAside
  BY <1>12 DEF CutAside, On
<1>13. CASE CutJournal
  BY <1>13 DEF CutJournal
<1>14. CASE CutMove
  BY <1>14 DEF CutMove
<1>15. CASE CutPhase
  BY <1>15 DEF CutPhase
<1>16. CASE CutSwap
  BY <1>16 DEF CutSwap
<1>17. CASE CutUnswap
  BY <1>17 DEF CutUnswap
<1>18. CASE CutGiveUp
  BY <1>18 DEF CutGiveUp
<1>19. CASE CutReopen
  BY <1>19 DEF CutReopen
<1>20. CASE CutVerify
  BY <1>20 DEF CutVerify, Counts
<1>21. CASE RollAside
  BY <1>21 DEF RollAside
<1>22. CASE RollRestore
  BY <1>22 DEF RollRestore, On
<1>23. CASE RollEnd
  BY <1>23 DEF RollEnd
<1>24. CASE BindReset
  BY <1>24 DEF BindReset
<1>25. CASE BindClear
  BY <1>25 DEF BindClear, ResetForBinding
<1>26. CASE BindRecord
  BY <1>26 DEF BindRecord
<1>27. CASE SpawnDrain
  BY <1>27 DEF SpawnDrain
<1>28. CASE Crash
  BY <1>28 DEF Crash
<1>29. CASE Upgrade
  BY <1>29 DEF Upgrade
<1>30. CASE BootRecover
  BY <1>30 DEF BootRecover, RecoverFromJournal, RecoverWithoutJournal, RestoreOrReport,
      CopyIntoLive, On, RenameIntoLive, StagingValid, Counts
<1>31. CASE BootUnjournal
  BY <1>31 DEF BootUnjournal
<1>32. CASE BootOpen
  BY <1>32 DEF BootOpen
<1> QED
  BY <1>1, <1>2, <1>3, <1>4, <1>5, <1>6, <1>7, <1>8, <1>9, <1>10, <1>11, <1>12, <1>13,
     <1>14, <1>15, <1>16, <1>17, <1>18, <1>19, <1>20, <1>21, <1>22, <1>23, <1>24, <1>25, <1>26,
     <1>27, <1>28, <1>29, <1>30, <1>31, <1>32, Zenon DEF CutNext, CutStep

(* The pool is shut from close_for_swap until the reopen, and across a boot; *)
(* a file that is not there holds nothing.                                   *)
LEMMA CutShut ==
    ASSUME CutInv, CutNext
    PROVE  ShutOK'
<1> USE EmptyFiles, Renamed, Removed, OpenedLive, ConvertedFile, CutoverAssumption DEF stored,
      service, account, bounds, Failing, Working, GiveUp, On, Swapping, Booting, Names, CutInv,
      PlacesOK, ShutOK, Closed, CutoverAssumption
<1>1. ASSUME NEW w \in Inserts, AppWrite(w) PROVE ShutOK'
  BY <1>1 DEF AppWrite, Committed
<1>2. ASSUME NEW w \in Inserts, DirectWrite(w) PROVE ShutOK'
  BY <1>2 DEF DirectWrite, Committed
<1>3. CASE DrainPass
  <2>1. \A n \in Names : disk'[n].on = disk[n].on /\ disk'[n].rows = disk[n].rows
    BY <1>3, DrainedDisk
  <2>2. UNCHANGED <<at, pool, faults, crashes>>
    BY <1>3 DEF DrainPass
  <2> QED
    BY <2>1, <2>2
<1>4. ASSUME NEW t \in Tenants, SignIn(t) PROVE ShutOK'
  BY <1>4 DEF SignIn
<1>5. CASE SignOut
  BY <1>5 DEF SignOut
<1>6. CASE SyncDisable
  BY <1>6 DEF SyncDisable
<1>7. CASE SyncEnable
  BY <1>7 DEF SyncEnable
<1>8. CASE CutGate
  BY <1>8 DEF CutGate, Artifacts, Counts, CrrPrepared, NoUserRows, SyncedRows
<1>9. CASE CutVacuum
  BY <1>9 DEF CutVacuum, Disks, Files
<1>10. CASE CutPrepare
  BY <1>10 DEF CutPrepare, Disks, Files
<1>11. CASE CloseForSwap
  BY <1>11 DEF CloseForSwap
<1>12. CASE CutAside
  BY <1>12 DEF CutAside
<1>13. CASE CutJournal
  BY <1>13 DEF CutJournal
<1>14. CASE CutMove
  BY <1>14 DEF CutMove
<1>15. CASE CutPhase
  BY <1>15 DEF CutPhase
<1>16. CASE CutSwap
  BY <1>16 DEF CutSwap
<1>17. CASE CutUnswap
  BY <1>17 DEF CutUnswap
<1>18. CASE CutGiveUp
  BY <1>18 DEF CutGiveUp
<1>19. CASE CutReopen
  BY <1>19 DEF CutReopen
<1>20. CASE CutVerify
  BY <1>20 DEF CutVerify, Counts
<1>21. CASE RollAside
  BY <1>21 DEF RollAside
<1>22. CASE RollRestore
  BY <1>22 DEF RollRestore
<1>23. CASE RollEnd
  BY <1>23 DEF RollEnd
<1>24. CASE BindReset
  BY <1>24 DEF BindReset, Disks, Files
<1>25. CASE BindClear
  BY <1>25 DEF BindClear, ResetForBinding
<1>26. CASE BindRecord
  BY <1>26 DEF BindRecord
<1>27. CASE SpawnDrain
  BY <1>27 DEF SpawnDrain
<1>28. CASE Crash
  BY <1>28 DEF Crash
<1>29. CASE Upgrade
  BY <1>29 DEF Upgrade, Disks, Files
<1>30. CASE BootRecover
  <2>1. at \in Booting /\ ~pool
    BY <1>30 DEF BootRecover, FlagsOK
  <2>2. pool' = pool /\ at' \in {"unjournal", "open"} /\ crashes' = crashes
    BY <1>30 DEF BootRecover
  <2>3. \A n \in Names : ~disk'[n].on => disk'[n].rows = {}
    BY <1>30 DEF BootRecover, Disks, RecoverFromJournal, RecoverWithoutJournal, CopyIntoLive,
      RenameIntoLive, RestoreOrReport
  <2> QED
    BY <2>1, <2>2, <2>3, Zenon DEF ShutOK, Closed, Booting, On
<1>31. CASE BootUnjournal
  BY <1>31 DEF BootUnjournal
<1>32. CASE BootOpen
  BY <1>32 DEF BootOpen
<1> QED
  BY <1>1, <1>2, <1>3, <1>4, <1>5, <1>6, <1>7, <1>8, <1>9, <1>10, <1>11, <1>12, <1>13,
     <1>14, <1>15, <1>16, <1>17, <1>18, <1>19, <1>20, <1>21, <1>22, <1>23, <1>24, <1>25, <1>26,
     <1>27, <1>28, <1>29, <1>30, <1>31, <1>32, Zenon DEF CutNext, CutStep

(* With one failed file operation at most, the backup and the earlier backups *)
(* hold every answered write once the live file is moved away.               *)
LEMMA CutUnion ==
    ASSUME CutInv, CutNext
    PROVE  UnionOK'
<1> USE CutoverAssumption DEF stored, service, account, bounds, Failing, Working, GiveUp, On,
      Swapping, Booting, Names, Disks, Files, CutInv, PlacesOK, ShutOK, CutoverAssumption
<1>1. ASSUME NEW w \in Inserts, AppWrite(w) PROVE UnionOK'
  BY <1>1 DEF UnionOK, AppWrite, InAsides, Kept, Moved, Committed
<1>2. ASSUME NEW w \in Inserts, DirectWrite(w) PROVE UnionOK'
  BY <1>2 DEF UnionOK, DirectWrite, InAsides, Kept, Moved, Committed
<1>3. CASE DrainPass
  BY <1>3 DEF UnionOK, DrainPass, InAsides, Kept, Moved
<1>4. ASSUME NEW t \in Tenants, SignIn(t) PROVE UnionOK'
  BY <1>4 DEF UnionOK, SignIn, InAsides, Kept, Moved
<1>5. CASE SignOut
  BY <1>5 DEF UnionOK, SignOut, InAsides, Kept, Moved
<1>6. CASE SyncDisable
  BY <1>6 DEF UnionOK, SyncDisable, InAsides, Kept, Moved
<1>7. CASE SyncEnable
  BY <1>7 DEF UnionOK, SyncEnable, InAsides, Kept, Moved
<1>8. CASE CutGate
  BY <1>8 DEF UnionOK, CutGate, InAsides, Kept, Moved, Artifacts, Counts, CrrPrepared, NoUserRows,
      RemoveDb, SyncedRows, NoFile
<1>9. CASE CutVacuum
  BY <1>9 DEF UnionOK, CutVacuum, InAsides, Kept, Moved, NewDb, NoFile
<1>10. CASE CutPrepare
  BY <1>10 DEF UnionOK, CutPrepare, InAsides, Kept, Moved, Converted, RemoveDb, NoFile
<1>11. CASE CloseForSwap
  BY <1>11 DEF UnionOK, CloseForSwap, InAsides, Kept, Moved
<1>12. CASE CutAside
  <2>1. CASE Failing /\ UNCHANGED <<disk, asides>>
    BY <1>12, <2>1 DEF CutAside, UnionOK, FullOK, Sound, Kept, Has, InAsides, Moved, Copied, LiveAway
  <2>2. CASE /\ Working /\ On("backup") /\ disk' = RemoveDb("backup", disk)
             /\ asides' = asides \cup {disk["backup"]}
    <3>1. InAsides' = InAsides \cup disk["backup"].rows
      BY <2>2 DEF InAsides
    <3> QED
      BY <1>12, <2>2, <3>1, EmptyFiles, Removed DEF CutAside, UnionOK, Kept, Moved
  <2>3. CASE /\ Working /\ ~On("backup") /\ disk' = RemoveDb("backup", disk)
             /\ asides' = asides
    BY <1>12, <2>3, EmptyFiles, Removed DEF CutAside, UnionOK, Kept, InAsides, Moved
  <2> QED
    BY <1>12, <2>1, <2>2, <2>3 DEF CutAside
<1>13. CASE CutJournal
  BY <1>13 DEF UnionOK, CutJournal, InAsides, Kept, Moved
<1>14. CASE CutMove
  BY <1>14 DEF UnionOK, CutMove, InAsides, Kept, Moved, NoJournal, Rename, NoFile
<1>15. CASE CutPhase
  BY <1>15 DEF UnionOK, CutPhase, InAsides, Kept, Moved
<1>16. CASE CutSwap
  BY <1>16 DEF UnionOK, CutSwap, InAsides, Kept, Moved, Rename, NoFile
<1>17. CASE CutUnswap
  BY <1>17 DEF UnionOK, CutUnswap, InAsides, Kept, Moved, NoJournal, Rename, NoFile
<1>18. CASE CutGiveUp
  BY <1>18 DEF UnionOK, CutGiveUp, InAsides, Kept, Moved, Opened, RemoveDb, NewDb, NoFile
<1>19. CASE CutReopen
  BY <1>19 DEF UnionOK, CutReopen, InAsides, Kept, Moved, Opened, NewDb, NoFile
<1>20. CASE CutVerify
  BY <1>20 DEF UnionOK, CutVerify, InAsides, Kept, Moved, Counts, NoJournal
<1>21. CASE RollAside
  BY <1>21 DEF UnionOK, RollAside, InAsides, Kept, Moved, RemoveDb, Rename, NoFile
<1>22. CASE RollRestore
  BY <1>22 DEF UnionOK, RollRestore, InAsides, Kept, Moved, RemoveDb, Rename, NoFile
<1>23. CASE RollEnd
  BY <1>23 DEF UnionOK, RollEnd, InAsides, Kept, Moved, NoJournal, Opened, NewDb, NoFile
<1>24. CASE BindReset
  BY <1>24 DEF UnionOK, BindReset, InAsides, Kept, Moved
<1>25. CASE BindClear
  BY <1>25 DEF UnionOK, BindClear, InAsides, Kept, Moved, ResetForBinding
<1>26. CASE BindRecord
  BY <1>26 DEF UnionOK, BindRecord, InAsides, Kept, Moved
<1>27. CASE SpawnDrain
  BY <1>27 DEF UnionOK, SpawnDrain, InAsides, Kept, Moved
<1>28. CASE Crash
  BY <1>28 DEF UnionOK, Crash, InAsides, Kept, Moved
<1>29. CASE Upgrade
  BY <1>29 DEF UnionOK, Upgrade, InAsides, Kept, Moved
<1>30. CASE BootRecover
  BY <1>30 DEF UnionOK, BootRecover, InAsides, Kept, Moved, RecoverFromJournal,
      RecoverWithoutJournal, RestoreOrReport, CopyIntoLive, RenameIntoLive, StagingValid, Rename,
      Counts, NoFile
<1>31. CASE BootUnjournal
  BY <1>31 DEF UnionOK, BootUnjournal, InAsides, Kept, Moved, NoJournal
<1>32. CASE BootOpen
  BY <1>32 DEF UnionOK, BootOpen, InAsides, Kept, Moved, Opened, NewDb, NoFile
<1> QED
  BY <1>1, <1>2, <1>3, <1>4, <1>5, <1>6, <1>7, <1>8, <1>9, <1>10, <1>11, <1>12, <1>13,
     <1>14, <1>15, <1>16, <1>17, <1>18, <1>19, <1>20, <1>21, <1>22, <1>23, <1>24, <1>25, <1>26,
     <1>27, <1>28, <1>29, <1>30, <1>31, <1>32, Zenon DEF CutNext, CutStep

(* Where the complete copies are at each step.                               *)
LEMMA CutFull ==
    ASSUME CutInv, CutNext
    PROVE  FullOK'
<1> USE CutoverAssumption DEF stored, service, account, bounds, Failing, Working, GiveUp, On,
      Swapping, Booting, Names, Disks, Files, CutInv, PlacesOK, ShutOK, CutoverAssumption
<1>1. ASSUME NEW w \in Inserts, AppWrite(w) PROVE FullOK'
  BY <1>1 DEF FullOK, AppWrite, Copied, Has, LiveAway, Moved, Sound, Committed, Kept
<1>2. ASSUME NEW w \in Inserts, DirectWrite(w) PROVE FullOK'
  BY <1>2 DEF FullOK, DirectWrite, Copied, Has, LiveAway, Moved, Sound, Committed, Kept
<1>3. CASE DrainPass
  BY <1>3 DEF FullOK, DrainPass, Copied, Has, LiveAway, Moved, Sound, Kept
<1>4. ASSUME NEW t \in Tenants, SignIn(t) PROVE FullOK'
  BY <1>4 DEF FullOK, SignIn, Copied, Has, LiveAway, Moved, Sound, Kept
<1>5. CASE SignOut
  BY <1>5 DEF FullOK, SignOut, Copied, Has, LiveAway, Moved, Sound, Kept
<1>6. CASE SyncDisable
  BY <1>6 DEF FullOK, SyncDisable, Copied, Has, LiveAway, Moved, Sound, Kept
<1>7. CASE SyncEnable
  BY <1>7 DEF FullOK, SyncEnable, Copied, Has, LiveAway, Moved, Sound, Kept
<1>8. CASE CutGate
  BY <1>8 DEF FullOK, CutGate, Copied, Has, LiveAway, Moved, Sound, Artifacts, Counts,
      CrrPrepared, NoUserRows, RemoveDb, Kept, SyncedRows, NoFile
<1>9. CASE CutVacuum
  BY <1>9 DEF FullOK, CutVacuum, Copied, Has, LiveAway, Moved, Sound, NewDb, Kept, NoFile
<1>10. CASE CutPrepare
  <2>1. CASE Failing /\ GiveUp /\ disk' = RemoveDb("staging", disk)
    BY <1>10, <2>1, Removed DEF CutPrepare, FullOK, Sound, Has, Kept, LiveAway, Copied, Moved
  <2>2. CASE Working /\ at' = "close" /\ disk' = [disk EXCEPT !["staging"] = Converted(@)]
    <3>1. PICK f \in Files : f = disk["staging"]
      OBVIOUS
    <3>2. disk'["staging"] = Converted(f) /\ \A n \in Names \ {"staging"} : disk'[n] = disk[n]
      BY <2>2, <3>1
    <3> QED
      BY <1>10, <2>2, <3>1, <3>2, ConvertedFile DEF CutPrepare, FullOK, Sound, Has, Kept, LiveAway, Copied, Moved
  <2> QED
    BY <1>10, <2>1, <2>2 DEF CutPrepare
<1>11. CASE CloseForSwap
  BY <1>11 DEF FullOK, CloseForSwap, Copied, Has, LiveAway, Moved, Sound, Kept
<1>12. CASE CutAside
  BY <1>12 DEF FullOK, CutAside, Copied, Has, LiveAway, Moved, Sound, RemoveDb, Kept, NoFile
<1>13. CASE CutJournal
  BY <1>13 DEF FullOK, CutJournal, Copied, Has, LiveAway, Moved, Sound, Kept
<1>14. CASE CutMove
  BY <1>14 DEF FullOK, CutMove, Copied, Has, LiveAway, Moved, Sound, NoJournal, Rename, Kept,
      NoFile
<1>15. CASE CutPhase
  BY <1>15 DEF FullOK, CutPhase, Copied, Has, LiveAway, Moved, Sound, Kept
<1>16. CASE CutSwap
  BY <1>16 DEF FullOK, CutSwap, Copied, Has, LiveAway, Moved, Sound, Rename, Kept, NoFile
<1>17. CASE CutUnswap
  BY <1>17 DEF FullOK, CutUnswap, Copied, Has, LiveAway, Moved, Sound, NoJournal, Rename, Kept,
      NoFile
<1>18. CASE CutGiveUp
  BY <1>18 DEF FullOK, CutGiveUp, Copied, Has, LiveAway, Moved, Sound, Opened, RemoveDb, Kept,
      NewDb, NoFile
<1>19. CASE CutReopen
  BY <1>19 DEF FullOK, CutReopen, Copied, Has, LiveAway, Moved, Sound, Opened, Kept, NewDb, NoFile
<1>20. CASE CutVerify
  BY <1>20 DEF FullOK, CutVerify, Copied, Has, LiveAway, Moved, Sound, Counts, NoJournal, Kept
<1>21. CASE RollAside
  BY <1>21 DEF FullOK, RollAside, Copied, Has, LiveAway, Moved, Sound, RemoveDb, Rename, Kept,
      NoFile
<1>22. CASE RollRestore
  BY <1>22 DEF FullOK, RollRestore, Copied, Has, LiveAway, Moved, Sound, RemoveDb, Rename, Kept,
      NoFile
<1>23. CASE RollEnd
  BY <1>23 DEF FullOK, RollEnd, Copied, Has, LiveAway, Moved, Sound, NoJournal, Opened, Kept,
      NewDb, NoFile
<1>24. CASE BindReset
  BY <1>24 DEF FullOK, BindReset, Copied, Has, LiveAway, Moved, Sound, Kept
<1>25. CASE BindClear
  BY <1>25 DEF FullOK, BindClear, Copied, Has, LiveAway, Moved, Sound, ResetForBinding, Kept
<1>26. CASE BindRecord
  BY <1>26 DEF FullOK, BindRecord, Copied, Has, LiveAway, Moved, Sound, Kept
<1>27. CASE SpawnDrain
  BY <1>27 DEF FullOK, SpawnDrain, Copied, Has, LiveAway, Moved, Sound, Kept
<1>28. CASE Crash
  BY <1>28 DEF FullOK, Crash, Copied, Has, LiveAway, Moved, Sound, Kept
<1>29. CASE Upgrade
  BY <1>29 DEF FullOK, Upgrade, Copied, Has, LiveAway, Moved, Sound, Kept
<1>30. CASE BootRecover
  BY <1>30 DEF FullOK, BootRecover, Copied, Has, LiveAway, Moved, Sound, RecoverFromJournal,
      RecoverWithoutJournal, RestoreOrReport, Kept, CopyIntoLive, RenameIntoLive, StagingValid,
      Rename, Counts, NoFile
<1>31. CASE BootUnjournal
  BY <1>31 DEF FullOK, BootUnjournal, Copied, Has, LiveAway, Moved, Sound, NoJournal, Kept
<1>32. CASE BootOpen
  BY <1>32 DEF FullOK, BootOpen, Copied, Has, LiveAway, Moved, Sound, Opened, Kept, NewDb, NoFile
<1> QED
  BY <1>1, <1>2, <1>3, <1>4, <1>5, <1>6, <1>7, <1>8, <1>9, <1>10, <1>11, <1>12, <1>13,
     <1>14, <1>15, <1>16, <1>17, <1>18, <1>19, <1>20, <1>21, <1>22, <1>23, <1>24, <1>25, <1>26,
     <1>27, <1>28, <1>29, <1>30, <1>31, <1>32, Zenon DEF CutNext, CutStep

(* Whose the outbox and the watermarks of each file are.                     *)
LEMMA CutOwn ==
    ASSUME CutInv, CutNext
    PROVE  OwnOK'
<1> USE CutoverAssumption DEF stored, service, account, bounds, Failing, Working, GiveUp, On,
      Swapping, Booting, Names, Disks, Files, CutInv, PlacesOK, ShutOK, CutoverAssumption
<1>1. ASSUME NEW w \in Inserts, AppWrite(w) PROVE OwnOK'
  BY <1>1 DEF OwnOK, AppWrite, Copied, Moved, Own, Committed
<1>2. ASSUME NEW w \in Inserts, DirectWrite(w) PROVE OwnOK'
  BY <1>2 DEF OwnOK, DirectWrite, Copied, Moved, Own, Committed
<1>3. CASE DrainPass
  <2>1. drain = tenant /\ Own(disk["live"], drain)
    BY <1>3 DEF OwnOK, DrainPass
  <2>2. \A n \in Names \ {"live"} : disk'[n] = disk[n]
    BY <1>3, DrainedDisk, Zenon
  <2>3. /\ disk'["live"].outbox = disk["live"].outbox \cup {drain}
        /\ disk'["live"].marks = drain /\ disk'["live"].bound = disk["live"].bound
    BY <1>3, DrainedDisk, Zenon
  <2>4. UNCHANGED <<at, tenant, enabled, drain>> /\ drain # NoTenant
    BY <1>3 DEF DrainPass
  <2> QED
    BY <2>1, <2>2, <2>3, <2>4 DEF OwnOK, Own, Copied, Moved
<1>4. ASSUME NEW t \in Tenants, SignIn(t) PROVE OwnOK'
  BY <1>4 DEF OwnOK, SignIn, Copied, Moved, Own
<1>5. CASE SignOut
  BY <1>5 DEF OwnOK, SignOut, Copied, Moved, Own
<1>6. CASE SyncDisable
  BY <1>6 DEF OwnOK, SyncDisable, Copied, Moved, Own
<1>7. CASE SyncEnable
  BY <1>7 DEF OwnOK, SyncEnable, Copied, Moved, Own
<1>8. CASE CutGate
  BY <1>8 DEF OwnOK, CutGate, Copied, Moved, Own, Artifacts, Counts, CrrPrepared, NoUserRows,
      RemoveDb, SyncedRows, NoFile
<1>9. CASE CutVacuum
  BY <1>9 DEF OwnOK, CutVacuum, Copied, Moved, Own, NewDb, NoFile
<1>10. CASE CutPrepare
  <2>1. CASE Failing /\ GiveUp /\ disk' = RemoveDb("staging", disk)
    BY <1>10, <2>1, Removed DEF CutPrepare, OwnOK, Own, Copied, Moved, NoFile
  <2>2. CASE Working /\ at' = "close" /\ disk' = [disk EXCEPT !["staging"] = Converted(@)]
    <3>1. PICK f \in Files : f = disk["staging"]
      OBVIOUS
    <3>2. disk'["staging"] = Converted(f) /\ \A n \in Names \ {"staging"} : disk'[n] = disk[n]
      BY <2>2, <3>1
    <3> QED
      BY <1>10, <2>2, <3>1, <3>2, ConvertedFile DEF CutPrepare, OwnOK, Own, Copied, Moved
  <2> QED
    BY <1>10, <2>1, <2>2 DEF CutPrepare
<1>11. CASE CloseForSwap
  BY <1>11 DEF OwnOK, CloseForSwap, Copied, Moved, Own
<1>12. CASE CutAside
  BY <1>12 DEF OwnOK, CutAside, Copied, Moved, Own, RemoveDb, NoFile
<1>13. CASE CutJournal
  BY <1>13 DEF OwnOK, CutJournal, Copied, Moved, Own
<1>14. CASE CutMove
  BY <1>14 DEF OwnOK, CutMove, Copied, Moved, Own, NoJournal, Rename, NoFile
<1>15. CASE CutPhase
  BY <1>15 DEF OwnOK, CutPhase, Copied, Moved, Own
<1>16. CASE CutSwap
  BY <1>16 DEF OwnOK, CutSwap, Copied, Moved, Own, Rename, NoFile
<1>17. CASE CutUnswap
  BY <1>17 DEF OwnOK, CutUnswap, Copied, Moved, Own, NoJournal, Rename, NoFile
<1>18. CASE CutGiveUp
  BY <1>18 DEF OwnOK, CutGiveUp, Copied, Moved, Own, Opened, RemoveDb, NewDb, NoFile
<1>19. CASE CutReopen
  BY <1>19 DEF OwnOK, CutReopen, Copied, Moved, Own, Opened, NewDb, NoFile
<1>20. CASE CutVerify
  BY <1>20 DEF OwnOK, CutVerify, Copied, Moved, Own, Counts, NoJournal
<1>21. CASE RollAside
  BY <1>21 DEF OwnOK, RollAside, Copied, Moved, Own, RemoveDb, Rename, NoFile
<1>22. CASE RollRestore
  BY <1>22 DEF OwnOK, RollRestore, Copied, Moved, Own, RemoveDb, Rename, NoFile
<1>23. CASE RollEnd
  BY <1>23 DEF OwnOK, RollEnd, Copied, Moved, Own, NoJournal, Opened, NewDb, NoFile
<1>24. CASE BindReset
  BY <1>24 DEF OwnOK, BindReset, Copied, Moved, Own
<1>25. CASE BindClear
  BY <1>25 DEF OwnOK, BindClear, Copied, Moved, Own, ResetForBinding
<1>26. CASE BindRecord
  BY <1>26 DEF OwnOK, BindRecord, Copied, Moved, Own
<1>27. CASE SpawnDrain
  BY <1>27 DEF OwnOK, SpawnDrain, Copied, Moved, Own
<1>28. CASE Crash
  BY <1>28 DEF OwnOK, Crash, Copied, Moved, Own
<1>29. CASE Upgrade
  BY <1>29 DEF OwnOK, Upgrade, Copied, Moved, Own
<1>30. CASE BootRecover
  BY <1>30 DEF OwnOK, BootRecover, Copied, Moved, Own, RecoverFromJournal, RecoverWithoutJournal,
      RestoreOrReport, CopyIntoLive, RenameIntoLive, StagingValid, Rename, Counts, NoFile
<1>31. CASE BootUnjournal
  BY <1>31 DEF OwnOK, BootUnjournal, Copied, Moved, Own, NoJournal
<1>32. CASE BootOpen
  BY <1>32 DEF OwnOK, BootOpen, Copied, Moved, Own, Opened, NewDb, NoFile
<1> QED
  BY <1>1, <1>2, <1>3, <1>4, <1>5, <1>6, <1>7, <1>8, <1>9, <1>10, <1>11, <1>12, <1>13,
     <1>14, <1>15, <1>16, <1>17, <1>18, <1>19, <1>20, <1>21, <1>22, <1>23, <1>24, <1>25, <1>26,
     <1>27, <1>28, <1>29, <1>30, <1>31, <1>32, Zenon DEF CutNext, CutStep

LEMMA CutStart ==
    ASSUME CutInit
    PROVE  CutInv
<1>1. PICK o \in SUBSET Orphans :
        disk = [n \in Names |-> IF n = "live"
                  THEN [NewDb EXCEPT !.rows = (Seed \ Orphans) \cup o] ELSE NoFile]
  BY DEF CutInit
<1>2. PICK f \in Files : f = [NewDb EXCEPT !.rows = (Seed \ Orphans) \cup o]
  BY CutoverAssumption DEF Files, NewDb, NoFile, CutoverAssumption, Writes
<1>3. f.on /\ f.rows = (Seed \ Orphans) \cup o /\ f.bound = NoTenant
  BY <1>2 DEF NewDb, NoFile
<1>4. disk["live"] = f /\ \A n \in Names \ {"live"} : disk[n] = NoFile
  BY <1>1, <1>2 DEF Names
<1>5. disk \in Disks
  BY <1>1, <1>2, EmptyFiles DEF Disks
<1>6. FlagsOK /\ ShutOK
  BY <1>3, <1>4, EmptyFiles DEF CutInit, FlagsOK, ShutOK, Closed, Booting, On
<1>7. PlacesOK
  BY <1>3, <1>4, CutoverAssumption DEF CutInit, PlacesOK, Ats, NoJournal, CutoverAssumption, Writes
<1>8. UnionOK /\ FullOK
  BY <1>3, <1>4 DEF CutInit, UnionOK, FullOK, Has, On, Kept, LiveAway, Copied, Moved, Swapping,
    Names
<1>9. OwnOK
  <2>1. \A n \in Names : disk[n].bound = NoTenant
    BY <1>3, <1>4 DEF NoFile
  <2>2. at = "idle" /\ ~enabled /\ drain = NoTenant
    BY DEF CutInit
  <2> QED
    BY <2>1, <2>2 DEF OwnOK, Booting
<1> QED
  BY <1>5, <1>6, <1>7, <1>8, <1>9 DEF CutInv

LEMMA CutSafe ==
    ASSUME CutInv
    PROVE  CutoverSafe
<1> USE DEF CutInv
<1>1. CutTypeOK
  <2>1. \A n \in Names : disk[n].rows \subseteq Writes /\ disk[n].bound \in Tenants \cup {NoTenant}
    BY DEF Disks, Files
  <2>2. PlacesOK /\ FlagsOK
    OBVIOUS
  <2> QED
    BY <2>1, <2>2, Zenon DEF CutTypeOK, PlacesOK, FlagsOK
<1>2. NeverLosesLastCopy
  <2>1. disk["live"].rows \subseteq Held /\ disk["backup"].rows \subseteq Held
    BY DEF Held, Names
  <2>2. InAsides \subseteq Held
    BY DEF Held, InAsides
  <2>3. faults <= 1 => Kept \subseteq disk["live"].rows \cup disk["backup"].rows \cup InAsides
    BY DEF UnionOK
  <2> SUFFICES ASSUME faults <= 1, NEW w \in Kept PROVE w \in Held
    BY DEF NeverLosesLastCopy, Kept
  <2> QED
    BY <2>1, <2>2, <2>3
<1>3. LiveComplete
  BY DEF LiveComplete, FullOK, Sound, LiveAway, Has, Kept
<1>4. NoForeignOutbox
  BY DEF OwnOK, Own, NoForeignOutbox
<1> QED
  BY <1>1, <1>2, <1>3, <1>4 DEF CutoverSafe

(* However often the app crashes in the cutover, in its rollback or in the   *)
(* recovery of a boot, and whatever the app, the recorder and the drain      *)
(* write meanwhile, for any rows, accounts and upgrades: with one failed     *)
(* file operation at most some file keeps every answered write the repairs   *)
(* keep; without one, or with one and no crash, the database served next is  *)
(* complete; and a drain never finds another account's changesets.           *)
THEOREM CutoverSafeHolds == CutSpec => []CutoverSafe
<1>1. CutInit => CutInv
  BY CutStart
<1>2. CutInv /\ [CutNext]_cutVars => CutInv'
  <2> SUFFICES ASSUME CutInv, [CutNext]_cutVars PROVE CutInv'
    OBVIOUS
  <2>1. CASE CutNext
    BY <2>1, CutFlags, CutFiles, CutPlaces, CutShut, CutUnion, CutFull, CutOwn, Zenon DEF CutInv
  <2>2. CASE UNCHANGED cutVars
    <3>1. UNCHANGED <<disk, asides, journal, pool, swapping, at, pre, tenant, enabled, drain, safe,
                      faults, crashes>>
      BY <2>2 DEF cutVars, stored, service, account, bounds
    <3>2. (disk \in Disks)' /\ FlagsOK' /\ PlacesOK'
      BY <3>1, Zenon DEF CutInv, FlagsOK, PlacesOK
    <3>3. ShutOK'
      BY <3>1, Zenon DEF CutInv, ShutOK, On
    <3>4. UnionOK'
      BY <3>1, Zenon DEF CutInv, UnionOK, Kept, InAsides
    <3>5. FullOK'
      BY <3>1, Zenon DEF CutInv, FullOK, Sound, Has, On, Kept
    <3>6. OwnOK'
      BY <3>1, Zenon DEF CutInv, OwnOK
    <3> QED
      BY <3>2, <3>3, <3>4, <3>5, <3>6, Zenon DEF CutInv
  <2> QED
    BY <2>1, <2>2
<1>3. CutInv => CutoverSafe
  BY CutSafe
<1> QED
  BY <1>1, <1>2, <1>3, PTL DEF CutSpec

------------------------------------------------------------------------------
(* The stash of changes for a schema this build does not have.  What a pass  *)
(* has looked at and left in the stash (Passed) is counted, and each such    *)
(* row waits for its schema or closed its key; the rows that arrive beside   *)
(* the pass come after all it looks at.                                      *)
Passed == {r \in stash : r.n <= pass.from /\ r \notin pass.todo}

PassOK ==
  pass.on =>
    /\ pass.from <= arrived /\ pass.todo \subseteq stash
    /\ \A r \in pass.todo : r.n <= pass.from
    /\ Cardinality(Passed) = pass.waiting + pass.held
    /\ \A r \in Passed : r.key \in pass.failed \/ ~ Ready(r)

StashInv == QuarTypeOK /\ NoneLost /\ StatusCovers /\ PassOK

(* Every pulled row has a number of its own, so a stash is a finite set and a *)
(* set of its rows has a first one.                                          *)
LEMMA StashFinite ==
    ASSUME QuarTypeOK, NoneLost
    PROVE  IsFiniteSet(stash)
<1> DEFINE f == [r \in stash |-> r.n]
<1>1. f \in Injection(stash, 1 .. arrived)
  BY DEF Injection, NoneLost, IsInjective
<1>2. arrived \in Nat
  BY BoundsAssumption DEF QuarTypeOK, BoundsAssumption
<1>3. IsFiniteSet(1 .. arrived)
  BY <1>2, FS_Interval
<1> QED
  BY <1>1, <1>3, FS_Injection

LEMMA FirstRow ==
    ASSUME NEW T \in SUBSET Rows, T # {}
    PROVE  \E r \in T : \A s \in T : r.n <= s.n
<1> DEFINE S == {r.n : r \in T}
<1>1. S \in SUBSET Nat /\ S # {}
  BY DEF Rows
<1>2. PICK m \in S : \A n \in S : ~(<<n, m>> \in OpToRel(<, Nat))
  BY <1>1, NatLessThanWellFounded, WFMin
<1>3. \A n \in S : ~(n < m)
  BY <1>1, <1>2 DEF OpToRel
<1>4. PICK r \in T : m = r.n
  OBVIOUS
<1>5. \A s \in T : s.n \in Nat /\ s.n \in S
  BY <1>1
<1>6. \A s \in T : r.n <= s.n
  <2> HIDE DEF S
  <2> QED
    BY <1>3, <1>4, <1>5
<1> QED
  BY <1>6

LEMMA CandidateFirst ==
    ASSUME QuarTypeOK, HasCandidate
    PROVE  Candidate \in pass.todo /\ \A s \in pass.todo : Candidate.n <= s.n
<1>1. pass.todo \in SUBSET Rows /\ pass.todo # {}
  BY DEF QuarTypeOK, HasCandidate
<1>2. \E r \in pass.todo : \A s \in pass.todo : r.n <= s.n
  BY <1>1, FirstRow
<1> QED
  BY <1>2 DEF Candidate

(* The rows of a changeset follow all that arrived before.                   *)
LEMMA NumberedRows ==
    ASSUME QuarTypeOK, NEW k \in Nat, NEW cs \in [1 .. k -> Changes], arrived + k <= MaxArrivals
    PROVE  /\ Numbered(k, cs) \subseteq Rows
           /\ \A r \in Numbered(k, cs) : r.n > arrived
           /\ {r.n : r \in Numbered(k, cs)} = arrived + 1 .. arrived + k
           /\ \A r, s \in Numbered(k, cs) : r.n = s.n => r = s
<1>0. arrived \in Nat
  BY BoundsAssumption DEF QuarTypeOK, BoundsAssumption
<1> DEFINE row(i) == [n |-> arrived + i, key |-> cs[i].key, cid |-> cs[i].cid]
<1>1. \A i \in 1 .. k : row(i) \in Rows /\ row(i).n = arrived + i
  BY <1>0, BoundsAssumption DEF Rows, Changes, BoundsAssumption
<1>2. Numbered(k, cs) = {row(i) : i \in 1 .. k}
  BY DEF Numbered
<1>3. \A r \in Numbered(k, cs) : \E i \in 1 .. k : r = row(i) /\ r.n = arrived + i
  BY <1>1, <1>2
<1>4. \A i \in 1 .. k : row(i) \in Numbered(k, cs)
  BY <1>2
<1>5. {r.n : r \in Numbered(k, cs)} = arrived + 1 .. arrived + k
  <2>1. ASSUME NEW x \in arrived + 1 .. arrived + k PROVE \E i \in 1 .. k : x = arrived + i
    <3>1. x - arrived \in 1 .. k /\ x = arrived + (x - arrived)
      BY <1>0
    <3> QED
      BY <3>1
  <2> HIDE DEF row
  <2>2. \A x \in arrived + 1 .. arrived + k : \E i \in 1 .. k : x = row(i).n
    BY <1>1, <2>1
  <2>3. \A x \in arrived + 1 .. arrived + k : x \in {r.n : r \in Numbered(k, cs)}
    BY <1>4, <2>2
  <2>4. \A r \in Numbered(k, cs) : r.n \in arrived + 1 .. arrived + k
    BY <1>0, <1>3
  <2> QED
    BY <2>3, <2>4
<1> HIDE DEF row
<1> QED
  BY <1>0, <1>1, <1>2, <1>3, <1>5

LEMMA MergeKeeps ==
    ASSUME StashInv, NEW k \in Nat, NEW cs \in [1 .. k -> Changes], MergeChangeset(k, cs)
    PROVE  StashInv'
<1> DEFINE N == Numbered(k, cs)
<1>0. /\ arrived \in Nat /\ arrived + k \in 0 .. MaxArrivals /\ upto <= arrived
      /\ arrived' = arrived + k
  BY BoundsAssumption DEF StashInv, QuarTypeOK, MergeChangeset, BoundsAssumption
<1>1. /\ N \subseteq Rows /\ \A r \in N : r.n > arrived
      /\ {r.n : r \in N} = arrived + 1 .. arrived + k
      /\ \A r, s \in N : r.n = s.n => r = s
  BY <1>0, NumberedRows DEF StashInv
<1>2. PICK D \in SUBSET N : stash' = stash \cup D /\ applied' = applied \cup (N \ D)
  <2>1. {r \in N : ~ Defers(r)} = N \ {r \in N : Defers(r)}
    OBVIOUS
  <2> QED
    BY <2>1 DEF MergeChangeset
<1>3. \A r \in stash \cup applied : r.n \in 1 .. arrived
  BY DEF StashInv, NoneLost
<1> HIDE DEF N
<1>4. QuarTypeOK'
  BY <1>0, <1>1, <1>2 DEF StashInv, QuarTypeOK, MergeChangeset, quarBounds
<1>5. NoneLost'
  <2>1. stash' \cap applied' = {}
    BY <1>0, <1>1, <1>2, <1>3 DEF StashInv, NoneLost
  <2>2. stash' \cup applied' = (stash \cup applied) \cup N
    BY <1>2
  <2>3. {r.n : r \in (stash \cup applied) \cup N} = {r.n : r \in stash \cup applied} \cup {r.n : r \in N}
    OBVIOUS
  <2>4. (1 .. arrived) \cup (arrived + 1 .. arrived + k) = 1 .. arrived + k
    BY <1>0
  <2>5. {r.n : r \in stash' \cup applied'} = 1 .. arrived'
    BY <1>0, <1>1, <2>2, <2>3, <2>4 DEF StashInv, NoneLost
  <2>6. \A r, s \in stash' \cup applied' : r.n = s.n => r = s
    BY <1>0, <1>1, <1>3, <2>2 DEF StashInv, NoneLost
  <2> QED
    BY <2>1, <2>5, <2>6 DEF NoneLost
<1>6. \A m \in Nat : m <= arrived => \A r \in stash' : r.n <= m => r \in stash
  <2> SUFFICES ASSUME NEW m \in Nat, m <= arrived, NEW r \in stash', r.n <= m PROVE r \in stash
    OBVIOUS
  <2>1. r \in N => r.n \in Nat /\ r.n > arrived
    BY <1>1 DEF Rows
  <2> QED
    BY <1>0, <1>2, <2>1
<1>7. StatusCovers'
  <2>1. upto \in Nat /\ upto' = upto /\ status' = status
    BY <1>0 DEF StashInv, QuarTypeOK, MergeChangeset
  <2>2. {r \in stash' : r.n <= upto} = {r \in stash : r.n <= upto}
    BY <1>0, <1>2, <1>6, <2>1
  <2> QED
    BY <2>1, <2>2 DEF StashInv, StatusCovers
<1>8. PassOK'
  <2> SUFFICES ASSUME pass.on PROVE PassOK'
    BY DEF PassOK, MergeChangeset
  <2>1. pass.from \in Nat /\ pass.from <= arrived /\ pass' = pass /\ UNCHANGED schemaAt
    BY DEF StashInv, QuarTypeOK, PassOK, MergeChangeset
  <2>2. Passed' = Passed
    BY <1>2, <1>6, <2>1 DEF Passed
  <2> QED
    BY <1>0, <1>2, <2>1, <2>2 DEF StashInv, PassOK, Ready
<1> QED
  BY <1>4, <1>5, <1>7, <1>8 DEF StashInv

(* A step of a pass that leaves its candidate in the stash counts it.        *)
LEMMA LeftBehind ==
    ASSUME StashInv, HasCandidate, stash' = stash, pass'.from = pass.from,
           pass'.todo = pass.todo \ {Candidate}
    PROVE  Passed' = Passed \cup {Candidate} /\ Cardinality(Passed') = Cardinality(Passed) + 1
<1>1. Candidate \in pass.todo
  BY CandidateFirst DEF StashInv
<1>2. Candidate \in stash /\ Candidate.n <= pass.from
  BY <1>1 DEF StashInv, PassOK, HasCandidate
<1>3. Passed' = Passed \cup {Candidate}
  BY <1>2 DEF Passed
<1>4. IsFiniteSet(Passed) /\ Candidate \notin Passed
  <2>1. Passed \in SUBSET stash /\ IsFiniteSet(stash)
    BY StashFinite DEF Passed, StashInv
  <2> QED
    BY <1>1, <2>1, FS_Subset DEF Passed
<1> QED
  BY <1>3, <1>4, FS_AddElement

(* The state of a pass that has counted its candidate r.                     *)
PassStates == [on : BOOLEAN, todo : SUBSET Rows, failed : SUBSET Keys, waiting : Nat, held : Nat,
               from : Nat]

LEMMA PassFields ==
    ASSUME NEW p \in PassStates, NEW r \in Rows, NEW q,
           \/ q = [p EXCEPT !.todo = @ \ {r}, !.held = @ + 1]
           \/ q = [p EXCEPT !.todo = @ \ {r}, !.waiting = @ + 1]
           \/ q = [p EXCEPT !.todo = @ \ {r}, !.held = @ + 1, !.failed = @ \cup {r.key}]
    PROVE  /\ q \in PassStates /\ q.on = p.on /\ q.from = p.from /\ q.todo = p.todo \ {r}
           /\ q.waiting + q.held = p.waiting + p.held + 1
           /\ p.failed \subseteq q.failed
<1>1. r.key \in Keys
  BY DEF Rows
<1>2. p.waiting \in Nat /\ p.held \in Nat /\ p.failed \subseteq Keys /\ p.todo \subseteq Rows /\ p.on \in BOOLEAN
      /\ p.from \in Nat
  BY DEF PassStates
<1>3. CASE q = [p EXCEPT !.todo = @ \ {r}, !.held = @ + 1]
  <2>1. q = [on |-> p.on, todo |-> p.todo \ {r}, failed |-> p.failed, waiting |-> p.waiting,
             held |-> p.held + 1, from |-> p.from]
    BY <1>3 DEF PassStates
  <2> QED
    BY <1>1, <1>2, <2>1 DEF PassStates
<1>4. CASE q = [p EXCEPT !.todo = @ \ {r}, !.waiting = @ + 1]
  <2>1. q = [on |-> p.on, todo |-> p.todo \ {r}, failed |-> p.failed, waiting |-> p.waiting + 1,
             held |-> p.held, from |-> p.from]
    BY <1>4 DEF PassStates
  <2> QED
    BY <1>1, <1>2, <2>1 DEF PassStates
<1>5. CASE q = [p EXCEPT !.todo = @ \ {r}, !.held = @ + 1, !.failed = @ \cup {r.key}]
  <2>1. q = [on |-> p.on, todo |-> p.todo \ {r}, failed |-> p.failed \cup {r.key}, waiting |-> p.waiting,
             held |-> p.held + 1, from |-> p.from]
    BY <1>5 DEF PassStates
  <2> QED
    BY <1>1, <1>2, <2>1 DEF PassStates
<1> QED
  BY <1>3, <1>4, <1>5

LEMMA NoPassIdle == NoPass \in PassStates /\ ~ NoPass.on
BY DEF NoPass, PassStates

LEMMA PassKeeps ==
    ASSUME StashInv, Pass \/ Fail \/ AbandonPass
    PROVE  StashInv'
<1>0. QuarTypeOK /\ NoneLost /\ StatusCovers /\ PassOK /\ arrived \in Nat
  BY BoundsAssumption DEF StashInv, QuarTypeOK, BoundsAssumption
<1>1. CASE BeginPass
  <2>1. QuarTypeOK'
    BY <1>0, <1>1 DEF BeginPass, QuarTypeOK, NoPass, quarBounds
  <2>2. /\ pass'.on /\ pass'.todo = stash /\ pass'.from = arrived /\ pass'.waiting = 0
        /\ pass'.held = 0 /\ UNCHANGED <<stash, applied, arrived, status, upto>>
    BY <1>1 DEF BeginPass, NoPass
  <2>3. Passed' = {} /\ Cardinality({}) = 0
    BY <2>2, FS_EmptySet DEF Passed
  <2>4. \A r \in stash : r.n <= arrived
    BY <1>0 DEF NoneLost
  <2>5. PassOK'
    BY <1>0, <2>2, <2>3, <2>4 DEF PassOK
  <2> QED
    BY <1>0, <2>1, <2>2, <2>5 DEF StashInv, NoneLost, StatusCovers
<1>2. CASE (HasCandidate /\ Behind /\ Block) \/ (HasCandidate /\ ~ Behind /\ ~ Ready(Candidate) /\ Wait)
           \/ (HasCandidate /\ ~ Behind /\ Ready(Candidate) /\ Fail)
  <2>0. /\ HasCandidate /\ pass.on /\ Candidate \in pass.todo
        /\ UNCHANGED <<schemaAt, stash, applied, status, arrived, upto, restarts>>
    BY <1>0, <1>2, CandidateFirst DEF Block, Wait, Fail, quarBounds, HasCandidate
  <2>1. pass \in PassStates /\ Candidate \in Rows
    BY <1>0, <2>0 DEF QuarTypeOK, PassStates
  <2>2. /\ pass'.on /\ pass'.from = pass.from /\ pass'.todo = pass.todo \ {Candidate}
        /\ pass'.waiting + pass'.held = pass.waiting + pass.held + 1
        /\ pass.failed \subseteq pass'.failed /\ pass' \in PassStates
        /\ Candidate.key \in pass'.failed \/ ~ Ready(Candidate)
    <3>1. \/ pass' = [pass EXCEPT !.todo = @ \ {Candidate}, !.held = @ + 1]
          \/ pass' = [pass EXCEPT !.todo = @ \ {Candidate}, !.waiting = @ + 1]
          \/ pass' = [pass EXCEPT !.todo = @ \ {Candidate}, !.held = @ + 1,
                                  !.failed = @ \cup {Candidate.key}]
      BY <1>2, Zenon DEF Block, Wait, Fail
    <3>2. /\ pass' \in PassStates /\ pass'.on = pass.on /\ pass'.from = pass.from
          /\ pass'.todo = pass.todo \ {Candidate}
          /\ pass'.waiting + pass'.held = pass.waiting + pass.held + 1
          /\ pass.failed \subseteq pass'.failed
      <4>1. PICK p \in PassStates, c \in Rows : p = pass /\ c = Candidate
        BY <2>1
      <4>2. PICK q : q = pass'
        OBVIOUS
      <4>3. \/ q = [p EXCEPT !.todo = @ \ {c}, !.held = @ + 1]
            \/ q = [p EXCEPT !.todo = @ \ {c}, !.waiting = @ + 1]
            \/ q = [p EXCEPT !.todo = @ \ {c}, !.held = @ + 1, !.failed = @ \cup {c.key}]
        BY <3>1, <4>1, <4>2, Zenon
      <4>4. /\ q \in PassStates /\ q.on = p.on /\ q.from = p.from /\ q.todo = p.todo \ {c}
            /\ q.waiting + q.held = p.waiting + p.held + 1 /\ p.failed \subseteq q.failed
        BY <4>3, PassFields, Zenon
      <4> QED
        BY <4>1, <4>2, <4>4, Zenon
    <3>3. CASE Behind \/ ~ Ready(Candidate)
      BY <2>0, <3>2, <3>3 DEF Behind
    <3>4. CASE Fail
      <4>1. Candidate.key \in pass'.failed
        BY <2>1, <3>4 DEF Fail, PassStates
      <4> QED
        BY <2>0, <3>2, <4>1
    <3> QED
      BY <1>2, <3>3, <3>4
  <2>3. QuarTypeOK'
    <3>1. replayFaults' \in 0 .. MaxFailures
      BY <1>0, <1>2, BoundsAssumption
         DEF Block, Wait, Fail, QuarTypeOK, quarBounds, BoundsAssumption
    <3> QED
      BY <1>0, <2>0, <2>2, <3>1 DEF QuarTypeOK, PassStates
  <2>4. Passed' = Passed \cup {Candidate} /\ Cardinality(Passed') = Cardinality(Passed) + 1
    BY <2>0, <2>2, LeftBehind
  <2>5. \A r : Ready(r)' <=> Ready(r)
    BY <2>0 DEF Ready
  <2>6. \A r \in Passed' : r.key \in pass'.failed \/ ~ Ready(r)'
    BY <1>0, <2>0, <2>2, <2>4, <2>5 DEF PassOK
  <2>7. PassOK'
    BY <1>0, <2>0, <2>1, <2>2, <2>4, <2>6 DEF PassOK
  <2> QED
    BY <1>0, <2>0, <2>3, <2>7 DEF StashInv, NoneLost, StatusCovers
<1>3. CASE Replay
  <2>0. /\ HasCandidate /\ pass.on /\ Candidate \in pass.todo /\ Candidate \in stash
        /\ UNCHANGED <<schemaAt, status, arrived, upto, replayFaults, restarts>>
        /\ stash' = stash \ {Candidate} /\ applied' = applied \cup {Candidate}
    BY <1>0, <1>3, CandidateFirst DEF Replay, quarBounds, HasCandidate, PassOK
  <2>1. pass \in [on : BOOLEAN, todo : SUBSET Rows, failed : SUBSET Keys, waiting : Nat, held : Nat,
                  from : Nat] /\ Candidate \in Rows
    BY <1>0, <2>0 DEF QuarTypeOK
  <2>2. pass' = [pass EXCEPT !.todo = @ \ {Candidate}]
    BY <1>3 DEF Replay
  <2>3. QuarTypeOK'
    BY <1>0, <2>0, <2>1, <2>2 DEF QuarTypeOK
  <2>4. NoneLost'
    <3>1. stash' \cup applied' = stash \cup applied /\ stash' \cap applied' = {}
      BY <1>0, <2>0 DEF NoneLost
    <3> QED
      BY <1>0, <2>0, <3>1 DEF NoneLost
  <2>5. StatusCovers'
    <3> DEFINE Before == {r \in stash : r.n <= upto}
               After  == {r \in stash' : r.n <= upto}
    <3>1. After \in SUBSET Before
      BY <2>0
    <3>2. IsFiniteSet(Before)
      <4>1. Before \in SUBSET stash /\ IsFiniteSet(stash)
        BY <1>0, StashFinite
      <4> QED
        BY <4>1, FS_Subset
    <3>3. Cardinality(After) <= Cardinality(Before) /\ Cardinality(Before) \in Nat
          /\ Cardinality(After) \in Nat
      BY <3>1, <3>2, FS_Subset, FS_CardinalityType
    <3>4. status.waiting + status.failed \in Nat
      BY <1>0 DEF QuarTypeOK
    <3>5. After = {r \in stash : r.n <= upto}'
      BY <2>0
    <3> HIDE DEF After
    <3> QED
      BY <1>0, <2>0, <3>3, <3>4, <3>5 DEF StatusCovers
  <2>6. Passed' = Passed
    BY <2>0, <2>1, <2>2 DEF Passed
  <2>7. PassOK'
    BY <1>0, <2>0, <2>1, <2>2, <2>6 DEF PassOK, Ready
  <2> QED
    BY <2>3, <2>4, <2>5, <2>7 DEF StashInv
<1>4. CASE EndPass
  <2>1. /\ pass.on /\ pass.todo = {} /\ UNCHANGED <<stash, applied, arrived>>
        /\ status' = [waiting |-> pass.waiting, failed |-> pass.held] /\ upto' = pass.from
        /\ pass' = NoPass
    BY <1>4 DEF EndPass
  <2>2. QuarTypeOK'
    BY <1>0, <1>4 DEF EndPass, QuarTypeOK, NoPass, quarBounds, PassOK
  <2>3. {r \in stash : r.n <= pass.from} = Passed
    BY <2>1 DEF Passed
  <2>4. Cardinality(Passed) = pass.waiting + pass.held /\ pass.waiting + pass.held \in Nat
    BY <1>0, <2>1 DEF PassOK, QuarTypeOK
  <2>5. StatusCovers'
    <3>1. status'.waiting + status'.failed = pass.waiting + pass.held
      BY <2>1
    <3>2. {r \in stash : r.n <= upto}' = Passed
      BY <2>1, <2>3
    <3> QED
      BY <2>4, <3>1, <3>2 DEF StatusCovers
  <2>6. PassOK'
    BY <2>1 DEF PassOK, NoPass
  <2> QED
    BY <1>0, <2>1, <2>2, <2>5, <2>6 DEF StashInv, NoneLost
<1>5. CASE AbandonPass
  <2>1. replayFaults' \in 0 .. MaxFailures
    BY <1>0, <1>5, BoundsAssumption DEF AbandonPass, QuarTypeOK, BoundsAssumption
  <2>2. /\ UNCHANGED <<schemaAt, stash, applied, arrived, status, upto, restarts>>
        /\ pass' \in PassStates /\ ~ pass'.on
    BY <1>5, NoPassIdle DEF AbandonPass
  <2>3. QuarTypeOK'
    BY <1>0, <2>1, <2>2 DEF QuarTypeOK, PassStates
  <2> QED
    BY <1>0, <2>2, <2>3 DEF StashInv, NoneLost, StatusCovers, PassOK
<1>6. \/ BeginPass \/ (HasCandidate /\ Behind /\ Block)
      \/ (HasCandidate /\ ~ Behind /\ ~ Ready(Candidate) /\ Wait)
      \/ (HasCandidate /\ ~ Behind /\ Ready(Candidate) /\ Fail)
      \/ Replay \/ EndPass \/ AbandonPass
  BY DEF Pass, Block, Wait, Fail
<1> QED
  BY <1>1, <1>2, <1>3, <1>4, <1>5, <1>6, Zenon

LEMMA RestartKeeps ==
    ASSUME StashInv, Restart
    PROVE  StashInv'
<1>1. schemaAt' \in DOMAIN Schemas /\ restarts' \in 0 .. MaxRestarts
  BY BoundsAssumption DEF StashInv, Restart, QuarTypeOK, Schemas, BoundsAssumption
<1>2. /\ UNCHANGED <<stash, applied, arrived, status, upto, replayFaults>>
      /\ pass' \in PassStates /\ ~ pass'.on
  BY NoPassIdle DEF Restart
<1>3. QuarTypeOK'
  BY <1>1, <1>2 DEF StashInv, QuarTypeOK, PassStates
<1> QED
  BY <1>2, <1>3 DEF StashInv, NoneLost, StatusCovers, PassOK

LEMMA StashInvariance == QuarSpec => []StashInv
<1>1. QuarInit => StashInv
  <2> SUFFICES ASSUME QuarInit PROVE StashInv
    OBVIOUS
  <2>1. Cardinality({}) = 0
    BY FS_EmptySet
  <2>2. QuarTypeOK
    BY BoundsAssumption DEF QuarInit, QuarTypeOK, NoPass, BoundsAssumption
  <2>3. NoneLost
    BY DEF QuarInit, NoneLost
  <2>4. {r \in stash : r.n <= upto} = {} /\ status.waiting + status.failed = 0
    BY DEF QuarInit
  <2> QED
    BY <2>1, <2>2, <2>3, <2>4 DEF QuarInit, StashInv, StatusCovers, PassOK, NoPass
<1>2. StashInv /\ [QuarNext]_quarVars => StashInv'
  <2> SUFFICES ASSUME StashInv, [QuarNext]_quarVars PROVE StashInv'
    OBVIOUS
  <2>1. ASSUME NEW k \in 1 .. ChangesetRows, NEW cs \in [1 .. k -> Changes], MergeChangeset(k, cs)
        PROVE  StashInv'
    <3>1. k \in Nat
      BY BoundsAssumption DEF BoundsAssumption
    <3> QED
      BY <2>1, <3>1, MergeKeeps
  <2>2. CASE Pass \/ Fail \/ AbandonPass
    BY <2>2, PassKeeps
  <2>3. CASE Restart
    BY <2>3, RestartKeeps
  <2>4. CASE UNCHANGED quarVars
    <3>1. UNCHANGED <<schemaAt, stash, applied, pass, status, arrived, upto, replayFaults, restarts>>
      BY <2>4 DEF quarVars, quarBounds
    <3>2. QuarTypeOK' /\ NoneLost' /\ StatusCovers'
      BY <3>1, Zenon DEF StashInv, QuarTypeOK, NoneLost, StatusCovers
    <3>3. PassOK'
      BY <3>1, Zenon DEF StashInv, PassOK, Passed, Ready
    <3> QED
      BY <3>2, <3>3 DEF StashInv
  <2> QED
    BY <2>1, <2>2, <2>3, <2>4 DEF QuarNext
<1> QED
  BY <1>1, <1>2, PTL DEF QuarSpec

(* However passes, merges beside them, failures, crashes and updates follow  *)
(* each other: every pulled row is stashed, once, or applied, and the counts *)
(* the last complete pass left cover all that was stashed when it began.     *)
THEOREM StashKeptHolds == QuarSpec => []StashKept
<1>1. StashInv => StashKept
  BY DEF StashInv, StashKept
<1> QED
  BY <1>1, StashInvariance, PTL

(* No change is applied past an earlier change of its row that could be      *)
(* applied and is not: not by a pass, whose failed keys stay closed, nor by  *)
(* a merge beside it, for which the stash itself is the barrier.             *)
THEOREM KeyOrderHolds == QuarSpec => KeyOrder
<1> DEFINE InOrder == \A r \in applied' \ applied : \A s \in stash :
                         s.key = r.key /\ s.n < r.n => ~ Ready(s)
<1>1. StashInv /\ [QuarNext]_quarVars => [InOrder]_quarVars
  <2> SUFFICES ASSUME StashInv, QuarNext PROVE InOrder
    OBVIOUS
  <2>1. ASSUME NEW k \in 1 .. ChangesetRows, NEW cs \in [1 .. k -> Changes], MergeChangeset(k, cs)
        PROVE  InOrder
    <3>1. \A r \in applied' \ applied : r.key \notin ReadyStashedKeys
      BY <2>1 DEF MergeChangeset, Defers
    <3> QED
      BY <3>1 DEF ReadyStashedKeys
  <2>2. CASE Replay
    <3>1. /\ HasCandidate /\ pass.on /\ Candidate.key \notin pass.failed
          /\ applied' = applied \cup {Candidate}
      BY <2>2 DEF Replay, HasCandidate, Behind
    <3>2. Candidate \in pass.todo /\ \A s \in pass.todo : Candidate.n <= s.n
      BY <3>1, CandidateFirst DEF StashInv
    <3>3. Candidate.n <= pass.from /\ pass.from \in Nat /\ Candidate.n \in Nat
      BY <3>1, <3>2 DEF StashInv, PassOK, QuarTypeOK, Rows
    <3>4. ASSUME NEW s \in stash, s.key = Candidate.key, s.n < Candidate.n PROVE ~ Ready(s)
      <4>1. s.n \in Nat
        BY DEF StashInv, QuarTypeOK, Rows
      <4>2. s \in Passed
        BY <3>2, <3>3, <3>4, <4>1 DEF Passed
      <4> QED
        BY <3>1, <3>4, <4>2 DEF StashInv, PassOK
    <3> QED
      BY <3>1, <3>4
  <2>3. CASE BeginPass \/ Block \/ Wait \/ EndPass \/ Fail \/ AbandonPass \/ Restart
    BY <2>3 DEF BeginPass, Block, Wait, EndPass, Fail, AbandonPass, Restart
  <2> QED
    BY <2>1, <2>2, <2>3 DEF QuarNext, Pass
<1> QED
  BY <1>1, StashInvariance, PTL DEF QuarSpec, KeyOrder

------------------------------------------------------------------------------
(* The threads of the sync service: the write turnstile, for any set of      *)
(* writers, and the lanes of a drain, for any number of generations, of       *)
(* changes and of faults.                                                     *)

(* The counters and the program counters keep their types: the ticket      *)
(* counters of write_turnstile.rs never go below zero.                     *)
THEOREM TypeCorrect == Spec => []TypeOK
<1>1. Init => TypeOK
  BY DEF Init, TypeOK, Places
<1>2. TypeOK /\ [Next]_vars => TypeOK'
  <2> SUFFICES ASSUME TypeOK, [Next]_vars PROVE TypeOK'
    OBVIOUS
  <2> USE DEF TypeOK, Places
  <2>1. ASSUME NEW w \in Writers, Acquire(w) PROVE TypeOK'
    BY <2>1 DEF Acquire
  <2>2. ASSUME NEW w \in Writers, Retest(w) PROVE TypeOK'
    BY <2>2 DEF Retest
  <2>3. ASSUME NEW w \in Writers, SpuriousWake(w) PROVE TypeOK'
    BY <2>3 DEF SpuriousWake
  <2>4. ASSUME NEW w \in Writers, Release(w) PROVE TypeOK'
    BY <2>4 DEF Release
  <2>5. ASSUME NEW w \in Writers, NotifyAll(w) PROVE TypeOK'
    BY <2>5 DEF NotifyAll
  <2>6. CASE UNCHANGED vars
    BY <2>6 DEF vars
  <2> QED
    BY <2>1, <2>2, <2>3, <2>4, <2>5, <2>6 DEF Next
<1> QED
  BY <1>1, <1>2, PTL DEF Spec

(* The ticket discipline is inductive: everyone inside holds a distinct    *)
(* ticket in serving .. next-1, the holder of the turn the lowest.         *)
THEOREM TicketDiscipline == Spec => []TicketInv
<1>1. Init => TicketInv
  BY DEF Init, TicketInv
<1>2. TypeOK /\ TicketInv /\ [Next]_vars => TicketInv'
  <2> SUFFICES ASSUME TypeOK, TicketInv, [Next]_vars PROVE TicketInv'
    OBVIOUS
  <2> USE DEF TypeOK, Places, TicketInv
  <2>1. ASSUME NEW w \in Writers, Acquire(w) PROVE TicketInv'
    BY <2>1 DEF Acquire
  <2>2. ASSUME NEW w \in Writers, Retest(w) PROVE TicketInv'
    BY <2>2 DEF Retest
  <2>3. ASSUME NEW w \in Writers, SpuriousWake(w) PROVE TicketInv'
    BY <2>3 DEF SpuriousWake
  <2>4. ASSUME NEW w \in Writers, Release(w) PROVE TicketInv'
    BY <2>4 DEF Release
  <2>5. ASSUME NEW w \in Writers, NotifyAll(w) PROVE TicketInv'
    BY <2>5 DEF NotifyAll
  <2>6. CASE UNCHANGED vars
    BY <2>6 DEF vars
  <2> QED
    BY <2>1, <2>2, <2>3, <2>4, <2>5, <2>6 DEF Next
<1> QED
  BY <1>1, <1>2, TypeCorrect, PTL DEF Spec

(* Mutual exclusion: at most one in-process writer is between acquire and  *)
(* the drop of its WriteTurn.                                              *)
THEOREM MutualExclusion == Spec => []OneTurn
<1>1. TicketInv => OneTurn
  BY DEF TicketInv, OneTurn
<1> QED
  BY <1>1, TicketDiscipline, PTL

(* A writer that takes the turn overtakes nobody who already waits.        *)
THEOREM FirstComeFirstServed == Spec => ServedInOrder
<1>1. TypeOK /\ TicketInv /\ [Next]_vars =>
        [\A v, w \in Writers :
          /\ pc[w] # "turn" /\ pc'[w] = "turn"
          /\ InQueue(v) /\ v # w
          => mine'[w] < mine[v]]_vars
  <2> SUFFICES ASSUME TypeOK, TicketInv, [Next]_vars,
                      NEW v \in Writers, NEW w \in Writers,
                      pc[w] # "turn", pc'[w] = "turn", InQueue(v), v # w
               PROVE  mine'[w] < mine[v]
    OBVIOUS
  <2> USE DEF TypeOK, Places, TicketInv, InQueue
  <2>1. ASSUME NEW u \in Writers, Acquire(u) PROVE mine'[w] < mine[v]
    BY <2>1 DEF Acquire
  <2>2. ASSUME NEW u \in Writers, Retest(u) PROVE mine'[w] < mine[v]
    BY <2>2 DEF Retest
  <2>3. ASSUME NEW u \in Writers, SpuriousWake(u) PROVE mine'[w] < mine[v]
    BY <2>3 DEF SpuriousWake
  <2>4. ASSUME NEW u \in Writers, Release(u) PROVE mine'[w] < mine[v]
    BY <2>4 DEF Release
  <2>5. ASSUME NEW u \in Writers, NotifyAll(u) PROVE mine'[w] < mine[v]
    BY <2>5 DEF NotifyAll
  <2>6. CASE UNCHANGED vars
    BY <2>6 DEF vars
  <2> QED
    BY <2>1, <2>2, <2>3, <2>4, <2>5, <2>6 DEF Next
<1> QED
  BY <1>1, TypeCorrect, TicketDiscipline, PTL DEF Spec, ServedInOrder

-----------------------------------------------------------------------------
(* The lanes.  A debouncer that has started holds a stamp of its own, none *)
(* above the last one given; there are as many stamps as debouncers that   *)
(* started.  A drain that runs is installed, about to be, or waited for.   *)
Claimed == {g \in Gens : kick[g] \in {"live", "exit"}}

LanesFields ==
  /\ handle \in 0..MaxSpawns /\ spawned \in 0..MaxSpawns /\ joined \in 0..MaxSpawns
  /\ command \in {"none", "install", "join", "off"}
  /\ drainer \in [Gens -> {"off", "start", "top", "cycle", "clean", "cut", "idle", "sleep", "exit"}]
  /\ tip \in Nat /\ merged \in 0..tip

Stamps ==
  /\ kick \in [Gens -> {"off", "new", "live", "exit"}]
  /\ ownKick \in [Gens -> Nat] /\ armed \in BOOLEAN
  /\ kickGen \in Nat /\ kickGen = Cardinality(Claimed)
  /\ \A g \in Claimed : ownKick[g] \in 1..kickGen
  /\ \A g, h \in Claimed : ownKick[g] = ownKick[h] => g = h
  /\ KickOwned

RunsOwned ==
  /\ \A g \in Gens : drainer[g] \notin {"off", "exit"} =>
        \/ g = handle
        \/ command = "install" /\ g = spawned
        \/ command \in {"join", "off"} /\ g = joined
  /\ command = "install" => spawned # 0
  /\ command = "join" => handle # 0
  /\ command = "off" => handle = 0
  /\ StatusCleared

Unspawned == \A g \in Gens : g > spawned => kick[g] = "off"

LanesInv == LanesFields /\ Stamps /\ RunsOwned /\ Unspawned

LEMMA GensFinite == IsFiniteSet(Gens) /\ Cardinality(Gens) = MaxSpawns /\ MaxSpawns \in Nat
<1>1. MaxSpawns \in Nat
  BY LanesAssumption
<1>2. IsFiniteSet(1..MaxSpawns) /\ Cardinality(1..MaxSpawns) = IF 1 > MaxSpawns THEN 0 ELSE MaxSpawns - 1 + 1
  BY <1>1, FS_Interval
<1> QED
  BY <1>1, <1>2 DEF Gens

LEMMA StampsBound == Stamps => kickGen \in 0..MaxSpawns
<1> SUFFICES ASSUME Stamps PROVE kickGen \in 0..MaxSpawns
  OBVIOUS
<1>1. Claimed \in SUBSET Gens
  BY DEF Claimed
<1>2. Cardinality(Claimed) <= Cardinality(Gens)
  BY <1>1, GensFinite, FS_Subset
<1> QED
  BY <1>2, GensFinite DEF Stamps

(* A step that leaves the debouncers alone.                                *)
LEMMA StampsStay ==
    ASSUME Stamps, UNCHANGED <<kick, ownKick, armed, kickGen>>
    PROVE  Stamps'
BY DEF Stamps, Claimed, KickOwned

LEMMA StampsNew ==
    ASSUME Stamps, NEW g \in Gens, kick' = [kick EXCEPT ![g] = "new"], kick[g] \notin {"live", "exit"},
           UNCHANGED <<ownKick, armed, kickGen>>
    PROVE  Stamps'
<1>1. Claimed' = Claimed
  BY DEF Stamps, Claimed
<1> QED
  BY <1>1 DEF Stamps, Claimed, KickOwned

LEMMA KickStartsKeeps ==
    ASSUME Stamps, NEW g \in Gens, KickStarts(g)
    PROVE  Stamps'
<1>1. /\ kick[g] = "new" /\ kick' = [kick EXCEPT ![g] = "live"] /\ armed' = TRUE
      /\ kickGen' = kickGen + 1 /\ ownKick' = [ownKick EXCEPT ![g] = kickGen + 1]
  BY DEF KickStarts, KickGoes
<1>2. g \notin Claimed /\ Claimed' = Claimed \cup {g}
  BY <1>1 DEF Stamps, Claimed
<1>3. IsFiniteSet(Claimed)
  BY GensFinite, FS_Subset DEF Claimed
<1>4. Cardinality(Claimed') = Cardinality(Claimed) + 1
  BY <1>2, <1>3, FS_AddElement
<1>5. /\ kick' \in [Gens -> {"off", "new", "live", "exit"}] /\ ownKick' \in [Gens -> Nat]
      /\ armed' \in BOOLEAN /\ kickGen' \in Nat
  BY <1>1 DEF Stamps
<1>6. \A h \in Claimed' : ownKick'[h] \in 1..kickGen'
  BY <1>1, <1>2 DEF Stamps, Claimed
<1>7. \A h, i \in Claimed' : ownKick'[h] = ownKick'[i] => h = i
  BY <1>1, <1>2 DEF Stamps, Claimed
<1>8. KickOwned'
  BY <1>1 DEF KickOwned
<1>9. kickGen' = Cardinality(Claimed')
  BY <1>1, <1>4 DEF Stamps
<1> QED
  BY <1>5, <1>6, <1>7, <1>8, <1>9 DEF Stamps

(* Only the owner of the last stamp disarms.                               *)
LEMMA KickExitsKeeps ==
    ASSUME Stamps, NEW g \in Gens, KickExits(g)
    PROVE  Stamps'
<1>1. /\ kick[g] = "live" /\ kick' = [kick EXCEPT ![g] = "exit"]
      /\ armed' = (IF kickGen = ownKick[g] THEN FALSE ELSE armed)
      /\ UNCHANGED <<kickGen, ownKick>>
  BY DEF KickExits, KickGoes
<1>2. Claimed' = Claimed
  BY <1>1 DEF Stamps, Claimed
<1>3. /\ kick' \in [Gens -> {"off", "new", "live", "exit"}] /\ armed' \in BOOLEAN
  BY <1>1 DEF Stamps
<1>4. ASSUME NEW h \in Gens, kick'[h] = "live", ownKick'[h] = kickGen'
      PROVE  armed'
  <2>1. h # g /\ kick[h] = "live" /\ ownKick[h] = kickGen
    BY <1>1, <1>4 DEF Stamps
  <2>2. h \in Claimed /\ g \in Claimed
    BY <1>1, <2>1 DEF Claimed
  <2>3. ownKick[g] # kickGen
    BY <2>1, <2>2 DEF Stamps
  <2> QED
    BY <1>1, <2>1, <2>3 DEF Stamps, KickOwned
<1>5. KickOwned'
  BY <1>4 DEF KickOwned
<1> QED
  BY <1>1, <1>2, <1>3, <1>5 DEF Stamps

-----------------------------------------------------------------------------
(* A move of one drain that runs, the commands and the status aside.       *)
LEMMA RunsMove ==
    ASSUME LanesFields, RunsOwned, NEW g \in Gens, drainer[g] \notin {"off", "exit"},
           NEW to \in {"start", "top", "cycle", "clean", "cut", "idle", "sleep", "exit"},
           DrainGoes(g, to), UNCHANGED commands, UNCHANGED tip, merged' \in 0..tip
    PROVE  LanesFields' /\ RunsOwned'
<1>1. drainer' \in [Gens -> {"off", "start", "top", "cycle", "clean", "cut", "idle", "sleep", "exit"}]
  BY DEF LanesFields, DrainGoes
<1>2. ~(handle = 0 /\ command = "none")
  BY LanesAssumption DEF RunsOwned, Gens
<1>3. \A h \in Gens : drainer'[h] \notin {"off", "exit"} => drainer[h] \notin {"off", "exit"}
  BY DEF LanesFields, DrainGoes
<1> QED
  BY <1>1, <1>2, <1>3 DEF LanesFields, RunsOwned, StatusCleared, commands

LEMMA DrainStepsKeep ==
    ASSUME LanesInv, NEW g \in Gens,
           DrainStep(g) \/ StartFails(g) \/ CycleFails(g) \/ SessionExpires(g)
    PROVE  LanesInv'
<1>0. LanesFields /\ RunsOwned /\ Stamps /\ merged \in 0..tip
  BY DEF LanesInv, LanesFields
<1> USE DEF cells, world
<1>1. UNCHANGED <<kick, ownKick, armed, kickGen, tip>> /\ UNCHANGED commands
  BY DEF DrainStep, DrainStarts, DrainTop, Cycle, Report, WaitEnds, StartFails, CycleFails,
         SessionExpires
<1>2. drainer[g] \notin {"off", "exit"}
  BY DEF DrainStep, DrainStarts, DrainTop, Cycle, Report, WaitEnds, StartFails, CycleFails,
         SessionExpires
<1>3. \E to \in {"start", "top", "cycle", "clean", "cut", "idle", "sleep", "exit"} : DrainGoes(g, to)
  BY DEF DrainStep, DrainStarts, DrainTop, Cycle, Report, WaitEnds, StartFails, CycleFails,
         SessionExpires
<1>4. merged' = merged \/ merged' = tip
  BY DEF DrainStep, DrainStarts, DrainTop, Cycle, Report, WaitEnds, StartFails, CycleFails,
         SessionExpires
<1>5. merged' \in 0..tip
  BY <1>0, <1>4 DEF LanesFields
<1> QED
  BY <1>0, <1>1, <1>2, <1>3, <1>5, StampsStay, RunsMove DEF LanesInv, Unspawned, commands

(* The debouncer and the world outside touch neither.                      *)
LEMMA RunsStay ==
    ASSUME LanesFields, RunsOwned, UNCHANGED <<commands, drainer, health>>,
           tip' \in Nat, merged' \in 0..tip'
    PROVE  LanesFields' /\ RunsOwned'
BY DEF LanesFields, RunsOwned, StatusCleared, commands

LEMMA LaneStepsKeep ==
    ASSUME LanesInv, NEW g \in Gens, LaneStep(g)
    PROVE  LanesInv'
<1>0. LanesFields /\ RunsOwned /\ Stamps
  BY DEF LanesInv
<1>1. LanesFields' /\ RunsOwned'
  <2>1. UNCHANGED <<commands, drainer, health>> /\ UNCHANGED <<tip, merged>>
    BY DEF LaneStep, KickStarts, KickFires, KickExits, kickRest, world
  <2> QED
    BY <1>0, <2>1, RunsStay DEF LanesFields
<1>2. Stamps'
  BY <1>0, KickStartsKeeps, KickExitsKeeps, StampsStay DEF LaneStep, KickFires
<1>3. Unspawned'
  <2>1. UNCHANGED spawned
    BY DEF LaneStep, KickStarts, KickFires, KickExits, kickRest, commands
  <2>2. \A h \in Gens : kick[h] = "off" => kick'[h] = "off"
    BY <1>0 DEF LaneStep, KickStarts, KickFires, KickExits, KickGoes, Stamps
  <2> QED
    BY <2>1, <2>2 DEF LanesInv, Unspawned
<1> QED
  BY <1>1, <1>2, <1>3 DEF LanesInv

LEMMA WorldKeeps ==
    ASSUME LanesInv, LocalWrite \/ PeerPush \/ Outage \/ Restored
    PROVE  LanesInv'
<1>0. LanesFields /\ RunsOwned /\ Stamps
  BY DEF LanesInv
<1>1. UNCHANGED <<commands, drainer, health>> /\ UNCHANGED merged
      /\ UNCHANGED <<kick, ownKick, armed, kickGen>>
  BY DEF LocalWrite, PeerPush, Outage, Restored, threads, cells
<1>2. tip' = tip \/ tip' = tip + 1
  BY DEF LocalWrite, PeerPush, Outage, Restored
<1>3. tip' \in Nat /\ merged' \in 0..tip'
  BY <1>0, <1>1, <1>2 DEF LanesFields
<1> QED
  BY <1>0, <1>1, <1>3, RunsStay, StampsStay DEF LanesInv, Unspawned, commands

(* spawn_drain, and the install or the stop of a handle.                   *)
LEMMA CommandsKeep ==
    ASSUME LanesInv, SpawnLanes \/ Install \/ TurnOff \/ Joined
    PROVE  LanesInv'
<1>0. LanesFields /\ RunsOwned /\ Stamps /\ MaxSpawns \in Nat
  BY LanesAssumption DEF LanesInv
<1>1. CASE SpawnLanes
  <2> DEFINE g == spawned + 1
  <2>1. /\ command = "none" /\ spawned < MaxSpawns /\ spawned' = g /\ command' = "install"
        /\ health' = Quiet /\ drainer' = [drainer EXCEPT ![g] = "start"]
        /\ kick' = [kick EXCEPT ![g] = "new"]
        /\ UNCHANGED <<handle, joined, ownKick, armed, kickGen, tip, merged>>
    BY <1>1 DEF SpawnLanes, world
  <2>2. g \in Gens /\ g \in 0..MaxSpawns /\ g # 0
    BY <1>0, <2>1 DEF LanesFields, Gens
  <2>3. LanesFields'
    BY <1>0, <2>1, <2>2 DEF LanesFields
  <2>4. RunsOwned'
    BY <1>0, <2>1, <2>2 DEF LanesFields, RunsOwned, StatusCleared
  <2>5. Stamps'
    <3>1. g > spawned
      BY <1>0, <2>1 DEF LanesFields
    <3>2. kick[g] \notin {"live", "exit"}
      BY <2>2, <3>1 DEF LanesInv, Unspawned
    <3> QED
      BY <1>0, <2>1, <2>2, <3>2, StampsNew
  <2>6. Unspawned'
    BY <1>0, <2>1, <2>2 DEF LanesInv, LanesFields, Unspawned, Stamps, Gens
  <2> QED
    BY <2>3, <2>4, <2>5, <2>6 DEF LanesInv
<1>2. CASE Install
  <2>1. /\ command = "install" /\ handle' = spawned
        /\ UNCHANGED <<spawned, drainer, kick, ownKick, armed, kickGen, health, tip, merged>>
    BY <1>2 DEF Install, threads, world
  <2>2. \/ handle = 0 /\ command' = "none" /\ UNCHANGED joined
        \/ handle # 0 /\ command' = "join" /\ joined' = handle
    BY <1>2 DEF Install, RaiseStop
  <2>3. LanesFields'
    BY <1>0, <2>1, <2>2 DEF LanesFields
  <2>4. RunsOwned'
    BY <1>0, <2>1, <2>2, GensFinite DEF LanesFields, RunsOwned, StatusCleared, Gens
  <2> QED
    BY <1>0, <2>1, <2>3, <2>4, StampsStay DEF LanesInv, Unspawned
<1>3. CASE TurnOff
  <2>1. /\ command = "none" /\ handle # 0 /\ handle' = 0 /\ command' = "off" /\ joined' = handle
        /\ UNCHANGED <<spawned, drainer, kick, ownKick, armed, kickGen, health, tip, merged>>
    BY <1>3 DEF TurnOff, RaiseStop, threads, world
  <2>2. LanesFields'
    BY <1>0, <2>1 DEF LanesFields
  <2>3. RunsOwned'
    BY <1>0, <2>1 DEF LanesFields, RunsOwned, StatusCleared
  <2> QED
    BY <1>0, <2>1, <2>2, <2>3, StampsStay DEF LanesInv, Unspawned
<1>4. CASE Joined
  <2>1. /\ command \in {"join", "off"} /\ drainer[joined] = "exit" /\ command' = "none" /\ joined' = 0
        /\ health' = (IF command = "off" THEN Quiet ELSE health)
        /\ UNCHANGED <<handle, spawned, drainer, kick, ownKick, armed, kickGen, tip, merged>>
    BY <1>4 DEF Joined, threads, world
  <2>2. LanesFields'
    BY <1>0, <2>1 DEF LanesFields
  <2>3. RunsOwned'
    BY <1>0, <2>1 DEF LanesFields, RunsOwned, StatusCleared
  <2> QED
    BY <1>0, <2>1, <2>2, <2>3, StampsStay DEF LanesInv, Unspawned
<1> QED
  BY <1>1, <1>2, <1>3, <1>4

(* However the generations of lanes overlap (sync.rs, spawn_drain and      *)
(* DrainHandle::stop): the debouncer that claimed last is armed while it   *)
(* runs, and with no lanes installed and no command under way the status   *)
(* shows nothing of the lanes that ended.  It does not say that the older  *)
(* of two generations leaves the installed one's cells alone.              *)
THEOREM LanesCleanHolds == LanesSpec => []LanesClean
<1>1. LanesInit => LanesInv
  <2> SUFFICES ASSUME LanesInit PROVE LanesInv
    OBVIOUS
  <2>1. Claimed = {} /\ Cardinality(Claimed) = 0
    <3>1. Claimed = {}
      BY DEF LanesInit, Claimed
    <3> QED
      BY <3>1, FS_EmptySet
  <2>2. LanesFields
    BY LanesAssumption DEF LanesInit, LanesFields
  <2>3. Stamps
    BY <2>1 DEF LanesInit, Stamps, KickOwned
  <2>4. RunsOwned
    BY DEF LanesInit, RunsOwned, StatusCleared
  <2>5. Unspawned
    BY DEF LanesInit, Unspawned
  <2> QED
    BY <2>2, <2>3, <2>4, <2>5 DEF LanesInv
<1>2. LanesInv /\ [LanesNext]_laneVars => LanesInv'
  <2> SUFFICES ASSUME LanesInv, [LanesNext]_laneVars PROVE LanesInv'
    OBVIOUS
  <2>1. CASE UNCHANGED laneVars
    <3>1. /\ UNCHANGED <<kick, ownKick, armed, kickGen>> /\ UNCHANGED <<commands, drainer, health>>
          /\ UNCHANGED <<tip, merged>>
      BY <2>1 DEF laneVars, threads, cells, world
    <3> QED
      BY <3>1, StampsStay, RunsStay DEF LanesInv, LanesFields, Unspawned, commands
  <2> QED
    BY <2>1, DrainStepsKeep, LaneStepsKeep, WorldKeeps, CommandsKeep DEF LanesNext
<1>3. LanesInv => LanesClean
  BY StampsBound DEF LanesInv, LanesClean, LanesTypeOK, LanesFields, Stamps, RunsOwned
<1> QED
  BY <1>1, <1>2, <1>3, PTL DEF LanesSpec
==============================================================================
