-------------------------- MODULE RecordingRecovery --------------------------
(***************************************************************************)
(* What a boot does with the recordings a crash left open (db.rs): the     *)
(* owner-scoped sweep of `status = 'recording'` sessions, then the         *)
(* reconciliation of audio files that have no session_audio_parts row.     *)
(* Rows synced from a peer are in the same tables, and a write to one of   *)
(* them propagates back, so the sweep must tell its own crash from a       *)
(* recording that is live elsewhere.                                       *)
(***************************************************************************)
EXTENDS Naturals, FiniteSets

CONSTANTS Sessions, MaxParts, MaxBoots,
          Me, Peer, NoOwner      \* values of recording_device_id

ASSUME RecoveryAssumption ==
  /\ Me # Peer /\ NoOwner \notin {Me, Peer}
  /\ MaxParts \in Nat /\ MaxBoots \in Nat

VARIABLES
  sess,      \* session id -> its row and what references it
  files,     \* finalized audio files, <<session, part>>
  recording, \* the session this process records, or the empty set
  live,      \* the sessions the peer records at this moment
  synced,    \* the database was CRR-prepared
  ident,     \* the fingerprint current_device_fingerprint loads, or NoOwner
  phase,     \* "off", "sweep", "reconcile", "up"
  ownIds,    \* sessions this device recorded
  boots

recVars == <<sess, files, recording, live, synced, ident, phase, ownIds, boots>>

NoRow == [st |-> "none", owner |-> NoOwner, segs |-> FALSE, parts |-> {}, old |-> FALSE]
Row(o) == [NoRow EXCEPT !.st = "recording", !.owner = o]

RecTypeOK ==
  /\ \A s \in Sessions : /\ sess[s].st \in {"none", "recording", "completed"}
                         /\ sess[s].owner \in {Me, Peer, NoOwner}
                         /\ sess[s].parts \subseteq 1..MaxParts
  /\ files \subseteq Sessions \X (1..MaxParts)
  /\ Cardinality(recording) <= 1 /\ live \subseteq Sessions
  /\ ident \in {Me, NoOwner} /\ boots \in 0..MaxBoots

RecInit ==
  /\ sess = [s \in Sessions |-> NoRow] /\ files = {} /\ recording = {} /\ live = {}
  /\ synced \in BOOLEAN /\ ident \in IF synced THEN {Me, NoOwner} ELSE {NoOwner}
  /\ phase = "up" /\ ownIds = {} /\ boots = 0

(***************************************************************************)
(* Recording on this device.                                               *)
(***************************************************************************)

\* createSession stamps the fingerprint, or NULL without one.
StartRecording(s) ==
  /\ phase = "up" /\ recording = {} /\ sess[s].st = "none" /\ s \notin ownIds \cup live
  /\ sess' = [sess EXCEPT ![s] = Row(ident)]
  /\ recording' = {s} /\ ownIds' = ownIds \cup {s}
  /\ UNCHANGED <<files, live, synced, ident, phase, boots>>

\* markSessionRecording: a resumed session is attributed to whoever resumes.
ResumeRecording(s) ==
  /\ phase = "up" /\ recording = {} /\ sess[s].st = "completed" /\ s \notin live
  /\ sess' = [sess EXCEPT ![s].st = "recording", ![s].owner = ident, ![s].old = FALSE]
  /\ recording' = {s} /\ ownIds' = ownIds \cup {s}
  /\ UNCHANGED <<files, live, synced, ident, phase, boots>>

AddSegment(s) ==
  /\ s \in recording /\ ~sess[s].segs
  /\ sess' = [sess EXCEPT ![s].segs = TRUE, ![s].old = FALSE]
  /\ UNCHANGED <<files, recording, live, synced, ident, phase, ownIds, boots>>

\* The stop path: the audio file is finalized, its part row inserted, and
\* the session completed; a crash may fall between any two.
FinalizeFile(s, p) ==
  /\ s \in recording /\ <<s, p>> \notin files /\ sess[s].parts = 1..(p - 1)
  /\ files' = files \cup {<<s, p>>}
  /\ UNCHANGED <<sess, recording, live, synced, ident, phase, ownIds, boots>>

InsertPartRow(s, p) ==
  /\ s \in recording /\ <<s, p>> \in files /\ p \notin sess[s].parts
  /\ sess' = [sess EXCEPT ![s].parts = @ \cup {p}]
  /\ UNCHANGED <<files, recording, live, synced, ident, phase, ownIds, boots>>

CompleteSession(s) ==
  /\ s \in recording /\ \A p \in 1..MaxParts : <<s, p>> \in files => p \in sess[s].parts
  /\ sess' = [sess EXCEPT ![s].st = "completed"]
  /\ recording' = {}
  /\ UNCHANGED <<files, live, synced, ident, phase, ownIds, boots>>

(***************************************************************************)
(* The peer, through sync.  An older build of it leaves the owner NULL.    *)
(***************************************************************************)
PeerStarts(s) ==
  /\ synced /\ sess[s].st = "none" /\ s \notin ownIds /\ phase = "up"
  /\ \E o \in {Peer, NoOwner} : sess' = [sess EXCEPT ![s] = Row(o)]
  /\ live' = live \cup {s}
  /\ UNCHANGED <<files, recording, synced, ident, phase, ownIds, boots>>

PeerSegment(s) ==
  /\ s \in live /\ phase = "up" /\ sess[s].st = "recording"
  /\ sess' = [sess EXCEPT ![s].segs = TRUE, ![s].old = FALSE]
  /\ UNCHANGED <<files, recording, live, synced, ident, phase, ownIds, boots>>

PeerCompletes(s) ==
  /\ s \in live /\ phase = "up"
  /\ sess' = [sess EXCEPT ![s].st = IF @ = "none" THEN "none" ELSE "completed"]
  /\ live' = live \ {s}
  /\ UNCHANGED <<files, recording, synced, ident, phase, ownIds, boots>>

\* Three minutes without a segment, as this device sees it: it is off line or
\* off, the peer may well be recording.
GrowOld(s) ==
  /\ sess[s].st = "recording" /\ ~sess[s].old /\ s \notin recording
  /\ phase \in {"off", "up"}
  /\ sess' = [sess EXCEPT ![s].old = TRUE]
  /\ UNCHANGED <<files, recording, live, synced, ident, phase, ownIds, boots>>

(***************************************************************************)
(* Crash and boot.                                                         *)
(***************************************************************************)
Die ==
  /\ phase # "off" /\ boots < MaxBoots /\ boots' = boots + 1
  /\ phase' = "off" /\ recording' = {}
  /\ UNCHANGED <<sess, files, live, synced, ident, ownIds>>

\* Whether the identity loads is decided at each start.
Start ==
  /\ phase = "off" /\ phase' = "sweep"
  /\ ident' \in IF synced THEN {Me, NoOwner} ELSE {NoOwner}
  /\ UNCHANGED <<sess, files, recording, live, synced, ownIds, boots>>

Empty(r)      == ~r.segs /\ r.parts = {}
NotForeign(r) == r.owner \in {NoOwner, ident}
\* delete_eligible: with sync on, an ownerless row may be a peer's.
Deletable(r)  == Empty(r) /\ (ident = NoOwner \/ r.owner = ident)
\* Mutant: an ownerless row is taken for a crash of this device.
FinalizableAnyAge(r) == ~Deletable(r)
\* Mutant: only a row that looks dead is closed, its owner is not asked.
FinalizableOld(r) == ~Deletable(r) /\ r.old
Finalizable(r) == ~Deletable(r) /\ ((ident # NoOwner /\ r.owner = ident) \/ r.old)

\* close_orphaned_recordings: a synced database without an identity is left
\* alone; otherwise sweep_orphaned_recordings deletes, then finalizes.
Swept(r) ==
  CASE r.st # "recording" \/ ~NotForeign(r) -> r
    [] r.st = "recording" /\ NotForeign(r) /\ Deletable(r) -> NoRow
    [] r.st = "recording" /\ NotForeign(r) /\ Finalizable(r) ->
         [r EXCEPT !.st = "completed"]
    [] OTHER -> r

\* Mutant: the sweep runs without an identity too.
SweepAlways ==
  /\ phase = "sweep" /\ phase' = "reconcile"
  /\ sess' = [s \in Sessions |-> Swept(sess[s])]
  /\ UNCHANGED <<files, recording, live, synced, ident, ownIds, boots>>

Sweep ==
  /\ phase = "sweep" /\ phase' = "reconcile"
  /\ sess' = IF ident = NoOwner /\ synced THEN sess
             ELSE [s \in Sessions |-> Swept(sess[s])]
  /\ UNCHANGED <<files, recording, live, synced, ident, ownIds, boots>>

\* Mutant: a file whose session already has a part is taken for known.
RecoverableIfNone(s, p) == <<s, p>> \in files /\ sess[s].st # "none" /\ sess[s].parts = {}
\* reconcile_audio_parts: files of sessions that exist and have no such part.
Recoverable(s, p) == <<s, p>> \in files /\ sess[s].st # "none" /\ p \notin sess[s].parts
Reconcile ==
  /\ phase = "reconcile" /\ phase' = "up"
  /\ sess' = [s \in Sessions |-> [sess[s] EXCEPT !.parts =
                @ \cup {p \in 1..MaxParts : Recoverable(s, p)}]]
  /\ UNCHANGED <<files, recording, live, synced, ident, ownIds, boots>>

RecNext ==
  \/ \E s \in Sessions : \/ StartRecording(s) \/ ResumeRecording(s) \/ AddSegment(s)
                         \/ CompleteSession(s) \/ PeerStarts(s) \/ PeerSegment(s)
                         \/ PeerCompletes(s) \/ GrowOld(s)
  \/ \E s \in Sessions, p \in 1..MaxParts : FinalizeFile(s, p) \/ InsertPartRow(s, p)
  \/ Die \/ Start \/ Sweep \/ Reconcile

RecSpec == RecInit /\ [][RecNext]_recVars

\* No boot of this device ends or deletes a recording that is live on its peer,
\* except one an older build left without owner and that looks three minutes
\* dead from here.
LivePeersSpared ==
  \A s \in live : sess[s].st = "recording" \/ (sess[s].owner = NoOwner /\ sess[s].old)

\* After a boot that knows who it is, no crashed recording of this device is
\* left open, unless it was made without an identity and is still fresh.
OwnCrashesClosed ==
  (phase = "reconcile" /\ (ident = Me \/ ~synced)) =>
    \A s \in ownIds \ live :
      sess[s].st = "recording" => sess[s].owner = NoOwner /\ ~sess[s].old

\* After a boot, every audio file of a session that exists has its part row:
\* a crash between the file and the row loses nothing.
FilesListed ==
  (phase = "up" /\ recording = {}) =>
    \A s \in Sessions, p \in 1..MaxParts :
      (<<s, p>> \in files /\ sess[s].st # "none") => p \in sess[s].parts

\* Stronger: every audio file this device wrote is reachable after a boot.
FilesRecovered ==
  (phase = "up" /\ recording = {}) =>
    \A s \in Sessions, p \in 1..MaxParts : <<s, p>> \in files => p \in sess[s].parts

\* The boot's sweep and reconciliation: a live peer is spared, an own crash is
\* closed, and no file of a session is left without its row.
RecoverySound == RecTypeOK /\ LivePeersSpared /\ OwnCrashesClosed /\ FilesListed
==============================================================================
