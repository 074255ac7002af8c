----------------------------- MODULE Live_proofs -----------------------------
(* Proofs about the way from the microphone to the transcript, for any       *)
(* devices, sessions, engines, jobs and numbers of steps.                    *)
EXTENDS EngineModels, CaptureStreams, LiveSlots, Transcriber, SequenceTheorems, TLAPS

------------------------------------------------------------------------------
(* Engines and model files.                                                  *)
(*                                                                           *)
(* The files: a download holds at most files of its bundle, and only the     *)
(* diarizer's, which is not pinned, ever has other bytes.                    *)
Fetches == [at : {"none", "next", "body"}, file : Files \cup {"onnx", "none"}, ok : BOOLEAN,
            passed : SUBSET (Files \cup {"onnx"})]

FilesInv ==
  /\ onDisk \in [Bundles -> SUBSET (Files \cup {"onnx"})]
  /\ fetches \in [Bundles -> Fetches]
  /\ \A b \in Bundles : onDisk[b] \subseteq FilesOf(b)
  /\ \A b \in Bundles : fetches[b].at = "body" => fetches[b].file \in FilesOf(b)
  /\ PinnedOnly

(* The processes: the installed engine, the one a shutdown has taken and     *)
(* those in the hands of the inits that have spawned are distinct and up,    *)
(* and no other is.                                                          *)
InitPlaces == {"idle", "diarizer", "fetching", "spawn", "install", "undo"}
Inits == [at : InitPlaces, model : Bundles \cup {"none"}, diarize : BOOLEAN, proc : Nat]
Procs == [up : BOOLEAN, model : Bundles \cup {"none"}, diarize : BOOLEAN]

Has(i) == i.at \in {"install", "undo"}

ProcsInv ==
  /\ inits \in [Calls -> Inits] /\ procs \in Seq(Procs)
  /\ installed \in 0..Len(procs) /\ closer.proc \in 0..Len(procs)
  /\ \A c \in Calls : IF Has(inits[c]) THEN inits[c].proc \in 1..Len(procs) ELSE inits[c].proc = 0
  /\ closer.at # "shut" => closer.proc = 0
  /\ InstalledRuns /\ NoOrphanEngine
  /\ \A c \in Calls : Has(inits[c]) =>
        procs[inits[c].proc].up /\ inits[c].proc \notin {installed, closer.proc}
  /\ \A c, d \in Calls : Has(inits[c]) /\ inits[c].proc = inits[d].proc => c = d
  /\ closer.proc # 0 => closer.proc # installed

EnginesInv == FilesInv /\ ProcsInv

LEMMA FilesOfType == \A b \in Bundles : FilesOf(b) \subseteq Files \cup {"onnx"}
BY DEF FilesOf

(* A download's record after a step of it.                                   *)
LEMMA FetchFields ==
    ASSUME NEW r \in Fetches, NEW S \in SUBSET (Files \cup {"onnx"}), NEW f \in Files \cup {"onnx"}
    PROVE  /\ [r EXCEPT !.passed = S] \in Fetches /\ [r EXCEPT !.passed = S].at = r.at
           /\ [r EXCEPT !.passed = S].file = r.file
           /\ [r EXCEPT !.at = "body", !.file = f, !.ok = TRUE] \in Fetches
           /\ [r EXCEPT !.at = "body", !.file = f, !.ok = TRUE].file = f
           /\ [r EXCEPT !.at = "next", !.passed = S] \in Fetches
           /\ [r EXCEPT !.at = "next", !.passed = S].at = "next"
           /\ [r EXCEPT !.ok = FALSE] \in Fetches /\ [r EXCEPT !.ok = FALSE].at = r.at
           /\ [r EXCEPT !.ok = FALSE].file = r.file
BY DEF Fetches

LEMMA NoFetchType ==
    /\ NoFetch \in Fetches /\ NoFetch.at = "none"
    /\ [NoFetch EXCEPT !.at = "next"] \in Fetches /\ [NoFetch EXCEPT !.at = "next"].at = "next"
BY DEF NoFetch, Fetches

(* One download's record is replaced.                                        *)
LEMMA FetchSet ==
    ASSUME FilesInv, NEW b \in Bundles, NEW r \in Fetches, fetches' = [fetches EXCEPT ![b] = r],
           r.at = "body" => r.file \in FilesOf(b)
    PROVE  /\ fetches' \in [Bundles -> Fetches]
           /\ \A a \in Bundles : fetches'[a].at = "body" => fetches'[a].file \in FilesOf(a)
BY DEF FilesInv

LEMMA DownloadKeeps ==
    ASSUME FilesInv, NEW b \in Bundles, Claims(b), UNCHANGED <<onDisk, tainted>>
    PROVE  FilesInv'
<1>1. fetches' = [fetches EXCEPT ![b] = [NoFetch EXCEPT !.at = "next"]]
  BY DEF Claims
<1>2. /\ fetches' \in [Bundles -> Fetches]
      /\ \A a \in Bundles : fetches'[a].at = "body" => fetches'[a].file \in FilesOf(a)
  BY <1>1, FetchSet, NoFetchType
<1> QED
  BY <1>2 DEF FilesInv, PinnedOnly

LEMMA NextFileKeeps ==
    ASSUME FilesInv, NEW b \in Bundles, NextFile(b)
    PROVE  FilesInv'
<1>0. UNCHANGED <<onDisk, tainted>> /\ fetches[b] \in Fetches /\ fetches[b].at = "next"
  BY DEF NextFile, FilesInv
<1>1. \E r \in Fetches : /\ fetches' = [fetches EXCEPT ![b] = r]
                         /\ r.at = "body" => r.file \in FilesOf(b)
  <2>1. CASE fetches' = [fetches EXCEPT ![b] = NoFetch]
    BY <2>1, NoFetchType
  <2>2. ASSUME NEW f \in FilesOf(b) \ fetches[b].passed,
               fetches' = [fetches EXCEPT ![b] = IF f \in onDisk[b] /\ b # Diarizer
                                                 THEN [fetches[b] EXCEPT !.passed = @ \cup {f}]
                                                 ELSE [fetches[b] EXCEPT !.at = "body", !.file = f, !.ok = TRUE]]
        PROVE  \E r \in Fetches : /\ fetches' = [fetches EXCEPT ![b] = r]
                                  /\ r.at = "body" => r.file \in FilesOf(b)
    <3> DEFINE S == fetches[b].passed \cup {f}
    <3>1. f \in Files \cup {"onnx"} /\ S \in SUBSET (Files \cup {"onnx"})
      BY <1>0, FilesOfType DEF Fetches
    <3>2. CASE f \in onDisk[b] /\ b # Diarizer
      <4>1. fetches' = [fetches EXCEPT ![b] = [fetches[b] EXCEPT !.passed = S]]
        BY <1>0, <2>2, <3>2 DEF FilesInv, Fetches
      <4>2. [fetches[b] EXCEPT !.passed = S] \in Fetches /\ [fetches[b] EXCEPT !.passed = S].at = "next"
        BY <1>0, <3>1, FetchFields
      <4> QED
        BY <4>1, <4>2
    <3>3. CASE ~(f \in onDisk[b] /\ b # Diarizer)
      <4> DEFINE r == [fetches[b] EXCEPT !.at = "body", !.file = f, !.ok = TRUE]
      <4>1. fetches' = [fetches EXCEPT ![b] = r]
        BY <2>2, <3>3 DEF FilesInv
      <4>2. r \in Fetches /\ r.file = f
        BY <1>0, <3>1, FetchFields
      <4> HIDE DEF r
      <4> QED
        BY <4>1, <4>2
    <3> QED
      BY <3>2, <3>3
  <2> QED
    BY <2>1, <2>2 DEF NextFile
<1>2. /\ fetches' \in [Bundles -> Fetches]
      /\ \A a \in Bundles : fetches'[a].at = "body" => fetches'[a].file \in FilesOf(a)
  BY <1>1, FetchSet
<1> QED
  BY <1>0, <1>2 DEF FilesInv, PinnedOnly

LEMMA FinishFileKeeps ==
    ASSUME FilesInv, NEW b \in Bundles, FinishFile(b)
    PROVE  FilesInv'
<1>0. fetches[b] \in Fetches /\ fetches[b].at = "body" /\ fetches[b].file \in FilesOf(b)
  BY DEF FinishFile, FilesInv
<1>1. CASE UNCHANGED <<onDisk, tainted>> /\ fetches' = [fetches EXCEPT ![b] = NoFetch]
  <2>1. /\ fetches' \in [Bundles -> Fetches]
        /\ \A a \in Bundles : fetches'[a].at = "body" => fetches'[a].file \in FilesOf(a)
    BY <1>1, FetchSet, NoFetchType
  <2> QED
    BY <1>1, <2>1 DEF FilesInv, PinnedOnly
<1>2. ASSUME NEW bytes \in {"good", "bad", "cut"}, bytes = "good" \/ (bytes = "bad" /\ b = Diarizer),
             onDisk' = [onDisk EXCEPT ![b] = @ \cup {fetches[b].file}],
             tainted' = IF bytes = "good" THEN tainted \ {<<b, fetches[b].file>>}
                                        ELSE tainted \cup {<<b, fetches[b].file>>},
             fetches' = [fetches EXCEPT ![b].at = "next", ![b].passed = @ \cup {fetches[b].file}]
      PROVE  FilesInv'
  <2> DEFINE S == fetches[b].passed \cup {fetches[b].file}
             r == [fetches[b] EXCEPT !.at = "next", !.passed = S]
  <2>1. fetches[b].file \in Files \cup {"onnx"} /\ S \in SUBSET (Files \cup {"onnx"})
    BY <1>0, FilesOfType DEF Fetches
  <2>2. fetches' = [fetches EXCEPT ![b] = r]
    BY <1>0, <1>2 DEF FilesInv, Fetches
  <2>3. r \in Fetches /\ r.at = "next"
    BY <1>0, <2>1, FetchFields, ZenonT(60)
  <2> HIDE DEF r
  <2>4. /\ fetches' \in [Bundles -> Fetches]
        /\ \A a \in Bundles : fetches'[a].at = "body" => fetches'[a].file \in FilesOf(a)
    BY <2>2, <2>3, FetchSet
  <2>5. /\ onDisk' \in [Bundles -> SUBSET (Files \cup {"onnx"})]
        /\ \A a \in Bundles : onDisk'[a] \subseteq FilesOf(a)
    BY <1>0, <1>2, <2>1 DEF FilesInv
  <2>6. PinnedOnly'
    BY <1>2 DEF PinnedOnly, FilesInv
  <2> QED
    BY <2>4, <2>5, <2>6 DEF FilesInv
<1> QED
  BY <1>1, <1>2 DEF FinishFile

LEMMA DeleteFileKeeps ==
    ASSUME FilesInv, NEW b \in Bundles, DeleteFile(b)
    PROVE  FilesInv'
<1>1. ASSUME NEW f \in onDisk[b], onDisk' = [onDisk EXCEPT ![b] = @ \ {f}],
             tainted' = tainted \ {<<b, f>>}, UNCHANGED fetches
      PROVE  FilesInv'
  BY <1>1 DEF FilesInv, PinnedOnly
<1>2. ASSUME UNCHANGED <<onDisk, tainted>>,
             fetches' \in {fetches} \cup (IF fetches[b].at = "body" /\ b # Diarizer
                                            THEN {[fetches EXCEPT ![b].ok = FALSE]} ELSE {})
      PROVE  FilesInv'
  <2>1. CASE UNCHANGED fetches
    BY <1>2, <2>1 DEF FilesInv, PinnedOnly
  <2>2. CASE fetches' = [fetches EXCEPT ![b].ok = FALSE]
    <3> DEFINE r == [fetches[b] EXCEPT !.ok = FALSE]
    <3>1. fetches' = [fetches EXCEPT ![b] = r]
      BY <2>2 DEF FilesInv
    <3>2. fetches[b] \in Fetches /\ {} \in SUBSET (Files \cup {"onnx"}) /\ "onnx" \in Files \cup {"onnx"}
      BY DEF FilesInv
    <3>3. r \in Fetches /\ r.at = fetches[b].at /\ r.file = fetches[b].file
      BY <3>2, FetchFields
    <3> HIDE DEF r
    <3>4. /\ fetches' \in [Bundles -> Fetches]
          /\ \A a \in Bundles : fetches'[a].at = "body" => fetches'[a].file \in FilesOf(a)
      BY <3>1, <3>3, FetchSet DEF FilesInv
    <3> QED
      BY <1>2, <3>4 DEF FilesInv, PinnedOnly
  <2> QED
    BY <1>2, <2>1, <2>2
<1> QED
  BY <1>1, <1>2 DEF DeleteFile

------------------------------------------------------------------------------
(* The processes.                                                            *)
LEMMA NoInitType == NoInit \in Inits /\ ~Has(NoInit) /\ NoInit.proc = 0 /\ NoInit.at = "idle"
BY DEF NoInit, Inits, InitPlaces, Has

LEMMA InitFields ==
    ASSUME NEW i \in Inits, NEW at \in InitPlaces, NEW n \in Nat
    PROVE  /\ [i EXCEPT !.at = at] \in Inits /\ [i EXCEPT !.at = at].at = at
           /\ [i EXCEPT !.at = at].proc = i.proc
           /\ [i EXCEPT !.at = at, !.proc = n] \in Inits /\ [i EXCEPT !.at = at, !.proc = n].at = at
           /\ [i EXCEPT !.at = at, !.proc = n].proc = n
BY DEF Inits

(* A step of an init that neither spawns nor gives up a process.             *)
LEMMA InitMoves ==
    ASSUME ProcsInv, NEW c \in Calls, NEW i \in Inits, inits' = [inits EXCEPT ![c] = i],
           Has(i) <=> Has(inits[c]), i.proc = inits[c].proc,
           UNCHANGED <<installed, procs, closer>>
    PROVE  ProcsInv'
<1>1. inits' \in [Calls -> Inits]
  BY DEF ProcsInv
<1>2. \A d \in Calls : (Has(inits'[d]) <=> Has(inits[d])) /\ inits'[d].proc = inits[d].proc
  BY DEF ProcsInv
<1>3. {inits'[d].proc : d \in Calls} = {inits[d].proc : d \in Calls}
  BY <1>2
<1>4. NoOrphanEngine' /\ InstalledRuns'
  BY <1>3 DEF ProcsInv, NoOrphanEngine, InstalledRuns
<1> QED
  BY <1>1, <1>2, <1>4 DEF ProcsInv

LEMMA InitStepFacts ==
    ASSUME ProcsInv, NEW c \in Calls, NEW at \in InitPlaces, InitStep(c, at)
    PROVE  \E i \in Inits : inits' = [inits EXCEPT ![c] = i] /\ i.at = at /\ i.proc = inits[c].proc
<1> DEFINE i == [inits[c] EXCEPT !.at = at]
<1>1. inits[c] \in Inits
  BY DEF ProcsInv
<1>2. inits' = [inits EXCEPT ![c] = i]
  BY <1>1 DEF InitStep, ProcsInv
<1>3. i \in Inits /\ i.at = at /\ i.proc = inits[c].proc
  BY <1>1, InitFields
<1> HIDE DEF i
<1> QED
  BY <1>2, <1>3

(* A step before the process is spawned.                                     *)
LEMMA EarlySteps ==
    ASSUME ProcsInv, NEW c \in Calls, ~Has(inits[c]), UNCHANGED <<installed, procs, closer>>,
           InitEnds(c) \/ InitStep(c, "spawn") \/ InitStep(c, "fetching")
    PROVE  ProcsInv'
<1>0. inits[c].proc = 0
  BY DEF ProcsInv
<1>1. CASE InitEnds(c)
  BY <1>0, <1>1, NoInitType, InitMoves DEF InitEnds
<1>2. ASSUME NEW at \in {"spawn", "fetching"}, InitStep(c, at)
      PROVE  ProcsInv'
  <2>1. at \in InitPlaces
    BY DEF InitPlaces
  <2>2. PICK i \in Inits : inits' = [inits EXCEPT ![c] = i] /\ i.at = at /\ i.proc = inits[c].proc
    BY <1>2, <2>1, InitStepFacts
  <2>3. ~Has(i)
    BY <2>2 DEF Has
  <2> QED
    BY <2>2, <2>3, InitMoves
<1> QED
  BY <1>1, <1>2

LEMMA InitBeginKeeps ==
    ASSUME ProcsInv, NEW c \in Calls, NEW m \in Bundles, NEW d \in BOOLEAN, InitBegin(c, m, d)
    PROVE  ProcsInv'
<1> DEFINE i == [at |-> IF d THEN "diarizer" ELSE "spawn", model |-> m, diarize |-> d, proc |-> 0]
<1>1. /\ inits[c].at = "idle" /\ inits' = [inits EXCEPT ![c] = i]
      /\ UNCHANGED <<installed, procs, closer>>
  BY DEF InitBegin
<1>2. i \in Inits /\ ~Has(i) /\ i.proc = 0
  BY DEF Inits, InitPlaces, Has
<1> HIDE DEF i
<1>3. ~Has(inits[c]) /\ inits[c].proc = 0
  BY <1>1 DEF ProcsInv, Has
<1> QED
  BY <1>1, <1>2, <1>3, InitMoves

(* A process is added after those there are.                                 *)
LEMMA Spawned ==
    ASSUME NEW ps \in Seq(Procs), NEW p \in Procs, NEW qs, qs = Append(ps, p)
    PROVE  /\ qs \in Seq(Procs) /\ Len(qs) = Len(ps) + 1 /\ qs[Len(ps) + 1] = p
           /\ \A k \in 1..Len(ps) : qs[k] = ps[k]
BY AppendProperties

LEMMA InitSpawnKeeps ==
    ASSUME ProcsInv, NEW c \in Calls, InitSpawn(c)
    PROVE  ProcsInv'
<1>0. ~Has(inits[c]) /\ UNCHANGED <<installed, closer>>
  BY DEF InitSpawn, Has
<1>1. CASE InitEnds(c) /\ UNCHANGED procs
  BY <1>0, <1>1, EarlySteps
<1>2. CASE /\ procs' = Append(procs, [up |-> TRUE, model |-> inits[c].model, diarize |-> inits[c].diarize])
           /\ inits' = [inits EXCEPT ![c].at = "install", ![c].proc = Len(procs) + 1]
  <2> DEFINE p == [up |-> TRUE, model |-> inits[c].model, diarize |-> inits[c].diarize]
             n == Len(procs) + 1
             i == [inits[c] EXCEPT !.at = "install", !.proc = n]
  <2>0. inits[c] \in Inits /\ Len(procs) \in Nat /\ n \in Nat /\ "install" \in InitPlaces
    BY LenProperties DEF ProcsInv, InitPlaces
  <2>1. p \in Procs /\ p.up
    BY <2>0 DEF Inits, Procs
  <2>14. procs' = Append(procs, p)
    BY <1>2
  <2>2. inits' = [inits EXCEPT ![c] = i]
    BY <1>2, <2>0 DEF ProcsInv, Inits
  <2>3. i \in Inits /\ i.at = "install" /\ i.proc = n
    <3> HIDE DEF n
    <3> QED
      BY <2>0 DEF Inits
  <2> HIDE DEF p, i
  <2>15. procs \in Seq(Procs)
    BY DEF ProcsInv
  <2>4. /\ procs' \in Seq(Procs) /\ Len(procs') = n /\ procs'[n] = p
        /\ \A k \in 1..Len(procs) : procs'[k] = procs[k]
    BY <2>1, <2>14, <2>15, Spawned
  <2>5. /\ inits' \in [Calls -> Inits] /\ inits'[c] = i
        /\ \A d \in Calls : d # c => inits'[d] = inits[d]
    BY <2>2, <2>3 DEF ProcsInv
  <2>6. Has(i)
    BY <2>3 DEF Has
  <2>7. installed' \in 0..Len(procs') /\ closer'.proc \in 0..Len(procs')
    BY <1>0, <2>0, <2>4 DEF ProcsInv
  <2>8. \A d \in Calls : IF Has(inits'[d]) THEN inits'[d].proc \in 1..Len(procs') ELSE inits'[d].proc = 0
    BY <2>0, <2>3, <2>4, <2>5, <2>6 DEF ProcsInv
  <2>9. InstalledRuns'
    BY <1>0, <2>0, <2>4 DEF ProcsInv, InstalledRuns
  <2>10. ASSUME NEW k \in DOMAIN procs', procs'[k].up
         PROVE  k \in {installed', closer'.proc} \cup {inits'[d].proc : d \in Calls}
    <3>1. CASE k = n
      BY <2>3, <2>5, <3>1
    <3>2. CASE k \in 1..Len(procs)
      <4>1. k \in DOMAIN procs /\ procs[k].up /\ k # 0
        BY <2>4, <2>10, <3>2, LenProperties DEF ProcsInv
      <4>2. k \in {installed, closer.proc} \cup {inits[d].proc : d \in Calls}
        BY <4>1 DEF ProcsInv, NoOrphanEngine
      <4>3. inits[c].proc = 0
        BY <1>0 DEF ProcsInv
      <4> QED
        BY <1>0, <2>5, <4>1, <4>2, <4>3
    <3> QED
      BY <2>0, <2>4, <2>10, <3>1, <3>2, LenProperties
  <2>11. NoOrphanEngine'
    BY <2>10 DEF NoOrphanEngine
  <2>12. \A d \in Calls : Has(inits'[d]) =>
            procs'[inits'[d].proc].up /\ inits'[d].proc \notin {installed', closer'.proc}
    <3> SUFFICES ASSUME NEW d \in Calls, Has(inits'[d])
                 PROVE  procs'[inits'[d].proc].up /\ inits'[d].proc \notin {installed', closer'.proc}
      OBVIOUS
    <3>1. CASE d = c
      BY <1>0, <2>0, <2>1, <2>3, <2>4, <2>5, <3>1 DEF ProcsInv
    <3>2. CASE d # c
      <4>1. Has(inits[d]) /\ inits'[d].proc = inits[d].proc /\ inits[d].proc \in 1..Len(procs)
        BY <2>5, <3>2 DEF ProcsInv
      <4> QED
        BY <1>0, <2>4, <4>1 DEF ProcsInv
    <3> QED
      BY <3>1, <3>2
  <2>13. \A d, e \in Calls : Has(inits'[d]) /\ inits'[d].proc = inits'[e].proc => d = e
    <3>1. \A d \in Calls : d # c => inits'[d].proc # n
      BY <2>0, <2>5 DEF ProcsInv
    <3> QED
      BY <2>3, <2>5, <3>1 DEF ProcsInv
  <2> QED
    BY <1>0, <2>4, <2>5, <2>7, <2>8, <2>9, <2>11, <2>12, <2>13 DEF ProcsInv
<1> QED
  BY <1>1, <1>2 DEF InitSpawn

(* Ending a process that is up leaves the others alone.                      *)
LEMMA KilledFacts ==
    ASSUME procs \in Seq(Procs), NEW p \in 1..Len(procs), Killed(p)
    PROVE  /\ procs' \in Seq(Procs) /\ Len(procs') = Len(procs) /\ ~procs'[p].up
           /\ \A k \in 1..Len(procs) : k # p => procs'[k] = procs[k]
<1> DEFINE q == [procs[p] EXCEPT !.up = FALSE]
<1>0. procs \in [1..Len(procs) -> Procs] /\ Len(procs) \in Nat
  BY LenProperties
<1>1. q \in Procs /\ ~q.up
  BY <1>0 DEF Procs
<1>2. procs' = [procs EXCEPT ![p] = q]
  BY <1>0 DEF Killed, Procs
<1> HIDE DEF q
<1> QED
  BY <1>1, <1>2, ExceptSeq

(* A process nobody holds any more is ended.                                 *)
LEMMA EndKeeps ==
    ASSUME ProcsInv, NEW p \in 1..Len(procs), Killed(p),
           inits' \in [Calls -> Inits],
           \A d \in Calls : \/ inits'[d] = inits[d] /\ inits[d].proc # p
                            \/ ~Has(inits'[d]) /\ inits'[d].proc = 0 /\ inits[d].proc \in {0, p},
           UNCHANGED installed, installed # p, closer'.proc \in {0, closer.proc} \ {p},
           closer.proc \in {p, closer'.proc}, closer'.at # "shut" => closer'.proc = 0
    PROVE  ProcsInv'
<1>1. /\ procs' \in Seq(Procs) /\ Len(procs') = Len(procs) /\ ~procs'[p].up
      /\ \A k \in 1..Len(procs) : k # p => procs'[k] = procs[k]
  BY KilledFacts DEF ProcsInv
<1>2. Len(procs) \in Nat
  BY LenProperties DEF ProcsInv
<1>3. NoOrphanEngine'
  <2> SUFFICES ASSUME NEW k \in DOMAIN procs', procs'[k].up
               PROVE  k \in {installed', closer'.proc} \cup {inits'[d].proc : d \in Calls}
    BY DEF NoOrphanEngine
  <2>1. k \in 1..Len(procs) /\ k # p /\ k # 0
    BY <1>1, <1>2, LenProperties
  <2>2. k \in DOMAIN procs /\ procs[k].up
    BY <1>1, <2>1, LenProperties DEF ProcsInv
  <2>3. k \in {installed, closer.proc} \cup {inits[d].proc : d \in Calls}
    BY <2>2 DEF ProcsInv, NoOrphanEngine
  <2>4. CASE k \in {installed, closer.proc}
    BY <2>1, <2>4
  <2>5. CASE \E d \in Calls : k = inits[d].proc
    BY <2>1, <2>5
  <2> QED
    BY <2>3, <2>4, <2>5
<1>4. InstalledRuns'
  BY <1>1 DEF ProcsInv, InstalledRuns
<1>5. /\ installed' \in 0..Len(procs') /\ closer'.proc \in 0..Len(procs')
      /\ closer'.proc # 0 => closer'.proc # installed'
  BY <1>1, <1>2 DEF ProcsInv
<1>6. \A d \in Calls : IF Has(inits'[d]) THEN inits'[d].proc \in 1..Len(procs') ELSE inits'[d].proc = 0
  BY <1>1 DEF ProcsInv
<1>7. \A d \in Calls : Has(inits'[d]) =>
            procs'[inits'[d].proc].up /\ inits'[d].proc \notin {installed', closer'.proc}
  BY <1>1, <1>2 DEF ProcsInv
<1>8. \A d, e \in Calls : Has(inits'[d]) /\ inits'[d].proc = inits'[e].proc => d = e
  <2> SUFFICES ASSUME NEW d \in Calls, NEW e \in Calls, Has(inits'[d]), inits'[d].proc = inits'[e].proc
               PROVE  d = e
    OBVIOUS
  <2>1. inits'[d] = inits[d] /\ inits[d].proc # 0
    BY <1>6, <1>1, <1>2
  <2>2. inits'[e] = inits[e]
    BY <2>1
  <2> QED
    BY <2>1, <2>2 DEF ProcsInv
<1> QED
  BY <1>1, <1>3, <1>4, <1>5, <1>6, <1>7, <1>8 DEF ProcsInv

LEMMA InitInstallKeeps ==
    ASSUME ProcsInv, NEW c \in Calls, InitInstall(c)
    PROVE  ProcsInv'
<1>0. Has(inits[c]) /\ UNCHANGED <<procs, closer>>
  BY DEF InitInstall, Has
<1>1. CASE installed # 0
  <2>1. InitStep(c, "undo") /\ UNCHANGED installed /\ "undo" \in InitPlaces
    BY <1>1 DEF InitInstall, InitPlaces
  <2>2. PICK i \in Inits : inits' = [inits EXCEPT ![c] = i] /\ i.at = "undo" /\ i.proc = inits[c].proc
    BY <2>1, InitStepFacts
  <2>3. Has(i)
    BY <2>2 DEF Has
  <2> QED
    BY <1>0, <2>1, <2>2, <2>3, InitMoves
<1>2. CASE installed = 0
  <2>1. installed' = inits[c].proc /\ inits' = [inits EXCEPT ![c] = NoInit]
    BY <1>2 DEF InitInstall, InitEnds
  <2>2. /\ inits' \in [Calls -> Inits] /\ inits'[c] = NoInit
        /\ \A d \in Calls : d # c => inits'[d] = inits[d]
    BY <2>1, NoInitType DEF ProcsInv
  <2>3. inits[c].proc \in 1..Len(procs) /\ procs[inits[c].proc].up /\ inits[c].proc # closer.proc
    BY <1>0 DEF ProcsInv
  <2>4. NoOrphanEngine'
    <3> SUFFICES ASSUME NEW k \in DOMAIN procs, procs[k].up
                 PROVE  k \in {installed', closer.proc} \cup {inits'[d].proc : d \in Calls}
      BY <1>0 DEF NoOrphanEngine
    <3>1. k \in {installed, closer.proc} \cup {inits[d].proc : d \in Calls} /\ k # 0
      BY LenProperties DEF ProcsInv, NoOrphanEngine
    <3> QED
      BY <1>2, <2>1, <2>2, <3>1
  <2>5. InstalledRuns'
    BY <1>0, <2>1, <2>3 DEF InstalledRuns
  <2>6. \A d \in Calls : IF Has(inits'[d]) THEN inits'[d].proc \in 1..Len(procs) ELSE inits'[d].proc = 0
    BY <2>2, NoInitType DEF ProcsInv
  <2>7. \A d \in Calls : Has(inits'[d]) =>
            procs[inits'[d].proc].up /\ inits'[d].proc \notin {installed', closer.proc}
    BY <1>0, <2>1, <2>2, NoInitType DEF ProcsInv
  <2>8. \A d, e \in Calls : Has(inits'[d]) /\ inits'[d].proc = inits'[e].proc => d = e
    BY <2>2, <2>6, NoInitType DEF ProcsInv
  <2> QED
    BY <1>0, <2>1, <2>2, <2>3, <2>4, <2>5, <2>6, <2>7, <2>8 DEF ProcsInv
<1> QED
  BY <1>1, <1>2

LEMMA InitUndoKeeps ==
    ASSUME ProcsInv, NEW c \in Calls, InitUndo(c)
    PROVE  ProcsInv'
<1>1. /\ Has(inits[c]) /\ Killed(inits[c].proc) /\ inits' = [inits EXCEPT ![c] = NoInit]
      /\ UNCHANGED <<installed, closer>>
  BY DEF InitUndo, InitEnds, Has
<1>2. /\ inits[c].proc \in 1..Len(procs) /\ inits[c].proc # installed /\ inits[c].proc # closer.proc
      /\ \A d \in Calls : d # c => inits[d].proc # inits[c].proc
  BY <1>1 DEF ProcsInv
<1>3. /\ inits' \in [Calls -> Inits] /\ inits'[c] = NoInit
      /\ \A d \in Calls : d # c => inits'[d] = inits[d]
  BY <1>1, NoInitType DEF ProcsInv
<1>4. \A d \in Calls : \/ inits'[d] = inits[d] /\ inits[d].proc # inits[c].proc
                       \/ ~Has(inits'[d]) /\ inits'[d].proc = 0 /\ inits[d].proc \in {0, inits[c].proc}
  BY <1>2, <1>3, NoInitType
<1>5. closer'.at # "shut" => closer'.proc = 0
  BY <1>1 DEF ProcsInv
<1> QED
  BY <1>1, <1>2, <1>3, <1>4, <1>5, EndKeeps

LEMMA CloserKeeps ==
    ASSUME ProcsInv, CloseCheck \/ CloseTake \/ CloseShut
    PROVE  ProcsInv'
<1>1. CASE CloseCheck
  <2>1. closer.proc = 0 /\ closer'.proc = 0 /\ UNCHANGED <<inits, installed, procs>>
    BY <1>1 DEF CloseCheck, Off, ProcsInv
  <2> QED
    BY <2>1 DEF ProcsInv, NoOrphanEngine, InstalledRuns
<1>2. CASE CloseTake
  <2>1. /\ closer.proc = 0 /\ closer'.proc = installed /\ installed' = 0
        /\ closer'.at # "shut" => closer'.proc = 0
        /\ UNCHANGED <<inits, procs>>
    BY <1>2 DEF CloseTake, Off, ProcsInv
  <2>2. NoOrphanEngine'
    <3> SUFFICES ASSUME NEW k \in DOMAIN procs, procs[k].up
                 PROVE  k \in {installed', closer'.proc} \cup {inits[d].proc : d \in Calls}
      BY <2>1 DEF NoOrphanEngine
    <3>1. k \in {installed, closer.proc} \cup {inits[d].proc : d \in Calls} /\ k # 0
      BY LenProperties DEF ProcsInv, NoOrphanEngine
    <3> QED
      BY <2>1, <3>1
  <2>3. \A d \in Calls : Has(inits[d]) => inits[d].proc # 0
    BY DEF ProcsInv
  <2> QED
    BY <2>1, <2>2, <2>3 DEF ProcsInv, InstalledRuns
<1>3. CASE CloseShut
  <2>1. /\ closer.at = "shut" /\ Killed(closer.proc) /\ closer' = Off /\ closer'.proc = 0
        /\ closer'.at # "shut" /\ UNCHANGED <<inits, installed>>
    BY <1>3 DEF CloseShut, Off
  <2>2. CASE closer.proc = 0
    <3>1. UNCHANGED procs
      <4>1. procs' = [procs EXCEPT ![0].up = FALSE] /\ 0 \notin DOMAIN procs
        BY <2>1, <2>2, LenProperties DEF Killed, ProcsInv
      <4> QED
        BY <4>1, LenProperties DEF ProcsInv
    <3> QED
      BY <2>1, <2>2, <3>1 DEF ProcsInv, NoOrphanEngine, InstalledRuns
  <2>3. CASE closer.proc # 0
    <3>1. closer.proc \in 1..Len(procs) /\ closer.proc # installed
      BY <2>3, LenProperties DEF ProcsInv
    <3>2. \A d \in Calls : inits[d].proc # closer.proc
      BY <2>3 DEF ProcsInv
    <3> QED
      BY <2>1, <3>1, <3>2, EndKeeps DEF ProcsInv
  <2> QED
    BY <2>2, <2>3
<1> QED
  BY <1>1, <1>2, <1>3

LEMMA KillallKeeps ==
    ASSUME EnginesInv, Killall
    PROVE  EnginesInv'
<1>1. FilesInv'
  BY NoFetchType DEF EnginesInv, FilesInv, Killall, PinnedOnly
<1>2. NoProc \in Procs /\ ~NoProc.up
  BY DEF NoProc, Procs
<1>3. Len(procs) \in Nat /\ DOMAIN procs = 1..Len(procs)
  BY LenProperties DEF EnginesInv, ProcsInv
<1>4. procs' = [p \in 1..Len(procs) |-> NoProc]
  BY <1>3 DEF Killall
<1>5. procs' \in Seq(Procs) /\ Len(procs') = Len(procs) /\ \A p \in DOMAIN procs' : ~procs'[p].up
  BY <1>2, <1>3, <1>4
<1>6. /\ inits' = [c \in Calls |-> NoInit] /\ installed' = 0 /\ closer'.proc = 0 /\ closer'.at # "shut"
  BY DEF Killall, Off
<1>7. inits' \in [Calls -> Inits] /\ \A c \in Calls : ~Has(inits'[c]) /\ inits'[c].proc = 0
  BY <1>6, NoInitType
<1>8. NoOrphanEngine' /\ InstalledRuns'
  BY <1>5, <1>6 DEF NoOrphanEngine, InstalledRuns
<1>9. ProcsInv'
  BY <1>3, <1>5, <1>6, <1>7, <1>8 DEF ProcsInv
<1> QED
  BY <1>1, <1>9 DEF EnginesInv

LEMMA ModelsStep ==
    ASSUME EnginesInv, [ModelsNext]_modelVars
    PROVE  EnginesInv'
<1>0. FilesInv /\ ProcsInv
  BY DEF EnginesInv
<1>1. UNCHANGED <<inits, installed, procs, closer>> => ProcsInv'
  BY <1>0 DEF ProcsInv, NoOrphanEngine, InstalledRuns
<1>2. UNCHANGED <<onDisk, tainted, fetches>> => FilesInv'
  BY <1>0 DEF FilesInv, PinnedOnly
<1>3. ASSUME NEW b \in Bundles,
             DownloadModel(b) \/ NextFile(b) \/ FinishFile(b) \/ DeleteModel(b) \/ DeleteFile(b)
      PROVE  EnginesInv'
  <2>1. ProcsInv'
    BY <1>1, <1>3 DEF DownloadModel, NextFile, FinishFile, DeleteModel, DeleteFile
  <2>2. CASE DownloadModel(b)
    BY <1>0, <2>1, <2>2, DownloadKeeps DEF DownloadModel, EnginesInv
  <2>3. CASE NextFile(b) \/ FinishFile(b) \/ DeleteFile(b)
    BY <1>0, <2>1, <2>3, NextFileKeeps, FinishFileKeeps, DeleteFileKeeps DEF EnginesInv
  <2>4. CASE DeleteModel(b)
    BY <1>2, <2>1, <2>4 DEF DeleteModel, EnginesInv
  <2> QED
    BY <1>3, <2>2, <2>3, <2>4
<1>4. ASSUME NEW c \in Calls, NEW m \in Bundles \ {Diarizer}, NEW d \in BOOLEAN, InitBegin(c, m, d)
      PROVE  EnginesInv'
  BY <1>0, <1>2, <1>4, InitBeginKeeps DEF InitBegin, fileVars, EnginesInv
<1>5. ASSUME NEW c \in Calls, InitDiarizer(c)
      PROVE  EnginesInv'
  <2>1. ~Has(inits[c]) /\ UNCHANGED <<onDisk, tainted, installed, procs, closer>>
    BY <1>5 DEF InitDiarizer, Has
  <2>2. ProcsInv'
    BY <1>0, <1>5, <2>1, EarlySteps DEF InitDiarizer
  <2>3. FilesInv'
    BY <1>0, <1>2, <1>5, <2>1, DownloadKeeps, ModelsAssumption DEF InitDiarizer
  <2> QED
    BY <2>2, <2>3 DEF EnginesInv
<1>6. ASSUME NEW c \in Calls, InitFetched(c)
      PROVE  EnginesInv'
  <2>1. ~Has(inits[c]) /\ UNCHANGED <<onDisk, tainted, fetches, installed, procs, closer>>
    BY <1>6 DEF InitFetched, Has, fileVars
  <2> QED
    BY <1>0, <1>2, <1>6, <2>1, EarlySteps DEF InitFetched, EnginesInv
<1>7. ASSUME NEW c \in Calls, InitSpawn(c) \/ InitInstall(c) \/ InitUndo(c)
      PROVE  EnginesInv'
  <2>1. FilesInv'
    BY <1>2, <1>7 DEF InitSpawn, InitInstall, InitUndo, fileVars
  <2> QED
    BY <1>0, <1>7, <2>1, InitSpawnKeeps, InitInstallKeeps, InitUndoKeeps DEF EnginesInv
<1>8. CASE CloseCheck \/ CloseTake \/ CloseShut
  <2>1. FilesInv'
    BY <1>2, <1>8 DEF CloseCheck, CloseTake, CloseShut, fileVars
  <2> QED
    BY <1>0, <1>8, <2>1, CloserKeeps DEF EnginesInv
<1>9. CASE LiveReserve \/ LiveAttach \/ LiveEnds \/ UNCHANGED modelVars
  BY <1>1, <1>2, <1>9 DEF LiveReserve, LiveAttach, LiveEnds, modelVars, fileVars, EnginesInv
<1>10. CASE Killall
  BY <1>10, KillallKeeps
<1> QED
  BY <1>3, <1>4, <1>5, <1>6, <1>7, <1>8, <1>9, <1>10 DEF ModelsNext

(* However many inits, shutdowns, downloads and deletes overlap, and         *)
(* wherever the application is killed: no sidecar process runs that nobody   *)
(* holds, the installed one is up, and a pinned bundle's files are the       *)
(* pinned ones (commands/transcription.rs, model.rs).                        *)
THEOREM EnginesSoundHolds == ModelsSpec => []EnginesSound
<1>1. ModelsInit => EnginesInv
  <2> SUFFICES ASSUME ModelsInit PROVE EnginesInv
    OBVIOUS
  <2>1. FilesInv
    BY NoFetchType DEF ModelsInit, FilesInv, PinnedOnly
  <2>2. procs = <<>> /\ installed = 0 /\ closer.proc = 0 /\ closer.at # "shut"
    BY DEF ModelsInit, Off
  <2>3. inits \in [Calls -> Inits] /\ \A c \in Calls : ~Has(inits[c]) /\ inits[c].proc = 0
    BY NoInitType DEF ModelsInit
  <2>4. procs \in Seq(Procs) /\ Len(procs) = 0 /\ DOMAIN procs = {}
    BY <2>2
  <2>5. ProcsInv
    BY <2>2, <2>3, <2>4 DEF ProcsInv, NoOrphanEngine, InstalledRuns
  <2> QED
    BY <2>1, <2>5 DEF EnginesInv
<1>2. EnginesInv /\ [ModelsNext]_modelVars => EnginesInv'
  BY ModelsStep
<1>3. EnginesInv => EnginesSound
  <2> SUFFICES ASSUME EnginesInv PROVE EnginesSound
    OBVIOUS
  <2>1. \A c \in Calls : inits[c].proc \in 0..Len(procs)
    BY LenProperties DEF EnginesInv, ProcsInv
  <2> QED
    BY <2>1 DEF EnginesInv, FilesInv, ProcsInv, EnginesSound, ModelsTypeOK
<1> QED
  BY <1>1, <1>2, <1>3, PTL DEF ModelsSpec
------------------------------------------------------------------------------
(* Capture streams and the device broker.                                    *)
(*                                                                           *)
(* A microphone that follows the default, running or stopped, is bound to    *)
(* it, or somebody still has the change to act on, or it is known to be      *)
(* lost.                                                                     *)
Microphones == Inputs \cup {NoDevice}
StreamStates == [on : BOOLEAN, dev : Inputs \cup Outputs \cup {NoDevice}, buffer : BOOLEAN,
                 err : BOOLEAN, flows : BOOLEAN, follows : BOOLEAN]
LiveStates == [phase : {"off", "mic", "system", "on", "ended"}, kind : {"mic", "system", "mixed"},
               sources : SUBSET Labels, tries : [Labels -> Nat], cool : SUBSET Labels,
               told : SUBSET Labels]
Routings == [at : {"idle", "route", "restart"}, label : Labels, active : BOOLEAN]

DevicesOK ==
  /\ plugged \subseteq Inputs \cup Outputs
  /\ default \in [Labels -> Inputs \cup Outputs \cup {NoDevice}] /\ default["mic"] \in Microphones
StreamsOK == stream \in [Labels -> StreamStates] /\ stream["mic"].dev \in Microphones
SessionOK ==
  /\ capture \in {"idle", "capturing", "error"} /\ live \in LiveStates /\ routing \in Routings
  /\ queued \in SUBSET Labels /\ changed \in SUBSET Labels /\ lost \in SUBSET Labels

Owed == \/ "mic" \in changed \/ "mic" \in queued \/ "mic" \in lost
        \/ routing.at # "idle" /\ routing.label = "mic"
Tracked == stream["mic"].follows => Owed \/ OnDefault(stream["mic"].dev)
CaptureInv == DevicesOK /\ StreamsOK /\ SessionOK /\ Tracked

LEMMA FirstOpenIn ==
  ASSUME NEW S, NEW c \in Seq(S), Len(c) <= 3, NEW broken
  PROVE  FirstOpen(c, broken) \in S \cup {NoDevice}
<1> DEFINE ok == {i \in DOMAIN c : c[i] # NoDevice /\ c[i] \notin broken}
<1>1. CASE ok = {}
  BY <1>1 DEF FirstOpen
<1>2. CASE ok # {}
  <2>1. ok \subseteq {1, 2, 3} /\ ok \subseteq DOMAIN c
    OBVIOUS
  <2>2. \E i \in ok : \A j \in ok : i <= j
    <3>1. CASE 1 \in ok
      BY <2>1, <3>1
    <3>2. CASE 1 \notin ok /\ 2 \in ok
      BY <2>1, <3>2
    <3>3. CASE 1 \notin ok /\ 2 \notin ok
      BY <2>1, <3>3, <1>2
    <3> QED
      BY <3>1, <3>2, <3>3
  <2>3. (CHOOSE i \in ok : \A j \in ok : i <= j) \in ok
    BY <2>2
  <2>4. PICK n \in ok : n = CHOOSE i \in ok : \A j \in ok : i <= j
    BY <2>3
  <2>5. FirstOpen(c, broken) = c[n]
    BY <1>2, <2>4 DEF FirstOpen
  <2> QED
    BY <2>1, <2>5
<1> QED
  BY <1>1, <1>2

LEMMA CandidatesOf ==
  ASSUME DevicesOK, NEW d \in Microphones, NEW target
  PROVE  /\ Candidates(target, d) \in Seq(Microphones) /\ Len(Candidates(target, d)) <= 3
         /\ d \in Namesakes(default["mic"]) => Candidates(target, d) \in Seq(Namesakes(default["mic"]))
<1> DEFINE T == Namesakes(default["mic"])
<1>1. ById(d) \in Microphones /\ (d \in T => ById(d) \in T) /\ default["mic"] \in T
  BY DEF ById, DevicesOK, Namesakes
<1>2. ASSUME d \in Inputs
      PROVE  /\ ByName(Name[d]) \in Microphones
             /\ d \in T => ByName(Name[d]) \in T
  <2> DEFINE S == {e \in Inputs \cap plugged : Name[e] = Name[d]}
  <2>1. CASE S = {}
    BY <1>1, <2>1 DEF ByName, DevicesOK
  <2>2. CASE S # {}
    <3>1. (CHOOSE e \in S : TRUE) \in S
      BY <2>2
    <3>2. ByName(Name[d]) = CHOOSE e \in S : TRUE
      BY <2>2 DEF ByName
    <3> QED
      BY <3>1, <3>2, <1>2 DEF Microphones, Namesakes
  <2> QED
    BY <2>1, <2>2
<1>3. CASE d = NoDevice
  <2>1. Candidates(target, d) = <<default["mic"]>>
    BY <1>3 DEF Candidates
  <2> QED
    BY <1>1, <1>3, <2>1 DEF DevicesOK
<1>4. CASE d # NoDevice
  <2> DEFINE a == ById(d)  b == ByName(Name[d])  m == default["mic"]
  <2>1. d \in Inputs
    BY <1>4 DEF Microphones
  <2>2. Candidates(target, d) = <<a, b>> \o <<m>> \/ Candidates(target, d) = <<m>> \o <<a, b>>
    BY Zenon, <1>4 DEF Candidates
  <2>3. a \in Microphones /\ b \in Microphones /\ m \in Microphones
    BY <1>1, <1>2, <2>1 DEF DevicesOK
  <2>4. d \in T => a \in T /\ b \in T /\ m \in T
    BY <1>1, <1>2, <2>1
  <2> HIDE DEF a, b, m
  <2>5. ASSUME NEW S, a \in S, b \in S, m \in S
        PROVE  /\ <<a, b>> \o <<m>> \in Seq(S) /\ <<m>> \o <<a, b>> \in Seq(S)
               /\ Len(<<a, b>> \o <<m>>) = 3 /\ Len(<<m>> \o <<a, b>>) = 3
    <3>1. <<a, b>> \in Seq(S) /\ <<m>> \in Seq(S) /\ Len(<<a, b>>) = 2 /\ Len(<<m>>) = 1
      BY <2>5
    <3> QED
      BY <3>1, ConcatProperties
  <2>6. Candidates(target, d) \in Seq(Microphones) /\ Len(Candidates(target, d)) = 3
    BY Zenon, <2>2, <2>3, <2>5
  <2>7. Len(Candidates(target, d)) <= 3
    BY <2>6
  <2>8. ASSUME d \in T
        PROVE  Candidates(target, d) \in Seq(T)
    BY Zenon, <2>2, <2>4, <2>5, <2>8
  <2> QED
    BY Zenon, <2>6, <2>7, <2>8 DEF m
<1> QED
  BY <1>3, <1>4

LEMMA StreamFields ==
  ASSUME NEW s \in StreamStates
  PROVE  /\ s.on \in BOOLEAN /\ s.buffer \in BOOLEAN /\ s.err \in BOOLEAN /\ s.flows \in BOOLEAN
         /\ s.follows \in BOOLEAN /\ s.dev \in Inputs \cup Outputs \cup {NoDevice}
BY Zenon DEF StreamStates

(* A restart that is to preserve the binding keeps the flag, and a stream    *)
(* that is on the default stays there; one that is to follow the default     *)
(* has the flag only on it.                                                  *)
LEMMA RestartedStream ==
  ASSUME DevicesOK, StreamsOK, CaptureStreamsAssumption, NEW l \in Labels, NEW broken,
         NEW target \in {"preserve", "follow"}
  PROVE  LET s == stream[l]
             t == Restarted(l, target, broken)
         IN /\ t \in StreamStates /\ t.on \in BOOLEAN /\ t.follows \in BOOLEAN
            /\ l = "mic" => t.dev \in Microphones
            /\ l = "mic" /\ target = "preserve" =>
                 /\ t.follows = s.follows
                 /\ s.dev \in Namesakes(default["mic"]) => t.dev \in Namesakes(default["mic"])
            /\ l = "mic" /\ target = "follow" /\ t.on /\ t.follows => t.dev = default["mic"]
<1> DEFINE s == stream[l]
           cands == IF l = "mic" THEN Candidates(target, s.dev) ELSE <<default["system"]>>
           d == FirstOpen(cands, broken)
           e == s.err /\ \A i \in DOMAIN cands : cands[i] = NoDevice
           f == IF l = "mic" THEN DeriveBoundIsDefault(target, s.follows, d) ELSE s.follows
           t == Restarted(l, target, broken)
           T == Namesakes(default["mic"])
<1>1. s \in StreamStates
  BY DEF StreamsOK
<1>2. s.follows \in BOOLEAN /\ s.err \in BOOLEAN
  BY <1>1, StreamFields
<1>3. /\ d \in Inputs \cup Outputs \cup {NoDevice}
      /\ l = "mic" => d \in Microphones
      /\ l = "mic" /\ s.dev \in T => d \in T \cup {NoDevice}
  <2>1. CASE l = "mic"
    <3>1. s.dev \in Microphones
      BY <2>1 DEF StreamsOK
    <3>2. /\ cands \in Seq(Microphones) /\ Len(cands) <= 3
          /\ s.dev \in T => cands \in Seq(T)
      <4>1. cands = Candidates(target, s.dev)
        BY Zenon, <2>1
      <4> HIDE DEF cands, s
      <4> QED
        BY Zenon, <3>1, <4>1, CandidatesOf
    <3> HIDE DEF cands
    <3>3. d \in Microphones \cup {NoDevice}
      BY Zenon, <3>2, FirstOpenIn
    <3>4. ASSUME s.dev \in T
          PROVE  d \in T \cup {NoDevice}
      BY Zenon, <3>2, <3>4, FirstOpenIn
    <3> QED
      BY Zenon, <3>3, <3>4 DEF Microphones
  <2>2. CASE l # "mic"
    <3>1. cands = <<default["system"]>>
      BY Zenon, <2>2
    <3>2. default["system"] \in Inputs \cup Outputs \cup {NoDevice}
      BY DEF DevicesOK, Labels
    <3> HIDE DEF cands
    <3>3. cands \in Seq(Inputs \cup Outputs \cup {NoDevice}) /\ Len(cands) <= 3
      BY <3>1, <3>2
    <3>4. d \in Inputs \cup Outputs \cup {NoDevice} \cup {NoDevice}
      BY Zenon, <3>3, FirstOpenIn
    <3>5. Inputs \cup Outputs \cup {NoDevice} \cup {NoDevice} = Inputs \cup Outputs \cup {NoDevice}
      OBVIOUS
    <3> QED
      BY Zenon, <3>4, <3>5, <2>2
  <2> QED
    BY <2>1, <2>2
<1>4. t = IF d = NoDevice
          THEN [s EXCEPT !.on = FALSE, !.flows = FALSE, !.err = e]
          ELSE [s EXCEPT !.on = TRUE, !.dev = d, !.err = FALSE, !.flows = TRUE, !.follows = f]
  BY Zenon DEF Restarted
<1>5. e \in BOOLEAN /\ f \in BOOLEAN
  BY Zenon, <1>2 DEF DeriveBoundIsDefault
<1>6. CASE d = NoDevice
  <2> HIDE DEF e, d
  <2>1. t = [s EXCEPT !.on = FALSE, !.flows = FALSE, !.err = e]
    BY <1>4, <1>6
  <2>2. t \in StreamStates /\ t.on = FALSE /\ t.dev = s.dev /\ t.follows = s.follows
    <3>1. e \in BOOLEAN
      BY <1>5
    <3> HIDE DEF s, t
    <3> QED
      BY <2>1, <3>1, <1>1 DEF StreamStates
  <2>3. l = "mic" => s.dev \in Microphones
    BY DEF StreamsOK
  <2> QED
    BY Zenon, <2>2, <2>3, <1>2
<1>7. CASE d # NoDevice
  <2>1. d \in Inputs \cup Outputs
    BY <1>3, <1>7
  <2>2. l = "mic" /\ target = "preserve" => f = s.follows
    BY Zenon DEF DeriveBoundIsDefault
  <2>3. l = "mic" /\ target = "follow" /\ f => d = default["mic"]
    BY Zenon DEF DeriveBoundIsDefault
  <2> HIDE DEF f, d
  <2>4. t = [s EXCEPT !.on = TRUE, !.dev = d, !.err = FALSE, !.flows = TRUE, !.follows = f]
    BY <1>4, <1>7
  <2>5. t \in StreamStates /\ t.on = TRUE /\ t.dev = d /\ t.follows = f
    <3>1. f \in BOOLEAN
      BY <1>5
    <3> HIDE DEF s, t
    <3> QED
      BY <2>1, <2>4, <3>1, <1>1 DEF StreamStates
  <2> QED
    BY Zenon, <2>2, <2>3, <2>5, <1>3, <1>5, <1>7
<1> QED
  BY <1>6, <1>7

LEMMA StartedStream ==
  ASSUME DevicesOK, StreamsOK, CaptureStreamsAssumption, NEW l \in Labels, NEW broken,
         NEW want \in Microphones
  PROVE  LET t == Started(l, want, broken)
         IN /\ t \in StreamStates
            /\ l = "mic" => t.dev \in Microphones
            /\ l = "mic" => t = stream[l] \/ (t.follows => t.dev = default["mic"])
<1> DEFINE d == IF l = "system" THEN default["system"]
                ELSE IF want = NoDevice THEN default["mic"] ELSE ById(want)
           f == l = "mic" /\ want = NoDevice
           t == Started(l, want, broken)
<1>1. stream[l] \in StreamStates /\ (l = "mic" => stream[l].dev \in Microphones)
  BY DEF StreamsOK
<1>2. d \in Inputs \cup Outputs \cup {NoDevice} /\ (l = "mic" => d \in Microphones)
  BY DEF DevicesOK, Labels, Microphones, ById
<1>3. l = "mic" /\ want = NoDevice => d = default["mic"]
  OBVIOUS
<1>4. f \in BOOLEAN
  BY Zenon
<1>5. \/ t = stream[l]
      \/ t = [on |-> TRUE, dev |-> d, buffer |-> TRUE, err |-> FALSE, flows |-> TRUE, follows |-> f]
  BY Zenon DEF Started
<1>6. f => l = "mic" /\ want = NoDevice
  BY Zenon
<1> HIDE DEF d, f, t
<1>7. CASE t = stream[l]
  BY Zenon, <1>1, <1>7 DEF t
<1>8. CASE t = [on |-> TRUE, dev |-> d, buffer |-> TRUE, err |-> FALSE, flows |-> TRUE, follows |-> f]
  <2>1. t \in StreamStates
    BY <1>2, <1>4, <1>8 DEF StreamStates
  <2>2. t.dev = d /\ t.follows = f
    BY <1>8
  <2> QED
    BY Zenon, <1>2, <1>3, <1>6, <2>1, <2>2 DEF t
<1> QED
  BY <1>5, <1>7, <1>8

LEMMA StreamSet ==
  ASSUME StreamsOK, NEW l \in Labels, NEW t \in StreamStates, l = "mic" => t.dev \in Microphones,
         stream' = [stream EXCEPT ![l] = t]
  PROVE  /\ StreamsOK' /\ stream'[l] = t
         /\ l # "mic" => stream'["mic"] = stream["mic"]
BY DEF StreamsOK, Labels

LEMMA LiveTypes ==
  ASSUME NEW v \in LiveStates
  PROVE  /\ v.phase \in {"off", "mic", "system", "on", "ended"} /\ v.kind \in {"mic", "system", "mixed"}
         /\ v.sources \in SUBSET Labels /\ v.cool \in SUBSET Labels /\ v.told \in SUBSET Labels
         /\ v.tries \in [Labels -> Nat]
BY DEF LiveStates

LEMMA NoLiveType == NoLive \in LiveStates
BY DEF NoLive, LiveStates

LEMMA AttemptType ==
  ASSUME live \in LiveStates, NEW l \in Labels, NEW s, NEW c, CaptureStreamsAssumption
  PROVE  Attempt(l, s, c) \in LiveStates
<1>1. MaxTries \in Nat
  BY DEF CaptureStreamsAssumption
<1> DEFINE tries == IF live.tries[l] < MaxTries THEN live.tries[l] + 1 ELSE MaxTries
           n == IF s.on /\ s.dev # stream[l].dev THEN 0 ELSE tries
           cool == IF ~c THEN live.cool \ {l} ELSE live.cool \cup {l}
           told == IF ~s.on /\ tries >= MaxTries THEN live.told \cup {l} ELSE live.told
<1>2. live.tries \in [Labels -> Nat] /\ live.cool \in SUBSET Labels /\ live.told \in SUBSET Labels
  BY LiveTypes
<1>3. tries \in Nat
  BY <1>1, <1>2
<1>4. n \in Nat /\ cool \in SUBSET Labels /\ told \in SUBSET Labels
  <2> HIDE DEF tries
  <2> QED
    BY <1>2, <1>3
<1> DEFINE all == [live.tries EXCEPT ![l] = n]
<1>5. Attempt(l, s, c) = [live EXCEPT !.tries = all, !.cool = cool, !.told = told]
  BY Zenon DEF Attempt
<1> HIDE DEF n, cool, told
<1>6. all \in [Labels -> Nat]
  BY <1>2, <1>4
<1> HIDE DEF all
<1> QED
  BY <1>4, <1>5, <1>6 DEF LiveStates

LEMMA CaptureInitInv == CaptureStreamsAssumption /\ CaptureInit => CaptureInv
<1> SUFFICES ASSUME CaptureStreamsAssumption, CaptureInit PROVE CaptureInv
  OBVIOUS
<1>1. DevicesOK
  BY DEF CaptureInit, DevicesOK, Labels, Microphones, CaptureStreamsAssumption
<1>2. SessionOK
  <2>1. routing \in Routings
    BY DEF CaptureInit, NotRouting, Routings, Labels
  <2> QED
    BY <2>1, NoLiveType DEF CaptureInit, SessionOK
<1>3. CASE stream = [l \in Labels |-> Unbound]
  <2>1. Unbound \in StreamStates /\ Unbound.dev = NoDevice /\ Unbound.follows = FALSE
    BY DEF Unbound, StreamStates
  <2>2. StreamsOK /\ stream["mic"] = Unbound
    BY <1>3, <2>1 DEF StreamsOK, Labels, Microphones
  <2> QED
    BY Zenon, <1>1, <1>2, <2>1, <2>2 DEF CaptureInv, Tracked, OnDefault, Namesakes
<1>4. ASSUME NEW want \in Inputs \cup {NoDevice},
             stream = [l \in Labels |->
               [Unbound EXCEPT !.on = TRUE, !.buffer = TRUE, !.flows = TRUE,
                               !.dev = IF l = "mic" /\ want # NoDevice THEN want ELSE default[l],
                               !.follows = l = "mic" /\ want = NoDevice]]
      PROVE  CaptureInv
  <2> DEFINE d(l) == IF l = "mic" /\ want # NoDevice THEN want ELSE default[l]
             f(l) == l = "mic" /\ want = NoDevice
  <2>1. \A l \in Labels : /\ d(l) \in Inputs \cup Outputs \cup {NoDevice} /\ f(l) \in BOOLEAN
                          /\ l = "mic" => d(l) \in Microphones
    BY <1>1 DEF DevicesOK, Microphones
  <2>2. f("mic") => d("mic") = default["mic"]
    BY Zenon
  <2>3. \A l \in Labels : stream[l] = [Unbound EXCEPT !.on = TRUE, !.buffer = TRUE, !.flows = TRUE,
                                                      !.dev = d(l), !.follows = f(l)]
    BY Zenon, <1>4
  <2> HIDE DEF d, f
  <2>4. \A l \in Labels : /\ stream[l] \in StreamStates
                          /\ stream[l].dev = d(l) /\ stream[l].follows = f(l)
    <3>1. Unbound \in StreamStates
      BY DEF Unbound, StreamStates
    <3>2. ASSUME NEW l \in Labels, NEW t, t = stream[l]
          PROVE  t \in StreamStates /\ t.dev = d(l) /\ t.follows = f(l)
      <4>1. t = [Unbound EXCEPT !.on = TRUE, !.buffer = TRUE, !.flows = TRUE,
                                !.dev = d(l), !.follows = f(l)]
        BY Zenon, <2>3, <3>2
      <4>2. d(l) \in Inputs \cup Outputs \cup {NoDevice} /\ f(l) \in BOOLEAN
        BY Zenon, <2>1
      <4> HIDE DEF Unbound
      <4> QED
        BY <3>1, <4>1, <4>2 DEF StreamStates
    <3> QED
      BY Zenon, <3>2
  <2>5. stream = [l \in Labels |-> stream[l]]
    BY <1>4
  <2>6. StreamsOK
    BY <2>1, <2>4, <2>5 DEF StreamsOK, Labels
  <2>7. Tracked
    BY Zenon, <2>2, <2>4 DEF Tracked, Labels, OnDefault, Namesakes
  <2> QED
    BY <1>1, <1>2, <2>6, <2>7 DEF CaptureInv
<1> QED
  BY Zenon, <1>3, <1>4 DEF CaptureInit

(* What the microphone's stream, the default and the pending changes may do  *)
(* in a step that keeps Tracked.                                             *)
LEMMA TrackedStep ==
  ASSUME Tracked, Owed => Owed',
         \/ UNCHANGED <<stream["mic"].follows, stream["mic"].dev, default["mic"]>>
         \/ stream'["mic"].follows => stream'["mic"].dev = default'["mic"]
  PROVE  Tracked'
BY Zenon DEF Tracked, OnDefault, Namesakes

LEMMA StartCaptureKeeps ==
  ASSUME CaptureInv, CaptureStreamsAssumption, StartCapture
  PROVE  CaptureInv'
<1>1. UNCHANGED <<devices, live, queued, changed, routing, lost>>
  BY DEF StartCapture
<1>2. DevicesOK' /\ (Owed => Owed')
  BY <1>1 DEF CaptureInv, DevicesOK, devices, Owed
<1>3. PICK kind \in {"mic", "system", "mixed"}, want \in Inputs \cup {NoDevice}, broken \in Unopenable :
        LET first == IF kind = "system" THEN "system" ELSE "mic"
            one == Started(first, want, broken)
            two == Started("system", want, broken)
        IN \/ /\ stream[first].on
              /\ UNCHANGED <<stream, capture>>
           \/ /\ ~stream[first].on /\ ~one.on
              /\ capture' = "error" /\ UNCHANGED stream
           \/ /\ ~stream[first].on /\ one.on /\ capture' = "capturing"
              /\ stream' = [stream EXCEPT ![first] = one,
                                          !["system"] = IF kind = "mixed" /\ ~@.on THEN two
                                                        ELSE IF kind = "system" THEN one ELSE @]
  BY Zenon DEF StartCapture
<1> DEFINE first == IF kind = "system" THEN "system" ELSE "mic"
           one == Started(first, want, broken)
           two == Started("system", want, broken)
<1>4. SessionOK'
  <2>1. capture' \in {"idle", "capturing", "error"}
    BY Zenon, <1>3 DEF CaptureInv, SessionOK
  <2> QED
    BY Zenon, <1>1, <2>1 DEF CaptureInv, SessionOK
<1>5. CASE UNCHANGED stream
  <2>1. StreamsOK'
    BY Zenon, <1>5 DEF CaptureInv, StreamsOK
  <2>2. UNCHANGED <<stream["mic"].follows, stream["mic"].dev, default["mic"]>>
    BY Zenon, <1>1, <1>5 DEF devices
  <2>3. Tracked'
    BY Zenon, <1>2, <2>2, TrackedStep DEF CaptureInv
  <2> QED
    BY Zenon, <1>2, <1>4, <2>1, <2>3 DEF CaptureInv
<1>6. CASE stream' = [stream EXCEPT ![first] = one,
                                    !["system"] = IF kind = "mixed" /\ ~@.on THEN two
                                                  ELSE IF kind = "system" THEN one ELSE @]
  <2>1. /\ first \in Labels /\ want \in Microphones
        /\ "system" \in Labels /\ "mic" \in Labels
    BY DEF Labels, Microphones
  <2>2. /\ one \in StreamStates /\ two \in StreamStates
        /\ first = "mic" => /\ one.dev \in Microphones
                            /\ one = stream["mic"] \/ (one.follows => one.dev = default["mic"])
    BY Zenon, <2>1, StartedStream DEF CaptureInv
  <2> DEFINE sys == IF kind = "mixed" /\ ~[stream EXCEPT ![first] = one]["system"].on THEN two
                    ELSE IF kind = "system" THEN one
                    ELSE [stream EXCEPT ![first] = one]["system"]
  <2>3. stream' = [stream EXCEPT ![first] = one, !["system"] = sys]
    BY <1>6
  <2> HIDE DEF one, two
  <2>4. sys \in StreamStates
    BY <2>1, <2>2 DEF CaptureInv, StreamsOK, Labels
  <2>5. first = "mic" \/ first = "system"
    OBVIOUS
  <2> HIDE DEF sys, first
  <2>6. /\ stream' \in [Labels -> StreamStates]
        /\ first = "mic" => stream'["mic"] = one
        /\ first = "system" => stream'["mic"] = stream["mic"]
    BY <2>1, <2>2, <2>3, <2>4 DEF CaptureInv, StreamsOK, Labels
  <2>7. StreamsOK'
    BY Zenon, <2>2, <2>5, <2>6 DEF CaptureInv, StreamsOK
  <2>8. default' = default
    BY <1>1 DEF devices
  <2>9. \/ UNCHANGED <<stream["mic"].follows, stream["mic"].dev, default["mic"]>>
        \/ stream'["mic"].follows => stream'["mic"].dev = default'["mic"]
    BY Zenon, <2>2, <2>5, <2>6, <2>8
  <2>10. Tracked'
    BY Zenon, <1>2, <2>9, TrackedStep DEF CaptureInv
  <2> QED
    BY Zenon, <1>2, <1>4, <2>7, <2>10 DEF CaptureInv
<1> QED
  BY Zenon, <1>3, <1>5, <1>6

LEMMA StoppedStream ==
  ASSUME StreamsOK, stream' = Stopped
  PROVE  StreamsOK' /\ UNCHANGED <<stream["mic"].follows, stream["mic"].dev>>
BY DEF StreamsOK, Stopped, StreamStates, Labels

LEMMA StopCaptureKeeps ==
  ASSUME CaptureInv, StopCapture
  PROVE  CaptureInv'
<1>1. UNCHANGED <<devices, live, queued, changed, routing, lost>> /\ stream' = Stopped /\ capture' = "idle"
  BY DEF StopCapture
<1>2. DevicesOK' /\ (Owed => Owed') /\ SessionOK' /\ default' = default
  BY <1>1 DEF CaptureInv, DevicesOK, SessionOK, devices, Owed
<1>3. StreamsOK' /\ UNCHANGED <<stream["mic"].follows, stream["mic"].dev>>
  BY Zenon, <1>1, StoppedStream DEF CaptureInv
<1>4. Tracked'
  BY Zenon, <1>2, <1>3, TrackedStep DEF CaptureInv
<1> QED
  BY Zenon, <1>2, <1>3, <1>4 DEF CaptureInv

LEMMA DeviceKeeps ==
  ASSUME CaptureInv, CaptureStreamsAssumption, Unplug \/ Plug \/ ChangeDefault \/ StreamDies
  PROVE  CaptureInv'
<1>1. UNCHANGED <<capture, live, queued, routing, lost>>
  BY DEF Unplug, Plug, ChangeDefault, StreamDies
<1>2. /\ DevicesOK' /\ changed' \in SUBSET Labels /\ changed \subseteq changed'
      /\ default'["mic"] = default["mic"] \/ "mic" \in changed'
  <2>1. CASE Unplug
    BY <2>1 DEF Unplug, ShiftDefault, CaptureInv, DevicesOK, SessionOK, Labels, Microphones
  <2>2. CASE Plug
    BY <2>2 DEF Plug, ShiftDefault, CaptureInv, DevicesOK, SessionOK, Labels, Microphones
  <2>3. CASE ChangeDefault
    BY <2>3 DEF ChangeDefault, CaptureInv, DevicesOK, SessionOK, Labels, Microphones
  <2>4. CASE StreamDies
    BY <2>4 DEF StreamDies, CaptureInv, DevicesOK, SessionOK, Labels, Microphones
  <2> QED
    BY <2>1, <2>2, <2>3, <2>4
<1>3. StreamsOK' /\ UNCHANGED <<stream["mic"].follows, stream["mic"].dev>>
  <2>1. CASE Unplug
    <3>1. PICK d : stream' = [l \in Labels |-> Breaks(stream[l], d)]
      BY <2>1 DEF Unplug
    <3>2. ASSUME NEW s \in StreamStates
          PROVE  /\ Breaks(s, d) \in StreamStates
                 /\ Breaks(s, d).follows = s.follows /\ Breaks(s, d).dev = s.dev
      BY DEF Breaks, StreamStates
    <3> QED
      BY <3>1, <3>2 DEF CaptureInv, StreamsOK, Labels
  <2>2. CASE Plug \/ ChangeDefault
    BY <2>2 DEF Plug, ChangeDefault, CaptureInv, StreamsOK
  <2>3. CASE StreamDies
    <3>1. PICK l \in Labels, err \in BOOLEAN :
            stream' = [stream EXCEPT ![l] = [@ EXCEPT !.flows = FALSE, !.err = err]]
      BY <2>3 DEF StreamDies
    <3>2. ASSUME NEW s \in StreamStates, NEW t, t = [s EXCEPT !.flows = FALSE, !.err = err]
          PROVE  t \in StreamStates /\ t.follows = s.follows /\ t.dev = s.dev
      BY <3>2 DEF StreamStates
    <3>3. PICK t : t = [stream[l] EXCEPT !.flows = FALSE, !.err = err]
      OBVIOUS
    <3>4. stream' = [stream EXCEPT ![l] = t]
      BY <3>1, <3>3
    <3>5. stream[l] \in StreamStates
      BY DEF CaptureInv, StreamsOK
    <3>6. t \in StreamStates /\ t.follows = stream[l].follows /\ t.dev = stream[l].dev
      BY Zenon, <3>2, <3>3, <3>5
    <3> QED
      BY <3>4, <3>6 DEF CaptureInv, StreamsOK, Labels
  <2> QED
    BY <2>1, <2>2, <2>3
<1>4. SessionOK'
  BY Zenon, <1>1, <1>2 DEF CaptureInv, SessionOK
<1>5. Tracked'
  BY Zenon, <1>1, <1>2, <1>3 DEF CaptureInv, Tracked, Owed, OnDefault, Namesakes
<1> QED
  BY Zenon, <1>2, <1>3, <1>4, <1>5 DEF CaptureInv

(* A source restarts for the watchdog or before a session: the flag stays    *)
(* and a stream on the default stays on it.                                  *)
LEMMA PreserveKeeps ==
  ASSUME CaptureInv, CaptureStreamsAssumption, NEW l \in Labels, NEW broken,
         stream' = [stream EXCEPT ![l] = Restarted(l, "preserve", broken)],
         UNCHANGED <<devices, queued, changed, routing, lost>>
  PROVE  DevicesOK' /\ StreamsOK' /\ Tracked'
<1>1. DevicesOK' /\ (Owed => Owed') /\ default' = default
  BY DEF CaptureInv, DevicesOK, devices, Owed
<1>2. PICK t : t = Restarted(l, "preserve", broken)
  OBVIOUS
<1>3. /\ t \in StreamStates
      /\ l = "mic" => /\ t.dev \in Microphones /\ t.follows = stream["mic"].follows
                      /\ stream["mic"].dev \in Namesakes(default["mic"]) => t.dev \in Namesakes(default["mic"])
  BY Zenon, <1>2, RestartedStream DEF CaptureInv
<1>4. stream' = [stream EXCEPT ![l] = t]
  BY <1>2
<1>5. StreamsOK' /\ stream'[l] = t /\ (l # "mic" => stream'["mic"] = stream["mic"])
  BY Zenon, <1>3, <1>4, StreamSet DEF CaptureInv
<1>6. Tracked'
  <2>1. CASE l # "mic"
    BY Zenon, <1>1, <1>5, <2>1, TrackedStep DEF CaptureInv
  <2>2. CASE l = "mic"
    <3>1. ASSUME stream'["mic"].follows, ~Owed'
          PROVE  OnDefault(stream["mic"].dev)'
      <4>1. stream["mic"].follows /\ ~Owed
        BY Zenon, <1>1, <1>3, <1>5, <2>2, <3>1
      <4>2. OnDefault(stream["mic"].dev)
        BY Zenon, <4>1 DEF CaptureInv, Tracked, OnDefault, Namesakes
      <4> QED
        BY Zenon, <1>1, <1>3, <1>5, <2>2, <4>2 DEF OnDefault, Namesakes
    <3> QED
      BY Zenon, <3>1 DEF Tracked, OnDefault, Namesakes
  <2> QED
    BY <2>1, <2>2
<1> QED
  BY <1>1, <1>5, <1>6

LEMMA FollowKeeps ==
  ASSUME CaptureInv, CaptureStreamsAssumption, NEW l \in Labels, NEW broken,
         stream' = [stream EXCEPT ![l] = Restarted(l, "follow", broken)],
         UNCHANGED <<devices, changed>>, l # "mic" => (Owed => Owed'),
         lost' = IF stream'[l].on THEN lost ELSE lost \cup {l}
  PROVE  DevicesOK' /\ StreamsOK' /\ Tracked' /\ lost' \in SUBSET Labels
<1>1. DevicesOK' /\ default' = default /\ lost' \in SUBSET Labels
  BY DEF CaptureInv, DevicesOK, devices, SessionOK
<1>2. PICK t : t = Restarted(l, "follow", broken)
  OBVIOUS
<1>3. /\ t \in StreamStates
      /\ l = "mic" => t.dev \in Microphones /\ (t.on /\ t.follows => t.dev = default["mic"])
  BY Zenon, <1>2, RestartedStream DEF CaptureInv
<1>4. stream' = [stream EXCEPT ![l] = t]
  BY <1>2
<1>5. StreamsOK' /\ stream'[l] = t /\ (l # "mic" => stream'["mic"] = stream["mic"])
  BY Zenon, <1>3, <1>4, StreamSet DEF CaptureInv
<1>6. Tracked'
  <2>1. CASE l # "mic"
    BY Zenon, <1>1, <1>5, <2>1, TrackedStep DEF CaptureInv
  <2>2. CASE l = "mic" /\ t.on
    BY Zenon, <1>1, <1>3, <1>5, <2>2 DEF Tracked, OnDefault, Namesakes
  <2>3. CASE l = "mic" /\ ~t.on
    <3>1. "mic" \in lost'
      BY <1>5, <2>3
    <3> QED
      BY Zenon, <3>1 DEF Tracked, Owed, OnDefault, Namesakes
  <2> QED
    BY <2>1, <2>2, <2>3
<1> QED
  BY <1>1, <1>5, <1>6

LEMMA LiveOnlyKeeps ==
  ASSUME CaptureInv, live' \in LiveStates, UNCHANGED <<devices, stream, capture, queued, changed, routing, lost>>
  PROVE  CaptureInv'
<1>1. DevicesOK' /\ StreamsOK' /\ SessionOK'
  BY Zenon DEF CaptureInv, DevicesOK, devices, StreamsOK, SessionOK
<1>2. Tracked'
  BY Zenon DEF CaptureInv, devices, Tracked, Owed, OnDefault, Namesakes
<1> QED
  BY <1>1, <1>2 DEF CaptureInv

LEMMA SessionStartsKeeps ==
  ASSUME CaptureInv, SessionStarts
  PROVE  CaptureInv'
<1>1. live' \in LiveStates
  BY NoLiveType DEF SessionStarts, LiveStates
<1> QED
  BY Zenon, <1>1, LiveOnlyKeeps DEF SessionStarts

LEMMA PreflightKeeps ==
  ASSUME CaptureInv, CaptureStreamsAssumption, NEW l \in Labels, Preflight(l)
  PROVE  CaptureInv'
<1> DEFINE next == IF l = "mic" THEN "system" ELSE "on"
           sources == Sources(live.kind) \ {x \in {"system"} : ~HasBuffer(x)}
           on == [live EXCEPT !.phase = next, !.sources = sources]
<1>1. on \in LiveStates
  <2>1. next \in {"off", "mic", "system", "on", "ended"}
    OBVIOUS
  <2>2. live \in LiveStates
    BY DEF CaptureInv, SessionOK
  <2>3. sources \in SUBSET Labels
    <3>1. live.kind \in {"mic", "system", "mixed"}
      BY <2>2, LiveTypes
    <3>2. Sources(live.kind) \in SUBSET Labels
      BY <3>1 DEF Sources, Labels
    <3> HIDE DEF Labels
    <3> QED
      BY <3>2
  <2> HIDE DEF next, sources
  <2> QED
    BY <2>1, <2>2, <2>3 DEF LiveStates
<1>2. UNCHANGED <<devices, capture, queued, changed, routing, lost>>
  BY DEF Preflight
<1>3. CASE live' = on /\ UNCHANGED stream
  BY Zenon, <1>1, <1>2, <1>3, LiveOnlyKeeps
<1>4. ASSUME NEW broken, stream' = [stream EXCEPT ![l] = Restarted(l, "preserve", broken)],
             live' = on \/ live' = NoLive
      PROVE  CaptureInv'
  <2>1. DevicesOK' /\ StreamsOK' /\ Tracked'
    BY Zenon, <1>2, <1>4, PreserveKeeps
  <2>2. live' \in LiveStates
    BY Zenon, <1>1, <1>4, NoLiveType
  <2>3. SessionOK'
    BY Zenon, <1>2, <2>2 DEF CaptureInv, SessionOK
  <2> QED
    BY <2>1, <2>3 DEF CaptureInv
<1> QED
  BY Zenon, <1>3, <1>4 DEF Preflight

LEMMA HealthCheckKeeps ==
  ASSUME CaptureInv, CaptureStreamsAssumption, NEW l \in Labels, HealthCheck(l)
  PROVE  CaptureInv'
<1>1. UNCHANGED <<devices, capture, queued, changed, routing, lost>>
  BY DEF HealthCheck
<1>2. live \in LiveStates
  BY DEF CaptureInv, SessionOK
<1>3. CASE UNCHANGED stream /\ live' = Attempt(l, stream[l], TRUE)
  <2>1. live' \in LiveStates
    BY Zenon, <1>2, <1>3, AttemptType
  <2> QED
    BY Zenon, <1>1, <1>3, <2>1, LiveOnlyKeeps
<1>4. CASE SourceRestarts(l, "preserve")
  <2>1. PICK broken : /\ stream' = [stream EXCEPT ![l] = Restarted(l, "preserve", broken)]
                      /\ \E s, c : live' = Attempt(l, s, c)
    BY Zenon, <1>4 DEF SourceRestarts
  <2>2. DevicesOK' /\ StreamsOK' /\ Tracked'
    BY Zenon, <1>1, <2>1, PreserveKeeps
  <2>3. live' \in LiveStates
    BY Zenon, <1>2, <2>1, AttemptType
  <2>4. SessionOK'
    BY Zenon, <1>1, <2>3 DEF CaptureInv, SessionOK
  <2> QED
    BY <2>2, <2>4 DEF CaptureInv
<1> QED
  BY Zenon, <1>3, <1>4 DEF HealthCheck

LEMMA CooldownKeeps ==
  ASSUME CaptureInv, NEW l \in Labels, CooldownEnds(l)
  PROVE  CaptureInv'
<1>1. live \in LiveStates
  BY DEF CaptureInv, SessionOK
<1>2. live.cool \ {l} \in SUBSET Labels
  BY <1>1, LiveTypes
<1>3. live' = [live EXCEPT !.cool = live.cool \ {l}]
  BY DEF CooldownEnds
<1>4. live' \in LiveStates
  <2> HIDE DEF Labels
  <2> QED
    BY <1>1, <1>2, <1>3 DEF LiveStates
<1> QED
  BY Zenon, <1>4, LiveOnlyKeeps DEF CooldownEnds

LEMMA IntentTakenKeeps ==
  ASSUME CaptureInv, CaptureStreamsAssumption, NEW l \in Labels, IntentTaken(l)
  PROVE  CaptureInv'
<1>1. UNCHANGED <<devices, capture, changed, routing>> /\ queued' = queued \ {l}
  BY DEF IntentTaken
<1>2. live \in LiveStates /\ queued' \in SUBSET Labels
  BY <1>1 DEF CaptureInv, SessionOK
<1>3. CASE /\ SourceRestarts(l, "follow")
           /\ lost' = IF stream'[l].on THEN lost ELSE lost \cup {l}
  <2>1. PICK broken : /\ stream' = [stream EXCEPT ![l] = Restarted(l, "follow", broken)]
                      /\ \E s, c : live' = Attempt(l, s, c)
    BY Zenon, <1>3 DEF SourceRestarts
  <2>2. l # "mic" => (Owed => Owed')
    BY <1>1, <1>3 DEF Owed
  <2>3. DevicesOK' /\ StreamsOK' /\ Tracked' /\ lost' \in SUBSET Labels
    BY Zenon, <1>1, <1>3, <2>1, <2>2, FollowKeeps
  <2>4. live' \in LiveStates
    BY Zenon, <1>2, <2>1, AttemptType
  <2>5. SessionOK'
    BY Zenon, <1>1, <1>2, <2>3, <2>4 DEF CaptureInv, SessionOK
  <2> QED
    BY <2>3, <2>5 DEF CaptureInv
<1>4. CASE lost' = lost \cup {l} /\ UNCHANGED <<stream, live>>
  <2>1. lost' \in SUBSET Labels /\ (Owed => Owed') /\ default' = default
    BY <1>1, <1>4 DEF CaptureInv, SessionOK, Owed, devices
  <2>2. DevicesOK' /\ StreamsOK' /\ SessionOK'
    BY Zenon, <1>1, <1>2, <1>4, <2>1 DEF CaptureInv, DevicesOK, devices, StreamsOK, SessionOK
  <2>3. Tracked'
    BY Zenon, <1>4, <2>1, TrackedStep DEF CaptureInv
  <2> QED
    BY <2>2, <2>3 DEF CaptureInv
<1> QED
  BY Zenon, <1>3, <1>4 DEF IntentTaken

LEMMA SessionOverKeeps ==
  ASSUME CaptureInv, MixedFailFast \/ SessionEnds
  PROVE  CaptureInv'
<1>1. /\ UNCHANGED <<devices, changed, routing>> /\ lost' = lost \cup queued /\ queued' = {}
      /\ capture' \in {capture, "idle"} /\ (stream' = Stopped \/ UNCHANGED stream)
  BY DEF MixedFailFast, SessionEnds
<1>2. live' \in LiveStates
  <2>1. CASE MixedFailFast
    BY <2>1 DEF MixedFailFast, CaptureInv, SessionOK, LiveStates
  <2>2. CASE SessionEnds
    BY <2>2, NoLiveType DEF SessionEnds
  <2> QED
    BY <2>1, <2>2
<1>3. lost' \in SUBSET Labels /\ queued' \in SUBSET Labels /\ (Owed => Owed') /\ default' = default
  BY <1>1 DEF CaptureInv, SessionOK, Owed, devices
<1>4. StreamsOK' /\ UNCHANGED <<stream["mic"].follows, stream["mic"].dev>>
  <2>1. CASE stream' = Stopped
    BY Zenon, <2>1, StoppedStream DEF CaptureInv
  <2>2. CASE UNCHANGED stream
    BY Zenon, <2>2 DEF CaptureInv, StreamsOK
  <2> QED
    BY <1>1, <2>1, <2>2
<1>5. DevicesOK'
  BY Zenon, <1>1 DEF CaptureInv, DevicesOK, devices
<1>6. SessionOK'
  <2>1. capture' \in {"idle", "capturing", "error"}
    BY <1>1 DEF CaptureInv, SessionOK
  <2> QED
    BY Zenon, <1>1, <1>2, <1>3, <2>1 DEF CaptureInv, SessionOK
<1>7. Tracked'
  BY Zenon, <1>3, <1>4, TrackedStep DEF CaptureInv
<1> QED
  BY <1>4, <1>5, <1>6, <1>7 DEF CaptureInv

LEMMA BrokerReadsKeeps ==
  ASSUME CaptureInv, NEW l \in Labels, BrokerReads(l)
  PROVE  CaptureInv'
<1> DEFINE keeps == l = "mic" /\ ~stream[l].follows /\ stream[l].dev \in plugged
<1>1. /\ UNCHANGED <<devices, stream, capture, live, queued, lost>> /\ changed' = changed \ {l}
      /\ routing.at = "idle"
      /\ routing' = IF keeps THEN routing
                    ELSE [at |-> "route", label |-> l, active |-> stream[l].on]
  BY DEF BrokerReads
<1>2. stream[l].on \in BOOLEAN
  BY StreamFields DEF CaptureInv, StreamsOK
<1>3. changed' \in SUBSET Labels /\ (l # "mic" /\ "mic" \in changed => "mic" \in changed')
  BY <1>1 DEF CaptureInv, SessionOK
<1>4. routing' \in Routings /\ (keeps \/ (routing'.at = "route" /\ routing'.label = l))
  <2>1. CASE keeps
    BY <1>1, <2>1 DEF CaptureInv, SessionOK
  <2>2. CASE ~keeps
    <3> HIDE DEF keeps
    <3>1. PICK a \in BOOLEAN : a = stream[l].on
      BY <1>2
    <3>2. routing' = [at |-> "route", label |-> l, active |-> a]
      BY Zenon, <1>1, <2>2, <3>1
    <3> QED
      BY <3>2 DEF Routings
  <2> QED
    BY <2>1, <2>2
<1>5. DevicesOK' /\ StreamsOK' /\ SessionOK'
  BY Zenon, <1>1, <1>3, <1>4 DEF CaptureInv, DevicesOK, devices, StreamsOK, SessionOK
<1>6. Tracked'
  <2>1. UNCHANGED <<stream["mic"].follows, stream["mic"].dev, default["mic"]>>
    BY Zenon, <1>1 DEF devices
  <2>2. CASE l # "mic"
    <3>1. Owed => Owed'
      BY Zenon, <1>1, <1>3, <2>2 DEF Owed
    <3> QED
      BY Zenon, <2>1, <3>1, TrackedStep DEF CaptureInv
  <2>3. CASE l = "mic" /\ keeps
    BY Zenon, <2>1, <2>3 DEF Tracked, OnDefault, Namesakes
  <2>4. CASE l = "mic" /\ ~keeps
    <3>1. routing'.at # "idle" /\ routing'.label = "mic"
      BY <1>4, <2>4
    <3> QED
      BY Zenon, <3>1 DEF Tracked, Owed, OnDefault, Namesakes
  <2> QED
    BY <2>2, <2>3, <2>4
<1> QED
  BY <1>5, <1>6 DEF CaptureInv

LEMMA BrokerRoutesKeeps ==
  ASSUME CaptureInv, BrokerRoutes
  PROVE  CaptureInv'
<1>1. UNCHANGED <<devices, stream, capture, live, changed>>
  BY DEF BrokerRoutes
<1>2. routing \in Routings /\ NotRouting \in Routings /\ routing.label \in Labels
  BY DEF CaptureInv, SessionOK, Routings, NotRouting, Labels
<1>3. /\ routing' \in Routings /\ queued' \in SUBSET Labels /\ lost' \in SUBSET Labels
      /\ Owed => Owed'
  <2>1. CASE queued' = queued \cup {routing.label} /\ routing' = NotRouting /\ UNCHANGED lost
    <3> HIDE DEF Labels
    <3> QED
      BY <1>1, <1>2, <2>1 DEF CaptureInv, SessionOK, Owed
  <2>2. CASE routing' = NotRouting /\ lost' = lost \cup {routing.label} /\ UNCHANGED queued
    BY <1>1, <1>2, <2>2 DEF CaptureInv, SessionOK, Owed
  <2>3. CASE routing' = [routing EXCEPT !.at = "restart"] /\ UNCHANGED <<queued, lost>>
    <3>1. routing' \in Routings /\ routing'.at = "restart" /\ routing'.label = routing.label
      BY <1>2, <2>3 DEF Routings
    <3> QED
      BY <1>1, <2>3, <3>1 DEF CaptureInv, SessionOK, Owed
  <2> QED
    BY <2>1, <2>2, <2>3 DEF BrokerRoutes
<1>4. DevicesOK' /\ StreamsOK' /\ SessionOK'
  BY Zenon, <1>1, <1>3 DEF CaptureInv, DevicesOK, devices, StreamsOK, SessionOK
<1>5. UNCHANGED <<stream["mic"].follows, stream["mic"].dev, default["mic"]>>
  BY Zenon, <1>1 DEF devices
<1>6. Tracked'
  BY Zenon, <1>3, <1>5, TrackedStep DEF CaptureInv
<1> QED
  BY <1>4, <1>6 DEF CaptureInv

LEMMA BrokerRestartsKeeps ==
  ASSUME CaptureInv, CaptureStreamsAssumption, BrokerRestarts
  PROVE  CaptureInv'
<1>1. UNCHANGED <<devices, capture, live, queued, changed>> /\ routing' = NotRouting
  BY DEF BrokerRestarts
<1>2. PICK l \in Labels : l = routing.label
  BY DEF CaptureInv, SessionOK, Routings
<1>3. PICK broken :
        /\ stream' = [stream EXCEPT ![l] = Restarted(l, "follow", broken)]
        /\ lost' = IF Restarted(l, "follow", broken).on THEN lost ELSE lost \cup {l}
  BY Zenon, <1>2 DEF BrokerRestarts
<1>4. stream'[l] = Restarted(l, "follow", broken)
  BY <1>3 DEF CaptureInv, StreamsOK
<1>5. lost' = IF stream'[l].on THEN lost ELSE lost \cup {l}
  BY Zenon, <1>3, <1>4
<1>6. l # "mic" => (Owed => Owed')
  BY <1>1, <1>2, <1>5 DEF Owed
<1>7. DevicesOK' /\ StreamsOK' /\ Tracked' /\ lost' \in SUBSET Labels
  BY Zenon, <1>1, <1>3, <1>5, <1>6, FollowKeeps
<1>8. NotRouting \in Routings
  BY DEF NotRouting, Routings, Labels
<1>9. SessionOK'
  BY Zenon, <1>1, <1>7, <1>8 DEF CaptureInv, SessionOK
<1> QED
  BY <1>7, <1>9 DEF CaptureInv

LEMMA CaptureStep ==
  ASSUME CaptureInv, CaptureStreamsAssumption, [CaptureNext]_captureVars
  PROVE  CaptureInv'
<1>1. CASE UNCHANGED captureVars
  <2>1. UNCHANGED <<devices, stream, capture, queued, changed, routing, lost, live>>
    BY Zenon, <1>1 DEF captureVars, devices
  <2>2. live' \in LiveStates
    BY Zenon, <2>1 DEF CaptureInv, SessionOK
  <2> QED
    BY Zenon, <2>1, <2>2, LiveOnlyKeeps
<1>2. CASE StartCapture
  BY Zenon, <1>2, StartCaptureKeeps
<1>3. CASE StopCapture
  BY Zenon, <1>3, StopCaptureKeeps
<1>4. CASE Unplug \/ Plug \/ ChangeDefault \/ StreamDies
  BY Zenon, <1>4, DeviceKeeps
<1>5. CASE SessionStarts
  BY Zenon, <1>5, SessionStartsKeeps
<1>6. CASE MixedFailFast \/ SessionEnds
  BY Zenon, <1>6, SessionOverKeeps
<1>7. ASSUME NEW l \in Labels, Preflight(l) \/ LoopActs(l)
      PROVE  CaptureInv'
  <2>1. CASE Preflight(l)
    BY Zenon, <2>1, PreflightKeeps
  <2>2. CASE HealthCheck(l)
    BY Zenon, <2>2, HealthCheckKeeps
  <2>3. CASE CooldownEnds(l)
    BY Zenon, <2>3, CooldownKeeps
  <2>4. CASE IntentTaken(l)
    BY Zenon, <2>4, IntentTakenKeeps
  <2> QED
    BY Zenon, <1>7, <2>1, <2>2, <2>3, <2>4 DEF LoopActs
<1>8. CASE BrokerActs
  <2>1. ASSUME NEW l \in Labels, BrokerReads(l)
        PROVE  CaptureInv'
    BY Zenon, <2>1, BrokerReadsKeeps
  <2>2. CASE BrokerRoutes
    BY Zenon, <2>2, BrokerRoutesKeeps
  <2>3. CASE BrokerRestarts
    BY Zenon, <2>3, BrokerRestartsKeeps
  <2> QED
    BY Zenon, <1>8, <2>1, <2>2, <2>3 DEF BrokerActs
<1> QED
  BY Zenon, <1>1, <1>2, <1>3, <1>4, <1>5, <1>6, <1>7, <1>8 DEF CaptureNext

(* For any devices, whatever their names, and any capture calls, sessions and *)
(* changes of the default: once nothing is left to be done about a change, a  *)
(* running microphone that follows the default is on it or on one that bears  *)
(* its name, unless the change reached nobody.                                *)
THEOREM CaptureSoundHolds == CaptureSpec => []CaptureSound
<1>1. CaptureInit => CaptureInv
  BY Zenon, CaptureInitInv, CaptureStreamsAssumption DEF CaptureStreamsAssumption
<1>2. CaptureInv /\ [CaptureNext]_captureVars => CaptureInv'
  BY Zenon, CaptureStep, CaptureStreamsAssumption DEF CaptureStreamsAssumption
<1>3. CaptureInv => CaptureSound
  <2> SUFFICES ASSUME CaptureInv PROVE CaptureSound
    OBVIOUS
  <2>1. CaptureTypeOK
    <3>1. live.cool \subseteq Labels /\ live.told \subseteq Labels
          /\ live.phase \in {"off", "mic", "system", "on", "ended"}
      BY LiveTypes DEF CaptureInv, SessionOK
    <3>2. \A l \in Labels : stream[l].dev \in Inputs \cup Outputs \cup {NoDevice}
      BY StreamFields DEF CaptureInv, StreamsOK
    <3> QED
      BY <3>1, <3>2 DEF CaptureInv, DevicesOK, SessionOK, CaptureTypeOK
  <2>2. DefaultFollowed
    BY Zenon DEF CaptureInv, Tracked, Owed, DefaultFollowed, NothingOwed, OnDefault, Namesakes
  <2> QED
    BY <2>1, <2>2 DEF CaptureSound
<1> QED
  BY <1>1, <1>2, <1>3, PTL DEF CaptureSpec

------------------------------------------------------------------------------
(* The transcription lane, for any number of jobs, producers, crashes and    *)
(* respawns.                                                                 *)
Answers == {"none", "refused", "ok", "failed", "dead", "dropped", "cancelled"}
AtRest  == {"pick", "empty", "park", "gone"}
InHand  == {"send", "wait", "broken", "failed", "respawn"}
Requests  == [id : Nat, job : Jobs]
Responses == [id : Nat, job : Jobs, ok : BOOLEAN]

LaneFields ==
  /\ jobs \in [Jobs -> [lane : Lanes \cup {"none"}, answer : Answers]]
  /\ lanes \in [Lanes -> Seq(Jobs)] /\ lastLive \in Lanes \cup {"none"} /\ busy \subseteq Producers
  /\ life \in {"running", "shutting_down", "terminal"} /\ shutdown \in BOOLEAN /\ permit \in BOOLEAN
  /\ stopper \in {"idle", "flagged", "join", "cancel", "take", "done"}
  /\ worker \in [at : AtRest \cup InHand, job : 0..MaxJobs, id : Nat, retry : BOOLEAN]
  /\ sidecar \in [proc : {"loading", "up", "going", "gone"}, reader : {"up", "closing", "down"},
                  stdin : Seq(Requests), stdout : Seq(Responses)]
  /\ pending \subseteq 1..nextId /\ nextId \in Nat /\ nextId >= 1
  /\ got \in [kind : {"none", "ok", "error", "dropped"}, job : 0..MaxJobs]
  /\ laneUsed \in [job : Nat, toggle : Nat, crash : Nat, respawn : Nat] /\ laneUsed.job <= MaxJobs

(* A job is in one place: queued once, in the worker's hand, or answered.      *)
Queued(j) == \E l \in Lanes : \E i \in DOMAIN lanes[l] : lanes[l][i] = j
QueueOK ==
  /\ \A l \in Lanes : \A i \in DOMAIN lanes[l] :
       /\ lanes[l][i] <= laneUsed.job /\ lanes[l][i] # worker.job
       /\ jobs[lanes[l][i]].answer = "none"
  /\ \A l, k \in Lanes : \A i \in DOMAIN lanes[l], n \in DOMAIN lanes[k] :
       lanes[l][i] = lanes[k][n] => l = k /\ i = n
PlaceOK ==
  /\ worker.at \in AtRest => worker.job = 0 /\ worker.id = 0
  /\ worker.at \in InHand => /\ worker.job \in 1..laneUsed.job
                             /\ jobs[worker.job].answer = "none"
  /\ \A j \in Jobs : IF j > laneUsed.job THEN jobs[j].lane = "none"
                     ELSE jobs[j].answer = "none" => j = worker.job \/ Queued(j)

(* The stages of shutdown_client.                                              *)
StopOK ==
  /\ shutdown <=> stopper # "idle"
  /\ life = "running" <=> stopper \in {"idle", "flagged"}
  /\ life = "terminal" => stopper = "done"
  /\ stopper \in {"take", "done"} => \A l \in Lanes : lanes[l] = <<>>

(* Ids are never used again, so what the pipes hold under the worker's id is    *)
(* about the worker's job.                                                     *)
IdOK(id, j) == id >= 1 /\ id < nextId /\ (id = worker.id => j = worker.job)
PipesOK ==
  /\ worker.id < nextId
  /\ \A i \in DOMAIN sidecar.stdin : IdOK(sidecar.stdin[i].id, sidecar.stdin[i].job)
  /\ \A i \in DOMAIN sidecar.stdout : IdOK(sidecar.stdout[i].id, sidecar.stdout[i].job)

LaneInv == LaneFields /\ QueueOK /\ PlaceOK /\ StopOK /\ PipesOK /\ WorkerAwake /\ AnswersMatch

------------------------------------------------------------------------------
LEMMA TailFacts ==
    ASSUME NEW S, NEW s \in Seq(S), s # <<>>
    PROVE  /\ Head(s) = s[1] /\ Head(s) \in S /\ 1 \in DOMAIN s
           /\ Tail(s) \in Seq(S)
           /\ \A i \in DOMAIN Tail(s) : i \in Nat /\ i >= 1 /\ i + 1 \in DOMAIN s /\ Tail(s)[i] = s[i + 1]
           /\ \A i \in DOMAIN s : i # 1 => i - 1 \in DOMAIN Tail(s) /\ Tail(s)[i - 1] = s[i]
OBVIOUS

LEMMA AppendFacts ==
    ASSUME NEW S, NEW s \in Seq(S), NEW x \in S
    PROVE  /\ Append(s, x) \in Seq(S)
           /\ Len(s) + 1 \in DOMAIN Append(s, x) /\ Append(s, x)[Len(s) + 1] = x
           /\ \A i \in DOMAIN s : i \in DOMAIN Append(s, x) /\ Append(s, x)[i] = s[i]
           /\ \A i \in DOMAIN Append(s, x) : i \notin DOMAIN s => i = Len(s) + 1
OBVIOUS

LEMMA LaneInitial == LaneInit => LaneInv
<1> SUFFICES ASSUME LaneInit PROVE LaneInv
  OBVIOUS
<1> USE DEF LaneInit, Idle, Silent, Fresh
<1>1. LaneFields
  <2>1. MaxJobs \in Nat
    BY LaneAssumption
  <2>2. jobs \in [Jobs -> [lane : Lanes \cup {"none"}, answer : Answers]] /\ lanes \in [Lanes -> Seq(Jobs)]
    BY DEF Answers
  <2>3. worker \in [at : AtRest \cup InHand, job : 0..MaxJobs, id : Nat, retry : BOOLEAN]
    BY <2>1 DEF AtRest
  <2>4. sidecar \in [proc : {"loading", "up", "going", "gone"}, reader : {"up", "closing", "down"},
                    stdin : Seq(Requests), stdout : Seq(Responses)]
    <3>1. sidecar = [proc |-> "up", reader |-> "up", stdin |-> <<>>, stdout |-> <<>>]
      OBVIOUS
    <3>2. <<>> \in Seq(Requests) /\ <<>> \in Seq(Responses)
      OBVIOUS
    <3> QED
      BY <3>1, <3>2
  <2>5. got \in [kind : {"none", "ok", "error", "dropped"}, job : 0..MaxJobs]
    BY <2>1
  <2>6. laneUsed \in [job : Nat, toggle : Nat, crash : Nat, respawn : Nat] /\ laneUsed.job <= MaxJobs
    BY <2>1
  <2>8. shutdown \in BOOLEAN /\ permit \in BOOLEAN
    OBVIOUS
  <2>7. lastLive \in Lanes \cup {"none"} /\ busy \subseteq Producers
        /\ life \in {"running", "shutting_down", "terminal"}
        /\ stopper \in {"idle", "flagged", "join", "cancel", "take", "done"}
        /\ pending \subseteq 1..nextId /\ nextId \in Nat /\ nextId >= 1
    OBVIOUS
  <2> QED
    BY <2>2, <2>3, <2>4, <2>5, <2>6, <2>7, <2>8 DEF LaneFields
<1>2. QueueOK
  BY DEF QueueOK
<1>3. PlaceOK
  BY DEF PlaceOK, AtRest, InHand, Jobs
<1>4. StopOK /\ PipesOK /\ WorkerAwake /\ AnswersMatch
  BY DEF StopOK, PipesOK, WorkerAwake, AnswersMatch
<1> QED
  BY <1>1, <1>2, <1>3, <1>4 DEF LaneInv

LEMMA SpendFacts ==
    ASSUME LaneInv, NEW what \in {"toggle", "crash", "respawn"}, NEW bound, Spend(what, bound)
    PROVE  /\ laneUsed' \in [job : Nat, toggle : Nat, crash : Nat, respawn : Nat]
           /\ laneUsed'.job = laneUsed.job
<1>1. laneUsed \in [job : Nat, toggle : Nat, crash : Nat, respawn : Nat]
  BY DEF LaneInv, LaneFields
<1>2. CASE what = "toggle"
  BY <1>1, <1>2 DEF Spend
<1>3. CASE what = "crash"
  BY <1>1, <1>3 DEF Spend
<1>4. CASE what = "respawn"
  BY <1>1, <1>4 DEF Spend
<1> QED
  BY <1>2, <1>3, <1>4

(* The scheduler's side of the invariant, when neither a queue nor the worker   *)
(* moves.                                                                      *)
LEMMA SchedulerStays ==
    ASSUME LaneInv, UNCHANGED <<queueVars, busy, lifeVars, permit, worker>>, laneUsed'.job = laneUsed.job
    PROVE  QueueOK' /\ PlaceOK' /\ StopOK' /\ WorkerAwake'
<1> USE DEF queueVars, lifeVars
<1>1. QueueOK'
  BY DEF LaneInv, QueueOK
<1>2. PlaceOK'
  BY DEF LaneInv, PlaceOK, Queued
<1>3. StopOK'
  BY DEF LaneInv, StopOK
<1>4. WorkerAwake'
  BY DEF LaneInv, WorkerAwake, Ready, Order, Gated
<1> QED
  BY <1>1, <1>2, <1>3, <1>4

LEMMA SidecarKeeps ==
    ASSUME LaneInv, SidecarStep, pending' \subseteq pending,
           laneUsed' \in [job : Nat, toggle : Nat, crash : Nat, respawn : Nat], laneUsed'.job = laneUsed.job,
           sidecar' \in [proc : {"loading", "up", "going", "gone"}, reader : {"up", "closing", "down"},
                         stdin : Seq(Requests), stdout : Seq(Responses)],
           got' \in [kind : {"none", "ok", "error", "dropped"}, job : 0..MaxJobs],
           PipesOK', AnswersMatch'
    PROVE  LaneInv'
<1>1. LaneFields'
  BY DEF LaneInv, LaneFields, SidecarStep, queueVars, lifeVars
<1>2. QueueOK' /\ PlaceOK' /\ StopOK' /\ WorkerAwake'
  BY SchedulerStays DEF SidecarStep
<1> QED
  BY <1>1, <1>2 DEF LaneInv

\* A step of the process that moves no message.
LEMMA QuietKeeps ==
    ASSUME LaneInv, SidecarStep, UNCHANGED <<pending, got>>,
           laneUsed' \in [job : Nat, toggle : Nat, crash : Nat, respawn : Nat], laneUsed'.job = laneUsed.job,
           NEW p \in {"loading", "up", "going", "gone"}, NEW r \in {"up", "closing", "down"},
           sidecar' = [sidecar EXCEPT !.proc = p, !.reader = r]
    PROVE  LaneInv'
<1>1. sidecar' \in [proc : {"loading", "up", "going", "gone"}, reader : {"up", "closing", "down"},
                    stdin : Seq(Requests), stdout : Seq(Responses)]
      /\ sidecar'.stdin = sidecar.stdin /\ sidecar'.stdout = sidecar.stdout
  BY DEF LaneInv, LaneFields
<1>2. PipesOK'
  BY <1>1 DEF LaneInv, PipesOK, IdOK, SidecarStep
<1>3. AnswersMatch'
  BY DEF LaneInv, AnswersMatch, SidecarStep
<1>4. got' \in [kind : {"none", "ok", "error", "dropped"}, job : 0..MaxJobs]
  BY DEF LaneInv, LaneFields
<1> QED
  BY <1>1, <1>2, <1>3, <1>4, SidecarKeeps

LEMMA ProcessKeeps ==
    ASSUME LaneInv, LoadModel \/ Crash \/ Reap \/ ReaderGone
    PROVE  LaneInv'
<1>1. /\ sidecar.proc \in {"loading", "up", "going", "gone"} /\ sidecar.reader \in {"up", "closing", "down"}
      /\ laneUsed \in [job : Nat, toggle : Nat, crash : Nat, respawn : Nat]
      /\ \A p \in {"loading", "up", "going", "gone"} :
           [sidecar EXCEPT !.proc = p] = [sidecar EXCEPT !.proc = p, !.reader = sidecar.reader]
      /\ \A r \in {"up", "closing", "down"} :
           [sidecar EXCEPT !.reader = r] = [sidecar EXCEPT !.proc = sidecar.proc, !.reader = r]
  BY DEF LaneInv, LaneFields
<1>2. CASE LoadModel
  BY <1>1, <1>2, QuietKeeps, SpendFacts DEF LoadModel
<1>3. CASE Crash
  BY <1>1, <1>3, QuietKeeps, SpendFacts DEF Crash
<1>4. CASE Reap
  BY <1>1, <1>4, QuietKeeps DEF Reap
<1>5. CASE ReaderGone
  BY <1>1, <1>5, QuietKeeps DEF ReaderGone
<1> QED
  BY <1>2, <1>3, <1>4, <1>5

LEMMA ServeKeeps ==
    ASSUME LaneInv, Serve
    PROVE  LaneInv'
<1> DEFINE h == Head(sidecar.stdin)
<1>1. PICK ok \in BOOLEAN :
        sidecar' = [sidecar EXCEPT !.stdin = Tail(@), !.stdout = Append(@, [id |-> h.id, job |-> h.job, ok |-> ok])]
  BY DEF Serve
<1> DEFINE r == [id |-> h.id, job |-> h.job, ok |-> ok]
<1>2. sidecar.stdin \in Seq(Requests) /\ sidecar.stdin # <<>> /\ sidecar.stdout \in Seq(Responses)
  BY DEF LaneInv, LaneFields, Serve
<1>3. h \in Requests /\ 1 \in DOMAIN sidecar.stdin /\ h = sidecar.stdin[1]
  BY <1>2, TailFacts
<1>4. r \in Responses /\ IdOK(r.id, r.job) /\ r.id = h.id /\ r.job = h.job
  BY <1>3 DEF Requests, Responses, LaneInv, PipesOK
<1> HIDE DEF h
<1>5. sidecar'.stdin = Tail(sidecar.stdin) /\ sidecar'.stdout = Append(sidecar.stdout, r)
      /\ sidecar' = [sidecar EXCEPT !.stdin = sidecar'.stdin, !.stdout = sidecar'.stdout]
  BY <1>1 DEF LaneInv, LaneFields
<1> HIDE DEF r
<1>6. sidecar'.stdin \in Seq(Requests) /\ sidecar'.stdout \in Seq(Responses)
  BY <1>2, <1>4, <1>5, TailFacts, AppendFacts
<1>7. sidecar' \in [proc : {"loading", "up", "going", "gone"}, reader : {"up", "closing", "down"},
                    stdin : Seq(Requests), stdout : Seq(Responses)]
  BY <1>5, <1>6 DEF LaneInv, LaneFields
<1>8. PipesOK'
  <2> USE DEF Serve, SidecarStep
  <2>1. \A n, j : IdOK(n, j) => IdOK(n, j)'
    BY DEF IdOK
  <2>2. ASSUME NEW i \in DOMAIN sidecar'.stdin PROVE IdOK(sidecar'.stdin[i].id, sidecar'.stdin[i].job)
    <3>1. i + 1 \in DOMAIN sidecar.stdin /\ sidecar'.stdin[i] = sidecar.stdin[i + 1]
      BY <1>2, <1>5, <2>2, TailFacts
    <3> QED
      BY <3>1 DEF LaneInv, PipesOK
  <2>3. ASSUME NEW i \in DOMAIN sidecar'.stdout PROVE IdOK(sidecar'.stdout[i].id, sidecar'.stdout[i].job)
    <3>1. CASE i \in DOMAIN sidecar.stdout
      <4>1. sidecar'.stdout[i] = sidecar.stdout[i]
        BY <1>2, <1>4, <1>5, <3>1, AppendFacts
      <4> QED
        BY <3>1, <4>1 DEF LaneInv, PipesOK
    <3>2. CASE i \notin DOMAIN sidecar.stdout
      <4>1. sidecar'.stdout[i] = r
        BY <1>2, <1>4, <1>5, <2>3, <3>2, AppendFacts
      <4> QED
        BY <1>4, <4>1
    <3> QED
      BY <3>1, <3>2
  <2>4. worker'.id < nextId'
    BY DEF LaneInv, PipesOK
  <2> QED
    BY <2>1, <2>2, <2>3, <2>4 DEF PipesOK, IdOK
<1>9. AnswersMatch' /\ SidecarStep /\ pending' = pending
  BY DEF LaneInv, AnswersMatch, Serve, SidecarStep
<1>10. got' \in [kind : {"none", "ok", "error", "dropped"}, job : 0..MaxJobs]
       /\ laneUsed' \in [job : Nat, toggle : Nat, crash : Nat, respawn : Nat] /\ laneUsed'.job = laneUsed.job
  BY DEF LaneInv, LaneFields, Serve
<1> QED
  BY <1>7, <1>8, <1>9, <1>10, SidecarKeeps

\* The reader routes by id, and the worker's id stands for its job.
LEMMA RouteKeeps ==
    ASSUME LaneInv, Route
    PROVE  LaneInv'
<1> DEFINE r == Head(sidecar.stdout)
<1>1. /\ sidecar' = [sidecar EXCEPT !.stdout = Tail(@)] /\ pending' = pending \ {r.id} /\ SidecarStep
      /\ got' = IF r.id \in pending /\ r.id = worker.id
                  THEN [kind |-> IF r.ok THEN "ok" ELSE "error", job |-> r.job] ELSE got
      /\ laneUsed' = laneUsed
  BY DEF Route
<1>2. sidecar.stdout \in Seq(Responses) /\ sidecar.stdout # <<>>
  BY DEF LaneInv, LaneFields, Route
<1>3. r \in Responses /\ IdOK(r.id, r.job)
  <2>1. r \in Responses /\ 1 \in DOMAIN sidecar.stdout /\ r = sidecar.stdout[1]
    BY <1>2, TailFacts
  <2> QED
    BY <2>1 DEF LaneInv, PipesOK
<1> HIDE DEF r
<1>4. sidecar'.stdout = Tail(sidecar.stdout) /\ sidecar'.stdin = sidecar.stdin
      /\ sidecar' = [sidecar EXCEPT !.stdout = sidecar'.stdout]
  BY <1>1 DEF LaneInv, LaneFields
<1>5. sidecar'.stdout \in Seq(Responses)
  BY <1>2, <1>4, TailFacts
<1>6. sidecar' \in [proc : {"loading", "up", "going", "gone"}, reader : {"up", "closing", "down"},
                    stdin : Seq(Requests), stdout : Seq(Responses)]
  BY <1>4, <1>5 DEF LaneInv, LaneFields
<1>7. PipesOK'
  <2>1. \A i \in DOMAIN sidecar'.stdout : i + 1 \in DOMAIN sidecar.stdout /\ sidecar'.stdout[i] = sidecar.stdout[i + 1]
    BY <1>2, <1>4, TailFacts
  <2> QED
    BY <1>1, <1>4, <2>1 DEF LaneInv, PipesOK, IdOK, SidecarStep
<1>8. got' \in [kind : {"none", "ok", "error", "dropped"}, job : 0..MaxJobs]
  <2>1. r.job \in 0..MaxJobs
    BY <1>3 DEF Responses, Jobs
  <2>2. (IF r.ok THEN "ok" ELSE "error") \in {"none", "ok", "error", "dropped"}
    OBVIOUS
  <2> QED
    BY <1>1, <2>1, <2>2 DEF LaneInv, LaneFields
<1>9. AnswersMatch'
  BY <1>1, <1>3 DEF LaneInv, AnswersMatch, IdOK, SidecarStep
<1>10. laneUsed' \in [job : Nat, toggle : Nat, crash : Nat, respawn : Nat]
  BY <1>1 DEF LaneInv, LaneFields
<1> QED
  BY <1>1, <1>6, <1>7, <1>8, <1>9, <1>10, SidecarKeeps

LEMMA ReaderEndsKeeps ==
    ASSUME LaneInv, ReaderEnds
    PROVE  LaneInv'
<1> USE DEF ReaderEnds
<1>1. laneUsed' \in [job : Nat, toggle : Nat, crash : Nat, respawn : Nat] /\ laneUsed'.job = laneUsed.job
  <2>1. CASE UNCHANGED laneUsed
    BY <2>1 DEF LaneInv, LaneFields
  <2> QED
    BY <2>1, SpendFacts
<1>2. sidecar' \in [proc : {"loading", "up", "going", "gone"}, reader : {"up", "closing", "down"},
                    stdin : Seq(Requests), stdout : Seq(Responses)]
      /\ sidecar'.stdin = sidecar.stdin /\ sidecar'.stdout = sidecar.stdout
  BY DEF LaneInv, LaneFields
<1>3. PipesOK'
  BY <1>2 DEF LaneInv, PipesOK, IdOK, SidecarStep
<1>4. got' \in [kind : {"none", "ok", "error", "dropped"}, job : 0..MaxJobs] /\ (got' = got \/ got'.kind = "dropped")
  BY DEF LaneInv, LaneFields
<1>5. AnswersMatch'
  BY <1>4 DEF LaneInv, AnswersMatch, SidecarStep
<1> QED
  BY <1>1, <1>2, <1>3, <1>4, <1>5, SidecarKeeps

------------------------------------------------------------------------------
(* Producers.                                                                  *)

LEMMA SetBusyKeeps ==
    ASSUME LaneInv, NEW p \in Producers, SetBusy(p)
    PROVE  LaneInv'
<1> USE DEF SetBusy, queueVars, lifeVars, pipeVars
<1>1. laneUsed' \in [job : Nat, toggle : Nat, crash : Nat, respawn : Nat] /\ laneUsed'.job = laneUsed.job
  BY SpendFacts
<1>2. permit' \in BOOLEAN /\ busy' \subseteq Producers
  BY DEF LaneInv, LaneFields
<1>3. LaneFields'
  BY <1>1, <1>2 DEF LaneInv, LaneFields
<1>4. QueueOK' /\ PlaceOK' /\ StopOK'
  <2>1. QueueOK'
    BY <1>1 DEF LaneInv, QueueOK
  <2>2. PlaceOK'
    BY <1>1 DEF LaneInv, PlaceOK, Queued
  <2> QED
    BY <2>1, <2>2 DEF LaneInv, StopOK
<1>5. PipesOK' /\ AnswersMatch'
  BY DEF LaneInv, PipesOK, IdOK, AnswersMatch
<1>6. WorkerAwake'
  <2>1. CASE ~permit'
    <3>1. ~permit /\ ((busy = {}) <=> (busy' = {}))
      BY <2>1
    <3>2. Gated' <=> Gated
      BY <3>1 DEF Gated
    <3>3. Order' = Order
      BY <3>2 DEF Order
    <3>4. Ready' = Ready
      BY <3>3 DEF Ready
    <3> QED
      BY <3>1, <3>4 DEF LaneInv, WorkerAwake
  <2>2. CASE permit'
    BY <2>2 DEF WorkerAwake
  <2> QED
    BY <2>1, <2>2
<1> QED
  BY <1>3, <1>4, <1>5, <1>6 DEF LaneInv

LEMMA SubmitKeeps ==
    ASSUME LaneInv, NEW l \in Origins, Submit(l)
    PROVE  LaneInv'
<1> DEFINE j == laneUsed.job + 1
<1>0. l \in Lanes /\ MaxJobs \in Nat
  BY LaneAssumption DEF Lanes
<1>1. /\ laneUsed \in [job : Nat, toggle : Nat, crash : Nat, respawn : Nat]
      /\ laneUsed["job"] < MaxJobs /\ laneUsed' = [laneUsed EXCEPT !["job"] = @ + 1]
  BY DEF LaneInv, LaneFields, Submit, Spend
<1>2. /\ laneUsed' \in [job : Nat, toggle : Nat, crash : Nat, respawn : Nat]
      /\ laneUsed'.job = laneUsed.job + 1 /\ laneUsed'.job <= MaxJobs
  BY <1>0, <1>1
<1>3. j \in Jobs /\ j = laneUsed'.job /\ j >= 1
  BY <1>0, <1>1, <1>2 DEF Jobs
<1>4. PICK a \in {"none", "refused"} : jobs' = [jobs EXCEPT ![j] = [lane |-> l, answer |-> a]]
      /\ \/ a = "none" /\ life = "running" /\ lanes' = [lanes EXCEPT ![l] = Append(@, j)] /\ permit' = TRUE
         \/ a = "refused" /\ lanes' = lanes /\ permit' = permit
  <2>1. CASE life = "running"
    BY <2>1 DEF Submit
  <2>2. CASE life # "running"
    BY <2>2 DEF Submit
  <2> QED
    BY <2>1, <2>2
<1> HIDE DEF j
<1> USE DEF Submit, lifeVars, pipeVars
<1>5. jobs' \in [Jobs -> [lane : Lanes \cup {"none"}, answer : Answers]]
  BY <1>0, <1>3, <1>4 DEF LaneInv, LaneFields, Answers
<1>6. lanes' \in [Lanes -> Seq(Jobs)] /\ permit' \in BOOLEAN
  <2>1. Append(lanes[l], j) \in Seq(Jobs)
    BY <1>0, <1>3, AppendFacts DEF LaneInv, LaneFields
  <2>2. lanes' \in [Lanes -> Seq(Jobs)]
    BY <1>4, <2>1 DEF LaneInv, LaneFields
  <2>3. permit' \in BOOLEAN
    BY Zenon, <1>4 DEF LaneInv, LaneFields
  <2> QED
    BY <2>2, <2>3
<1>7. LaneFields'
  <2>1. UNCHANGED <<lastLive, busy, life, shutdown, stopper, worker, sidecar, pending, got, nextId>>
    OBVIOUS
  <2> QED
    BY <1>2, <1>5, <1>6, <2>1 DEF LaneInv, LaneFields
<1>8. \A k \in Jobs : k <= laneUsed.job => k # j /\ jobs'[k] = jobs[k]
  BY <1>1, <1>4, <1>5 DEF j, Jobs, LaneInv, LaneFields
<1>9. jobs'[j] = [lane |-> l, answer |-> a] /\ j # worker.job
  <2>1. worker.job <= laneUsed.job
    BY <1>1 DEF LaneInv, LaneFields, PlaceOK, AtRest, InHand
  <2> QED
    BY <1>1, <1>3, <1>4, <2>1 DEF j, LaneInv, LaneFields
<1>10. QueueOK'
  <2>1. \A k \in Lanes : lanes[k] \in Seq(Jobs)
    BY DEF LaneInv, LaneFields
  <2>2. \A k \in Lanes : \A i \in DOMAIN lanes'[k] :
           \/ i \in DOMAIN lanes[k] /\ lanes'[k][i] = lanes[k][i] /\ lanes[k][i] \in Jobs
           \/ a = "none" /\ k = l /\ i = Len(lanes[l]) + 1 /\ i \notin DOMAIN lanes[k] /\ lanes'[k][i] = j
    <3>1. CASE a = "refused"
      BY <1>4, <2>1, <3>1
    <3>2. CASE a = "none"
      <4>1. \A k \in Lanes : k # l => lanes'[k] = lanes[k]
        BY <1>0, <1>4, <3>2 DEF LaneInv, LaneFields
      <4>2. lanes'[l] = Append(lanes[l], j)
        BY <1>0, <1>4, <3>2 DEF LaneInv, LaneFields
      <4> QED
        BY <1>0, <1>3, <2>1, <3>2, <4>1, <4>2, AppendFacts
    <3> QED
      BY <3>1, <3>2
  <2>3. \A k \in Lanes : \A i \in DOMAIN lanes[k] : lanes[k][i] <= laneUsed.job /\ lanes[k][i] # j
    BY <1>8, <2>1 DEF LaneInv, QueueOK
  <2>4. ASSUME NEW k \in Lanes, NEW i \in DOMAIN lanes'[k]
        PROVE  lanes'[k][i] <= laneUsed'.job /\ lanes'[k][i] # worker'.job /\ jobs'[lanes'[k][i]].answer = "none"
    <3>1. CASE lanes'[k][i] = j /\ a = "none"
      BY <1>1, <1>3, <1>9, <3>1 DEF LaneInv, LaneFields
    <3>2. CASE i \in DOMAIN lanes[k] /\ lanes'[k][i] = lanes[k][i] /\ lanes[k][i] \in Jobs
      BY <1>1, <1>2, <1>8, <2>3, <3>2 DEF LaneInv, QueueOK, Jobs
    <3> QED
      BY <2>2, <3>1, <3>2
  <2>5. ASSUME NEW k \in Lanes, NEW m \in Lanes, NEW i \in DOMAIN lanes'[k], NEW n \in DOMAIN lanes'[m],
               lanes'[k][i] = lanes'[m][n]
        PROVE  k = m /\ i = n
    BY <2>2, <2>3, <2>5 DEF LaneInv, QueueOK
  <2> QED
    BY <2>4, <2>5 DEF QueueOK
<1>11. PlaceOK'
  <2>1. \A k \in Jobs : Queued(k) => Queued(k)'
    <3> SUFFICES ASSUME NEW k \in Lanes, NEW i \in DOMAIN lanes[k] PROVE i \in DOMAIN lanes'[k] /\ lanes'[k][i] = lanes[k][i]
      BY DEF Queued
    <3>1. lanes[k] \in Seq(Jobs) /\ lanes[l] \in Seq(Jobs)
      BY <1>0 DEF LaneInv, LaneFields
    <3>2. lanes'[k] = lanes[k] \/ (k = l /\ lanes'[k] = Append(lanes[k], j))
      <4> HIDE DEF Submit
      <4>1. lanes \in [Lanes -> Seq(Jobs)]
        BY DEF LaneInv, LaneFields
      <4> QED
        BY <1>0, <1>4, <4>1
    <3> QED
      BY <1>3, <3>1, <3>2, AppendFacts
  <2>2. a = "none" => \E i \in DOMAIN lanes'[l] : lanes'[l][i] = j
    <3> SUFFICES ASSUME a = "none" PROVE \E i \in DOMAIN lanes'[l] : lanes'[l][i] = j
      OBVIOUS
    <3>1. lanes'[l] = Append(lanes[l], j) /\ lanes[l] \in Seq(Jobs)
      BY <1>0, <1>4 DEF LaneInv, LaneFields
    <3>2. Len(lanes[l]) + 1 \in DOMAIN lanes'[l] /\ lanes'[l][Len(lanes[l]) + 1] = j
      BY <1>3, <3>1, AppendFacts
    <3> QED
      BY <3>2
  <2>3. ASSUME NEW k \in Jobs
        PROVE  IF k > laneUsed'.job THEN jobs'[k].lane = "none"
               ELSE jobs'[k].answer = "none" => k = worker'.job \/ Queued(k)'
    <3>1. CASE k = j
      <4>1. ~(k > laneUsed'.job) /\ jobs'[k].answer = a
        BY <1>1, <1>3, <1>9, <3>1
      <4>2. a = "none" => Queued(k)'
        BY <1>0, <2>2, <3>1 DEF Queued
      <4> QED
        BY <4>1, <4>2
    <3>2. CASE k # j
      <4>1. jobs'[k] = jobs[k] /\ (k > laneUsed'.job => k > laneUsed.job) /\ (k <= laneUsed'.job => k <= laneUsed.job)
        <5> HIDE DEF Submit
        <5>1. jobs \in [Jobs -> [lane : Lanes \cup {"none"}, answer : Answers]]
          BY DEF LaneInv, LaneFields
        <5>2. jobs'[k] = jobs[k]
          BY <1>4, <3>2, <5>1
        <5>3. k \in Nat
          BY DEF Jobs
        <5> QED
          BY <1>1, <1>2, <3>2, <5>2, <5>3 DEF j
      <4>2. worker' = worker /\ (Queued(k) => Queued(k)')
        BY <2>1
      <4> QED
        BY <1>1, <1>2, <4>1, <4>2 DEF LaneInv, PlaceOK, Jobs
    <3> QED
      BY <3>1, <3>2
  <2>4. worker'.at \in InHand => worker'.job \in 1..laneUsed'.job /\ jobs'[worker'.job].answer = "none"
    <3>1. worker.at \in InHand => worker.job \in 1..laneUsed.job /\ jobs[worker.job].answer = "none"
      BY DEF LaneInv, PlaceOK
    <3>2. worker.job \in 1..laneUsed.job => worker.job \in Jobs /\ worker.job \in 1..laneUsed'.job
      BY <1>0, <1>1, <1>2 DEF Jobs
    <3>3. worker' = worker
      OBVIOUS
    <3> HIDE DEF Submit
    <3> QED
      BY <1>8, <3>1, <3>2, <3>3
  <2> QED
    BY <2>3, <2>4 DEF LaneInv, PlaceOK
<1>12. StopOK' /\ PipesOK' /\ AnswersMatch'
  <2>1. stopper \in {"take", "done"} => lanes' = lanes
    BY <1>4 DEF LaneInv, StopOK
  <2>2. StopOK'
    BY <2>1 DEF LaneInv, StopOK
  <2>3. PipesOK' /\ AnswersMatch'
    BY DEF LaneInv, PipesOK, IdOK, AnswersMatch
  <2> QED
    BY <2>2, <2>3
<1>13. WorkerAwake'
  <2>1. CASE a = "none"
    BY <1>4, <2>1 DEF WorkerAwake
  <2>2. CASE a = "refused"
    BY <1>4, <2>2 DEF LaneInv, WorkerAwake, Ready, Order, Gated
  <2> QED
    BY <2>1, <2>2
<1> QED
  BY <1>7, <1>10, <1>11, <1>12, <1>13 DEF LaneInv

------------------------------------------------------------------------------
(* The worker.                                                                 *)

\* The worker goes on with the job in its hand.
LEMMA HandStays ==
    ASSUME LaneInv, worker.at \in InHand, worker'.at \in InHand, worker'.job = worker.job,
           UNCHANGED <<queueVars, lifeVars>>, laneUsed'.job = laneUsed.job
    PROVE  QueueOK' /\ PlaceOK' /\ StopOK' /\ WorkerAwake'
<1> USE DEF queueVars, lifeVars
<1>1. QueueOK'
  BY DEF LaneInv, QueueOK
<1>2. PlaceOK'
  BY DEF LaneInv, PlaceOK, Queued, InHand, AtRest
<1>3. StopOK'
  BY DEF LaneInv, StopOK, InHand
<1>4. WorkerAwake'
  BY DEF WorkerAwake, InHand
<1> QED
  BY <1>1, <1>2, <1>3, <1>4

\* The worker's job is answered and leaves its hand.
LEMMA HandEmptied ==
    ASSUME LaneInv, worker.at \in InHand, NEW a \in Answers \ {"none"}, jobs' = [jobs EXCEPT ![worker.job].answer = a],
           worker'.at \in {"pick", "gone"}, worker'.job = 0, worker'.id = 0, lanes' = lanes,
           laneUsed'.job = laneUsed.job
    PROVE  /\ jobs' \in [Jobs -> [lane : Lanes \cup {"none"}, answer : Answers]]
           /\ QueueOK' /\ PlaceOK' /\ WorkerAwake' /\ AnswersMatch'
<1>1. /\ worker.job \in 1..laneUsed.job /\ worker.job \in Jobs /\ jobs[worker.job].answer = "none"
      /\ laneUsed.job \in Nat /\ MaxJobs \in Nat
  BY LaneAssumption DEF LaneInv, LaneFields, PlaceOK, Jobs
<1>2. jobs \in [Jobs -> [lane : Lanes \cup {"none"}, answer : Answers]]
  BY DEF LaneInv, LaneFields
<1>3. jobs' \in [Jobs -> [lane : Lanes \cup {"none"}, answer : Answers]]
  BY <1>1, <1>2
<1>4. jobs'[worker.job].answer = a /\ \A k \in Jobs : k # worker.job => jobs'[k] = jobs[k]
  BY <1>1, <1>2
<1>5. \A l \in Lanes : \A i \in DOMAIN lanes[l] : lanes[l][i] \in Jobs
  BY DEF LaneInv, LaneFields
<1>6. QueueOK'
  <2>1. \A l \in Lanes : \A i \in DOMAIN lanes[l] :
           lanes[l][i] <= laneUsed.job /\ lanes[l][i] # 0 /\ jobs'[lanes[l][i]].answer = "none"
    BY <1>4, <1>5 DEF LaneInv, QueueOK, Jobs
  <2> QED
    BY <2>1 DEF LaneInv, QueueOK
<1>7. PlaceOK'
  <2>1. ASSUME NEW k \in Jobs
        PROVE  IF k > laneUsed'.job THEN jobs'[k].lane = "none"
               ELSE jobs'[k].answer = "none" => k = worker'.job \/ Queued(k)'
    <3>1. CASE k = worker.job
      BY <1>1, <1>4, <3>1
    <3>2. CASE k # worker.job
      BY <1>4, <3>2 DEF LaneInv, PlaceOK, Queued
    <3> QED
      BY <3>1, <3>2
  <2> QED
    BY <2>1 DEF PlaceOK, InHand
<1>8. WorkerAwake' /\ AnswersMatch'
  BY DEF WorkerAwake, AnswersMatch
<1> QED
  BY <1>3, <1>6, <1>7, <1>8

LEMMA PickKeeps ==
    ASSUME LaneInv, Pick
    PROVE  LaneInv'
<1>1. PICK first \in Ready :
        /\ lanes' = [lanes EXCEPT ![Order[first]] = Tail(@)]
        /\ lastLive' = IF Order[first] \in {"mic", "system"} THEN Order[first] ELSE lastLive
        /\ worker' = [Idle EXCEPT !.at = "send", !.job = Head(lanes[Order[first]])]
  BY ZenonT(60) DEF Pick
<1>2. PICK l : l = Order[first]
  OBVIOUS
<1>3. l \in Lanes /\ lanes[l] # <<>> /\ lanes[l] \in Seq(Jobs)
  <2>1. Order \in Seq(Lanes)
    <3>1. /\ <<"flush", "dictation">> \in Seq(Lanes) /\ <<"mic", "system">> \in Seq(Lanes)
          /\ <<"system", "mic">> \in Seq(Lanes) /\ <<"backfill">> \in Seq(Lanes) /\ <<>> \in Seq(Lanes)
      BY DEF Lanes
    <3> QED
      BY <3>1 DEF Order
  <2>2. l \in Lanes
    BY <1>2, <2>1 DEF Ready
  <2> QED
    BY <1>2, <2>2 DEF Ready, LaneInv, LaneFields
<1>4. PICK j : j = Head(lanes[l])
  OBVIOUS
<1>5. /\ j = lanes[l][1] /\ j \in Jobs /\ 1 \in DOMAIN lanes[l] /\ Tail(lanes[l]) \in Seq(Jobs)
      /\ \A i \in DOMAIN Tail(lanes[l]) : i \in Nat /\ i >= 1 /\ i + 1 \in DOMAIN lanes[l] /\ Tail(lanes[l])[i] = lanes[l][i + 1]
      /\ \A i \in DOMAIN lanes[l] : i # 1 => i - 1 \in DOMAIN Tail(lanes[l]) /\ Tail(lanes[l])[i - 1] = lanes[l][i]
  BY <1>3, <1>4, TailFacts
<1>6. /\ worker' = [at |-> "send", job |-> j, id |-> 0, retry |-> FALSE]
      /\ lanes' = [lanes EXCEPT ![l] = Tail(lanes[l])] /\ lastLive' \in Lanes \cup {"none"}
  BY <1>1, <1>2, <1>3, <1>4 DEF Idle, LaneInv, LaneFields
<1>7. worker.at = "pick" /\ worker.job = 0 /\ UNCHANGED <<jobs, busy, life, shutdown, stopper, permit, sidecar, pending, got, nextId, laneUsed>>
  BY DEF Pick, LaneInv, PlaceOK, AtRest, lifeVars, pipeVars
<1>8. LaneFields'
  <2>1. worker' \in [at : AtRest \cup InHand, job : 0..MaxJobs, id : Nat, retry : BOOLEAN]
    BY <1>5, <1>6 DEF InHand, Jobs
  <2>2. lanes' \in [Lanes -> Seq(Jobs)]
    BY <1>3, <1>5, <1>6 DEF LaneInv, LaneFields
  <2> QED
    BY <1>6, <1>7, <2>1, <2>2 DEF LaneInv, LaneFields
<1>9. lanes'[l] = Tail(lanes[l]) /\ \A k \in Lanes : k # l => lanes'[k] = lanes[k]
  BY <1>3, <1>6 DEF LaneInv, LaneFields
<1>10. \A k \in Lanes : \A i \in DOMAIN lanes'[k] :
         \/ k # l /\ i \in DOMAIN lanes[k] /\ lanes'[k][i] = lanes[k][i]
         \/ k = l /\ i \in Nat /\ i + 1 \in DOMAIN lanes[k] /\ lanes'[k][i] = lanes[k][i + 1]
  <2> SUFFICES ASSUME NEW k \in Lanes, NEW i \in DOMAIN lanes'[k]
               PROVE  \/ k # l /\ i \in DOMAIN lanes[k] /\ lanes'[k][i] = lanes[k][i]
                      \/ k = l /\ i \in Nat /\ i + 1 \in DOMAIN lanes[k] /\ lanes'[k][i] = lanes[k][i + 1]
    OBVIOUS
  <2>1. CASE k = l
    <3>1. lanes'[k] = Tail(lanes[l]) /\ i \in DOMAIN Tail(lanes[l])
      BY <1>9, <2>1
    <3> QED
      BY <1>5, <2>1, <3>1
  <2>2. CASE k # l
    BY <1>9, <2>2
  <2> QED
    BY <2>1, <2>2
<1>11. \A k \in Lanes, m \in Lanes : \A i \in DOMAIN lanes[k], n \in DOMAIN lanes[m] :
         lanes[k][i] = lanes[m][n] => k = m /\ i = n
  BY DEF LaneInv, QueueOK
<1>12. \A k \in Lanes : \A i \in DOMAIN lanes[k] : lanes[k][i] <= laneUsed.job /\ jobs[lanes[k][i]].answer = "none"
  BY DEF LaneInv, QueueOK
<1>13. QueueOK'
  <2>1. ASSUME NEW k \in Lanes, NEW i \in DOMAIN lanes'[k]
        PROVE  lanes'[k][i] <= laneUsed'.job /\ lanes'[k][i] # worker'.job /\ jobs'[lanes'[k][i]].answer = "none"
    <3>1. CASE k # l
      BY <1>3, <1>5, <1>6, <1>7, <1>10, <1>11, <1>12, <3>1
    <3>2. CASE k = l
      <4>1. i \in Nat /\ i + 1 \in DOMAIN lanes[k] /\ lanes'[k][i] = lanes[k][i + 1] /\ 1 \in DOMAIN lanes[k]
        BY <1>5, <1>10, <3>2
      <4>2. i >= 1
        <5>1. i \in DOMAIN Tail(lanes[l])
          BY <1>9, <3>2
        <5> QED
          BY <1>5, <5>1
      <4>3. lanes[k][i + 1] # lanes[k][1]
        BY <1>11, <4>1, <4>2
      <4> QED
        BY <1>5, <1>6, <1>7, <1>12, <3>2, <4>1, <4>3
    <3> QED
      BY <3>1, <3>2
  <2>2. ASSUME NEW k \in Lanes, NEW m \in Lanes, NEW i \in DOMAIN lanes'[k], NEW n \in DOMAIN lanes'[m],
               lanes'[k][i] = lanes'[m][n]
        PROVE  k = m /\ i = n
    <3>1. PICK a \in DOMAIN lanes[k] : lanes'[k][i] = lanes[k][a] /\ a = (IF k = l THEN i + 1 ELSE i) /\ (k = l => i \in Nat)
      BY <1>10
    <3>2. PICK b \in DOMAIN lanes[m] : lanes'[m][n] = lanes[m][b] /\ b = (IF m = l THEN n + 1 ELSE n) /\ (m = l => n \in Nat)
      BY <1>10
    <3>3. lanes[k][a] = lanes[m][b]
      BY <2>2, <3>1, <3>2
    <3>4. k = m /\ a = b
      BY <1>11, <3>3
    <3>5. CASE k = l
      BY <3>1, <3>2, <3>4, <3>5
    <3>6. CASE k # l
      BY <3>1, <3>2, <3>4, <3>6
    <3> QED
      BY <3>5, <3>6
  <2> QED
    BY <2>1, <2>2 DEF QueueOK
<1>14. PlaceOK'
  <2>1. \A k \in Jobs : Queued(k) => k = j \/ Queued(k)'
    <3> SUFFICES ASSUME NEW m \in Lanes, NEW i \in DOMAIN lanes[m], lanes[m][i] # j
                 PROVE  \E n \in DOMAIN lanes'[m] : lanes'[m][n] = lanes[m][i]
      BY DEF Queued
    <3>1. CASE m = l
      <4>1. i # 1
        BY <1>5, <3>1
      <4>2. i - 1 \in DOMAIN Tail(lanes[l]) /\ Tail(lanes[l])[i - 1] = lanes[l][i]
        BY <1>5, <3>1, <4>1
      <4> QED
        BY <1>9, <3>1, <4>2
    <3>2. CASE m # l
      BY <1>9, <3>2
    <3> QED
      BY <3>1, <3>2
  <2>2. worker'.at = "send" /\ worker'.job = j /\ j # 0 /\ j <= laneUsed.job /\ jobs[j].answer = "none"
    BY <1>3, <1>5, <1>6, <1>12 DEF Jobs
  <2>3. worker'.job \in 1..laneUsed.job
    BY <1>5, <2>2 DEF LaneInv, LaneFields, Jobs
  <2>4. \A k \in Jobs : IF k > laneUsed.job THEN jobs[k].lane = "none" ELSE jobs[k].answer = "none" => Queued(k)
    BY <1>7 DEF LaneInv, PlaceOK, Jobs
  <2> QED
    BY <1>7, <2>1, <2>2, <2>3, <2>4 DEF PlaceOK, AtRest
<1>15. StopOK'
  BY <1>6, <1>7 DEF LaneInv, StopOK
<1>16. PipesOK'
  BY <1>6, <1>7 DEF LaneInv, LaneFields, PipesOK, IdOK
<1>17. WorkerAwake' /\ AnswersMatch'
  BY <1>6 DEF WorkerAwake, AnswersMatch
<1> QED
  BY <1>8, <1>13, <1>14, <1>15, <1>16, <1>17 DEF LaneInv

LEMMA RestKeeps ==
    ASSUME LaneInv, PickNone \/ Park \/ Notified
    PROVE  LaneInv'
<1>1. /\ worker.at \in AtRest /\ worker'.at \in AtRest /\ worker'.job = 0 /\ worker'.id = 0 /\ worker.job = 0
      /\ worker' \in [at : AtRest \cup InHand, job : 0..MaxJobs, id : Nat, retry : BOOLEAN]
      /\ UNCHANGED <<jobs, lanes, lastLive, busy, life, shutdown, stopper, sidecar, pending, got, nextId, laneUsed>>
  <2>1. UNCHANGED <<jobs, lanes, lastLive, busy, life, shutdown, stopper, sidecar, pending, got, nextId, laneUsed>>
    BY DEF PickNone, Park, Notified, queueVars, lifeVars, pipeVars
  <2>2. worker.at \in AtRest /\ worker.job = 0
    BY DEF LaneInv, PlaceOK, AtRest, PickNone, Park, Notified
  <2>3. \E a \in AtRest : worker' = [at |-> a, job |-> 0, id |-> 0, retry |-> FALSE]
    BY DEF AtRest, PickNone, Park, Notified, Idle
  <2>4. MaxJobs \in Nat
    BY LaneAssumption
  <2> QED
    BY <2>1, <2>2, <2>3, <2>4
<1>2. permit' \in BOOLEAN
  BY Zenon DEF LaneInv, LaneFields, PickNone, Park, Notified
<1>3. LaneFields'
  BY <1>1, <1>2 DEF LaneInv, LaneFields
<1>4. QueueOK'
  BY <1>1 DEF LaneInv, LaneFields, QueueOK, Jobs
<1>5. PlaceOK'
  BY <1>1 DEF LaneInv, LaneFields, PlaceOK, Queued, AtRest, InHand, Jobs
<1>6. StopOK'
  BY <1>1 DEF LaneInv, StopOK
<1>7. PipesOK'
  BY <1>1 DEF LaneInv, LaneFields, PipesOK, IdOK
<1>8. AnswersMatch'
  BY <1>1 DEF AnswersMatch, AtRest
<1>9. WorkerAwake'
  <2>1. CASE Notified
    BY <2>1 DEF WorkerAwake, Notified, Idle
  <2>2. Ready' = Ready
    BY <1>1 DEF Ready, Order, Gated
  <2>3. CASE Park
    <3>1. permit' = permit /\ worker.at = "empty" /\ worker'.at = IF shutdown THEN "gone" ELSE "park"
      BY <2>3 DEF Park, Idle
    <3> QED
      BY <1>1, <2>2, <3>1 DEF LaneInv, WorkerAwake
  <2>4. CASE PickNone
    <3>1. worker'.at = "empty" /\ Ready = {}
      BY <2>4 DEF PickNone, Idle
    <3> QED
      BY <2>2, <3>1 DEF WorkerAwake
  <2> QED
    BY <2>1, <2>3, <2>4
<1> QED
  BY <1>3, <1>4, <1>5, <1>6, <1>7, <1>8, <1>9 DEF LaneInv

LEMMA DispatchKeeps ==
    ASSUME LaneInv, Dispatch
    PROVE  LaneInv'
<1> USE DEF Dispatch, Sent, queueVars, lifeVars
<1> DEFINE q == [id |-> nextId, job |-> worker.job]
<1>1. worker.at = "send" /\ worker.at \in InHand /\ worker.job \in Jobs /\ nextId \in Nat /\ nextId >= 1
  BY LaneAssumption DEF LaneInv, LaneFields, PlaceOK, InHand, Jobs
<1>2. /\ worker' \in [at : AtRest \cup InHand, job : 0..MaxJobs, id : Nat, retry : BOOLEAN]
      /\ worker'.at \in {"wait", "broken"} /\ worker'.job = worker.job /\ worker'.id = nextId
  BY <1>1 DEF LaneInv, LaneFields, InHand
<1>3. q \in Requests /\ q.id = nextId /\ q.job = worker.job
  BY <1>1 DEF Requests
<1>4. /\ sidecar.stdin \in Seq(Requests)
      /\ sidecar' \in [proc : {"loading", "up", "going", "gone"}, reader : {"up", "closing", "down"},
                       stdin : Seq(Requests), stdout : Seq(Responses)]
      /\ sidecar'.stdout = sidecar.stdout /\ sidecar'.stdin \in {sidecar.stdin, Append(sidecar.stdin, q)}
  <2>1. sidecar.stdin \in Seq(Requests)
    BY DEF LaneInv, LaneFields
  <2>2. Append(sidecar.stdin, q) \in Seq(Requests)
    BY <1>3, <2>1, AppendFacts
  <2>3. sidecar' = sidecar \/ sidecar' = [sidecar EXCEPT !.stdin = Append(sidecar.stdin, q)]
    OBVIOUS
  <2> HIDE DEF q
  <2> QED
    BY <2>1, <2>2, <2>3 DEF LaneInv, LaneFields
<1> HIDE DEF q
<1>5. nextId' = nextId + 1 /\ pending' = pending \cup {nextId} /\ got' = [kind |-> "none", job |-> 0] /\ MaxJobs \in Nat
  BY LaneAssumption DEF Silent
<1>6. LaneFields'
  <2>1. nextId' \in Nat /\ nextId' >= 1 /\ pending' \subseteq 1..nextId'
    BY <1>1, <1>5 DEF LaneInv, LaneFields
  <2>2. got' \in [kind : {"none", "ok", "error", "dropped"}, job : 0..MaxJobs]
    BY <1>5
  <2> QED
    BY <1>2, <1>4, <2>1, <2>2 DEF LaneInv, LaneFields
<1>7. QueueOK' /\ PlaceOK' /\ StopOK' /\ WorkerAwake'
  BY <1>1, <1>2, HandStays DEF InHand
<1>8. PipesOK'
  <2>1. \A n \in Nat : \A j : IdOK(n, j) => n >= 1 /\ n < nextId' /\ n # worker'.id
    BY <1>1, <1>2, <1>5 DEF IdOK
  <2>2. ASSUME NEW i \in DOMAIN sidecar'.stdin
        PROVE  LET n == sidecar'.stdin[i].id IN n >= 1 /\ n < nextId' /\ (n = worker'.id => sidecar'.stdin[i].job = worker'.job)
    <3>1. CASE i \in DOMAIN sidecar.stdin
      <4>1. sidecar'.stdin[i] = sidecar.stdin[i] /\ sidecar.stdin[i] \in Requests
        BY <1>3, <1>4, <3>1, AppendFacts
      <4>2. sidecar.stdin[i].id \in Nat /\ IdOK(sidecar.stdin[i].id, sidecar.stdin[i].job)
        BY <3>1, <4>1 DEF LaneInv, PipesOK, Requests
      <4> QED
        BY <2>1, <4>1, <4>2
    <3>2. CASE i \notin DOMAIN sidecar.stdin
      <4>1. sidecar'.stdin[i] = q
        BY <1>3, <1>4, <2>2, <3>2, AppendFacts
      <4> QED
        BY <1>1, <1>2, <1>3, <1>5, <4>1
    <3> QED
      BY <3>1, <3>2
  <2>3. ASSUME NEW i \in DOMAIN sidecar.stdout
        PROVE  sidecar.stdout[i].id \in Nat /\ IdOK(sidecar.stdout[i].id, sidecar.stdout[i].job)
    <3>1. sidecar.stdout[i] \in Responses
      BY <2>3 DEF LaneInv, LaneFields
    <3> QED
      BY <2>3, <3>1 DEF LaneInv, PipesOK, Responses
  <2>4. worker'.id < nextId'
    BY <1>1, <1>2, <1>5
  <2> QED
    BY <1>4, <2>1, <2>2, <2>3, <2>4 DEF PipesOK, IdOK
<1>9. AnswersMatch'
  BY <1>5 DEF AnswersMatch
<1> QED
  BY <1>6, <1>7, <1>8, <1>9 DEF LaneInv

LEMMA BrokenKeeps ==
    ASSUME LaneInv, Broken
    PROVE  LaneInv'
<1> USE DEF Broken, queueVars, lifeVars
<1>1. worker.at \in InHand
  BY DEF InHand
<1>2. /\ worker' \in [at : AtRest \cup InHand, job : 0..MaxJobs, id : Nat, retry : BOOLEAN]
      /\ worker'.at = "failed" /\ worker'.job = worker.job /\ worker'.id = worker.id
  BY DEF LaneInv, LaneFields, InHand
<1>3. LaneFields'
  BY <1>2 DEF LaneInv, LaneFields
<1>4. QueueOK' /\ PlaceOK' /\ StopOK' /\ WorkerAwake'
  BY <1>1, <1>2, HandStays DEF InHand
<1>5. PipesOK'
  BY <1>2 DEF LaneInv, PipesOK, IdOK
<1>6. AnswersMatch'
  BY <1>2 DEF AnswersMatch
<1> QED
  BY <1>3, <1>4, <1>5, <1>6 DEF LaneInv

LEMMA RepliedKeeps ==
    ASSUME LaneInv, UNCHANGED <<lanes, lastLive, busy, lifeVars, permit, pipeVars, laneUsed>>, worker.at \in InHand,
           NEW a \in Answers \ {"none"}, Answer(worker.job, a), worker' = Idle
    PROVE  LaneInv'
<1> USE DEF lifeVars, pipeVars
<1>1. MaxJobs \in Nat /\ worker' = [at |-> "pick", job |-> 0, id |-> 0, retry |-> FALSE]
  BY LaneAssumption DEF Idle
<1>2. jobs' \in [Jobs -> [lane : Lanes \cup {"none"}, answer : Answers]] /\ QueueOK' /\ PlaceOK' /\ WorkerAwake' /\ AnswersMatch'
  <2>1. jobs' = [jobs EXCEPT ![worker.job].answer = a] /\ lanes' = lanes /\ laneUsed'.job = laneUsed.job
    BY DEF Answer
  <2>2. worker'.at \in {"pick", "gone"} /\ worker'.job = 0 /\ worker'.id = 0
    BY <1>1
  <2> QED
    BY Zenon, <2>1, <2>2, HandEmptied
<1>3. worker' \in [at : AtRest \cup InHand, job : 0..MaxJobs, id : Nat, retry : BOOLEAN]
  BY <1>1 DEF AtRest
<1>4. LaneFields'
  <2>1. UNCHANGED <<lanes, lastLive, busy, life, shutdown, stopper, permit, sidecar, pending, got, nextId, laneUsed>>
    OBVIOUS
  <2>2. LaneFields
    BY DEF LaneInv
  <2> QED
    BY <1>2, <1>3, <2>1, <2>2, Zenon DEF LaneFields
<1>5. StopOK'
  BY <1>1 DEF LaneInv, StopOK, InHand
<1>6. PipesOK'
  BY <1>1 DEF LaneInv, LaneFields, PipesOK, IdOK
<1> QED
  BY <1>2, <1>4, <1>5, <1>6 DEF LaneInv

LEMMA FailedKeeps ==
    ASSUME LaneInv, Failed
    PROVE  LaneInv'
<1> USE DEF Failed
<1>1. worker.at \in InHand
  BY DEF InHand
<1>2. CASE worker.retry \/ IsRunning
  <2>1. "failed" \in Answers \ {"none"}
    BY DEF Answers
  <2> QED
    BY <1>1, <1>2, <2>1, RepliedKeeps
<1>3. CASE ~(worker.retry \/ IsRunning)
  <2> USE DEF lifeVars, pipeVars
  <2>1. /\ worker' \in [at : AtRest \cup InHand, job : 0..MaxJobs, id : Nat, retry : BOOLEAN]
        /\ worker'.at = "respawn" /\ worker'.job = worker.job /\ worker'.id = worker.id /\ jobs' = jobs
    <3>1. worker' = [worker EXCEPT !.at = "respawn"] /\ jobs' = jobs
      BY <1>3
    <3> QED
      BY <3>1 DEF LaneInv, LaneFields, InHand
  <2>2. LaneFields'
    BY <2>1 DEF LaneInv, LaneFields
  <2>3. QueueOK' /\ PlaceOK' /\ StopOK' /\ WorkerAwake'
    BY <1>1, <2>1, HandStays DEF InHand, queueVars
  <2>4. PipesOK' /\ AnswersMatch'
    BY <2>1 DEF LaneInv, PipesOK, IdOK, AnswersMatch
  <2> QED
    BY <2>2, <2>3, <2>4 DEF LaneInv
<1> QED
  BY <1>2, <1>3

LEMMA RespawnKeeps ==
    ASSUME LaneInv, Respawn
    PROVE  LaneInv'
<1>0. worker.at = "respawn" /\ worker.at \in InHand /\ MaxJobs \in Nat
  BY LaneAssumption DEF Respawn, InHand
<1>1. CASE worker' = [worker EXCEPT !.at = "send", !.retry = TRUE] /\ sidecar' = Fresh /\ UNCHANGED <<jobs, laneUsed>>
  <2> USE DEF Respawn, lifeVars
  <2>1. /\ worker' \in [at : AtRest \cup InHand, job : 0..MaxJobs, id : Nat, retry : BOOLEAN]
        /\ worker'.at = "send" /\ worker'.job = worker.job /\ worker'.id = worker.id
    BY <1>1 DEF LaneInv, LaneFields, InHand
  <2>2. /\ sidecar' = [proc |-> "loading", reader |-> "up", stdin |-> <<>>, stdout |-> <<>>]
        /\ <<>> \in Seq(Requests) /\ <<>> \in Seq(Responses)
    BY <1>1 DEF Fresh
  <2>3. sidecar' \in [proc : {"loading", "up", "going", "gone"}, reader : {"up", "closing", "down"},
                      stdin : Seq(Requests), stdout : Seq(Responses)]
    BY <2>2
  <2>4. pending' \subseteq 1..nextId'
    OBVIOUS
  <2>5. LaneFields'
    BY <1>1, <2>1, <2>3, <2>4 DEF LaneInv, LaneFields
  <2>6. QueueOK' /\ PlaceOK' /\ StopOK' /\ WorkerAwake'
    BY <1>0, <1>1, <2>1, HandStays DEF InHand, queueVars
  <2>7. PipesOK' /\ AnswersMatch'
    BY <2>1, <2>2 DEF LaneInv, PipesOK, AnswersMatch
  <2> QED
    BY <2>5, <2>6, <2>7 DEF LaneInv
<1>2. CASE /\ Spend("respawn", MaxRespawnFailures) /\ Answer(worker.job, "dead") /\ worker' = Idle
           /\ sidecar' = [sidecar EXCEPT !.proc = "gone"]
  <2> USE DEF Respawn, lifeVars
  <2>1. worker' = [at |-> "pick", job |-> 0, id |-> 0, retry |-> FALSE]
    BY <1>2 DEF Idle
  <2>2. laneUsed' \in [job : Nat, toggle : Nat, crash : Nat, respawn : Nat] /\ laneUsed'.job = laneUsed.job
    BY <1>2, SpendFacts
  <2>3. "dead" \in Answers \ {"none"}
    BY DEF Answers
  <2>4. jobs' \in [Jobs -> [lane : Lanes \cup {"none"}, answer : Answers]] /\ QueueOK' /\ PlaceOK' /\ WorkerAwake' /\ AnswersMatch'
    <3>1. jobs' = [jobs EXCEPT ![worker.job].answer = "dead"] /\ lanes' = lanes
      BY <1>2 DEF Answer
    <3>2. worker'.at \in {"pick", "gone"} /\ worker'.job = 0 /\ worker'.id = 0
      BY <2>1
    <3> QED
      BY Zenon, <1>0, <2>2, <2>3, <3>1, <3>2, HandEmptied
  <2>5. worker' \in [at : AtRest \cup InHand, job : 0..MaxJobs, id : Nat, retry : BOOLEAN]
    BY <1>0, <2>1 DEF AtRest
  <2>6. sidecar' \in [proc : {"loading", "up", "going", "gone"}, reader : {"up", "closing", "down"},
                      stdin : Seq(Requests), stdout : Seq(Responses)]
        /\ sidecar'.stdin = sidecar.stdin /\ sidecar'.stdout = sidecar.stdout
    BY <1>2 DEF LaneInv, LaneFields
  <2>7. pending' \subseteq 1..nextId'
    OBVIOUS
  <2>8. LaneFields'
    <3>1. UNCHANGED <<lanes, lastLive, busy, life, shutdown, stopper, permit, got, nextId>>
      OBVIOUS
    <3>2. laneUsed'.job <= MaxJobs
      BY <2>2 DEF LaneInv, LaneFields
    <3> HIDE DEF Respawn
    <3> QED
      BY <2>2, <2>4, <2>5, <2>6, <2>7, <3>1, <3>2 DEF LaneInv, LaneFields
  <2>9. StopOK'
    BY <1>0, <2>1 DEF LaneInv, StopOK
  <2>10. PipesOK'
    BY <2>1, <2>6 DEF LaneInv, LaneFields, PipesOK, IdOK
  <2> QED
    BY <2>4, <2>8, <2>9, <2>10 DEF LaneInv
<1> QED
  BY <1>1, <1>2 DEF Respawn

------------------------------------------------------------------------------
(* shutdown_client.                                                            *)

LEMMA StopFlagKeeps ==
    ASSUME LaneInv, StopFlag \/ StopState \/ StopTake
    PROVE  LaneInv'
<1>1. /\ UNCHANGED <<jobs, lanes, lastLive, busy, worker, pending, got, nextId, laneUsed>>
      /\ sidecar' = sidecar \/ sidecar' = [sidecar EXCEPT !.proc = "gone"]
      /\ shutdown' \in BOOLEAN /\ permit' \in BOOLEAN
      /\ life' \in {"running", "shutting_down", "terminal"}
      /\ stopper' \in {"idle", "flagged", "join", "cancel", "take", "done"}
  <2>1. shutdown' \in BOOLEAN /\ permit' \in BOOLEAN
    BY Zenon DEF StopFlag, StopState, StopTake, LaneInv, LaneFields
  <2> QED
    BY <2>1 DEF StopFlag, StopState, StopTake, queueVars, pipeVars, LaneInv, LaneFields
<1>2. sidecar' \in [proc : {"loading", "up", "going", "gone"}, reader : {"up", "closing", "down"},
                    stdin : Seq(Requests), stdout : Seq(Responses)]
      /\ sidecar'.stdin = sidecar.stdin /\ sidecar'.stdout = sidecar.stdout
  BY <1>1 DEF LaneInv, LaneFields
<1>3. LaneFields'
  BY <1>1, <1>2 DEF LaneInv, LaneFields
<1>4. QueueOK'
  BY <1>1 DEF LaneInv, QueueOK
<1>5. PlaceOK'
  BY <1>1 DEF LaneInv, PlaceOK, Queued
<1>6. PipesOK' /\ AnswersMatch'
  BY <1>1, <1>2 DEF LaneInv, PipesOK, IdOK, AnswersMatch
<1>7. StopOK'
  <2>1. CASE StopFlag
    BY <1>1, <2>1 DEF StopFlag, LaneInv, StopOK
  <2>2. CASE StopState
    BY <1>1, <2>2 DEF StopState, LaneInv, StopOK
  <2>3. CASE StopTake
    BY <1>1, <2>3 DEF StopTake, LaneInv, StopOK
  <2> QED
    BY <2>1, <2>2, <2>3
<1>8. WorkerAwake'
  <2>1. CASE StopFlag
    BY <2>1 DEF StopFlag, WorkerAwake
  <2>2. CASE StopState
    BY <2>2 DEF StopState, WorkerAwake
  <2>3. CASE StopTake
    BY <1>1, <2>3 DEF StopTake, WorkerAwake, LaneInv, StopOK
  <2> QED
    BY <2>1, <2>2, <2>3
<1> QED
  BY <1>3, <1>4, <1>5, <1>6, <1>7, <1>8 DEF LaneInv

LEMMA StopJoinKeeps ==
    ASSUME LaneInv, StopJoin
    PROVE  LaneInv'
<1>1. /\ stopper = "join" /\ stopper' = "cancel"
      /\ UNCHANGED <<jobs, lanes, lastLive, busy, life, shutdown, permit, worker, sidecar, pending, got, nextId, laneUsed>>
  BY DEF StopJoin, queueVars, pipeVars
<1>2. LaneFields' /\ QueueOK'
  BY <1>1 DEF LaneInv, LaneFields, QueueOK
<1>3. PlaceOK' /\ StopOK'
  BY <1>1 DEF LaneInv, PlaceOK, Queued, StopOK
<1>4. Ready' = Ready
  BY <1>1 DEF Ready, Order, Gated
<1>5. PipesOK' /\ AnswersMatch' /\ WorkerAwake'
  BY <1>1, <1>4 DEF LaneInv, PipesOK, IdOK, AnswersMatch, WorkerAwake
<1> QED
  BY <1>2, <1>3, <1>5 DEF LaneInv

LEMMA DropWorkerKeeps ==
    ASSUME LaneInv, DropWorker
    PROVE  LaneInv'
<1>0. /\ MaxJobs \in Nat /\ worker' = [Idle EXCEPT !.at = "gone"]
      /\ jobs' = IF worker.job = 0 THEN jobs ELSE [jobs EXCEPT ![worker.job].answer = "dropped"]
      /\ sidecar' = sidecar \/ sidecar' = [sidecar EXCEPT !.proc = "gone"]
      /\ UNCHANGED <<lanes, lastLive, busy, life, shutdown, stopper, permit, pending, got, nextId, laneUsed>>
  BY LaneAssumption DEF DropWorker, lifeVars
<1>1. worker' = [at |-> "gone", job |-> 0, id |-> 0, retry |-> FALSE]
  BY <1>0 DEF Idle
<1>2. jobs' \in [Jobs -> [lane : Lanes \cup {"none"}, answer : Answers]] /\ QueueOK' /\ PlaceOK' /\ WorkerAwake' /\ AnswersMatch'
  <2>1. CASE worker.at \in InHand
    <3>1. worker.job # 0 /\ "dropped" \in Answers \ {"none"}
      BY <2>1 DEF LaneInv, LaneFields, PlaceOK, Answers
    <3> QED
      <4>1. jobs' = [jobs EXCEPT ![worker.job].answer = "dropped"] /\ lanes' = lanes /\ laneUsed'.job = laneUsed.job
        BY <1>0, <3>1
      <4>2. worker'.at \in {"pick", "gone"} /\ worker'.job = 0 /\ worker'.id = 0
        BY <1>1
      <4> QED
        BY Zenon, <2>1, <3>1, <4>1, <4>2, HandEmptied
  <2>2. CASE worker.at \in AtRest
    <3>1. worker.job = 0 /\ jobs' = jobs
      BY <1>0, <2>2 DEF LaneInv, PlaceOK
    <3>2. QueueOK'
      BY <1>0, <1>1, <3>1 DEF LaneInv, QueueOK
    <3>3. PlaceOK'
      BY <1>0, <1>1, <3>1 DEF LaneInv, PlaceOK, Queued, InHand, AtRest
    <3>4. WorkerAwake' /\ AnswersMatch'
      BY <1>1 DEF WorkerAwake, AnswersMatch
    <3> QED
      BY <3>1, <3>2, <3>3, <3>4 DEF LaneInv, LaneFields
  <2>3. worker.at \in AtRest \cup InHand
    BY DEF LaneInv, LaneFields
  <2> QED
    BY <2>1, <2>2, <2>3
<1>3. worker' \in [at : AtRest \cup InHand, job : 0..MaxJobs, id : Nat, retry : BOOLEAN]
  <2>1. "gone" \in AtRest \cup InHand /\ 0 \in 0..MaxJobs /\ 0 \in Nat /\ FALSE \in BOOLEAN
    BY <1>0 DEF AtRest
  <2> QED
    BY ONLY <1>1, <2>1
<1>4. sidecar' \in [proc : {"loading", "up", "going", "gone"}, reader : {"up", "closing", "down"},
                    stdin : Seq(Requests), stdout : Seq(Responses)]
      /\ sidecar'.stdin = sidecar.stdin /\ sidecar'.stdout = sidecar.stdout
  <2>1. sidecar \in [proc : {"loading", "up", "going", "gone"}, reader : {"up", "closing", "down"},
                     stdin : Seq(Requests), stdout : Seq(Responses)]
    BY DEF LaneInv, LaneFields
  <2>2. sidecar' = sidecar \/ sidecar' = [sidecar EXCEPT !.proc = "gone"]
    BY <1>0
  <2> QED
    BY ONLY <2>1, <2>2
<1>5. LaneFields'
  <2>1. LaneFields
    BY DEF LaneInv
  <2> QED
    BY <1>0, <1>2, <1>3, <1>4, <2>1, Zenon DEF LaneFields
<1>6. StopOK'
  BY <1>0, <1>1 DEF LaneInv, StopOK
<1>7. PipesOK'
  <2>1. worker'.id = 0 /\ nextId' = nextId /\ nextId \in Nat /\ worker.id \in Nat /\ worker.id < nextId
    <3>1. worker'.id = 0
      BY ONLY <1>1
    <3> QED
      BY <1>0, <3>1 DEF LaneInv, LaneFields, PipesOK
  <2>2. \A n, j : IdOK(n, j) => IdOK(n, j)'
    BY ONLY <2>1 DEF IdOK
  <2>3. PipesOK
    BY DEF LaneInv
  <2> QED
    BY ONLY <1>4, <2>1, <2>2, <2>3 DEF PipesOK
<1> QED
  BY <1>2, <1>5, <1>6, <1>7 DEF LaneInv

LEMMA StopCancelKeeps ==
    ASSUME LaneInv, StopCancel
    PROVE  LaneInv'
<1> DEFINE inLanes == {j \in Jobs : \E l \in Lanes : \E i \in DOMAIN lanes[l] : lanes[l][i] = j}
<1>1. /\ stopper = "cancel" /\ stopper' = "take" /\ lanes' = [l \in Lanes |-> <<>>]
      /\ jobs' = [j \in Jobs |-> IF j \in inLanes THEN [jobs[j] EXCEPT !.answer = "cancelled"] ELSE jobs[j]]
      /\ UNCHANGED <<lastLive, busy, life, shutdown, permit, worker, sidecar, pending, got, nextId, laneUsed>>
  BY DEF StopCancel, pipeVars
<1>2. shutdown /\ worker.job \notin inLanes
  BY <1>1 DEF LaneInv, StopOK, QueueOK
<1>3. jobs \in [Jobs -> [lane : Lanes \cup {"none"}, answer : Answers]]
  BY DEF LaneInv, LaneFields
<1>4. \A j \in Jobs : j \in inLanes <=> Queued(j)
  BY DEF Queued
<1> HIDE DEF inLanes
<1>5. \A j \in Jobs : /\ jobs'[j].lane = jobs[j].lane
                      /\ jobs'[j].answer = IF j \in inLanes THEN "cancelled" ELSE jobs[j].answer
  BY <1>1, <1>3
<1>6. jobs' \in [Jobs -> [lane : Lanes \cup {"none"}, answer : Answers]]
  BY <1>1, <1>3 DEF Answers
<1>7. LaneFields'
  BY <1>1, <1>6 DEF LaneInv, LaneFields
<1>8. QueueOK' /\ PipesOK' /\ AnswersMatch'
  BY <1>1 DEF LaneInv, QueueOK, PipesOK, IdOK, AnswersMatch
<1>9. PlaceOK'
  <2>1. ASSUME NEW j \in Jobs
        PROVE  IF j > laneUsed.job THEN jobs'[j].lane = "none"
               ELSE jobs'[j].answer = "none" => j = worker.job
    <3>1. IF j > laneUsed.job THEN jobs[j].lane = "none"
          ELSE jobs[j].answer = "none" => j = worker.job \/ j \in inLanes
      BY <1>4 DEF LaneInv, PlaceOK
    <3> QED
      BY <1>5, <3>1
  <2>2. worker.at \in InHand => jobs'[worker.job].answer = "none"
    <3>1. worker.at \in InHand => worker.job \in Jobs /\ jobs[worker.job].answer = "none"
      BY LaneAssumption DEF LaneInv, LaneFields, PlaceOK, Jobs
    <3> QED
      BY <1>2, <1>5, <3>1
  <2> QED
    BY <1>1, <2>1, <2>2 DEF LaneInv, PlaceOK
<1>11. WorkerAwake'
  BY <1>1, <1>2 DEF LaneInv, WorkerAwake
<1>10. StopOK'
  BY <1>1 DEF LaneInv, StopOK
<1> QED
  BY <1>7, <1>8, <1>9, <1>10, <1>11 DEF LaneInv

LEMMA LaneStutters ==
    ASSUME LaneInv, UNCHANGED laneVars
    PROVE  LaneInv'
<1> USE DEF laneVars
<1>1. LaneFields'
  BY DEF LaneInv, LaneFields
<1>2. QueueOK' /\ PlaceOK' /\ StopOK' /\ WorkerAwake'
  BY SchedulerStays DEF queueVars, lifeVars
<1>3. PipesOK' /\ AnswersMatch'
  BY DEF LaneInv, PipesOK, IdOK, AnswersMatch
<1> QED
  BY <1>1, <1>2, <1>3 DEF LaneInv

LEMMA LaneIsSound == LaneInv => LanesSound
<1> SUFFICES ASSUME LaneInv PROVE LanesSound
  OBVIOUS
<1>1. LaneTypeOK
  BY DEF LaneInv, LaneFields, QueueOK, LaneTypeOK
<1>2. NoneStranded
  <2> SUFFICES ASSUME life = "terminal", NEW j \in Jobs, jobs[j].lane # "none", jobs[j].answer = "none",
                      j # worker.job
               PROVE  FALSE
    BY DEF NoneStranded, Accepted
  <2>1. \A l \in Lanes : lanes[l] = <<>>
    BY DEF LaneInv, StopOK
  <2>2. Queued(j)
    BY DEF LaneInv, PlaceOK
  <2> QED
    BY <2>1, <2>2 DEF Queued
<1> QED
  BY <1>1, <1>2 DEF LaneInv, LanesSound

(* For any jobs, producers, crashes, respawns and timeouts (scheduler.rs and   *)
(* client.rs): a job the scheduler accepted is answered before it is terminal, *)
(* or is dropped with an aborted worker, the worker never waits beside work it may take or past the shutdown, and an *)
(* answer reaches no other job than its own, however late it comes.            *)
THEOREM LanesSoundHolds == LaneSpec => []LanesSound
<1>1. LaneInv /\ [LaneNext]_laneVars => LaneInv'
  <2> SUFFICES ASSUME LaneInv, [LaneNext]_laneVars PROVE LaneInv'
    OBVIOUS
  <2>1. CASE Replied
    <3>1. worker.at \in InHand /\ "ok" \in Answers \ {"none"}
      BY <2>1 DEF Replied, InHand, Answers
    <3> QED
      BY <2>1, <3>1, RepliedKeeps DEF Replied
  <2>2. CASE NoClient
    <3>1. worker.at \in InHand /\ "dead" \in Answers \ {"none"}
      BY <2>2 DEF NoClient, InHand, Answers
    <3> QED
      BY <2>2, <3>1, RepliedKeeps DEF NoClient
  <2> QED
    BY <2>1, <2>2, SubmitKeeps, SetBusyKeeps, PickKeeps, RestKeeps, DispatchKeeps, BrokenKeeps, FailedKeeps,
       RespawnKeeps, ProcessKeeps, ServeKeeps, RouteKeeps, ReaderEndsKeeps, StopFlagKeeps, StopJoinKeeps, DropWorkerKeeps,
       StopCancelKeeps, LaneStutters DEF LaneNext, WorkerStep, StopStep
<1> QED
  BY <1>1, LaneInitial, LaneIsSound, PTL DEF LaneSpec

------------------------------------------------------------------------------
(* The slots, for any number of runs, changes and crashes.                   *)
(*                                                                           *)
(* A slot has one holder at a time: the run that reserved it, until the run  *)
(* vacates it or the task it spawned has reverted it; where the holder is    *)
(* follows from the state of the slot.  A session between the spawn of its   *)
(* loop and its last flush is marked present.                                *)
Held(r)    == run[r].at \in Starting \cup {"dropRevert", "live", "flush", "close", "vacate"}
Ahead(r)   == run[r].kind = "dictation" /\ run[r].at \in Starting \cup Looping
HolderOK ==
  /\ \A q, r \in Runs : Held(q) /\ Held(r) /\ run[q].kind = run[r].kind => q = r
  /\ \A r \in Runs : run[r].at \in Starting \cup {"dropRevert"} => slot[run[r].kind] = "starting"
  /\ \A r \in Runs : run[r].at \in {"live", "flush", "close", "vacate"}
                       => slot[run[r].kind] \in {"running", "stopping"}
  /\ \A k \in reverting : slot[k] = "starting" /\ \A r \in Runs : Held(r) => run[r].kind # k
WindowOK  == DictationFenced
PresentOK == raced \/ present \/ Spawning = {}
SlotInv   == SlotTypeOK /\ HolderOK /\ WindowOK /\ PresentOK

RunStates == [kind : Kinds, at : Points]

(* One run's next step.                                                      *)
LEMMA RunMoves ==
    ASSUME SlotTypeOK, NEW r \in Runs, NEW p \in Points, At(r, p)
    PROVE  /\ run' \in [Runs -> RunStates] /\ run'[r].at = p
           /\ p # "over" => run'[r].kind = run[r].kind
           /\ \A q \in Runs \ {r} : run'[q] = run[q]
<1>1. run \in [Runs -> RunStates]
  BY DEF SlotTypeOK, RunStates
<1> PICK e : e = [kind |-> IF p = "over" THEN "session" ELSE run[r].kind, at |-> p]
  OBVIOUS
<1>2. e \in RunStates /\ e.at = p /\ (p # "over" => e.kind = run[r].kind)
  BY <1>1 DEF RunStates, Kinds
<1>3. run' = [run EXCEPT ![r] = e]
  BY <1>1 DEF At
<1> QED
  BY <1>1, <1>2, <1>3

(* A holder that goes on, or a run that has let go, leaves the slots to their *)
(* holders.                                                                   *)
LEMMA HolderMoves ==
    ASSUME SlotTypeOK, HolderOK, NEW r \in Runs, NEW p \in Points, At(r, p), UNCHANGED <<slot, reverting>>,
           \/ run[r].at \in Starting /\ p \in Starting \cup {"dropRevert"}
           \/ run[r].at \in {"live", "flush", "close"} /\ p \in {"flush", "close", "vacate"}
           \/ p \in {"unmark", "over"}
    PROVE  HolderOK'
<1>1. /\ run' \in [Runs -> RunStates] /\ run'[r].at = p /\ (p # "over" => run'[r].kind = run[r].kind)
      /\ \A q \in Runs \ {r} : run'[q] = run[q]
  BY RunMoves
<1>2. \A q \in Runs : Held(q)' => Held(q) /\ run'[q].kind = run[q].kind
  BY <1>1 DEF Held, Starting
<1>3. \A q \in Runs : run'[q].at \in Starting \cup {"dropRevert"} =>
          run[q].at \in Starting \cup {"dropRevert"} /\ run'[q].kind = run[q].kind
  BY <1>1 DEF Starting
<1>4. \A q \in Runs : run'[q].at \in {"live", "flush", "close", "vacate"} =>
          run[q].at \in {"live", "flush", "close", "vacate"} /\ run'[q].kind = run[q].kind
  BY <1>1 DEF Starting
<1>5. \A q, u \in Runs : Held(q)' /\ Held(u)' /\ run'[q].kind = run'[u].kind => q = u
  <2> SUFFICES ASSUME NEW q \in Runs, NEW u \in Runs, Held(q)', Held(u)', run'[q].kind = run'[u].kind
               PROVE  q = u
    OBVIOUS
  <2>1. Held(q) /\ Held(u) /\ run[q].kind = run[u].kind
    BY <1>2
  <2> QED
    BY <2>1, Zenon DEF HolderOK
<1>6. \A k \in reverting' : slot'[k] = "starting" /\ \A q \in Runs : Held(q)' => run'[q].kind # k
  <2>1. \A k \in reverting : slot[k] = "starting" /\ \A q \in Runs : Held(q) => run[q].kind # k
    BY Zenon DEF HolderOK
  <2> QED
    BY <1>2, <2>1
<1>7. \A q \in Runs : run'[q].at \in Starting \cup {"dropRevert"} => slot'[run'[q].kind] = "starting"
  BY <1>3, Zenon DEF HolderOK
<1>8. \A q \in Runs : run'[q].at \in {"live", "flush", "close", "vacate"}
                        => slot'[run'[q].kind] \in {"running", "stopping"}
  BY <1>4, Zenon DEF HolderOK
<1> QED
  BY <1>5, <1>6, <1>7, <1>8 DEF HolderOK

LEMMA FencesStay ==
    ASSUME WindowOK, PresentOK, UNCHANGED <<window, raced, present>>,
           \A q \in Runs : Ahead(q)' => Ahead(q), Spawning' \subseteq Spawning
    PROVE  WindowOK' /\ PresentOK'
<1>1. WindowOK'
  BY Zenon DEF WindowOK, DictationFenced, Ahead
<1>2. PresentOK'
  BY DEF PresentOK
<1> QED
  BY <1>1, <1>2

(* Steps that only move a run.                                               *)
LEMMA PlainSteps ==
    ASSUME SlotInv, NEW r \in Runs,
           \/ PreflightRun(r) \/ Setup(r) \/ PublishInbox(r) \/ FailStart(r)
           \/ LoopStops(r) \/ FlushEnds(r) \/ LoopDies(r)
    PROVE  SlotInv'
<1>0. SlotTypeOK /\ HolderOK /\ WindowOK /\ PresentOK
  BY DEF SlotInv
<1>1. UNCHANGED <<slot, reverting, window, present, raced, broker>>
      /\ inbox' \in {inbox, r} /\ intents' \in SUBSET intents
  BY <1>0 DEF PreflightRun, Setup, PublishInbox, FailStart, LoopStops, FlushEnds, LoopDies
<1>2. ASSUME NEW p \in Points, At(r, p),
             \/ run[r].at \in Starting /\ p \in (Starting \ {"install"}) \cup {"dropRevert"}
             \/ run[r].at \in {"live", "flush"} /\ p \in {"flush", "close"}
      PROVE  SlotInv'
  <2>1. /\ run' \in [Runs -> RunStates] /\ run'[r].at = p /\ run'[r].kind = run[r].kind
        /\ \A q \in Runs \ {r} : run'[q] = run[q]
    BY <1>0, <1>2, RunMoves DEF Starting
  <2>2. HolderOK'
    BY <1>0, <1>1, <1>2, HolderMoves
  <2>3. (\A q \in Runs : Ahead(q)' => Ahead(q)) /\ Spawning' \subseteq Spawning
    BY <1>2, <2>1 DEF Ahead, Spawning, LiveSessions, Starting, Looping
  <2>4. WindowOK' /\ PresentOK'
    BY <1>0, <1>1, <2>3, FencesStay
  <2>5. SlotTypeOK'
    BY <1>0, <1>1, <2>1 DEF SlotTypeOK, RunStates
  <2> QED
    BY <2>2, <2>4, <2>5 DEF SlotInv
<1> QED
  <2>1. {"setup", "publish", "lookup", "dropRevert", "flush", "close"} \subseteq Points
        /\ {"preflight", "setup", "publish", "lookup"} \subseteq Starting
        /\ {"setup", "publish", "lookup"} \subseteq Starting \ {"install"}
    BY DEF Points, Starting, Looping
  <2> QED
    BY <1>2, <2>1 DEF PreflightRun, Setup, PublishInbox, FailStart, LoopStops, FlushEnds, LoopDies

LEMMA MarkPresentKeeps ==
    ASSUME SlotInv, NEW r \in Runs, MarkPresent(r)
    PROVE  SlotInv'
<1>0. SlotTypeOK /\ HolderOK /\ WindowOK /\ PresentOK /\ "install" \in Points
  BY DEF SlotInv, Points, Starting
<1>1. /\ run' \in [Runs -> RunStates] /\ run'[r].at = "install" /\ run'[r].kind = run[r].kind
      /\ \A q \in Runs \ {r} : run'[q] = run[q]
  BY <1>0, RunMoves DEF MarkPresent
<1>2. HolderOK'
  BY <1>0, HolderMoves DEF MarkPresent, Starting
<1>3. WindowOK'
  <2>1. \A q \in Runs : Ahead(q)' => Ahead(q)
    BY <1>1 DEF Ahead, Starting, MarkPresent
  <2> QED
    BY <1>0, <2>1, Zenon DEF MarkPresent, WindowOK, DictationFenced, Ahead
<1>4. present' \in BOOLEAN /\ (present => present') /\ (run[r].kind = "session" => present')
  BY DEF MarkPresent
<1>5. PresentOK'
  <2>1. CASE run[r].kind = "session"
    BY <1>4, <2>1 DEF PresentOK
  <2>2. CASE run[r].kind # "session"
    <3>1. Spawning' \subseteq Spawning
      BY <1>1, <2>2 DEF Spawning, LiveSessions, Looping
    <3> QED
      BY <1>0, <1>4, <3>1 DEF PresentOK, MarkPresent
  <2> QED
    BY <2>1, <2>2
<1>6. SlotTypeOK'
  BY <1>0, <1>1, <1>4 DEF SlotTypeOK, RunStates, MarkPresent
<1> QED
  BY <1>2, <1>3, <1>5, <1>6 DEF SlotInv

(* A slot handed on: its holder's move and the slot's are one step.          *)
LEMMA InstallKeeps ==
    ASSUME SlotInv, NEW r \in Runs, Install(r)
    PROVE  SlotInv'
<1>0. SlotTypeOK /\ HolderOK /\ WindowOK /\ PresentOK /\ "live" \in Points
  BY DEF SlotInv, Points, Looping
<1>1. /\ run' \in [Runs -> RunStates] /\ run'[r].at = "live" /\ run'[r].kind = run[r].kind
      /\ \A q \in Runs \ {r} : run'[q] = run[q]
  BY <1>0, RunMoves DEF Install
<1>2. run[r].at = "install" /\ Held(r) /\ Held(r)' /\ slot' = [slot EXCEPT ![run[r].kind] = "running"]
      /\ UNCHANGED <<reverting, window, present, raced, inbox, intents, broker>>
  BY <1>1 DEF Install, Held, Starting
<1>3. HolderOK'
  <2>1. \A q \in Runs : (Held(q)' <=> Held(q)) /\ run'[q].kind = run[q].kind
    BY <1>1, <1>2 DEF Held
  <2>2. \A q, u \in Runs : Held(q) /\ Held(u) /\ run[q].kind = run[u].kind => q = u
    BY <1>0, Zenon DEF HolderOK
  <2>3. \A q \in Runs \ {r} : Held(q) => slot'[run[q].kind] = slot[run[q].kind]
    BY <1>0, <1>2, <2>2 DEF SlotTypeOK
  <2>4. slot'[run[r].kind] = "running"
    BY <1>0, <1>2 DEF SlotTypeOK
  <2>5. \A k \in reverting : slot[k] = "starting" /\ \A q \in Runs : Held(q) => run[q].kind # k
    BY <1>0, Zenon DEF HolderOK
  <2>6. \A q \in Runs : run'[q].at \in Starting \cup {"dropRevert"} => slot'[run'[q].kind] = "starting"
    <3> SUFFICES ASSUME NEW q \in Runs, run'[q].at \in Starting \cup {"dropRevert"}
                 PROVE  slot'[run'[q].kind] = "starting"
      OBVIOUS
    <3>1. q # r
      BY <1>1 DEF Starting
    <3>2. run'[q] = run[q] /\ Held(q)
      BY <1>1, <3>1 DEF Held
    <3> QED
      BY <1>0, <2>3, <3>1, <3>2 DEF HolderOK
  <2>7. \A q \in Runs : run'[q].at \in {"live", "flush", "close", "vacate"}
                          => slot'[run'[q].kind] \in {"running", "stopping"}
    <3> SUFFICES ASSUME NEW q \in Runs, run'[q].at \in {"live", "flush", "close", "vacate"}, q # r
                 PROVE  slot'[run'[q].kind] \in {"running", "stopping"}
      BY <1>1, <2>4
    <3>1. run'[q] = run[q] /\ Held(q)
      BY <1>1 DEF Held
    <3> QED
      BY <1>0, <2>3, <3>1 DEF HolderOK
  <2>8. \A k \in reverting' : slot'[k] = "starting" /\ \A q \in Runs : Held(q)' => run'[q].kind # k
    BY <1>0, <1>2, <2>1, <2>5 DEF SlotTypeOK
  <2> QED
    BY <2>1, <2>2, <2>6, <2>7, <2>8 DEF HolderOK
<1>4. (\A q \in Runs : Ahead(q)' => Ahead(q)) /\ Spawning' \subseteq Spawning
  BY <1>1, <1>2 DEF Ahead, Spawning, LiveSessions, Starting, Looping
<1>5. WindowOK' /\ PresentOK'
  BY <1>0, <1>2, <1>4, FencesStay
<1>6. SlotTypeOK'
  BY <1>0, <1>1, <1>2 DEF SlotTypeOK, RunStates
<1> QED
  BY <1>3, <1>5, <1>6 DEF SlotInv

LEMMA DropRevertGuardKeeps ==
    ASSUME SlotInv, NEW r \in Runs, DropRevertGuard(r)
    PROVE  SlotInv'
<1>0. SlotTypeOK /\ HolderOK /\ WindowOK /\ PresentOK /\ "dropMic" \in Points
  BY DEF SlotInv, Points
<1>1. /\ run' \in [Runs -> RunStates] /\ run'[r].at = "dropMic" /\ run'[r].kind = run[r].kind
      /\ \A q \in Runs \ {r} : run'[q] = run[q]
  BY <1>0, RunMoves DEF DropRevertGuard
<1>2. run[r].at = "dropRevert" /\ Held(r) /\ reverting' = reverting \cup {run[r].kind}
      /\ UNCHANGED <<slot, window, present, raced, inbox, intents, broker>>
  BY DEF DropRevertGuard, Held
<1>3. HolderOK'
  <2>1. \A q \in Runs : Held(q)' <=> (Held(q) /\ q # r)
    BY <1>1 DEF Held, Starting
  <2>2. \A q \in Runs : run'[q].kind = run[q].kind
    BY <1>1
  <2>3. \A q, u \in Runs : Held(q) /\ Held(u) /\ run[q].kind = run[u].kind => q = u
    BY <1>0, Zenon DEF HolderOK
  <2>4. \A k \in reverting : slot[k] = "starting" /\ \A q \in Runs : Held(q) => run[q].kind # k
    BY <1>0, Zenon DEF HolderOK
  <2>5. slot[run[r].kind] = "starting"
    BY <1>0, <1>2 DEF HolderOK
  <2>6. \A k \in reverting' : slot'[k] = "starting" /\ \A q \in Runs : Held(q)' => run'[q].kind # k
    BY <1>2, <2>1, <2>2, <2>3, <2>4, <2>5
  <2>7. \A q \in Runs : run'[q].at \in Starting \cup {"dropRevert"} => slot'[run'[q].kind] = "starting"
    BY <1>0, <1>1, <1>2 DEF HolderOK, Starting
  <2>8. \A q \in Runs : run'[q].at \in {"live", "flush", "close", "vacate"}
                          => slot'[run'[q].kind] \in {"running", "stopping"}
    BY <1>0, <1>1, <1>2 DEF HolderOK
  <2> QED
    BY <2>1, <2>2, <2>3, <2>6, <2>7, <2>8 DEF HolderOK
<1>4. (\A q \in Runs : Ahead(q)' => Ahead(q)) /\ Spawning' \subseteq Spawning
  BY <1>1 DEF Ahead, Spawning, LiveSessions, Starting, Looping
<1>5. WindowOK' /\ PresentOK'
  BY <1>0, <1>2, <1>4, FencesStay
<1>6. SlotTypeOK'
  BY <1>0, <1>1, <1>2 DEF SlotTypeOK, RunStates
<1> QED
  BY <1>3, <1>5, <1>6 DEF SlotInv

(* A window closed: it was its owner's, or the step is recorded as late.     *)
LEMMA WindowCloses ==
    ASSUME SlotInv, NEW r \in Runs, DropMicGuard(r) \/ CloseWindow(r)
    PROVE  SlotInv'
<1>0. SlotTypeOK /\ HolderOK /\ WindowOK /\ PresentOK
  BY DEF SlotInv
<1> PICK p \in {"over", "vacate"} : At(r, p) /\ (p = "over" <=> run[r].at = "dropMic")
                                     /\ (p = "vacate" <=> run[r].at = "close")
  BY DEF DropMicGuard, CloseWindow
<1>1. /\ run' \in [Runs -> RunStates] /\ run'[r].at = p /\ (p # "over" => run'[r].kind = run[r].kind)
      /\ \A q \in Runs \ {r} : run'[q] = run[q]
  BY <1>0, RunMoves DEF Points
<1>2. UNCHANGED <<slot, reverting, present, inbox, intents, broker>>
  BY DEF DropMicGuard, CloseWindow
<1>3. run[r].at \in {"dropMic", "close"}
  BY DEF DropMicGuard, CloseWindow
<1>4. HolderOK'
  BY <1>0, <1>1, <1>2, <1>3, HolderMoves DEF Points
<1>5. \A q \in Runs : Ahead(q)' => Ahead(q) /\ q # r
  BY <1>1 DEF Ahead, Starting, Looping
<1>6. (window' = IF run[r].kind = "dictation" THEN NoRun ELSE window) /\ raced' \in BOOLEAN
      /\ (raced' <=> raced \/ (run[r].kind = "dictation" /\ window \notin {r, NoRun}))
  BY DEF DropMicGuard, CloseWindow
<1>7. WindowOK'
  <2>1. CASE raced'
    BY <2>1 DEF WindowOK, DictationFenced
  <2>2. CASE ~raced'
    <3>1. ~raced /\ (run[r].kind = "dictation" => window \in {r, NoRun})
      BY <1>6, <2>2
    <3>2. \A q \in Runs : Ahead(q) => window = q
      BY <1>0, <3>1, Zenon DEF WindowOK, DictationFenced, Ahead
    <3>3. \A q \in Runs : q # NoRun
      BY DEF Runs, NoRun
    <3>4. \A q \in Runs : Ahead(q)' => window' = q
      BY <1>5, <1>6, <3>1, <3>2, <3>3
    <3> QED
      BY <3>4, Zenon DEF WindowOK, DictationFenced, Ahead
  <2> QED
    BY <2>1, <2>2
<1>8. Spawning' \subseteq Spawning
  BY <1>1 DEF Spawning, LiveSessions, Looping
<1>9. PresentOK'
  BY <1>0, <1>2, <1>6, <1>8 DEF PresentOK
<1>10. SlotTypeOK'
  BY <1>0, <1>1, <1>2, <1>6 DEF SlotTypeOK, RunStates
<1> QED
  BY <1>4, <1>7, <1>9, <1>10 DEF SlotInv

LEMMA VacateSlotKeeps ==
    ASSUME SlotInv, NEW r \in Runs, VacateSlot(r)
    PROVE  SlotInv'
<1>0. SlotTypeOK /\ HolderOK /\ WindowOK /\ PresentOK /\ "unmark" \in Points
  BY DEF SlotInv, Points
<1>1. /\ run' \in [Runs -> RunStates] /\ run'[r].at = "unmark" /\ run'[r].kind = run[r].kind
      /\ \A q \in Runs \ {r} : run'[q] = run[q]
  BY <1>0, RunMoves DEF VacateSlot
<1>2. run[r].at = "vacate" /\ Held(r) /\ slot' = [slot EXCEPT ![run[r].kind] = "idle"]
      /\ (window' = IF run[r].kind = "dictation" THEN NoRun ELSE window)
      /\ UNCHANGED <<reverting, present, raced, inbox, intents, broker>>
  BY DEF VacateSlot, Held
<1>3. \A q, u \in Runs : Held(q) /\ Held(u) /\ run[q].kind = run[u].kind => q = u
  BY <1>0, Zenon DEF HolderOK
<1>4. \A q \in Runs : Held(q)' <=> (Held(q) /\ q # r)
  BY <1>1 DEF Held, Starting
<1>5. \A q \in Runs : run'[q].kind = run[q].kind
  BY <1>1
<1>6. \A q \in Runs \ {r} : Held(q) => slot'[run[q].kind] = slot[run[q].kind]
  BY <1>0, <1>2, <1>3 DEF SlotTypeOK
<1>7. HolderOK'
  <2>1. \A k \in reverting : slot[k] = "starting" /\ \A q \in Runs : Held(q) => run[q].kind # k
    BY <1>0, Zenon DEF HolderOK
  <2>2. \A k \in reverting' : slot'[k] = "starting" /\ \A q \in Runs : Held(q)' => run'[q].kind # k
    BY <1>0, <1>2, <1>4, <1>5, <2>1 DEF SlotTypeOK
  <2>3. \A q \in Runs : run'[q].at \in Starting \cup {"dropRevert"} => slot'[run'[q].kind] = "starting"
    <3> SUFFICES ASSUME NEW q \in Runs, run'[q].at \in Starting \cup {"dropRevert"}
                 PROVE  slot'[run'[q].kind] = "starting"
      OBVIOUS
    <3>1. q # r
      BY <1>1 DEF Starting
    <3>2. run'[q] = run[q] /\ Held(q)
      BY <1>1, <3>1 DEF Held
    <3> QED
      BY <1>0, <1>6, <3>1, <3>2 DEF HolderOK
  <2>4. \A q \in Runs : run'[q].at \in {"live", "flush", "close", "vacate"}
                          => slot'[run'[q].kind] \in {"running", "stopping"}
    <3> SUFFICES ASSUME NEW q \in Runs, run'[q].at \in {"live", "flush", "close", "vacate"}
                 PROVE  slot'[run'[q].kind] \in {"running", "stopping"}
      OBVIOUS
    <3>1. q # r
      BY <1>1
    <3>2. run'[q] = run[q] /\ Held(q)
      BY <1>1, <3>1 DEF Held
    <3> QED
      BY <1>0, <1>6, <3>1, <3>2 DEF HolderOK
  <2> QED
    BY <1>3, <1>4, <1>5, <2>2, <2>3, <2>4 DEF HolderOK
<1>8. WindowOK'
  <2>1. \A q \in Runs : Ahead(q)' => Ahead(q) /\ q # r
    BY <1>1 DEF Ahead, Starting, Looping
  <2>2. \A q \in Runs : Ahead(q) /\ q # r => run[r].kind # "dictation"
    BY <1>2, <1>3 DEF Ahead, Held, Looping
  <2>3. \A q \in Runs : Ahead(q)' => Ahead(q) /\ window' = window
    BY <1>2, <2>1, <2>2
  <2> QED
    BY <1>0, <1>2, <2>3, Zenon DEF WindowOK, DictationFenced, Ahead
<1>9. Spawning' \subseteq Spawning
  BY <1>1 DEF Spawning, LiveSessions, Looping
<1>10. PresentOK'
  BY <1>0, <1>2, <1>9 DEF PresentOK
<1>11. SlotTypeOK'
  BY <1>0, <1>1, <1>2 DEF SlotTypeOK, RunStates
<1> QED
  BY <1>7, <1>8, <1>10, <1>11 DEF SlotInv

LEMMA ClearPresentKeeps ==
    ASSUME SlotInv, NEW r \in Runs, ClearPresent(r)
    PROVE  SlotInv'
<1>0. SlotTypeOK /\ HolderOK /\ WindowOK /\ PresentOK /\ "over" \in Points
  BY DEF SlotInv, Points
<1>1. run' \in [Runs -> RunStates] /\ run'[r].at = "over" /\ \A q \in Runs \ {r} : run'[q] = run[q]
  BY <1>0, RunMoves DEF ClearPresent
<1>2. run[r].at = "unmark" /\ UNCHANGED <<slot, reverting, window, inbox, intents, broker>>
  BY DEF ClearPresent
<1>3. /\ present' \in BOOLEAN /\ (present' <=> present /\ run[r].kind # "session")
      /\ raced' \in BOOLEAN /\ (raced' <=> raced \/ (run[r].kind = "session" /\ Spawning # {}))
  BY DEF ClearPresent
<1>4. HolderOK'
  BY <1>0, <1>2, HolderMoves DEF ClearPresent
<1>5. (\A q \in Runs : Ahead(q)' => Ahead(q)) /\ Spawning' \subseteq Spawning
  BY <1>1 DEF Ahead, Spawning, LiveSessions, Starting, Looping
<1>6. WindowOK'
  <2>1. CASE raced'
    BY <2>1 DEF WindowOK, DictationFenced
  <2>2. CASE ~raced'
    <3>1. ~raced
      BY <1>3, <2>2
    <3> QED
      BY <1>0, <1>2, <1>5, <3>1, Zenon DEF WindowOK, DictationFenced, Ahead
  <2> QED
    BY <2>1, <2>2
<1>7. PresentOK'
  BY <1>0, <1>3, <1>5 DEF PresentOK
<1>8. SlotTypeOK'
  BY <1>0, <1>1, <1>2, <1>3 DEF SlotTypeOK, RunStates
<1> QED
  BY <1>4, <1>6, <1>7, <1>8 DEF SlotInv

(* Runs stay where they are.                                                 *)
LEMMA SlotSteps ==
    ASSUME SlotInv, NEW k \in Kinds, Stop(k) \/ RevertSlot(k)
    PROVE  SlotInv'
<1>0. SlotTypeOK /\ HolderOK /\ WindowOK /\ PresentOK
  BY DEF SlotInv
<1>1. UNCHANGED <<run, window, present, raced, intents, broker>> /\ inbox' \in {inbox, NoRun}
      /\ reverting' \in SUBSET reverting
  BY DEF Stop, RevertSlot
<1>2. slot' \in [Kinds -> {"idle", "starting", "running", "stopping"}]
  BY <1>0 DEF Stop, RevertSlot, SlotTypeOK
<1>3. HolderOK'
  <2>1. \A q, u \in Runs : Held(q)' /\ Held(u)' /\ run'[q].kind = run'[u].kind => q = u
    BY <1>0, <1>1, Zenon DEF HolderOK, Held
  <2>2. \A q \in Runs : Held(q) =>
          \/ slot'[run[q].kind] = slot[run[q].kind]
          \/ slot[run[q].kind] = "running" /\ slot'[run[q].kind] = "stopping"
    <3>1. CASE Stop(k)
      BY <1>0, <3>1 DEF Stop, SlotTypeOK
    <3>2. CASE RevertSlot(k)
      <4>1. \A q \in Runs : Held(q) => run[q].kind # k
        BY <1>0, <3>2, Zenon DEF HolderOK, RevertSlot
      <4> QED
        BY <1>0, <3>2, <4>1 DEF RevertSlot, SlotTypeOK
    <3> QED
      BY <3>1, <3>2
  <2>3. \A q \in Runs : run'[q].at \in Starting \cup {"dropRevert"} => slot'[run'[q].kind] = "starting"
    <3> SUFFICES ASSUME NEW q \in Runs, run[q].at \in Starting \cup {"dropRevert"}
                 PROVE  slot'[run[q].kind] = "starting"
      BY <1>1
    <3>1. Held(q) /\ slot[run[q].kind] = "starting"
      BY <1>0 DEF HolderOK, Held
    <3> QED
      BY <2>2, <3>1
  <2>4. \A q \in Runs : run'[q].at \in {"live", "flush", "close", "vacate"}
                          => slot'[run'[q].kind] \in {"running", "stopping"}
    <3> SUFFICES ASSUME NEW q \in Runs, run[q].at \in {"live", "flush", "close", "vacate"}
                 PROVE  slot'[run[q].kind] \in {"running", "stopping"}
      BY <1>1
    <3>1. Held(q) /\ slot[run[q].kind] \in {"running", "stopping"}
      BY <1>0 DEF HolderOK, Held
    <3> QED
      BY <2>2, <3>1
  <2>5. \A l \in reverting' : slot'[l] = "starting" /\ \A q \in Runs : Held(q)' => run'[q].kind # l
    <3> SUFFICES ASSUME NEW l \in reverting'
                 PROVE  slot'[l] = "starting" /\ \A q \in Runs : Held(q)' => run'[q].kind # l
      OBVIOUS
    <3>1. l \in reverting /\ slot[l] = "starting" /\ l \in Kinds
      BY <1>0, <1>1, Zenon DEF HolderOK, SlotTypeOK
    <3>2. \A q \in Runs : Held(q) => run[q].kind # l
      BY <1>0, <3>1, Zenon DEF HolderOK
    <3>3. slot'[l] = slot[l]
      BY <1>0, <3>1 DEF Stop, RevertSlot, SlotTypeOK
    <3> QED
      BY <1>1, <3>1, <3>2, <3>3 DEF Held
  <2> QED
    BY <2>1, <2>3, <2>4, <2>5 DEF HolderOK
<1>4. (\A q \in Runs : Ahead(q)' => Ahead(q)) /\ Spawning' \subseteq Spawning
  BY <1>1 DEF Ahead, Spawning, LiveSessions
<1>5. WindowOK' /\ PresentOK'
  BY <1>0, <1>1, <1>4, FencesStay
<1>6. SlotTypeOK'
  BY <1>0, <1>1, <1>2 DEF SlotTypeOK
<1> QED
  BY <1>3, <1>5, <1>6 DEF SlotInv

LEMMA ReserveKeeps ==
    ASSUME SlotInv, NEW r \in Runs, NEW k \in Kinds, Reserve(r, k)
    PROVE  SlotInv'
<1>0. SlotTypeOK /\ HolderOK /\ WindowOK /\ PresentOK
  BY DEF SlotInv
<1> PICK e : e = [kind |-> k, at |-> IF k = "dictation" /\ slot["session"] # "idle" THEN "setup" ELSE "preflight"]
  OBVIOUS
<1>1. e \in RunStates /\ e.kind = k /\ e.at \in {"setup", "preflight"}
  BY DEF RunStates, Points, Starting
<1>2. run[r].at = "unused" /\ slot[k] = "idle" /\ slot' = [slot EXCEPT ![k] = "starting"]
      /\ run' = [run EXCEPT ![r] = e]
      /\ UNCHANGED <<reverting, inbox, intents, present, broker, raced>>
  BY DEF Reserve
<1>3. run' \in [Runs -> RunStates] /\ run'[r] = e /\ \A q \in Runs \ {r} : run'[q] = run[q]
  BY <1>0, <1>1, <1>2 DEF SlotTypeOK, RunStates
<1>4. slot' \in [Kinds -> {"idle", "starting", "running", "stopping"}] /\ slot'[k] = "starting"
      /\ \A l \in Kinds \ {k} : slot'[l] = slot[l]
  BY <1>0, <1>2 DEF SlotTypeOK
<1>5. \A q \in Runs : Held(q) => run[q].kind # k
  BY <1>0, <1>2 DEF HolderOK, Held
<1>6. ~Held(r) /\ Held(r)' /\ run'[r].kind = k
  BY <1>1, <1>2, <1>3 DEF Held, Starting
<1>7. \A q \in Runs \ {r} : (Held(q)' <=> Held(q)) /\ run'[q].kind = run[q].kind
  BY <1>3 DEF Held
<1>8. HolderOK'
  <2>1. \A q, u \in Runs : Held(q) /\ Held(u) /\ run[q].kind = run[u].kind => q = u
    BY <1>0, Zenon DEF HolderOK
  <2>2. \A q, u \in Runs : Held(q)' /\ Held(u)' /\ run'[q].kind = run'[u].kind => q = u
    BY <1>5, <1>6, <1>7, <2>1
  <2>3. \A q \in Runs : run[q].kind \in Kinds
    BY <1>0 DEF SlotTypeOK
  <2>4. \A q \in Runs : run'[q].at \in Starting \cup {"dropRevert"} => slot'[run'[q].kind] = "starting"
    <3> SUFFICES ASSUME NEW q \in Runs, run'[q].at \in Starting \cup {"dropRevert"}, q # r
                 PROVE  slot'[run'[q].kind] = "starting"
      BY <1>4, <1>6
    <3>1. run'[q] = run[q] /\ Held(q) /\ run[q].kind # k
      BY <1>3, <1>5 DEF Held
    <3> QED
      BY <1>0, <1>4, <2>3, <3>1 DEF HolderOK
  <2>5. \A q \in Runs : run'[q].at \in {"live", "flush", "close", "vacate"}
                          => slot'[run'[q].kind] \in {"running", "stopping"}
    <3> SUFFICES ASSUME NEW q \in Runs, run'[q].at \in {"live", "flush", "close", "vacate"}
                 PROVE  slot'[run'[q].kind] \in {"running", "stopping"}
      OBVIOUS
    <3>1. q # r
      BY <1>1, <1>3
    <3>2. run'[q] = run[q] /\ Held(q) /\ run[q].kind # k
      BY <1>3, <1>5, <3>1 DEF Held
    <3> QED
      BY <1>0, <1>4, <2>3, <3>2 DEF HolderOK
  <2>6. \A l \in reverting' : slot'[l] = "starting" /\ \A q \in Runs : Held(q)' => run'[q].kind # l
    <3> SUFFICES ASSUME NEW l \in reverting
                 PROVE  slot'[l] = "starting" /\ \A q \in Runs : Held(q)' => run'[q].kind # l
      BY <1>2
    <3>1. slot[l] = "starting" /\ l \in Kinds
      BY <1>0, Zenon DEF HolderOK, SlotTypeOK
    <3>2. \A q \in Runs : Held(q) => run[q].kind # l
      BY <1>0, Zenon DEF HolderOK
    <3> QED
      BY <1>2, <1>4, <1>6, <1>7, <3>1, <3>2
  <2> QED
    BY <2>2, <2>4, <2>5, <2>6 DEF HolderOK
<1>9. WindowOK'
  <2>1. CASE raced
    BY <1>2, <2>1 DEF WindowOK, DictationFenced
  <2>2. CASE ~raced
    <3>1. \A q \in Runs : Ahead(q) => window = q /\ Held(q)
      <4>1. \A q \in Runs : Ahead(q) => window = q
        BY <1>0, <2>2, Zenon DEF WindowOK, DictationFenced, Ahead
      <4> QED
        BY <4>1 DEF Ahead, Held, Looping
    <3>2. CASE k = "dictation"
      <4>1. window' = r
        BY <3>2 DEF Reserve
      <4>2. \A q \in Runs : Ahead(q)' => q = r
        BY <1>3, <1>5, <3>1, <3>2 DEF Ahead
      <4> QED
        BY <4>1, <4>2, Zenon DEF WindowOK, DictationFenced, Ahead
    <3>3. CASE k = "session"
      <4>1. \A q \in Runs : Ahead(q)' => Ahead(q)
        BY <1>1, <1>3, <3>3 DEF Ahead
      <4>2. \A q \in Runs : Ahead(q) => slot["dictation"] # "idle"
        BY <1>0 DEF HolderOK, Ahead, Looping
      <4>3. \A q \in Runs : Ahead(q) => window' = window
        BY <3>3, <4>2 DEF Reserve
      <4>4. \A q \in Runs : Ahead(q)' => window' = q
        BY <3>1, <4>1, <4>3
      <4> QED
        BY <4>4, Zenon DEF WindowOK, DictationFenced, Ahead
    <3> QED
      BY <3>2, <3>3 DEF Kinds
  <2> QED
    BY <2>1, <2>2
<1>10. PresentOK'
  <2>1. Spawning' \subseteq Spawning
    BY <1>1, <1>3 DEF Spawning, LiveSessions, Looping
  <2> QED
    BY <1>0, <1>2, <2>1 DEF PresentOK
<1>11. SlotTypeOK'
  <2>1. window' \in Runs \cup {NoRun}
    BY <1>0 DEF Reserve, SlotTypeOK
  <2> QED
    BY <1>0, <1>2, <1>3, <1>4, <2>1 DEF SlotTypeOK, RunStates
<1> QED
  BY <1>8, <1>9, <1>10, <1>11 DEF SlotInv

(* Intents and the broker touch neither a slot nor a run.                    *)
LEMMA FrameKeeps ==
    ASSUME SlotInv, UNCHANGED <<slot, run, reverting, inbox, present, window, raced>>,
           intents' \subseteq Runs, broker' \in {"idle", "debounce", "send", "decide", "direct"}
    PROVE  SlotInv'
<1>1. HolderOK' /\ WindowOK' /\ PresentOK'
  <2>1. HolderOK'
    BY Zenon DEF SlotInv, HolderOK, Held
  <2>2. WindowOK'
    BY Zenon DEF SlotInv, WindowOK, DictationFenced
  <2>3. PresentOK'
    BY Zenon DEF SlotInv, PresentOK, Spawning, LiveSessions
  <2> QED
    BY <2>1, <2>2, <2>3
<1>2. SlotTypeOK'
  BY DEF SlotInv, SlotTypeOK
<1> QED
  BY <1>1, <1>2 DEF SlotInv

LEMMA BrokerSteps ==
    ASSUME SlotInv, (\E r \in Runs : LoopRestarts(r)) \/ DefaultChanges \/ BrokerStep
    PROVE  SlotInv'
<1>0. SlotTypeOK
  BY DEF SlotInv
<1>1. UNCHANGED <<slot, run, reverting, inbox, present, window, raced>>
  BY DEF LoopRestarts, DefaultChanges, BrokerStep, FlushEvents, TrySendIntent, DecideRouting, DirectRestart
<1>2. intents' \subseteq Runs
  BY <1>0 DEF SlotTypeOK, LoopRestarts, DefaultChanges, BrokerStep, FlushEvents, TrySendIntent, DecideRouting,
              DirectRestart
<1>3. broker' \in {"idle", "debounce", "send", "decide", "direct"}
  BY <1>0 DEF SlotTypeOK, LoopRestarts, DefaultChanges, BrokerStep, FlushEvents, TrySendIntent, DecideRouting,
              DirectRestart
<1> QED
  BY <1>1, <1>2, <1>3, FrameKeeps

LEMMA SlotStart ==
    ASSUME SlotInit
    PROVE  SlotInv
<1>1. \A r \in Runs : run[r].at = "unused"
  BY DEF SlotInit
<1>2. SlotTypeOK
  BY DEF SlotInit, SlotTypeOK, Points, Kinds
<1>3. HolderOK
  BY <1>1 DEF SlotInit, HolderOK, Held, Starting
<1>4. WindowOK
  BY <1>1 DEF WindowOK, DictationFenced, Starting, Looping
<1>5. PresentOK
  BY <1>1 DEF PresentOK, Spawning, LiveSessions, Looping
<1> QED
  BY <1>2, <1>3, <1>4, <1>5 DEF SlotInv

(* Only the broker's decision reads the flag, and the flag is set for every  *)
(* session with a loop.                                                      *)
LEMMA DecisionGuarded ==
    ASSUME SlotInv, SlotNext, broker = "decide", broker' = "direct"
    PROVE  raced \/ LiveSessions = {}
<1>1. DecideRouting
  BY DEF SlotNext, StartStep, LoopStep, BrokerStep, PreflightRun, Setup, PublishInbox, MarkPresent, Install,
         DropRevertGuard, DropMicGuard, LoopStops, FlushEnds, CloseWindow, VacateSlot, ClearPresent,
         LoopRestarts, FailStart, LoopDies, Reserve, Stop, RevertSlot, DefaultChanges, FlushEvents,
         TrySendIntent, DirectRestart
<1>2. ~present
  BY <1>1 DEF DecideRouting
<1> QED
  BY <1>2 DEF SlotInv, PresentOK, Spawning

(* However starts, failures, stops and deaths of sessions and dictations     *)
(* fall beside device changes: a dictation keeps its window, and the broker  *)
(* decides on a restart of its own only when no session's loop is there.     *)
THEOREM SlotsFencedHolds == SlotSpec => SlotsFenced
<1>1. SlotInit => SlotInv
  BY SlotStart
<1>2. SlotInv /\ [SlotNext]_slotVars => SlotInv'
  <2> SUFFICES ASSUME SlotInv, [SlotNext]_slotVars PROVE SlotInv'
    OBVIOUS
  <2>1. CASE UNCHANGED slotVars
    BY <2>1, FrameKeeps DEF slotVars, SlotInv, SlotTypeOK
  <2>2. ASSUME NEW r \in Runs, StartStep(r) \/ LoopStep(r) \/ FailStart(r) \/ LoopDies(r)
        PROVE  SlotInv'
    BY <2>2, PlainSteps, MarkPresentKeeps, InstallKeeps, DropRevertGuardKeeps, WindowCloses, VacateSlotKeeps,
       ClearPresentKeeps, BrokerSteps DEF StartStep, LoopStep
  <2> QED
    BY <2>1, <2>2, ReserveKeeps, SlotSteps, BrokerSteps DEF SlotNext
<1>3. SlotInv => SlotTypeOK /\ DictationFenced
  BY DEF SlotInv, WindowOK
<1>4. SlotInv /\ [SlotNext]_slotVars
        => [broker = "decide" /\ broker' = "direct" => raced \/ LiveSessions = {}]_slotVars
  BY DecisionGuarded
<1> QED
  BY <1>1, <1>2, <1>3, <1>4, PTL DEF SlotSpec, SlotsFenced, TeardownGuarded
==============================================================================
