----------------------------- MODULE EngineModels -----------------------------
(***************************************************************************)
(* Model bundles and the engine that runs on them: downloads under a claim *)
(* per destination (model.rs), deletion, init_transcription_client and     *)
(* shutdown_transcription_client (commands/transcription.rs), and the live *)
(* runtime that attaches to the scheduler.  Commands are async and overlap *)
(* freely; the application may be killed during any of them.               *)
(***************************************************************************)
EXTENDS Naturals, Sequences, FiniteSets

CONSTANTS Bundles, Files,      \* bundles and the files each consists of
          Diarizer,            \* the bundle that is fetched when an engine asks for it
          Calls,               \* init commands under way at once
          MaxOps, MaxKills
ASSUME ModelsAssumption == Diarizer \in Bundles /\ MaxOps \in Nat /\ MaxKills \in Nat

VARIABLES onDisk,     \* [Bundles -> SUBSET Files]: files under their final name
          tainted,     \* files there whose bytes are not the pinned ones
          fetches,     \* [Bundles -> [at, file, ok, passed]]: the download holding the claim
          deleting,    \* bundles a delete is removing
          inits,       \* [Calls -> [at, model, diarize, proc]]
          installed,   \* TranscriptionSchedulerState: 0 or the engine installed
          procs,       \* sidecar processes by number: [up, model, diarize]
          closer,      \* shutdown_transcription_client: [at, proc]
          attached,    \* the live runtime: [at, proc]
          modelUsed
modelVars == <<onDisk, tainted, fetches, deleting, inits, installed, procs, closer, attached, modelUsed>>
fileVars  == <<onDisk, tainted, fetches, deleting>>

NoFetch == [at |-> "none", file |-> "none", ok |-> TRUE, passed |-> {}]
NoInit  == [at |-> "idle", model |-> "none", diarize |-> FALSE, proc |-> 0]
NoProc  == [up |-> FALSE, model |-> "none", diarize |-> FALSE]
Off     == [at |-> "idle", proc |-> 0]

(* A Parakeet bundle is a directory of files, the diarizer is one file. *)
FilesOf(b) == IF b = Diarizer THEN {"onnx"} ELSE Files

ModelsInit ==
  /\ onDisk \in {f \in [Bundles -> SUBSET (Files \cup {"onnx"})] : \A b \in Bundles : f[b] \in {{}, FilesOf(b)}} /\ tainted = {}
  /\ fetches = [b \in Bundles |-> NoFetch] /\ deleting = {}
  /\ inits = [c \in Calls |-> NoInit] /\ installed = 0 /\ procs = <<>>
  /\ closer = Off /\ attached = Off /\ modelUsed = [op |-> 0, kill |-> 0]

Op == modelUsed.op < MaxOps /\ modelUsed' = [modelUsed EXCEPT !.op = @ + 1]

(* parakeet_is_available, sortformer_model_path: by name only. *)
Available(b) == onDisk[b] = FilesOf(b)

------------------------------------------------------------------------------
(* Downloads and deletion.                                                 *)

(* claim_download: one download per destination, whoever asks. *)
Claims(b) == fetches[b].at = "none" /\ fetches' = [fetches EXCEPT ![b] = [NoFetch EXCEPT !.at = "next"]]
DownloadModel(b) == Op /\ Claims(b) /\ UNCHANGED <<onDisk, tainted, deleting, inits, installed, procs, closer, attached>>

(* The next file; one that is there already is passed over, the diarizer's   *)
(* is always fetched; a failure drops the claim.                             *)
NextFile(b) ==
  /\ fetches[b].at = "next"
  /\ \/ \E f \in FilesOf(b) \ fetches[b].passed :
          fetches' = [fetches EXCEPT ![b] = IF f \in onDisk[b] /\ b # Diarizer THEN [fetches[b] EXCEPT !.passed = @ \cup {f}]
                                            ELSE [fetches[b] EXCEPT !.at = "body", !.file = f, !.ok = TRUE]]
     \/ fetches[b].passed = FilesOf(b) /\ fetches' = [fetches EXCEPT ![b] = NoFetch]
  /\ UNCHANGED <<onDisk, tainted, deleting, inits, installed, procs, closer, attached, modelUsed>>

(* download_file: stream into the temporary file, compare the hash - the     *)
(* diarizer's is not pinned - and rename.  A delete may take the temporary   *)
(* file with it, and the rename fails.                                       *)
(* Mutant: the hash is not compared. *)
FinishFileUnverified(b) ==
  /\ fetches[b].at = "body"
  /\ \E good \in BOOLEAN :
       /\ onDisk' = [onDisk EXCEPT ![b] = @ \cup {fetches[b].file}]
       /\ tainted' = IF good THEN tainted ELSE tainted \cup {<<b, fetches[b].file>>}
  /\ fetches' = [fetches EXCEPT ![b].at = "next", ![b].passed = @ \cup {fetches[b].file}]
  /\ UNCHANGED <<deleting, inits, installed, procs, closer, attached, modelUsed>>
FinishFile(b) ==
  /\ fetches[b].at = "body"
  /\ \E got \in {"good", "bad", "cut"} :
       IF fetches[b].ok /\ (got = "good" \/ (got = "bad" /\ b = Diarizer))
         THEN /\ onDisk' = [onDisk EXCEPT ![b] = @ \cup {fetches[b].file}]
              /\ tainted' = IF got = "good" THEN tainted \ {<<b, fetches[b].file>>} ELSE tainted \cup {<<b, fetches[b].file>>}
              /\ fetches' = [fetches EXCEPT ![b].at = "next", ![b].passed = @ \cup {fetches[b].file}]
         ELSE UNCHANGED <<onDisk, tainted>> /\ fetches' = [fetches EXCEPT ![b] = NoFetch]
  /\ UNCHANGED <<deleting, inits, installed, procs, closer, attached, modelUsed>>

(* delete_parakeet, delete_sortformer: no claim, one file after another. *)
DeleteModel(b) ==
  /\ Op /\ b \notin deleting /\ onDisk[b] # {} /\ deleting' = deleting \cup {b}
  /\ UNCHANGED <<onDisk, tainted, fetches, inits, installed, procs, closer, attached>>
DeleteFile(b) ==
  /\ b \in deleting
  /\ \/ \E f \in onDisk[b] : onDisk' = [onDisk EXCEPT ![b] = @ \ {f}] /\ tainted' = tainted \ {<<b, f>>}
                              /\ UNCHANGED <<fetches, deleting>>
     \/ /\ onDisk[b] = {} /\ deleting' = deleting \ {b} /\ UNCHANGED <<onDisk, tainted>>
        /\ fetches' \in {fetches} \cup (IF fetches[b].at = "body" /\ b # Diarizer
                                          THEN {[fetches EXCEPT ![b].ok = FALSE]} ELSE {})
  /\ UNCHANGED <<inits, installed, procs, closer, attached, modelUsed>>

------------------------------------------------------------------------------
(* init_transcription_client.                                              *)

InitStep(c, at) == inits' = [inits EXCEPT ![c].at = at]
InitEnds(c)     == inits' = [inits EXCEPT ![c] = NoInit]

(* An engine with this configuration already installed is enough, another   *)
(* one is refused; so is a bundle that is not there.                        *)
InitBegin(c, m, d) ==
  /\ Op /\ inits[c].at = "idle" /\ installed = 0 /\ Available(m)
  /\ inits' = [inits EXCEPT ![c] = [at |-> IF d THEN "diarizer" ELSE "spawn", model |-> m, diarize |-> d, proc |-> 0]]
  /\ UNCHANGED <<fileVars, installed, procs, closer, attached>>

(* ensure_sortformer: there, or downloaded here - or refused while another  *)
(* download has the claim.                                                  *)
InitDiarizer(c) ==
  /\ inits[c].at = "diarizer"
  /\ \/ Available(Diarizer) /\ InitStep(c, "spawn") /\ UNCHANGED fetches
     \/ ~Available(Diarizer) /\ Claims(Diarizer) /\ InitStep(c, "fetching")
     \/ ~Available(Diarizer) /\ fetches[Diarizer].at # "none" /\ InitEnds(c) /\ UNCHANGED fetches
  /\ UNCHANGED <<onDisk, tainted, deleting, installed, procs, closer, attached, modelUsed>>
InitFetched(c) ==
  /\ inits[c].at = "fetching" /\ fetches[Diarizer].at = "none"
  /\ IF Available(Diarizer) THEN InitStep(c, "spawn") ELSE InitEnds(c)
  /\ UNCHANGED <<fileVars, installed, procs, closer, attached, modelUsed>>

(* spawn_loaded: the process loads its files, and ends if it cannot. *)
InitSpawn(c) ==
  /\ inits[c].at = "spawn"
  /\ \/ /\ Available(inits[c].model) /\ (inits[c].diarize => Available(Diarizer))
        /\ procs' = Append(procs, [up |-> TRUE, model |-> inits[c].model, diarize |-> inits[c].diarize])
        /\ inits' = [inits EXCEPT ![c].at = "install", ![c].proc = Len(procs) + 1]
     \/ InitEnds(c) /\ UNCHANGED procs
  /\ UNCHANGED <<fileVars, installed, closer, attached, modelUsed>>

(* The first to take the lock installs its engine; the runner-up shuts its   *)
(* own down.                                                                 *)
(* Mutant: the runner-up's scheduler is just dropped. *)
InitInstallDrops(c) ==
  /\ inits[c].at = "install" /\ InitEnds(c)
  /\ installed' = IF installed = 0 THEN inits[c].proc ELSE installed
  /\ UNCHANGED <<fileVars, procs, closer, attached, modelUsed>>
InitInstall(c) ==
  /\ inits[c].at = "install"
  /\ IF installed = 0 THEN installed' = inits[c].proc /\ InitEnds(c)
     ELSE UNCHANGED installed /\ InitStep(c, "undo")
  /\ UNCHANGED <<fileVars, procs, closer, attached, modelUsed>>
Killed(p) == procs' = [procs EXCEPT ![p].up = FALSE]
InitUndo(c) ==
  /\ inits[c].at = "undo" /\ Killed(inits[c].proc) /\ InitEnds(c)
  /\ UNCHANGED <<fileVars, installed, closer, attached, modelUsed>>

------------------------------------------------------------------------------
(* shutdown_transcription_client and a live start: the check that no runtime *)
(* is active, then the engine is taken; the slot is reserved, then the       *)
(* scheduler cloned.                                                         *)
CloseCheck ==
  /\ Op /\ closer.at = "idle" /\ attached.at = "idle" /\ closer' = [Off EXCEPT !.at = "take"]
  /\ UNCHANGED <<fileVars, inits, installed, procs, attached>>
CloseTake ==
  /\ closer.at = "take" /\ installed' = 0
  /\ closer' = IF installed = 0 THEN Off ELSE [at |-> "shut", proc |-> installed]
  /\ UNCHANGED <<fileVars, inits, procs, attached, modelUsed>>
CloseShut ==
  /\ closer.at = "shut" /\ Killed(closer.proc) /\ closer' = Off
  /\ UNCHANGED <<fileVars, inits, installed, attached, modelUsed>>

LiveReserve ==
  /\ Op /\ attached.at = "idle" /\ attached' = [Off EXCEPT !.at = "reserved"]
  /\ UNCHANGED <<fileVars, inits, installed, procs, closer>>
LiveAttach ==
  /\ attached.at = "reserved"
  /\ attached' = IF installed = 0 THEN Off ELSE [at |-> "running", proc |-> installed]
  /\ UNCHANGED <<fileVars, inits, installed, procs, closer, modelUsed>>
LiveEnds ==
  /\ attached.at = "running" /\ attached' = Off
  /\ UNCHANGED <<fileVars, inits, installed, procs, closer, modelUsed>>

(* The application is killed; its processes go with it. *)
Killall ==
  /\ modelUsed.kill < MaxKills /\ modelUsed' = [modelUsed EXCEPT !.kill = @ + 1]
  /\ fetches' = [b \in Bundles |-> NoFetch] /\ deleting' = {}
  /\ inits' = [c \in Calls |-> NoInit] /\ installed' = 0 /\ closer' = Off /\ attached' = Off
  /\ procs' = [p \in DOMAIN procs |-> NoProc] /\ UNCHANGED <<onDisk, tainted>>

ModelsNext ==
  \/ \E b \in Bundles : DownloadModel(b) \/ NextFile(b) \/ FinishFile(b) \/ DeleteModel(b) \/ DeleteFile(b)
  \/ \E c \in Calls : \/ \E m \in Bundles \ {Diarizer}, d \in BOOLEAN : InitBegin(c, m, d)
                      \/ InitDiarizer(c) \/ InitFetched(c) \/ InitSpawn(c) \/ InitInstall(c) \/ InitUndo(c)
  \/ CloseCheck \/ CloseTake \/ CloseShut \/ LiveReserve \/ LiveAttach \/ LiveEnds \/ Killall
ModelsSpec == ModelsInit /\ [][ModelsNext]_modelVars

------------------------------------------------------------------------------
ModelsTypeOK ==
  /\ (\A b \in Bundles : onDisk[b] \subseteq FilesOf(b)) /\ installed \in 0..Len(procs)
  /\ \A c \in Calls : inits[c].proc \in 0..Len(procs)

(* Every sidecar process that runs is the installed engine or in the hands   *)
(* of a command that will install or end it: two concurrent inits, or an     *)
(* init beside a shutdown, leave no process behind.                          *)
NoOrphanEngine == \A p \in DOMAIN procs : procs[p].up =>
  p \in {installed, closer.proc} \cup {inits[c].proc : c \in Calls}

(* The installed engine is up: nobody ends it without taking it out.         *)
InstalledRuns == installed # 0 => procs[installed].up

(* What is there under a final name of a pinned bundle is what was pinned,    *)
(* through every failed, repeated and interrupted download.                   *)
PinnedOnly == \A t \in tainted : t[1] = Diarizer

(* "Download every missing file": a download that returns Ok leaves the       *)
(* bundle available.                                                         *)
DownloadedThere == [][\A b \in Bundles : fetches[b].at = "next" /\ fetches'[b].at = "none" /\ modelUsed' = modelUsed
                        => Available(b)]_modelVars

(* "Refuse to shut the engine down while a live runtime (session OR          *)
(* dictation) is still attached."                                            *)
AttachedServed == attached.at = "running" => procs[attached.proc].up

(* Engines and their files: no sidecar runs that nobody holds, the installed *)
(* one is up, and only verified files are under their final name.            *)
EnginesSound == ModelsTypeOK /\ NoOrphanEngine /\ InstalledRuns /\ PinnedOnly
==============================================================================
