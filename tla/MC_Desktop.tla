------------------------------ MODULE MC_Desktop ------------------------------
(* What sync keeps in the desktop's database, in parts that are explored     *)
(* each from its own states: the cutover, the migrations, the recovery of    *)
(* recordings, the stash of unreadable rows and the capability gate.         *)
EXTENDS Cutover, Migrations, RecordingRecovery, Quarantine, CapabilityGate

VARIABLE part
desktopVars == <<part, cutVars, migVars, recVars, quarVars, gateVars>>

DesktopInit ==
  /\ part \in {"cutover", "migrations", "recovery", "stash", "gate"}
  /\ CutInit /\ MigInit /\ RecInit /\ QuarInit /\ CapInit
  /\ part # "cutover" => Orphans \cap disk["live"].rows = {}
  /\ part # "migrations" => crr = {}
  /\ part # "recovery" => ~synced
  /\ part # "stash" => schemaAt = 1
  /\ part # "gate" => ~relayGate /\ below = {}

CutoverStep(A) ==
  part = "cutover" /\ A /\ UNCHANGED <<part, migVars, recVars, quarVars, gateVars>>
MigrationsStep(A) ==
  part = "migrations" /\ A /\ UNCHANGED <<part, cutVars, recVars, quarVars, gateVars>>
RecoveryStep(A) ==
  part = "recovery" /\ A /\ UNCHANGED <<part, cutVars, migVars, quarVars, gateVars>>
StashStep(A) ==
  part = "stash" /\ A /\ UNCHANGED <<part, cutVars, migVars, recVars, gateVars>>
GateStep(A) ==
  part = "gate" /\ A /\ UNCHANGED <<part, cutVars, migVars, recVars, quarVars>>

DesktopNext ==
  \/ CutoverStep(CutNext) \/ MigrationsStep(MigNext) \/ RecoveryStep(RecNext)
  \/ StashStep(QuarNext) \/ GateStep(CapNext)

(* The fairness of each part, of its own steps.                              *)
DesktopSpec ==
  /\ DesktopInit /\ [][DesktopNext]_desktopVars
  /\ WF_desktopVars(CutoverStep(CutStep)) /\ WF_desktopVars(StashStep(Pass))
  /\ WF_desktopVars(GateStep(DrainCycle)) /\ WF_desktopVars(GateStep(BackoffTicks))

OutboxLevels == <<0, 1>>

TableOf(t)     == <<"table", t, t>>
ColumnOf(t, c) == <<"column", t, c>>
IndexOf(t, i)  == <<"index", t, i>>
Plain(makes, declares, alters, mentions) ==
  [kind |-> "Plain", makes |-> makes, declares |-> declares,
   alters |-> alters, mentions |-> mentions]

MCList ==
  << Plain({TableOf("local")}, {}, FALSE, FALSE),
     Plain({ColumnOf("chat", "calls")}, {ColumnOf("chat", "calls")}, TRUE, TRUE),
     Plain({ColumnOf("chat", "seq"), IndexOf("chat", "by_seq")},
           {ColumnOf("chat", "seq")}, FALSE, TRUE),
     [kind |-> "CreateSyncTable", makes |-> {TableOf("shares"), IndexOf("shares", "by_id")},
      declares |-> {}, alters |-> FALSE, mentions |-> TRUE],
     [kind |-> "SyncIndex", makes |-> {IndexOf("chat", "by_day")},
      declares |-> {}, alters |-> FALSE, mentions |-> TRUE] >>
MCBase      == {TableOf("sessions"), TableOf("chat")}
MCOutOfBand == {ColumnOf("chat", "calls"), ColumnOf("chat", "seq")}
===============================================================================
