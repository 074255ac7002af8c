---------------------------- MODULE CapabilityGate ----------------------------
(* How the drain publishes entries above sync capability level 0: it proves  *)
(* that the relay enforces the gate, raises the workspace floor, waits out a *)
(* refusal, and asks again when the blockers may have gone.  The relay's own *)
(* side of a raise is in RelayTx; here it is what one call answers.          *)
EXTENDS Naturals, Sequences, FiniteSets

CONSTANTS Peers,                 \* other devices, each may be below level 1
          Levels,                \* the outbox at the start: a sequence of 0 and 1
          MaxDelay,              \* RAISE_BACKOFF_MAX in units of the first wait
          MaxPeerMoves, MaxOutages, MaxLists  \* bounds on what others do
ASSUME CapabilityAssumption ==
  /\ Levels \in Seq({0, 1}) /\ MaxDelay \in Nat \ {0} /\ IsFiniteSet(Peers)
  /\ {MaxPeerMoves, MaxOutages, MaxLists} \subseteq Nat

VARIABLES relayGate,   \* the relay at this address enforces the gate
          floor,       \* its required_sync_capability
          asked,       \* its requested_sync_capability
          relayUp,
          below,       \* the devices that report less than level 1
          queue,       \* levels of the unacked outbox entries
          proven,      \* capability_gate_proven of the drain's connection
          backoff,     \* _yapstack_sync_raise_backoff, or NoBackoff
          resets,      \* CAPABILITY_RESETS.raise_backoff
          notice,      \* CAPABILITY_NOTICE, with the blockers it names
          capPc,       \* where the drain's cycle is
          pushError,   \* push_error of the report being built
          capWake,     \* the permit of drain_wake
          unseenSwap,  \* the relay was replaced and no call has failed since
          leaked,      \* a gateless relay took a gated batch though none was
          told,        \* somebody asked for a new raise with all blockers gone
          capUsed      \* what the bounds have counted
gateVars == <<relayGate, floor, asked, relayUp, below, queue, proven, backoff, resets, notice, capPc,
              pushError, capWake, unseenSwap, leaked, told, capUsed>>

NoBackoff == [kind |-> "none", delay |-> 0, left |-> 0, seen |-> {}, who |-> {}]
NoNotice  == [kind |-> "none", who |-> {}]
drainCell == <<queue, proven, backoff, capPc, pushError>>
relayCell == <<relayGate, floor, asked, relayUp, unseenSwap, leaked>>

CapInit ==
  /\ relayGate \in BOOLEAN /\ floor = 0 /\ asked = 0 /\ relayUp = TRUE
  /\ below \in SUBSET Peers /\ queue = Levels
  /\ proven = FALSE /\ backoff = NoBackoff /\ resets = FALSE /\ notice = NoNotice
  /\ capPc = "top" /\ pushError = "none" /\ capWake = FALSE
  /\ unseenSwap = FALSE /\ leaked = FALSE /\ told = FALSE
  /\ capUsed = [peer |-> 0, out |-> 0, list |-> 0]

------------------------------------------------------------------------------
(* raise_backoff: the refusal is reported again while its wait lasts. *)
(* Mutant: the wait is never over. *)
WaitingNeverOver == backoff.kind # "none"
Waiting == backoff.kind # "none" /\ backoff.left > 0

(* record_refused_raise: doubled for a refusal of the same kind. *)
Refused(kind, who) ==
  LET d == IF backoff.kind = kind
             THEN IF backoff.delay * 2 > MaxDelay THEN MaxDelay ELSE backoff.delay * 2
             ELSE 1
  IN [kind |-> kind, delay |-> d, left |-> d, who |-> who,
      seen |-> IF backoff.kind = "none" THEN {} ELSE backoff.seen]

(* forget_capability_gate, after a network error in either direction. *)
(* Mutant: an unreachable relay leaves the proof standing. *)
ForgetGateKept ==
  /\ unseenSwap' = FALSE
  /\ proven' = proven
  /\ backoff' = IF backoff.kind = "missing" THEN NoBackoff ELSE backoff
ForgetGate ==
  /\ unseenSwap' = FALSE
  /\ proven' = FALSE
  /\ backoff' = IF backoff.kind = "missing" THEN NoBackoff ELSE backoff

(* CAPABILITY_RESETS.apply, before every cycle. *)
ApplyResets ==
  /\ capPc = "top" /\ capPc' = "push" /\ pushError' = "none"
  /\ resets' = FALSE /\ backoff' = IF resets THEN NoBackoff ELSE backoff
  /\ UNCHANGED <<relayCell, below, queue, proven, notice, capWake, told, capUsed>>

(* The level of the batch at the head of the outbox. *)
BatchLevel == IF queue = <<>> THEN 0 ELSE Head(queue)
(* push_outbox at level 0, and the end of the push when nothing is left. *)
PushUngated ==
  /\ capPc = "push" /\ BatchLevel = 0
  /\ IF queue = <<>> \/ ~relayUp
       THEN /\ capPc' = "pull" /\ pushError' = IF queue = <<>> THEN "none" ELSE "network"
            /\ UNCHANGED queue
       ELSE queue' = Tail(queue) /\ UNCHANGED <<capPc, pushError>>
  /\ UNCHANGED <<relayCell, below, proven, backoff, resets, notice, capWake, told, capUsed>>

(* require_capability_gate. *)
RequireGate ==
  /\ capPc = "push" /\ BatchLevel = 1
  /\ \/ Waiting /\ capPc' = "pull" /\ pushError' = backoff.kind
     \/ ~Waiting /\ proven /\ capPc' = "send" /\ UNCHANGED pushError
     \/ ~Waiting /\ ~proven /\ capPc' = "raise" /\ UNCHANGED pushError
  /\ UNCHANGED <<relayCell, below, queue, proven, backoff, resets, notice, capWake, told, capUsed>>

(* raise_floor: the relay answers from the devices it knows at that moment;  *)
(* "again" is the raise after a floor refusal, "raise" the one before it.    *)
Raise ==
  /\ capPc \in {"raise", "again"}
  /\ \/ /\ ~relayUp /\ pushError' = "network" /\ capPc' = "pull"
        /\ UNCHANGED <<floor, asked, proven, backoff>>
     \/ /\ relayUp /\ ~relayGate
        /\ backoff' = Refused("missing", {}) /\ pushError' = "missing" /\ capPc' = "pull"
        /\ UNCHANGED <<floor, asked, proven>>
     \/ /\ relayUp /\ relayGate /\ floor = 0 /\ below # {}
        /\ proven' = TRUE /\ backoff' = Refused("blocked", below)
        /\ pushError' = "blocked" /\ capPc' = "pull" /\ asked' = 1 /\ UNCHANGED floor
     \/ /\ relayUp /\ relayGate /\ (floor = 1 \/ below = {})
        /\ floor' = 1 /\ proven' = TRUE /\ backoff' = NoBackoff
        /\ capPc' = (IF capPc = "raise" THEN "send" ELSE "resend") /\ UNCHANGED <<pushError, asked>>
  /\ UNCHANGED <<relayGate, relayUp, unseenSwap, leaked, below, queue, resets, notice, capWake, told, capUsed>>

(* push_batch at level 1: a relay without the gate takes it unread. *)
SendGated ==
  /\ capPc \in {"send", "resend"}
  /\ \/ /\ ~relayUp /\ pushError' = "network" /\ capPc' = "pull" /\ UNCHANGED <<queue, proven, leaked>>
     \/ /\ relayUp /\ relayGate /\ floor = 0
        /\ IF capPc = "send" THEN proven' = TRUE /\ capPc' = "again" /\ UNCHANGED pushError
                             ELSE UNCHANGED proven /\ capPc' = "pull" /\ pushError' = "floor"
        /\ UNCHANGED <<queue, leaked>>
     \/ /\ relayUp /\ (~relayGate \/ floor = 1)
        /\ queue' = Tail(queue) /\ leaked' = (leaked \/ (~relayGate /\ ~unseenSwap))
        /\ capPc' = "push" /\ UNCHANGED <<pushError, proven>>
  /\ UNCHANGED <<relayGate, floor, asked, relayUp, unseenSwap, below, backoff, resets, notice, capWake, told, capUsed>>

(* note_relay_capability: a floor that suffices, or levels other than those  *)
(* of the first pull after the refusal, end the wait.                        *)
Noted(b) ==
  IF b.kind = "none" THEN b
  ELSE IF floor = 1 \/ ~(b.seen \subseteq {<<floor, asked>>}) THEN NoBackoff
  ELSE [b EXCEPT !.seen = {<<floor, asked>>}]

(* capability_notice folded over the cycle's report. *)
Notice ==
  IF pushError = "blocked" THEN [kind |-> "waiting", who |-> backoff.who]
  ELSE IF pushError = "missing" THEN [kind |-> "relay", who |-> {}]
  ELSE NoNotice

(* pull_direction and the end of drain_once: a network error of either half  *)
(* forgets the gate, levels of a gated relay are noted, the notice is        *)
(* published, and the drain waits.                                           *)
PullAndPublish ==
  /\ capPc = "pull"
  /\ IF pushError = "network" \/ ~relayUp
       THEN ForgetGate
       ELSE /\ backoff' = IF relayGate THEN Noted(backoff) ELSE backoff
            /\ UNCHANGED <<proven, unseenSwap>>
  /\ notice' = Notice /\ capPc' = "idle"
  /\ UNCHANGED <<relayGate, floor, asked, relayUp, leaked, below, queue, resets, pushError, capWake, told, capUsed>>

(* The idle wait of the loop: a wake or DRAIN_INTERVAL. *)
IdleEnds == /\ capPc = "idle" /\ capPc' = "top" /\ capWake' = FALSE
            /\ UNCHANGED <<relayCell, below, queue, proven, backoff, resets, notice, pushError, told, capUsed>>

(* A respawn opens a new connection: both TEMP tables are empty. *)
Respawn == /\ capPc = "idle" /\ capUsed.out < MaxOutages
           /\ capUsed' = [capUsed EXCEPT !.out = @ + 1]
           /\ proven' = FALSE /\ backoff' = NoBackoff /\ capPc' = "top" /\ notice' = NoNotice
           /\ UNCHANGED <<relayCell, below, queue, resets, pushError, capWake, told>>

(* The wait of a refusal passes. *)
BackoffTicks == /\ backoff.left > 0 /\ backoff' = [backoff EXCEPT !.left = @ - 1]
                /\ UNCHANGED <<relayCell, below, queue, proven, resets, notice, capPc, pushError, capWake, told, capUsed>>

------------------------------------------------------------------------------
(* Everybody else. *)
PeerMoves ==
  /\ capUsed.peer < MaxPeerMoves /\ capUsed' = [capUsed EXCEPT !.peer = @ + 1]
  /\ \E p \in Peers :
       \/ p \in below /\ below' = below \ {p} /\ UNCHANGED told
       \/ p \notin below /\ floor = 0 /\ below' = below \cup {p} /\ told' = FALSE
  /\ UNCHANGED <<relayCell, queue, proven, backoff, resets, notice, capPc, pushError, capWake>>
RelayGoesDown ==
  /\ relayUp /\ capUsed.out < MaxOutages /\ relayUp' = FALSE
  /\ capUsed' = [capUsed EXCEPT !.out = @ + 1]
  /\ UNCHANGED <<relayGate, floor, asked, unseenSwap, leaked, below, drainCell, resets, notice, capWake, told>>
(* It comes back as it was, upgraded, or restored to an older one. *)
RelayComesBack ==
  /\ ~relayUp /\ relayUp' = TRUE
  /\ relayGate' \in BOOLEAN /\ floor' \in (IF relayGate' THEN {0, floor} ELSE {0}) /\ asked' \in {0, asked}
  /\ unseenSwap' = (unseenSwap \/ relayGate' # relayGate) /\ told' = (told /\ relayGate')
  /\ UNCHANGED <<leaked, below, drainCell, resets, notice, capWake, capUsed>>

(* roster_clears_capability_blockers *)
ClearsBlockers == notice.kind = "waiting" /\ notice.who # {} /\ notice.who \cap below = {}
(* Mutant: the reset is applied at once, to the caller's own connection. *)
RequestResetDirect == /\ capWake' = TRUE /\ UNCHANGED resets
(* request_raise_backoff_reset, and the wake that follows it. *)
RequestReset == resets' = TRUE /\ capWake' = TRUE
(* The status command reads the device index and the notice. *)
ListDevices ==
  /\ relayUp /\ capUsed.list < MaxLists /\ capUsed' = [capUsed EXCEPT !.list = @ + 1]
  /\ ClearsBlockers /\ RequestReset /\ told' = (below = {} /\ relayGate)
  /\ UNCHANGED <<relayCell, below, drainCell, notice>>
(* sync_remove_device, once the relay took the roster. *)
RemoveDevice ==
  /\ relayUp /\ capUsed.peer < MaxPeerMoves /\ capUsed' = [capUsed EXCEPT !.peer = @ + 1]
  /\ \E p \in Peers : below' = below \ {p}
  /\ RequestReset /\ told' = (below' = {} /\ relayGate)
  /\ UNCHANGED <<relayCell, drainCell, notice>>

DrainCycle == ApplyResets \/ PushUngated \/ RequireGate \/ Raise \/ SendGated \/ PullAndPublish \/ IdleEnds
CapNext == \/ DrainCycle \/ Respawn \/ BackoffTicks \/ PeerMoves \/ RelayGoesDown
           \/ RelayComesBack \/ ListDevices \/ RemoveDevice
CapFairness == WF_gateVars(DrainCycle) /\ WF_gateVars(BackoffTicks)
CapSpec == CapInit /\ [][CapNext]_gateVars /\ CapFairness

------------------------------------------------------------------------------
CapTypeOK ==
  /\ floor \in 0..1 /\ below \subseteq Peers /\ queue \in Seq({0, 1})
  /\ backoff.kind \in {"none", "missing", "blocked"} /\ backoff.delay \in 0..MaxDelay
  /\ backoff.left \in 0..backoff.delay

(* A batch above level 0 only reaches a relay that enforces the gate, unless *)
(* the relay was replaced so briefly that no call of this drain failed:      *)
(* capability_gate_proven is dropped by every error the outage causes.       *)
GateProofFresh == ~leaked

(* Once somebody asked for the raise again with every blocker gone, the      *)
(* drain never rests on the old refusal: the request stays until a cycle     *)
(* took it, also when it crossed the refusal itself.                         *)
PromptRaise ==
  told /\ capPc = "idle" /\ ~capWake /\ ~resets => ~(backoff.kind = "blocked" /\ Waiting)

(* The outbox drains once the relay stays up and gated and nobody is behind, *)
(* whether or not anybody asks: no refusal outlives its wait.                *)
RaiseDelivered ==
  <>[](relayUp /\ relayGate /\ below = {}) => <>(queue = <<>>)

(* The gate's two answers: no batch leaks past a proof that is stale, and no *)
(* refusal is kept once its cause is gone and somebody said so.              *)
GateSound == CapTypeOK /\ GateProofFresh /\ PromptRaise
================================================================================
