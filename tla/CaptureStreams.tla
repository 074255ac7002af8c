---------------------------- MODULE CaptureStreams ----------------------------
(* The two capture streams of the audio manager, what restarts them -- the   *)
(* preflight of a session, its watchdog, the device broker -- and the        *)
(* devices underneath.  A device is looked up by its id, then by its name,   *)
(* and whatever is not found is replaced by the default device.              *)
EXTENDS Naturals, Sequences, FiniteSets

CONSTANTS Inputs, Outputs,   \* device ids
          Name,              \* the name of each input
          NoDevice,
          MaxTries,          \* STREAM_RESTART_MAX_ATTEMPTS
          MaxShifts,         \* bound on what happens to the devices
          MaxCalls           \* bound on start_capture, stop_capture and sessions

ASSUME CaptureStreamsAssumption ==
  /\ NoDevice \notin Inputs \cup Outputs /\ Inputs \cap Outputs = {}
  /\ DOMAIN Name = Inputs /\ {MaxTries, MaxShifts, MaxCalls} \subseteq Nat

VARIABLES plugged, default,   \* the devices
          stream,     \* mic and system: MicrophoneCapture, SystemAudioCapture and buffer
          capture,    \* CaptureState
          live,       \* the session's stream bookkeeping
          queued,     \* intents in the live loop's inbox
          changed,    \* default changes the broker has not handled
          routing,    \* what the broker read before it decides
          lost,       \* sources whose change no one acted on
          shifts, calls
captureVars == <<plugged, default, stream, capture, live, queued, changed,
                 routing, lost, shifts, calls>>
devices == <<plugged, default>>

Labels  == {"mic", "system"}
Sources(kind) == CASE kind = "mic" -> {"mic"} [] kind = "system" -> {"system"} [] OTHER -> Labels
Unbound == [on |-> FALSE, dev |-> NoDevice, buffer |-> FALSE, err |-> FALSE, flows |-> FALSE,
            follows |-> FALSE]
NoLive  == [phase |-> "off", kind |-> "mic", sources |-> {}, tries |-> [l \in Labels |-> 0],
            cool |-> {}, told |-> {}]
NotRouting == [at |-> "idle", label |-> "mic", active |-> FALSE]

------------------------------------------------------------------------------
(* Opening a device                                                          *)

(* resolve_input_device: an id or a name that is not there gives the         *)
(* default; only no default at all is an error.                              *)
ById(d)   == IF d \in plugged THEN d ELSE default["mic"]
ByName(n) ==
  LET S == {d \in Inputs \cap plugged : Name[d] = n}
  IN IF S = {} THEN default["mic"] ELSE CHOOSE d \in S : TRUE

(* Which devices fail to open: none, the default microphone, all.            *)
Unopenable == {{}, {default["mic"]}, plugged}

(* restart_mic's candidates for a target, the stored device being d.         *)
Candidates(target, d) ==
  LET stored == IF d = NoDevice THEN <<>> ELSE <<ById(d), ByName(Name[d])>>
  IN IF target = "preserve" THEN stored \o <<default["mic"]>> ELSE <<default["mic"]>> \o stored
(* The first candidate that is there and that opens: `broken' do not.        *)
FirstOpen(cands, broken) ==
  LET ok == {i \in DOMAIN cands : cands[i] # NoDevice /\ cands[i] \notin broken}
  IN IF ok = {} THEN NoDevice ELSE cands[CHOOSE i \in ok : \A j \in ok : i <= j]

(* Mutant: a mic that was moved to the default is not known to follow it.    *)
DeriveBoundIsDefaultPrior(target, prior, d) == prior
DeriveBoundIsDefault(target, prior, d) ==
  IF target = "preserve" THEN prior ELSE default["mic"] # NoDevice /\ d = default["mic"]

(* restart_mic and restart_system_audio: the stream after the restart; it is *)
(* stopped when nothing opens.  Whether the buffer is kept or replaced       *)
(* (pick_buffer_for_restart) matters to its readers, in LiveChunks.          *)
Restarted(l, target, broken) ==
  LET s == stream[l]
      cands == IF l = "mic" THEN Candidates(target, s.dev) ELSE <<default["system"]>>
      d == FirstOpen(cands, broken)
  IN IF d = NoDevice
       THEN [s EXCEPT !.on = FALSE, !.flows = FALSE,
                      !.err = @ /\ \A i \in DOMAIN cands : cands[i] = NoDevice]
       ELSE [s EXCEPT !.on = TRUE, !.dev = d, !.err = FALSE, !.flows = TRUE,
                      !.follows = IF l = "mic" THEN DeriveBoundIsDefault(target, s.follows, d)
                                  ELSE @]
HasBuffer(l) == stream[l].buffer

(* start_mic / start_system_audio with MicrophoneCapture::start. *)
Started(l, want, broken) ==
  LET d == IF l = "system" THEN default["system"]
           ELSE IF want = NoDevice THEN default["mic"] ELSE ById(want)
  IN IF d = NoDevice \/ d \in broken THEN stream[l]
     ELSE [on |-> TRUE, dev |-> d, buffer |-> TRUE, err |-> FALSE, flows |-> TRUE,
           follows |-> l = "mic" /\ want = NoDevice]

(* The application starts, or is running with a mixed capture that opened.   *)
CaptureInit ==
  /\ plugged = Inputs \cup Outputs /\ default \in [Labels -> plugged]
  /\ default["mic"] \in Inputs /\ default["system"] \in Outputs
  /\ LET opened(want, l) ==
           [Unbound EXCEPT !.on = TRUE, !.buffer = TRUE, !.flows = TRUE,
                           !.dev = IF l = "mic" /\ want # NoDevice THEN want ELSE default[l],
                           !.follows = l = "mic" /\ want = NoDevice]
     IN \/ stream = [l \in Labels |-> Unbound] /\ capture = "idle"
        \/ \E want \in Inputs \cup {NoDevice} :
             stream = [l \in Labels |-> opened(want, l)] /\ capture = "capturing"
  /\ live = NoLive /\ queued = {} /\ changed = {} /\ routing = NotRouting /\ lost = {}
  /\ shifts = 0 /\ calls = 0

(* start_capture: a running mic or system stream makes the call a no-op; a   *)
(* mixed capture without system audio is only the microphone.                *)
StartCapture ==
  /\ calls < MaxCalls /\ calls' = calls + 1
  /\ \E kind \in {"mic", "system", "mixed"}, want \in Inputs \cup {NoDevice},
        broken \in Unopenable :
       LET first == IF kind = "system" THEN "system" ELSE "mic"
           one == Started(first, want, broken)
           two == Started("system", want, broken)
       IN \/ /\ stream[first].on
             /\ UNCHANGED <<stream, capture>>
          \/ /\ ~stream[first].on /\ ~one.on
             /\ capture' = "error" /\ UNCHANGED stream
          \/ /\ ~stream[first].on /\ one.on /\ capture' = "capturing"
             /\ stream' = [stream EXCEPT ![first] = one,
                                         !["system"] = IF kind = "mixed" /\ ~@.on THEN two
                                                       ELSE IF kind = "system" THEN one ELSE @]
  /\ UNCHANGED <<devices, live, queued, changed, routing, lost, shifts>>

(* stop_all keeps the buffers. *)
Stopped == [l \in Labels |-> [stream[l] EXCEPT !.on = FALSE, !.flows = FALSE]]
StopCapture ==
  /\ calls < MaxCalls /\ calls' = calls + 1 /\ \E l \in Labels : stream[l].on
  /\ stream' = Stopped /\ capture' = "idle"
  /\ UNCHANGED <<devices, live, queued, changed, routing, lost, shifts>>

------------------------------------------------------------------------------
(* The devices                                                               *)

Breaks(s, d) == IF s.on /\ s.dev = d THEN [s EXCEPT !.flows = FALSE] ELSE s

ShiftDefault(l, d) ==
  /\ default' = [default EXCEPT ![l] = d]
  /\ changed' = IF default[l] = d THEN changed ELSE changed \cup {l}

(* A device goes; the system chooses another default, if there is one.       *)
Unplug ==
  /\ shifts < MaxShifts /\ shifts' = shifts + 1
  /\ \E d \in plugged \cap Inputs :
       /\ plugged' = plugged \ {d}
       /\ stream' = [l \in Labels |-> Breaks(stream[l], d)]
       /\ \E n \in (plugged' \cap Inputs) \cup {NoDevice} :
            /\ n = NoDevice <=> plugged' \cap Inputs = {}
            /\ default["mic"] # d => n = default["mic"]
            /\ ShiftDefault("mic", n)
  /\ UNCHANGED <<capture, live, queued, routing, lost, calls>>

Plug ==
  /\ shifts < MaxShifts /\ shifts' = shifts + 1
  /\ \E d \in Inputs \ plugged :
       /\ plugged' = plugged \cup {d}
       /\ \E n \in {d, default["mic"]} \ {NoDevice} : ShiftDefault("mic", n)
  /\ UNCHANGED <<stream, capture, live, queued, routing, lost, calls>>

(* The default changes, perhaps away and back before the broker looks.       *)
ChangeDefault ==
  /\ shifts < MaxShifts /\ shifts' = shifts + 1
  /\ \E l \in Labels :
       \E d \in plugged \cap (IF l = "mic" THEN Inputs ELSE Outputs) :
         default' = [default EXCEPT ![l] = d] /\ changed' = changed \cup {l}
  /\ UNCHANGED <<plugged, stream, capture, live, queued, routing, lost, calls>>

(* A stream stops delivering, with or without the error callback.            *)
StreamDies ==
  /\ shifts < MaxShifts /\ shifts' = shifts + 1
  /\ \E l \in Labels, err \in BOOLEAN :
       /\ stream[l].flows
       /\ stream' = [stream EXCEPT ![l] = [@ EXCEPT !.flows = FALSE, !.err = err]]
  /\ UNCHANGED <<plugged, default, capture, live, queued, changed, routing, lost, calls>>

------------------------------------------------------------------------------
(* The session: preflight, watchdog, intents                                 *)

SessionStarts ==
  /\ calls < MaxCalls /\ calls' = calls + 1 /\ live.phase = "off"
  /\ \E kind \in {"mic", "system", "mixed"} :
       live' = [NoLive EXCEPT !.phase = "mic", !.kind = kind]
  /\ UNCHANGED <<devices, stream, capture, queued, changed, routing, lost, shifts>>

(* The error callback's flag, or a write position that stands still. *)
Fails(l) == stream[l].err \/ ~stream[l].flows
Bad(l) == HasBuffer(l) /\ Fails(l)
Preflight(l) ==
  LET next == IF l = "mic" THEN "system" ELSE "on"
      sources == Sources(live.kind) \ {x \in {"system"} : ~HasBuffer(x)}
  IN /\ live.phase = l
     /\ \/ /\ l \notin Sources(live.kind) \/ ~Bad(l)
           /\ live' = [live EXCEPT !.phase = next, !.sources = sources] /\ UNCHANGED stream
        \/ /\ l \in Sources(live.kind) /\ Bad(l)
           /\ \E broken \in Unopenable :
                LET s == Restarted(l, "preserve", broken)
                IN /\ stream' = [stream EXCEPT ![l] = s]
                   /\ live' = IF s.on \/ (l = "system" /\ live.kind = "mixed")
                                THEN [live EXCEPT !.phase = next, !.sources = sources]
                                ELSE NoLive
     /\ UNCHANGED <<devices, capture, queued, changed, routing, lost, shifts, calls>>

(* attempt_source_restart: a stream that came back on the device it was on   *)
(* counts as half a failure and is tried again at once; one that moved       *)
(* starts counting afresh; only a failure is ever reported as abandoned.     *)
Attempt(l, s, cooldown) ==
  LET tries == IF live.tries[l] < MaxTries THEN live.tries[l] + 1 ELSE MaxTries
  IN [live EXCEPT
        !.tries[l] = IF s.on /\ s.dev # stream[l].dev THEN 0 ELSE tries,
        !.cool = IF ~cooldown THEN @ \ {l} ELSE @ \cup {l},
        !.told = IF ~s.on /\ tries >= MaxTries THEN @ \cup {l} ELSE @]
SourceRestarts(l, target) ==
  \E broken \in Unopenable :
    LET s == Restarted(l, target, broken)
        same == s.on /\ s.dev = stream[l].dev
    IN /\ stream' = [stream EXCEPT ![l] = s]
       /\ live' = Attempt(l, s, ~same)

(* check_stream_health for one source: past its attempts or in its cooldown  *)
(* it is left alone.                                                         *)
HealthCheck(l) ==
  /\ live.phase = "on" /\ l \in live.sources
  /\ live.tries[l] < MaxTries /\ l \notin live.cool /\ Fails(l)
  /\ \/ HasBuffer(l) /\ SourceRestarts(l, "preserve")
     \/ /\ ~HasBuffer(l) /\ UNCHANGED stream
        /\ live' = Attempt(l, stream[l], TRUE)
  /\ UNCHANGED <<devices, capture, queued, changed, routing, lost, shifts, calls>>

CooldownEnds(l) ==
  /\ l \in live.cool /\ live' = [live EXCEPT !.cool = @ \ {l}]
  /\ UNCHANGED <<devices, stream, capture, queued, changed, routing, lost, shifts, calls>>

(* An intent from the broker; the session ignores a source it does not have. *)
IntentTaken(l) ==
  /\ live.phase = "on" /\ l \in queued /\ queued' = queued \ {l}
  /\ \/ /\ l \in live.sources /\ HasBuffer(l) /\ SourceRestarts(l, "follow")
        /\ lost' = IF stream'[l].on THEN lost ELSE lost \cup {l}
     \/ /\ l \notin live.sources \/ ~HasBuffer(l)
        /\ lost' = lost \cup {l} /\ UNCHANGED <<stream, live>>
  /\ UNCHANGED <<devices, capture, changed, routing, shifts, calls>>

(* Mixed capture ends with the first source that is out of attempts.         *)
MixedFailFast ==
  /\ live.phase = "on" /\ live.kind = "mixed"
  /\ \E l \in live.sources : live.tries[l] >= MaxTries
  /\ stream' = Stopped /\ capture' = "idle"
  /\ live' = [live EXCEPT !.phase = "ended"] /\ lost' = lost \cup queued /\ queued' = {}
  /\ UNCHANGED <<devices, changed, routing, shifts, calls>>

SessionEnds ==
  /\ live.phase \in {"on", "ended"} /\ live' = NoLive
  /\ lost' = lost \cup queued /\ queued' = {}
  /\ UNCHANGED <<devices, stream, capture, changed, routing, shifts, calls>>

------------------------------------------------------------------------------
(* The device broker                                                         *)

(* dispatch_mic_restart up to the alive gate: an explicit microphone that is *)
(* still there is left alone.                                                *)
BrokerReads(l) ==
  LET s == stream[l]
      keeps == l = "mic" /\ ~s.follows /\ s.dev \in plugged
  IN /\ routing.at = "idle" /\ l \in changed /\ changed' = changed \ {l}
     /\ routing' = IF keeps THEN routing ELSE [at |-> "route", label |-> l, active |-> s.on]
     /\ UNCHANGED <<devices, stream, capture, live, queued, lost, shifts, calls>>

(* Mutant: a change that comes when no session runs is dropped. *)
BrokerRoutesSessions ==
  /\ routing.at = "route"
  /\ \/ /\ live.phase = "on"
        /\ queued' = queued \cup {routing.label} /\ routing' = NotRouting
     \/ /\ live.phase # "on" /\ routing' = NotRouting /\ UNCHANGED queued
  /\ UNCHANGED <<devices, stream, capture, live, changed, lost, shifts, calls>>
(* try_send_intent and decide_routing; how a session's start and teardown    *)
(* race the decision is LiveSlots.                                           *)
BrokerRoutes ==
  /\ routing.at = "route"
  /\ \/ /\ live.phase = "on"
        /\ queued' = queued \cup {routing.label} /\ routing' = NotRouting /\ UNCHANGED lost
     \/ /\ live.phase # "on" /\ ~routing.active /\ routing' = NotRouting
        /\ lost' = lost \cup {routing.label} /\ UNCHANGED queued
     \/ /\ live.phase # "on" /\ routing.active
        /\ routing' = [routing EXCEPT !.at = "restart"] /\ UNCHANGED <<queued, lost>>
  /\ UNCHANGED <<devices, stream, capture, live, changed, shifts, calls>>

BrokerRestarts ==
  /\ routing.at = "restart" /\ routing' = NotRouting
  /\ \E broken \in Unopenable :
       LET s == Restarted(routing.label, "follow", broken)
       IN /\ stream' = [stream EXCEPT ![routing.label] = s]
          /\ lost' = IF s.on THEN lost ELSE lost \cup {routing.label}
  /\ UNCHANGED <<devices, capture, live, queued, changed, shifts, calls>>

BrokerActs == \/ \E l \in Labels : BrokerReads(l)
              \/ BrokerRoutes \/ BrokerRestarts
LoopActs(l) == HealthCheck(l) \/ CooldownEnds(l) \/ IntentTaken(l)

CaptureNext ==
  \/ StartCapture \/ StopCapture
  \/ Unplug \/ Plug \/ ChangeDefault \/ StreamDies
  \/ SessionStarts \/ MixedFailFast \/ SessionEnds
  \/ \E l \in Labels : Preflight(l) \/ LoopActs(l)
  \/ BrokerActs

CaptureSpec == CaptureInit /\ [][CaptureNext]_captureVars

------------------------------------------------------------------------------
CaptureTypeOK ==
  /\ plugged \subseteq Inputs \cup Outputs /\ capture \in {"idle", "capturing", "error"}
  /\ \A l \in Labels : stream[l].dev \in Inputs \cup Outputs \cup {NoDevice}
  /\ live.phase \in {"off", "mic", "system", "on", "ended"}
  /\ queued \cup changed \cup lost \cup live.cool \cup live.told \subseteq Labels

(* The microphones the code cannot tell from d once d's id does not open.    *)
Namesakes(d) == {d} \cup {e \in Inputs : d \in Inputs /\ Name[e] = Name[d]}

NothingOwed ==
  /\ stream["mic"].on /\ stream["mic"].follows /\ "mic" \notin lost
  /\ routing.at = "idle" /\ "mic" \notin changed \cup queued

(* Once the broker and the loop have nothing left to do, a microphone that   *)
(* follows the default is on it, or on one of its name, however the changes  *)
(* of the default fell between capture calls, sessions and restarts --       *)
(* unless the change reached nobody: no capture was running, its one restart *)
(* failed, or a session without the microphone took it.                      *)
OnDefault(d) == default["mic"] = NoDevice \/ d \in Namesakes(default["mic"])
DefaultFollowed == NothingOwed => OnDefault(stream["mic"].dev)

(* It is on the very device.  The code does not keep this where two          *)
(* microphones have one name: a default that does not open is replaced by    *)
(* its namesake, and the stream still counts as following it.                *)
DefaultExact == NothingOwed => default["mic"] \in {stream["mic"].dev, NoDevice}

(* A mixed session that ends because a source is out of attempts has said so *)
(* for that source.  The code does not keep this: rebinding to the same      *)
(* device uses up the attempts without a `restart_abandoned'.                *)
FailFastTold == live.phase = "ended" => live.told # {}

(* A restart that moves the microphone to another device leaves it following *)
(* the default.  The code does not keep this: the watchdog's restart keeps   *)
(* the flag of the explicit choice although the lookup fell back.            *)
FallbackFollows ==
  [][stream["mic"].dev # stream'["mic"].dev /\ calls' = calls /\ stream'["mic"].dev = default["mic"]
       => stream'["mic"].follows]_captureVars

(* A capture that was stopped stays stopped until it is started or a session *)
(* begins.  The code does not keep this: the broker decides on a stream it   *)
(* saw running and restarts it after the stop.                               *)
StopsStay ==
  [][\A l \in Labels :
       capture = "idle" /\ capture' = "idle" /\ live.phase = "off" /\ ~stream[l].on
         => ~stream'[l].on]_captureVars

(* The device roster and the streams agree: every stream is in a state the    *)
(* manager knows, and one that follows the default is bound to it by name.    *)
CaptureSound == CaptureTypeOK /\ DefaultFollowed
================================================================================
