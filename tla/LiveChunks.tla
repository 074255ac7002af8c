------------------------------ MODULE LiveChunks ------------------------------
(* What a session's live loop does with the samples of the microphone: the   *)
(* voice detector's cursor, the chunks it dispatches, the session's WAV      *)
(* file, the windows a dictation takes out of both, a ring buffer replaced   *)
(* under way, and the final flush.  A position is one detector frame.  Wall  *)
(* clock conditions (silence long enough, speech too long) are free choices; *)
(* the pause a long chunk is cut at is any frame the search may return.      *)
(*                                                                           *)
(* The ring is read under the audio lock and the dictation's windows under   *)
(* the live state's: what is done under different acquisitions is a step of  *)
(* its own.  A read of samples and a read of the windows that follows it     *)
(* make one step only where the windows are read last: a window stored       *)
(* between the two might as well have been stored before both.               *)
EXTENDS Naturals, FiniteSets, FiniteSetsExt

CONSTANTS MaxPos,      \* bound on the positions of one ring
          Capacity,    \* of the ring, in positions
          MaxChunk,    \* max_chunk_duration
          MinChunk,    \* MIN_CHUNK_DURATION_SECS
          PreRoll,     \* pre_roll
          MaxWindows,  \* bound on dictations
          MaxSwaps     \* bound on replacements of the ring

ASSUME LiveChunksAssumption ==
  /\ {MaxPos, Capacity, MaxChunk, MinChunk, PreRoll, MaxWindows, MaxSwaps} \subseteq Nat
  /\ MaxPos >= 2 /\ MinChunk > 0 /\ MaxChunk >= 2 * MinChunk /\ Capacity > MaxChunk

VARIABLES written,     \* write_pos of the current ring
          loud,        \* the frames of the current ring that are speech
          gen,         \* how often the ring was replaced
          swap,        \* how far handle_buffer_replacement is
          old,         \* the ring it replaces: its end and its dictated samples, where the
                       \* rescue stops, and the first position read from the new ring
          base,        \* where the session begins on its ring
          vad,         \* SourceVadState
          task,        \* the chunk task in flight
          dead,        \* an outcome said that the sidecar is dead
          owner,       \* DictationOwnsMic: the open window and the closed ones
          dictation,   \* what the dictation is at, and the position it has read
          flush,       \* the session file's position in the ring
          taken,       \* what this tick extracted: its end, the muted part, the scored
                       \* frames and how they sound
          view,        \* the windows as this tick or the end read them, what the tick is to
                       \* do, and the position it goes by
          tick,        \* where the loop is
          stopAt,      \* positions of the stop request
          heard,       \* samples of this ring sent to transcription
          slipped,     \* those of them in or after a window the sender did not know of
          kept, blank, \* samples of this ring in the file, audible and muted
          dictated,    \* samples of this ring spoken to a dictation
          flaws,       \* what went wrong with a sample, on this ring or an older one
          windows
chunkVars == <<written, loud, gen, swap, old, base, vad, task, dead, owner, dictation, flush,
               taken, view, tick, stopAt, heard, slipped, kept, blank, dictated, flaws, windows>>
ring  == <<written, loud, gen, swap, old, base>>
file  == <<flush, kept, blank>>
sent  == <<heard, slipped, flaws>>
mic   == <<owner, dictation, dictated, windows>>
loop  == <<task, dead, taken, view>>

None      == MaxPos + 2
Span(a, b) == {p \in 0..MaxPos : a <= p /\ p < b}
Smaller(a, b) == IF a < b THEN a ELSE b
Larger(a, b)  == IF a > b THEN a ELSE b

(* snapshot_range: what a ring written up to `end' still holds of [a, b).    *)
SnapshotRange(end, a, b) ==
  Span(IF end > a + Capacity THEN end - Capacity ELSE a, Smaller(b, end))

(* The windows in force that the loop's view does not have, by their start.  *)
UnknownStarts ==
  {w.start : w \in owner.closed \ view.closed}
    \cup IF owner.open \in {None, view.open} THEN {} ELSE {owner.open}
(* Sending the positions S of the current ring to transcription.             *)
Send(S) ==
  /\ heard' = heard \cup S
  /\ slipped' = slipped \cup {p \in S : \E start \in UnknownStarts : start <= p}
  /\ flaws' = flaws \cup (IF (heard \ slipped) \cap S # {} THEN {"twice"} ELSE {})
                    \cup (IF dictated \cap S \cap Span(0, view.mark) # {} THEN {"overheard"} ELSE {})

FreshVad(pos) ==
  [speaking |-> FALSE, start |-> pos, earliest |-> pos, read |-> pos, last |-> "none",
   drain |-> FALSE, inFlight |-> FALSE, consumed |-> 0, flushedAt |-> None]

(* carry_open_tail_into_live: the speech still open at the end of a backfill *)
(* of two frames is given to the live side and cut from the backfill.        *)
CarriedTail(keep) ==
  [FreshVad(2) EXCEPT !.start = keep, !.earliest = keep, !.speaking = keep < 2]

NoOld    == [end |-> 0, cut |-> 0, dictated |-> {}, pos |-> 0]
NoTaken  == [upto |-> 0, muted |-> {}, scored |-> {}, sound |-> {}]
NoView   == [open |-> None, closed |-> {}, mark |-> 0, action |-> "none", fatal |-> FALSE, aim |-> 0]

(* build_initial_sources_and_backfill: the loop begins at the write          *)
(* position, with or without a backfill behind it.                           *)
ChunkInit ==
  /\ gen = 0 /\ swap = "no" /\ old = NoOld /\ base = 0
  /\ task = "none" /\ dead = FALSE /\ tick = "idle" /\ stopAt = None
  /\ owner = [open |-> None, closed |-> {}] /\ dictation = [at |-> "none", pos |-> 0]
  /\ taken = NoTaken /\ view = NoView
  /\ slipped = {} /\ flaws = {} /\ kept = {} /\ blank = {} /\ dictated = {} /\ windows = 0
  /\ flush = 0
  /\ \/ written = 0 /\ loud = {} /\ heard = {} /\ vad = FreshVad(0)
     \/ \E keep \in 0..2 :
          /\ written = 2 /\ loud = Span(keep, 2) /\ heard = Span(0, keep)
          /\ vad = CarriedTail(keep)

------------------------------------------------------------------------------
(* The capture callback and the dictation beside the session                 *)

Over == tick \in {"over", "failed"}
(* The windows still lie on the ring that is being replaced. *)
Unrebased == swap \in {"swapped", "read"}

Sample ==
  /\ ~Over /\ written < MaxPos /\ written' = written + 1
  /\ \E speech \in BOOLEAN : loud' = IF speech THEN loud \cup {written} ELSE loud
  /\ dictated' = IF dictation.at = "open" /\ (Unrebased \/ owner.open <= written)
                   THEN dictated \cup {written} ELSE dictated
  /\ UNCHANGED <<gen, swap, old, base, vad, loop, owner, dictation, file, tick, stopAt, sent,
                 windows>>

(* The start: the position is read under the audio lock, the window opened   *)
(* under the live state's.                                                   *)
OpenRead ==
  /\ ~Over /\ dictation.at = "none" /\ windows < MaxWindows
  /\ dictation' = [at |-> "opening", pos |-> written]
  /\ UNCHANGED <<ring, vad, loop, owner, file, tick, stopAt, sent, dictated, windows>>

OpenWindow ==
  /\ ~Over /\ dictation.at = "opening" /\ dictation' = [at |-> "open", pos |-> 0]
  /\ windows' = windows + 1 /\ owner' = [owner EXCEPT !.open = dictation.pos]
  /\ UNCHANGED <<ring, vad, loop, file, tick, stopAt, sent, dictated>>

(* The end likewise. *)
CloseRead ==
  /\ ~Over /\ dictation.at = "open"
  /\ dictation' = [at |-> "closing", pos |-> written]
  /\ UNCHANGED <<ring, vad, loop, owner, file, tick, stopAt, sent, dictated, windows>>

Closed(w, end) ==
  [open |-> None,
   closed |-> IF end > w.open THEN w.closed \cup {[start |-> w.open, end |-> end, nr |-> windows]}
              ELSE w.closed]
(* A window without length is dropped, and one that is closed before the     *)
(* windows are rebased does not reach the new ring: the samples it stood for *)
(* are guarded by nothing from then on.  One that is closed after the rebase, *)
(* by an end that was read before the swap, reaches beyond what is written.  *)
CloseWindowAt ==
  /\ ~Over /\ dictation.at = "closing" /\ dictation' = [at |-> "none", pos |-> 0]
  /\ owner' = Closed(owner, dictation.pos)
  /\ dictated' = IF Unrebased THEN {} ELSE dictated
  /\ old' = IF Unrebased /\ dictation.pos <= owner.open
              THEN [old EXCEPT !.dictated = @ \ Span(owner.open, None)] ELSE old
  /\ flaws' = IF ~Unrebased /\ owner.open < dictation.pos /\ written < dictation.pos
                THEN flaws \cup {"adrift"} ELSE flaws
  /\ UNCHANGED <<written, loud, gen, swap, base, vad, loop, file, tick, stopAt, heard, slipped,
                 windows>>

(* DictationMicSnapshot::iter_all: the open window has no end yet. *)
SpansOf(w) ==
  {Span(c.start, c.end) : c \in w.closed} \cup IF w.open = None THEN {} ELSE {Span(w.open, None)}
Overlaps(w, a, b) == UNION SpansOf(w) \cap Span(a, b) # {}

TaskEnds ==
  /\ task = "running" /\ task' = "done"
  /\ \E fatal \in BOOLEAN : dead' = (dead \/ fatal)
  /\ UNCHANGED <<ring, vad, taken, view, mic, file, tick, stopAt, sent>>

------------------------------------------------------------------------------
(* One tick: extract under the audio lock, write the file and score, poll    *)
(* and read the windows, then consume them or dispatch                       *)

Mute(a, b) == UNION SpansOf(owner) \cap Span(a, b)

TickExtract ==
  /\ tick = "idle" /\ swap = "no" /\ stopAt = None /\ tick' = "extracted"
  /\ taken' = [NoTaken EXCEPT !.upto = written, !.muted = Mute(flush, written)]
  /\ UNCHANGED <<ring, vad, task, dead, view, mic, file, stopAt, sent>>

(* mute_dictation_window_in_wav_extraction and write_session_wav_samples.    *)
WriteFile(S, muted) ==
  /\ kept' = kept \cup (S \ muted)
  /\ blank' = blank \cup (S \cap muted)

SoundOf(frames) ==
  (IF frames \cap loud = {} THEN {} ELSE {"voice"}) \cup (IF frames \subseteq loud THEN {} ELSE {"quiet"})
TickWrite ==
  LET frames == SnapshotRange(taken.upto, vad.read, taken.upto)
  IN /\ tick = "extracted" /\ stopAt = None /\ tick' = "written"
     /\ vad' = [vad EXCEPT !.read = taken.upto,
                           !.last = IF frames = {} THEN @
                                    ELSE IF Max(frames) \in loud THEN "voice" ELSE "quiet"]
     /\ WriteFile(SnapshotRange(taken.upto, flush, taken.upto), taken.muted)
     /\ flush' = Larger(flush, taken.upto)
     /\ taken' = [taken EXCEPT !.upto = 0, !.muted = {}, !.scored = frames,
                                !.sound = SoundOf(frames)]
     /\ UNCHANGED <<ring, task, dead, view, mic, stopAt, sent>>

(* The outcome of a finished task is applied before the frames are polled.   *)
Settled(v) == [v EXCEPT !.inFlight = @ /\ task # "done"]

(* Without a new frame the last probability is polled again.                 *)
Polls(v) == IF taken.sound # {} THEN taken.sound ELSE {v.last} \ {"none"}
(* poll_vad over the frames of the tick: an onset moves the start back by    *)
(* the pre-roll, but not before the end of the last chunk.  A backlog is     *)
(* dispatched without a poll.                                                *)
Onset(v) ==
  IF v.drain \/ v.speaking \/ "voice" \notin Polls(v) THEN v
  ELSE [v EXCEPT !.speaking = TRUE,
                 !.start = Larger(IF @ > PreRoll THEN @ - PreRoll ELSE 0, v.earliest)]
PollActions(v) ==
  IF v.drain THEN {"force"}
  ELSE {"none"} \cup {a \in {"chunk", "force"} :
                        v.speaking /\ (IF a = "chunk" THEN "quiet" ELSE "voice") \in Polls(v)}

(* DictationOwnsMic::snapshot: of the samples written so far it has every    *)
(* window, and of a window open on this ring the samples to come.            *)
Looked(action, aim) ==
  [open |-> owner.open, closed |-> owner.closed, action |-> action, fatal |-> dead, aim |-> aim,
   mark |-> IF owner.open <= written THEN None ELSE written]

TickPoll ==
  LET v == Onset(Settled(vad))
  IN /\ tick = "written" /\ swap = "no" /\ stopAt = None /\ tick' = "polled"
     /\ vad' = v /\ task' = IF task = "done" THEN "none" ELSE task
     /\ \E action \in PollActions(v) : view' = Looked(action, 0)
     /\ UNCHANGED <<ring, dead, taken, mic, file, stopAt, sent>>

(* quietest_recent_frame_pos: the pause may be any frame of the chunk.       *)
Pauses(v, cap) == (v.start + 1)..cap
(* live_dispatch_end: where a chunk that starts at v.start may end.          *)
DispatchEnds(v, current, force, seek) ==
  LET cap == Smaller(current, v.start + MaxChunk)
  IN IF seek /\ (force \/ current > cap) THEN {cap} \cup Pauses(v, cap) ELSE {cap}

(* prepare_chunk_dispatch_inner: the state after a dispatch that ends at     *)
(* `end'; too little audio leaves it as it is.                               *)
DispatchSet(v, end) == SnapshotRange(written, v.start, end)
Prepared(v, current, end, force, seek) ==
  LET S == DispatchSet(v, end)
      to == Max(S) + 1
      more == current > to
  IN IF Cardinality(S) < MinChunk THEN v
     ELSE [v EXCEPT !.speaking = more \/ force, !.start = to, !.earliest = to,
                    !.drain = IF seek /\ (force \/ current > v.start + MaxChunk)
                                THEN current - to >= MaxChunk ELSE more,
                    !.inFlight = TRUE]
Spoken(v, end) == IF Cardinality(DispatchSet(v, end)) < MinChunk THEN {} ELSE DispatchSet(v, end)

(* reset_vad_past, for one window after the other: where the last one ends.  *)
PastWindows(v, ws) ==
  LET end == (CHOOSE w \in ws : \A x \in ws : x.nr <= w.nr).end
  IN [v EXCEPT !.start = end, !.earliest = end, !.read = end, !.speaking = FALSE,
               !.drain = FALSE, !.last = "none", !.consumed = end,
               !.flushedAt = IF @ \in {w.start : w \in ws} THEN None ELSE @]

(* dispatch_pre_window_flush before a window: what was said up to its start. *)
PreWindow(v, start) == v.speaking /\ ~v.inFlight /\ start > v.start
FlushEnd(v, start) == Smaller(start, v.start + MaxChunk)
FlushedTo(v, start) ==
  IF PreWindow(v, start) THEN Prepared(v, start, FlushEnd(v, start), TRUE, FALSE) ELSE v
FlushedSet(v, start) == IF PreWindow(v, start) THEN Spoken(v, FlushEnd(v, start)) ELSE {}

(* Mutant: a window that was opened and closed between two ticks is missed.  *)
NewWindowsNone(v) == {}
(* The closed windows the source has not consumed.                           *)
NewWindows(v) == {w \in view.closed : w.end > v.consumed}
FirstStart(ws) == (CHOOSE w \in ws : \A x \in ws : w.nr <= x.nr).start
Busy == NewWindows(vad) # {} \/ view.open # None
(* What is pending is flushed up to the first window; a later window finds   *)
(* the source reset and silent.  Then the open window's turn comes.          *)
Consumed(v) ==
  LET ws == NewWindows(v)
      first == FirstStart(ws)
      u == IF ws = {} THEN v ELSE PastWindows(FlushedTo(v, first), ws)
      opens == view.open # None /\ u.flushedAt # view.open
  IN [vad |-> IF opens THEN [FlushedTo(u, view.open) EXCEPT !.flushedAt = view.open] ELSE u,
      said |-> (IF ws = {} THEN {} ELSE FlushedSet(v, first))
                 \cup (IF opens THEN FlushedSet(u, view.open) ELSE {})]

(* prune_before *)
PruneBefore(pos) == [owner EXCEPT !.closed = {w \in @ : w.end > pos}]
(* The end of the tick, with the detector's state v: an outcome that said    *)
(* the sidecar is dead ends the loop, or else the windows that both readers  *)
(* are past are dropped.                                                     *)
EndTick(v) ==
  /\ vad' = v /\ taken' = NoTaken /\ view' = NoView
  /\ task' = IF v.inFlight /\ ~vad.inFlight THEN "running" ELSE task
  /\ tick' = IF view.fatal THEN "fatal" ELSE "idle"
  /\ owner' = IF view.fatal THEN owner ELSE PruneBefore(Smaller(v.consumed, flush))
  /\ UNCHANGED <<ring, dead, dictation, dictated, windows, file, stopAt>>

TickConsume ==
  /\ tick = "polled" /\ Busy
  /\ EndTick(Consumed(vad).vad) /\ Send(Consumed(vad).said)

TickSkip ==
  /\ tick = "polled" /\ ~Busy /\ view.action # "none" /\ vad.inFlight
  /\ EndTick(vad) /\ UNCHANGED sent

(* advance_idle_cursor.  What lies further back than the pre-roll reaches is *)
(* out of reach when the next tick scores it.                                *)
IdleCursor(v) == IF v.inFlight \/ v.speaking THEN v ELSE [v EXCEPT !.start = written]
TickIdle ==
  /\ tick = "polled" /\ ~Busy /\ view.action = "none"
  /\ EndTick(IdleCursor(vad)) /\ UNCHANGED <<heard, slipped>>
  /\ flaws' = IF written > vad.read + PreRoll THEN flaws \cup {"stalled"} ELSE flaws

(* The write position is read under one lock, the samples under the next.    *)
TickAim ==
  /\ tick = "polled" /\ ~Busy /\ view.action # "none" /\ ~vad.inFlight
  /\ tick' = "aimed" /\ view' = [view EXCEPT !.aim = written]
  /\ UNCHANGED <<ring, vad, task, dead, taken, mic, file, stopAt, sent>>

TickDispatch ==
  LET force == view.action = "force"
  IN /\ tick = "aimed"
     /\ \E end \in DispatchEnds(vad, view.aim, force, TRUE) :
          EndTick(Prepared(vad, view.aim, end, force, TRUE)) /\ Send(Spoken(vad, end))

------------------------------------------------------------------------------
(* handle_buffer_replacement, from a restart intent between ticks or from    *)
(* the health check after the file was written.  The loop awaits it.         *)

(* What a window holds that began before the pending speech and reaches into *)
(* it: the rescue does not look for one that far back.                       *)
Straddling ==
  UNION {Span(w.start, w.end) : w \in {c \in owner.closed : vad.start \in (c.start + 1)..(c.end - 1)}}
    \cup IF owner.open < vad.start THEN Span(owner.open, None) ELSE {}
(* restart_mic: the ring is another one as soon as the manager returns.      *)
ReplaceRing ==
  /\ tick \in {"idle", "written"} /\ swap = "no" /\ gen < MaxSwaps
  /\ swap' = "swapped" /\ gen' = gen + 1
  /\ old' = [end |-> written, cut |-> written, dictated |-> dictated \ Straddling, pos |-> 0]
  /\ written' = 0 /\ loud' = {} /\ dictated' = {}
  /\ UNCHANGED <<base, vad, loop, owner, dictation, file, tick, stopAt, sent, windows>>

(* new_pos_at_swap *)
ReadNewPos ==
  /\ swap = "swapped" /\ swap' = "read" /\ old' = [old EXCEPT !.pos = written]
  /\ UNCHANGED <<written, loud, gen, base, vad, loop, mic, file, tick, stopAt, sent>>

DictationStarts == {w.start : w \in owner.closed} \cup ({owner.open} \ {None})
(* earliest_dictation_start_in_range, bounded by the old write position.     *)
RescueEnd ==
  LET inside == DictationStarts \cap Span(vad.start, old.end)
  IN IF inside = {} THEN old.end ELSE Min(inside)
(* rebase_for_mic_buffer_replacement: closed windows belong to the old ring, *)
(* an open one goes on from the position read from the new one.              *)
Rebased == [open |-> IF owner.open = None THEN None ELSE old.pos, closed |-> {}]
Rebase ==
  /\ swap = "read" /\ swap' = "rebased" /\ owner' = Rebased
  /\ old' = [old EXCEPT !.cut = RescueEnd]
  /\ UNCHANGED <<written, loud, gen, base, vad, loop, dictation, dictated, windows, file, tick,
                 stopAt, sent>>

(* spawn_pre_swap_rescue_chunk: the speech still pending on the old ring.    *)
RescuedSpeech == SnapshotRange(old.end, vad.start, old.cut)
(* rescue_pre_swap_wav_audio: what the file has not got from the old ring.   *)
RescuedFile == SnapshotRange(old.end, flush, old.cut)

(* reset_for_buffer_replacement; the rescue of the old ring is in flight.    *)
ResetVad(spawned) == [FreshVad(old.pos) EXCEPT !.inFlight = spawned]

(* drain_in_flight_for_source: a chunk under way is waited for first.        *)
SourceDrained == task # "running"

(* What was scored on the old ring is still polled in this tick.             *)
Rescue ==
  LET rescue == RescuedSpeech
      spawned == Cardinality(rescue) >= MinChunk
      spoken == IF spawned THEN rescue ELSE {}
  IN /\ swap = "rebased" /\ SourceDrained /\ swap' = "no"
     /\ flaws' = flaws \cup (IF (heard \ slipped) \cap spoken # {} THEN {"twice"} ELSE {})
                       \cup (IF old.dictated \cap spoken # {} THEN {"overheard"} ELSE {})
     /\ heard' = {} /\ slipped' = {} /\ kept' = {} /\ blank' = {}
     /\ base' = old.pos /\ flush' = old.pos /\ old' = NoOld
     /\ vad' = ResetVad(spawned) /\ task' = IF spawned THEN "running" ELSE "none"
     /\ taken' = [taken EXCEPT !.scored = {}]
     /\ UNCHANGED <<written, loud, gen, dead, view, mic, tick, stopAt>>

------------------------------------------------------------------------------
(* The end                                                                   *)

FlushFile(limit) ==
  LET S == SnapshotRange(written, flush, limit)
  IN WriteFile(S, Mute(flush, limit)) /\ flush' = IF S = {} THEN flush ELSE Max(S) + 1

(* The stop's positions lie a grace period after the write position.         *)
StopRequested ==
  /\ tick \in {"idle", "extracted", "written", "polled", "aimed"} /\ stopAt = None
  /\ stopAt' = written + 1
  /\ UNCHANGED <<ring, vad, loop, mic, file, tick, sent>>

(* The loop finds the request at the next of its checks, waits out the grace *)
(* and reads the windows: a dictation that owns part of the pending range    *)
(* takes all of it.                                                          *)
FinalBegin ==
  /\ stopAt # None /\ swap = "no" /\ tick \in {"idle", "extracted", "written"}
  /\ tick' = "stopping"
  /\ view' = Looked(IF Overlaps(owner, vad.start, stopAt) THEN "skip" ELSE "flush", vad.start)
  /\ flaws' = IF written < stopAt THEN flaws \cup {"stalled"} ELSE flaws
  /\ UNCHANGED <<ring, vad, task, dead, taken, mic, file, stopAt, heard, slipped>>

(* stop_tail_has_speech: what was written after the last scored frame.       *)
TailHasSpeech == SnapshotRange(written, vad.read, stopAt) \cap loud # {}
FinalTail ==
  /\ tick = "stopping"
  /\ tick' = IF \/ view.action = "skip" \/ ~(vad.speaking \/ TailHasSpeech)
                \/ stopAt < vad.start + MinChunk
               THEN "file" ELSE "pieces"
  /\ UNCHANGED <<ring, vad, loop, mic, file, stopAt, sent>>

(* final_flush_ranges: contiguous pieces, the cuts being pauses. *)
FinalEnds ==
  IF stopAt - view.aim <= MaxChunk THEN {stopAt}
  ELSE (view.aim + MinChunk)..Smaller(view.aim + MaxChunk, stopAt - MinChunk)
(* copy_final_pending_chunks_until: a piece with too little audio is left    *)
(* out, and the first one with none ends the copying.                        *)
FinalPiece ==
  /\ tick = "pieces"
  /\ \E end \in FinalEnds :
       LET S == SnapshotRange(written, view.aim, end)
       IN /\ Send(IF Cardinality(S) < MinChunk THEN {} ELSE S)
          /\ view' = [view EXCEPT !.aim = end]
          /\ tick' = IF end = stopAt \/ S = {} THEN "file" ELSE "pieces"
  /\ UNCHANGED <<ring, vad, task, dead, taken, mic, file, stopAt>>
FinalFile ==
  /\ tick = "file" /\ tick' = "over" /\ FlushFile(stopAt)
  /\ UNCHANGED <<ring, vad, loop, mic, stopAt, sent>>

(* A dead sidecar ends the loop without positions.  What is in flight is     *)
(* waited for, some time; then the windows are read, and then the range that *)
(* must not overlap them: an open window that begins behind it is let pass.  *)
FatalBegin ==
  /\ tick = "fatal" /\ tick' = "judging"
  /\ vad' = Settled(vad) /\ view' = Looked("force", 0)
  /\ UNCHANGED <<ring, task, dead, taken, mic, file, stopAt, sent>>
FatalJudge ==
  /\ tick = "judging"
  /\ tick' = IF Overlaps(view, vad.start, written) THEN "flushing" ELSE "pending"
  /\ view' = [view EXCEPT !.mark = Smaller(@, written)]
  /\ UNCHANGED <<ring, vad, task, dead, taken, mic, file, stopAt, sent>>

(* One slice after the other, as long as each is answered and leaves some.   *)
FatalAim ==
  /\ tick = "pending"
  /\ IF vad.inFlight \/ written <= vad.start
       THEN tick' = "flushing" /\ UNCHANGED view
       ELSE tick' = "slicing" /\ view' = [view EXCEPT !.aim = written]
  /\ UNCHANGED <<ring, vad, task, dead, taken, mic, file, stopAt, sent>>
FatalSlice ==
  LET end == Smaller(view.aim, vad.start + MaxChunk)
      v == Prepared(vad, view.aim, end, TRUE, FALSE)
  IN /\ tick = "slicing" /\ Send(Spoken(vad, end))
     /\ \/ /\ tick' = "flushing" /\ vad' = v
        \/ /\ v.inFlight /\ v.drain /\ tick' = "pending"
           /\ vad' = [v EXCEPT !.inFlight = FALSE]
     /\ UNCHANGED <<ring, loop, mic, file, stopAt>>
FatalFile ==
  /\ tick = "flushing" /\ tick' = "failed" /\ FlushFile(written)
  /\ UNCHANGED <<ring, vad, loop, mic, stopAt, sent>>

ChunkNext ==
  \/ Sample \/ OpenRead \/ OpenWindow \/ CloseRead \/ CloseWindowAt \/ TaskEnds
  \/ TickExtract \/ TickWrite \/ TickPoll \/ TickConsume \/ TickSkip \/ TickIdle
  \/ TickAim \/ TickDispatch
  \/ ReplaceRing \/ ReadNewPos \/ Rebase \/ Rescue
  \/ StopRequested \/ FinalBegin \/ FinalTail \/ FinalPiece \/ FinalFile
  \/ FatalBegin \/ FatalJudge \/ FatalAim \/ FatalSlice \/ FatalFile
ChunkSpec == ChunkInit /\ [][ChunkNext]_chunkVars

------------------------------------------------------------------------------
ChunkTypeOK ==
  /\ {written, flush, stopAt, base} \subseteq 0..None
  /\ {vad.start, vad.earliest, vad.read} \subseteq 0..MaxPos
  /\ task \in {"none", "running", "done"}
  /\ swap \in {"no", "swapped", "read", "rebased"}
  /\ tick \in {"idle", "extracted", "written", "polled", "aimed",
               "stopping", "pieces", "file", "over",
               "fatal", "judging", "pending", "slicing", "flushing", "failed"}
  /\ UNION {loud, heard, slipped, kept, blank, dictated} \subseteq 0..MaxPos

(* No sample is transcribed twice: the pre-roll, the pause search, the       *)
(* backlog, the windows of dictations, the rescue of an old ring and the     *)
(* final flush never reach back behind what was sent.  Only what a dispatch  *)
(* took out of a window it did not know of may be sent again.                *)
HeardOnce == "twice" \notin flaws

(* What is said to a dictation is not transcribed into the session, however  *)
(* the window falls between the session's ticks, a replaced ring and the     *)
(* stop: nothing that was spoken to it before a dispatch read the windows,   *)
(* and nothing at all if it was open then; at a dead sidecar's end, nothing  *)
(* that was spoken before the range was compared with the windows.  It ends  *)
(* where a dictation's end, read on an old ring, was stored for the new one. *)
DictationPrivate == "overheard" \in flaws => "adrift" \in flaws

(* The session's file is gapless: everything the ring has held up to the     *)
(* flush position is in it once, audible or muted, and no dictated sample of *)
(* the ring is audible.                                                      *)
FileComplete ==
  /\ MaxPos <= Capacity => kept \cup blank = Span(base, flush)
  /\ kept \cap blank = {}
  /\ kept \cap (IF swap = "no" THEN dictated ELSE old.dictated) = {}

(* After a stop nothing that was said is missing from the transcript: every  *)
(* loud frame since the session began on the ring was sent, is among the     *)
(* last and too few of a piece, lies between the last scored frame and the   *)
(* idle cursor, or was scored in the tick the stop interrupted, when no      *)
(* dictation intervened and no wait outlasted the pre-roll or the grace.     *)
AllSaid ==
  tick = "over" /\ windows = 0 /\ MaxPos <= Capacity /\ "stalled" \notin flaws =>
    \A p \in loud :
      \/ p < base \/ p \in heard \/ p >= stopAt
      \/ p >= vad.start /\ (written < p + MinChunk \/ stopAt < p + MinChunk)
      \/ vad.read <= p /\ p < vad.start
      \/ ~vad.speaking /\ p \in taken.scored

(* No dictated sample is audible in the file, a replaced ring included.  The *)
(* code does not keep this: the rescue of the file is cut at a dictation     *)
(* found after the detector's start, which may lie behind the file's         *)
(* position.                                                                 *)
FilePrivate == [][swap = "rebased" /\ swap' = "no" => old.dictated \cap RescuedFile = {}]_chunkVars

(* No dictated sample is ever transcribed into the session.  The code does   *)
(* not keep this: a dictation may begin after the windows were read and      *)
(* before the samples are.                                                   *)
NeverOverheard == [][dictated \cap heard' \subseteq heard]_chunkVars

(* What was sent lies behind the detector's start.  The code does not keep   *)
(* this: a window that opens and closes while a dispatch is under way takes  *)
(* the detector back to its end.                                             *)
SentBehind == swap = "no" /\ tick = "idle" => heard \cap Span(vad.start, None) = {}

(* A window stays until its samples are past.  The code does not keep this:  *)
(* one closed between the swap of the ring and the rebase is dropped, and    *)
(* one that began before the pending speech does not bound the rescue.       *)
WindowKept ==
  [][/\ gen' = gen => dictated \subseteq dictated'
     /\ gen' # gen => old'.dictated = dictated
     /\ swap # "no" /\ swap' # "no" => old.dictated \subseteq old'.dictated]_chunkVars

(* A window opens on the ring its start was read from.  The code does not    *)
(* keep this: the ring may be replaced between the two.                      *)
WindowOnRing == owner.open # None /\ swap = "no" => owner.open <= written

(* What was being said when a dictation began is sent before the window is   *)
(* skipped.  The code does not keep this while an earlier chunk is in        *)
(* flight.                                                                   *)
PendingKept ==
  [][\A w \in owner.closed :
       vad.speaking /\ vad'.consumed = w.end /\ vad.consumed < w.end
         /\ vad.start + MinChunk <= w.start /\ gen' = gen
         => Span(vad.start, w.start) \cap heard' # {}]_chunkVars

(* The transcript and the file of a session together: every sample said to   *)
(* the session once, nothing of a dictation, and a file without gaps.        *)
TranscriptSound == ChunkTypeOK /\ HeardOnce /\ DictationPrivate /\ FileComplete /\ AllSaid
================================================================================
