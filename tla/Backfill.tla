------------------------------ MODULE Backfill ------------------------------
(***************************************************************************)
(* Audio recorded before a live session started is cut into jobs: the VAD  *)
(* scores frames, a scan turns the scores into chunks, a short last chunk  *)
(* joins its predecessor, long chunks are split at their quietest frames,  *)
(* and the pieces go to the transcription lane one after another           *)
(* (vad_chunk_historical_audio and process_backfill).  Positions are       *)
(* samples; a score is 0 (below the offset threshold), 1 (between) or 2    *)
(* (at least the onset threshold).                                         *)
(***************************************************************************)
EXTENDS Integers, Sequences, FiniteSets, FiniteSetsExt

CONSTANTS FrameLen,                    \* samples of a VAD frame
          SilenceFrames, ChunkFrames,  \* silence that ends a chunk; its longest length
          PreRollLen, PauseFrames,     \* rewind at an onset; how far back a pause is sought
          Quantum, MinPiece, MinJob,   \* a job's longest, a piece's and a job's shortest length
          MaxTotal                     \* length of the buffer
ASSUME BackfillAssumption ==
  /\ {FrameLen, SilenceFrames, ChunkFrames, PauseFrames, MinPiece, MinJob} \subseteq Nat \ {0}
  /\ {PreRollLen, MaxTotal, Quantum} \subseteq Nat /\ Quantum > 2 * MinPiece + FrameLen

VARIABLES total,     \* samples of the buffer, cut at the live hand-over
          scores,    \* the scores so far, one per frame
          scan,      \* [speaking, start, silence, run, prevEnd]
          chunks,    \* the chunks, in order
          split,     \* the splitting: the chunk it is at, where its next piece starts
          pieces,    \* the jobs, in order
          backfillAt,\* "scan", "split", "send", "done"
          sentTo     \* what became of each piece taken so far
backfillVars == <<total, scores, scan, chunks, split, pieces, backfillAt, sentTo>>

FrameStart(k) == k * FrameLen
FrameAt(pos)  == pos \div FrameLen
Middle(k)     == (FrameStart(k) + FrameStart(k + 1)) \div 2
LowestScore(a, b)   == IF a < b THEN a ELSE b
Piece(a, b)   == [start |-> a, end |-> b]

(* quietest_frame_midpoint, over trailing_minimum_frame: of the last frames   *)
(* with their middle in (from, cap] the lowest score, the latest of them; cap *)
(* itself when there is none.                                                 *)
QuietestOr(sc, from, cap) ==
  LET inside == {k \in 0..Len(sc) - 1 : Middle(k) > from /\ Middle(k) <= cap}
      window == {k \in inside : k > Max(inside) - PauseFrames}
      low    == {k \in window : \A j \in window : sc[k + 1] <= sc[j + 1]}
  IN IF inside = {} THEN cap ELSE Middle(Max(low))

Silent0 == [speaking |-> FALSE, start |-> 0, silence |-> 0, run |-> 0, prevEnd |-> 0]
BackfillInit ==
  /\ total \in 1..MaxTotal /\ scores = <<>> /\ scan = Silent0 /\ chunks = <<>>
  /\ split = [chunk |-> 1, start |-> 0] /\ pieces = <<>> /\ backfillAt = "scan" /\ sentTo = <<>>

------------------------------------------------------------------------------
(* vad_chunks_and_open_tail, one frame.                                    *)

(* The onset: the pre-roll never reaches into the chunk before.             *)
(* Mutant: it does. *)
OnsetFreely(s, wStart) ==
  [s EXCEPT !.speaking = TRUE, !.run = 1, !.silence = 0, !.start = Max({wStart - PreRollLen, 0})]
OnsetAt(s, wStart) ==
  [s EXCEPT !.speaking = TRUE, !.run = 1, !.silence = 0, !.start = Max({wStart - PreRollLen, s.prevEnd})]

(* A chunk that is full is cut at its quietest recent frame, and what is      *)
(* behind the cut begins the next.                                            *)
LengthCut(s, k, cut, wEnd) ==
  [s EXCEPT !.start = cut, !.prevEnd = cut, !.silence = 0, !.run = IF cut < wEnd THEN k - FrameAt(cut) ELSE 0]

Frame(p) ==
  LET k == Len(scores)
      wStart == FrameStart(k)
      wEnd == LowestScore(FrameStart(k + 1), total)
      cut == QuietestOr(Append(scores, p), scan.start, wEnd)
  IN /\ backfillAt = "scan" /\ FrameStart(k + 1) <= total + 1 /\ wStart < total
     /\ scores' = Append(scores, p)
     /\ IF ~scan.speaking
          THEN /\ scan' = IF p = 2 THEN OnsetAt(scan, wStart) ELSE scan
               /\ UNCHANGED chunks
          ELSE CASE p > 0 /\ scan.run + 1 >= ChunkFrames
                      -> chunks' = Append(chunks, Piece(scan.start, cut)) /\ scan' = LengthCut(scan, k, cut, wEnd)
                 [] p > 0 /\ scan.run + 1 < ChunkFrames
                      -> scan' = [scan EXCEPT !.run = @ + 1, !.silence = 0] /\ UNCHANGED chunks
                 [] p = 0 /\ scan.silence + 1 >= SilenceFrames
                      -> chunks' = Append(chunks, Piece(scan.start, wEnd)) /\ scan' = [Silent0 EXCEPT !.prevEnd = wEnd]
                 [] OTHER -> scan' = [scan EXCEPT !.run = @ + 1, !.silence = @ + 1] /\ UNCHANGED chunks
     /\ UNCHANGED <<total, split, pieces, backfillAt, sentTo>>

(* Speech still open at the end is a chunk; merge_short_trailing_chunk. *)
ClosedTail == IF scan.speaking /\ scan.start < total THEN Append(chunks, Piece(scan.start, total)) ELSE chunks
Joined(cs) ==
  LET n == Len(cs)
  IN IF n >= 2 /\ cs[n].end = total /\ cs[n].end - cs[n].start < MinPiece /\ cs[n - 1].end = cs[n].start
       THEN Append(SubSeq(cs, 1, n - 2), Piece(cs[n - 1].start, total)) ELSE cs

(* split_backfill_chunks: the bound leaves room for a last piece.             *)
(* Mutant: it does not. *)
SplitCapFull(c, start) == start + Quantum
SplitCap(c, start)     == LowestScore(start + Quantum, c.end - MinPiece)
SplitFrom(cs, n) == [chunk |-> n, start |-> IF n \in DOMAIN cs THEN cs[n].start ELSE total]

(* One turn of the loops: a piece is cut off the chunk, or what is left of    *)
(* the chunk is the piece and the next chunk's turn comes.                    *)
Split ==
  LET c == chunks[split.chunk]
      b == QuietestOr(scores, split.start + MinPiece, SplitCap(c, split.start))
  IN /\ backfillAt = "split" /\ split.chunk <= Len(chunks)
     /\ \/ /\ c.end - split.start > Quantum
           /\ pieces' = Append(pieces, Piece(split.start, b)) /\ split' = [split EXCEPT !.start = b]
        \/ /\ c.end - split.start <= Quantum
           /\ pieces' = IF split.start < c.end THEN Append(pieces, Piece(split.start, c.end)) ELSE pieces
           /\ split' = SplitFrom(chunks, split.chunk + 1)
     /\ UNCHANGED <<total, scores, scan, chunks, backfillAt, sentTo>>
SplitDone ==
  /\ backfillAt = "split" /\ split.chunk > Len(chunks) /\ backfillAt' = "send"
  /\ UNCHANGED <<total, scores, scan, chunks, split, pieces, sentTo>>

(* All frames are scored, or the scoring failed part of the way: what it      *)
(* scored is used.                                                            *)
EndScan ==
  /\ backfillAt = "scan" /\ chunks' = Joined(ClosedTail)
  /\ split' = SplitFrom(chunks', 1) /\ backfillAt' = "split" /\ UNCHANGED <<total, scores, scan, pieces, sentTo>>

(* The VAD does not load: the whole buffer is one chunk. *)
NoVad ==
  /\ backfillAt = "scan" /\ scores = <<>>
  /\ chunks' = <<Piece(0, total)>> /\ split' = SplitFrom(chunks', 1) /\ backfillAt' = "split"
  /\ UNCHANGED <<total, scores, scan, pieces, sentTo>>

(* process_backfill and transcribe_chunk: too short a piece is passed over; a *)
(* piece is emitted, or skipped on an error, and a dead engine ends it all.   *)
SendPiece(result) ==
  /\ backfillAt = "send" /\ Len(sentTo) < Len(pieces)
  /\ LET p == pieces[Len(sentTo) + 1]
         r == IF p.end - p.start < MinJob THEN "short" ELSE result
     IN sentTo' = Append(sentTo, r) /\ backfillAt' = IF r = "dead" THEN "done" ELSE "send"
  /\ UNCHANGED <<total, scores, scan, chunks, split, pieces>>
BackfillDone ==
  /\ backfillAt = "send" /\ Len(sentTo) = Len(pieces) /\ backfillAt' = "done"
  /\ UNCHANGED <<total, scores, scan, chunks, split, pieces, sentTo>>

BackfillNext == \/ \E p \in 0..2 : Frame(p)
                \/ EndScan \/ NoVad \/ Split \/ SplitDone
                \/ (\E r \in {"emitted", "skipped", "dead"} : SendPiece(r)) \/ BackfillDone
BackfillSpec == BackfillInit /\ [][BackfillNext]_backfillVars

------------------------------------------------------------------------------
BackfillTypeOK ==
  /\ Len(sentTo) <= Len(pieces) /\ backfillAt \in {"scan", "split", "send", "done"}
  /\ scan.start \in 0..total /\ scan.prevEnd \in 0..total

Covers(cs, x) == {i \in DOMAIN cs : cs[i].start <= x /\ x < cs[i].end}
SpokenFrames        == {x \in 0..total - 1 : FrameAt(x) < Len(scores) /\ scores[FrameAt(x) + 1] = 2}
Open(x)       == backfillAt = "scan" /\ scan.speaking /\ x >= scan.start

(* No sample is in two chunks, and every sample of a frame that counts as      *)
(* speech is in one, or in the speech still open: no cut, pre-roll or merge     *)
(* loses or repeats speech.                                                     *)
SpeechCutOnce ==
  /\ \A x \in 0..total - 1 : Cardinality(Covers(chunks, x)) + (IF Open(x) THEN 1 ELSE 0) <= 1
  /\ \A x \in SpokenFrames : Covers(chunks, x) # {} \/ Open(x)

(* The jobs are the chunks cut up: the same samples, in order, none longer     *)
(* than the quantum, and no piece of a chunk that was split shorter than the   *)
(* least piece.                                                                *)
PiecesExact == backfillAt \in {"send", "done"} =>
  /\ \A x \in 0..total - 1 : Cardinality(Covers(pieces, x)) = Cardinality(Covers(chunks, x))
  /\ \A i \in DOMAIN pieces : pieces[i].end - pieces[i].start <= Quantum
  /\ \A i, j \in DOMAIN pieces : i < j => pieces[i].end <= pieces[j].start
  /\ \A i \in DOMAIN pieces : \A c \in Covers(chunks, pieces[i].start) :
       pieces[i] = chunks[c] \/ pieces[i].end - pieces[i].start >= MinPiece

(* The backfill as a whole: each spoken frame in one chunk, and each chunk   *)
(* sent in pieces that neither overlap nor leave a gap.                      *)
BackfillExact == BackfillTypeOK /\ SpeechCutOnce /\ PiecesExact
==============================================================================
