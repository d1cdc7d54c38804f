------------------------------ MODULE Chunking -------------------------------
(***************************************************************************)
(* How the worker decodes a capture as it grows: each tick reads the open  *)
(* tail, commits the chunks that settled and drops settled silence, and    *)
(* the release decodes the rest (Worker::tick, Worker::finish and          *)
(* Pipeline::decode in core/decode.rs, over Windows).  Ticks come at any   *)
(* cadence, and one may end early: a decode failed, or the key came up.    *)
(***************************************************************************)
EXTENDS Windows, FiniteSetsExt

CONSTANT MaxLength  \* bound: samples of the capture

VARIABLES
  audio,    \* the capture so far: which of its samples are speech
  through,  \* Progress::through
  decoded,  \* the windows decoded for text, and where their speech ends
  ticked,   \* how much audio the last tick that went to its end had
  phase     \* "recording", "released", "done"

vars == <<audio, through, decoded, ticked, phase>>

Init ==
  /\ audio = <<>> /\ through = 0 /\ decoded = <<>> /\ ticked = 0
  /\ phase = "recording"

(* What the detector reports of the samples after `start`: runs of speech,
   indexed from there (external: Silero). *)
Spans(start) ==
  LET Speech == {i \in DOMAIN audio : i > start /\ audio[i]}
      Firsts == {i \in Speech : i - 1 \notin Speech}
      LastOf(i) == Min({j \in Speech : j >= i /\ j + 1 \notin Speech})
      runs == SetToSortSeq(Firsts, <)
  IN  [k \in DOMAIN runs |-> [from |-> runs[k] - 1 - start, to |-> LastOf(runs[k]) - start]]

OpenTail == Segments(Spans(through), Len(audio) - through)
InCapture(segment) ==
  [from |-> through + segment.from, to |-> through + segment.to,
   end |-> through + segment.end]

(* The chunks a tick commits: those before the first open one. *)
SettledChunks(segments) ==
  Min({i \in 1..(Len(segments) + 1) : i = Len(segments) + 1 \/ ~segments[i].settled}) - 1

Hears(speech) ==
  /\ phase = "recording" /\ Len(audio) < MaxLength
  /\ audio' = Append(audio, speech)
  /\ UNCHANGED <<through, decoded, ticked, phase>>

(* The first n chunks are committed, each at its own speech end. *)
Commits(segments, n) ==
  decoded' = decoded \o [i \in 1..n |-> InCapture(segments[i])]

Tick ==
  /\ phase = "recording" /\ Len(audio) > through
  /\ \E segments \in {OpenTail} :
     LET n == SettledChunks(segments)
         spoken == IF n = 0 THEN through ELSE through + segments[n].end
         silent == SilentThrough(Spans(through), Len(audio) - through)
     IN  /\ Commits(segments, n)
         /\ through' = IF n = Len(segments) /\ silent > 0
                         THEN Larger(spoken, through + silent) ELSE spoken
  /\ ticked' = Len(audio)
  /\ UNCHANGED <<audio, phase>>

(* A decode fails, or the utterance is released, after some of them. *)
TickEnds ==
  /\ phase = "recording"
  /\ \E segments \in {OpenTail} : \E n \in 1..(SettledChunks(segments) - 1) :
       /\ Commits(segments, n)
       /\ through' = through + segments[n].end
  /\ phase' \in {"recording", "released"}
  /\ UNCHANGED <<audio, ticked>>

Releases ==
  /\ phase = "recording"
  /\ phase' = "released"
  /\ UNCHANGED <<audio, through, decoded, ticked>>

(* Everything left is decoded.  (That a remainder none of whose chunks had
   words is decoded once more, in one window, is left out: no text, no seam.) *)
Finish ==
  /\ phase = "released"
  /\ \E segments \in {OpenTail} : Commits(segments, Len(segments))
  /\ phase' = "done"
  /\ UNCHANGED <<audio, through, ticked>>

Next ==
  \/ \E speech \in BOOLEAN : Hears(speech)
  \/ Tick \/ TickEnds \/ Releases \/ Finish

Spec == Init /\ [][Next]_vars

-----------------------------------------------------------------------------
EndsOf(segments) == [i \in DOMAIN segments |-> segments[i].end]

(* Reference: the capture, decoded whole. *)
Whole == Segments(Spans(0), Len(audio))

(* A chunk settles where the release would have cut it: whatever the cadence
   of the ticks, and wherever they stopped, the text has the seams of one
   decode of the whole capture (`Worker::tick`). *)
CutAsWhole ==
  LET whole == EndsOf(Whole)
  IN  /\ IsPrefix(EndsOf(decoded), whole)
      /\ phase = "done" => Len(decoded) = Len(whole)

(* No window reaches back over speech that is text already, and none leaves
   speech out: between two ends, all of it is in the later window. *)
WordsOnce ==
  \A i \in DOMAIN decoded :
    LET before == IF i = 1 THEN 0 ELSE decoded[i - 1].end
    IN  /\ decoded[i].from >= before
        /\ \A s \in (before + 1)..decoded[i].end :
             audio[s] => s > decoded[i].from /\ s <= decoded[i].to

(* While nobody speaks, what is held for the open tail stays bounded
   (`Split::silent_through`), and none of it is speech still to decode. *)
SilenceIsDropped ==
  /\ \A s \in DOMAIN audio :
       audio[s] /\ s <= through => \E i \in DOMAIN decoded : s <= decoded[i].end
  /\ (ticked = Len(audio)
      /\ \A s \in DOMAIN audio : s > Len(audio) - Settling => ~audio[s])
     => Len(audio) - through < Settling + Grid
=============================================================================
