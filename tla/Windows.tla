------------------------------- MODULE Windows -------------------------------
(***************************************************************************)
(* How the detector's speech spans become the recognizer's windows: merged *)
(* into chunks, padded, and settled once no later window can reach back    *)
(* (core/segments.rs).  Everything is in the samples of one slice, from 0; *)
(* a span or window from f to t holds the samples f+1..t.                  *)
(***************************************************************************)
EXTENDS Integers, SequencesExt

CONSTANTS
  Rate,       \* samples per second
  Pad, Edge,  \* pad_seconds and edge_pad_seconds
  Target,     \* chunk_seconds: the speech that closes a chunk
  Grid        \* VAD_WINDOW

WindowsAssumption ==
  /\ Rate \in Nat \ {0} /\ Pad \in Nat /\ Edge \in Nat
  /\ Target \in Nat \ {0} /\ Grid \in Nat \ {0}

Larger(a, b) == IF a > b THEN a ELSE b
Smaller(a, b) == IF a < b THEN a ELSE b

(* settling_silence *)
Settling == Larger(Rate, 2 * Larger(Edge, Pad))

(* settled_prefix: on the detector's grid, and never into speech. *)
SettledPrefix(speechEnd, len) ==
  LET through == ((len - Settling) \div Grid) * Grid
  IN  IF len - speechEnd >= Settling /\ through > speechEnd THEN through ELSE 0

-----------------------------------------------------------------------------
(* merge_spans.  The pending chunk is the last one while it is not closed. *)

NewChunk(span, lead) ==
  [start |-> span.from, end |-> span.from, speech |-> 0, closed |-> FALSE,
   lead |-> lead, trail |-> FALSE]

Extended(chunk, span) ==
  LET speech == chunk.speech + span.to - span.from
  IN  [chunk EXCEPT !.end = span.to, !.speech = speech, !.closed = speech >= Target]

(* A pause of Settling closes the chunk before it. *)
AddSpan(chunks, span) ==
  LET n == Len(chunks)
      far == n > 0 /\ span.from - Last(chunks).end >= Settling
      before == IF far THEN [chunks EXCEPT ![n] = [@ EXCEPT !.closed = TRUE, !.trail = TRUE]]
                       ELSE chunks
  IN  IF n > 0 /\ ~Last(before).closed
        THEN [before EXCEPT ![n] = Extended(@, span)]
        ELSE Append(before, Extended(NewChunk(span, far), span))

(* So does one at the end of the slice. *)
Chunks(spans, len) ==
  LET chunks == FoldLeft(AddSpan, <<>>, spans)
      n == Len(chunks)
  IN  IF n = 0 THEN chunks
        ELSE [chunks EXCEPT ![n].closed = @ \/ len - chunks[n].end >= Settling]

(* Where the text before a chunk ends: its lead padding goes no further. *)
LeadLimit(chunks, i) == IF i = 1 THEN 0 ELSE chunks[i - 1].end

(* Whether later audio leaves the chunk as it is. *)
(* Variant: a chunk that reached the target is settled at once. *)
SettledWhenClosed(chunks, i, len) == chunks[i].closed

Settled(chunks, i, len) ==
  chunks[i].closed /\ (i < Len(chunks) \/ len - chunks[i].end >= Rate)

Segments(spans, len) ==
  LET chunks == Chunks(spans, len)
      Window(i) ==
        LET c == chunks[i]
            wide == c.speech >= 3 * Rate
            lead == IF wide /\ (i = 1 \/ c.lead) THEN Edge ELSE Pad
            trail == IF wide /\ (i = Len(chunks) \/ c.trail) THEN Edge ELSE Pad
        IN  [from |-> Larger(c.start - lead, LeadLimit(chunks, i)),
             to |-> Smaller(len, c.end + trail),
             end |-> c.end,
             settled |-> Settled(chunks, i, len)]
  IN  [i \in DOMAIN chunks |-> Window(i)]

SilentThrough(spans, len) ==
  SettledPrefix(IF spans = <<>> THEN 0 ELSE Last(spans).to, len)
=============================================================================
