------------------------------ MODULE Recorder ------------------------------
(***************************************************************************)
(* The recovery recordings (shell/recorder.rs): one WAV per capture, which *)
(* a writer thread of its own fills from a queue, and the pruning of the   *)
(* directory, which every writer does before it writes.                    *)
(*                                                                         *)
(* A capture's number names its WAV, and is its place in the order of the  *)
(* files' times.  A sample is its number in the order the device made it.  *)
(***************************************************************************)
EXTENDS Naturals, Sequences, FiniteSets, SequencesExt

CONSTANTS
  MaxCaptures, \* bound: captures
  QueueRoom,   \* `max_queued`, in samples
  Budget       \* `max_total_bytes`, in samples; a header counts for one

RecorderAssumption ==
  MaxCaptures \in Nat /\ QueueRoom \in Nat /\ Budget \in Nat

Captures == 1..MaxCaptures

VARIABLE recorder

(* A recording before it is opened; `writer` is its thread's stage. *)
NoWav == [writer |-> "none", exists |-> FALSE, written |-> <<>>, queue |-> <<>>,
          stopping |-> FALSE, broken |-> FALSE, dropped |-> FALSE, listing |-> <<>>]

InitRecorder ==
  recorder = [current |-> 0, last |-> 0, kept |-> {}, wavs |-> [c \in Captures |-> NoWav]]

Open(r) == {c \in Captures : r.wavs[c].writer \in {"starting", "pruning", "writing", "ending"}}

Queued(queue) == Len(FlattenSeq(queue))
Size(wav) == 1 + Len(wav.written)

(* `detach`: the writer goes on alone. *)
Detach(r) ==
  IF r.current = 0 THEN r
  ELSE [r EXCEPT !.wavs[r.current].stopping = TRUE, !.current = 0]

(* `start`: the WAV is opened and its writer launched, or there is no thread
   to write it, or no file. *)
StartRecording(r, c) ==
  LET detached == Detach(r)
      opened == [detached EXCEPT !.last = c, !.wavs[c].exists = TRUE]
  IN  {[opened EXCEPT !.current = c, !.wavs[c].writer = "starting"],
       [opened EXCEPT !.wavs[c].broken = TRUE],
       [detached EXCEPT !.last = 0]}

(* `write_shared`, within the callback. *)
WriteShared(r, samples) ==
  IF samples = <<>> \/ r.current = 0 THEN r
  ELSE IF r.wavs[r.current].broken THEN r
  ELSE IF Queued(r.wavs[r.current].queue) + Len(samples) > QueueRoom
    THEN [r EXCEPT !.wavs[r.current].dropped = TRUE]
  ELSE [r EXCEPT !.wavs[r.current].queue = Append(@, samples)]

(* `stop` has waited: the writer ended, or is left behind. *)
StopEnded(r, c) ==
  IF r.wavs[c].writer \in {"none", "done"} THEN r
  ELSE [r EXCEPT !.wavs[c].broken = TRUE]

Status(r) ==
  IF r.last = 0 THEN "NotRecorded"
  ELSE IF r.wavs[r.last].broken \/ r.wavs[r.last].dropped THEN "Truncated"
  ELSE "Recorded"

-----------------------------------------------------------------------------
(* A writer thread, `drain`. *)

(* `prune_recordings` lists the directory, oldest first, and adds it up. *)
List(c) ==
  LET there == {f \in Captures : recorder.wavs[f].exists}
  IN  /\ recorder.wavs[c].writer = "starting"
      /\ recorder' = [recorder EXCEPT
           !.wavs[c].writer = "pruning",
           !.wavs[c].listing = [i \in 1..Cardinality(there) |->
             LET f == SetToSortSeq(there, <)[i] IN [file |-> f, size |-> Size(recorder.wavs[f])]]]

Total(listing) == FoldLeft(LAMBDA sum, entry : sum + entry.size, 0, listing)

(* Variant: only what is being written is passed over. *)
PrunableUnlessOpen(f) == f \notin Open(recorder) /\ recorder.wavs[f].exists
Prunable(f) == f \notin Open(recorder) \cup recorder.kept /\ recorder.wavs[f].exists

(* A pruner takes the oldest file it listed: `listing` keeps what counts
   towards the total, and so a file that was passed over counts on. *)
PruneNext(c) ==
  LET me == recorder.wavs[c]
      ahead == {i \in DOMAIN me.listing : me.listing[i].file # 0}
      first == CHOOSE i \in ahead : \A j \in ahead : i <= j
      passed == [me.listing EXCEPT ![first].file = 0]
      removed == [passed EXCEPT ![first].size = 0]
  IN  /\ me.writer = "pruning"
      /\ \/ /\ ahead = {} \/ Total(me.listing) <= Budget
            /\ recorder' = [recorder EXCEPT !.wavs[c].writer = "writing", !.wavs[c].listing = <<>>]
         \/ /\ ahead # {} /\ Total(me.listing) > Budget
            /\ \E f \in Captures :
                 /\ f = me.listing[first].file
                 /\ \/ /\ Prunable(f)
                       /\ recorder' = [recorder EXCEPT !.wavs[f].exists = FALSE,
                                                       !.wavs[c].listing = removed]
                    \/ /\ ~Prunable(f)
                       /\ recorder' = [recorder EXCEPT !.wavs[c].listing = passed]

(* A buffer is written and the header brought up to it, or the disk fails. *)
WriteNext(c) ==
  LET me == recorder.wavs[c]
  IN  /\ me.writer = "writing" /\ me.queue # <<>>
      /\ \/ recorder' = [recorder EXCEPT !.wavs[c].queue = Tail(@),
                                         !.wavs[c].written = @ \o Head(me.queue)]
         \/ recorder' = [recorder EXCEPT !.wavs[c].queue = Tail(@),
                                         !.wavs[c].broken = TRUE, !.wavs[c].writer = "ending"]

(* Variant: a writer told to stop leaves what is still queued. *)
EndsAtOnce(wav) == wav.stopping
Ends(wav) == wav.stopping /\ wav.queue = <<>>

StopWriting(c) ==
  /\ recorder.wavs[c].writer = "writing" /\ Ends(recorder.wavs[c])
  /\ recorder' = [recorder EXCEPT !.wavs[c].writer = "ending"]

(* The header is finalised, or not, and the WAV is no longer open. *)
Finalize(c) ==
  /\ recorder.wavs[c].writer = "ending"
  /\ \E fails \in BOOLEAN :
       recorder' = [recorder EXCEPT !.wavs[c].writer = "done", !.wavs[c].broken = @ \/ fails]

Writer(c) == List(c) \/ PruneNext(c) \/ WriteNext(c) \/ StopWriting(c) \/ Finalize(c)
=============================================================================
