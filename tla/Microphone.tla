----------------------------- MODULE Microphone -----------------------------
(***************************************************************************)
(* The microphone (shell/audio.rs): the device's callback thread, the      *)
(* event loop's thread that opens the stream, starts, snapshots and ends   *)
(* captures, and the recovery recording of each (Recorder).                *)
(*                                                                         *)
(* Each callback delivers a buffer of one or more samples, numbered in the *)
(* order the device makes them; a stream that is opened again misses one.  *)
(***************************************************************************)
EXTENDS Recorder

CONSTANTS
  Preroll,     \* `preroll_frames`
  Ceiling,     \* `maximum_frames`
  Buffers,     \* the sizes of a device buffer
  MaxHeard     \* bound: samples

MicrophoneAssumption ==
  /\ Preroll \in Nat /\ Ceiling \in Nat \ {0} /\ MaxHeard \in Nat
  /\ Buffers \subseteq Nat \ {0}

VARIABLES
  heard,    \* the last sample the device made
  stream,   \* "none", "live", or "stale": no callback for STALE_STREAM
  failing,  \* whether the microphone could not be opened (`failing`)
  ring,     \* the pre-roll, while no capture runs
  capture,  \* `CaptureState::Capturing`
  cap,      \* the notice of the ceiling
  loop,     \* where the event loop's thread is
  captures, \* captures begun
  all,      \* history: what the device delivered to the capture, its pre-roll first
  missed    \* history: samples no stream was there for

vars == <<recorder, heard, stream, failing, ring, capture, cap, loop, captures, all, missed>>
deviceVars == <<heard, stream, failing, missed>>
captureVars == <<ring, capture, all>>

NotCapturing == [on |-> FALSE, chunks |-> <<>>, start |-> 0, frames |-> 0, capped |-> FALSE]
Capturing(preroll) ==
  [on |-> TRUE, chunks |-> IF preroll = <<>> THEN <<>> ELSE <<preroll>>,
   start |-> 0, frames |-> Len(preroll), capped |-> FALSE]

AtRest == [at |-> "rest", writer |-> 0]

Init ==
  /\ InitRecorder
  /\ heard = 0 /\ stream = "none" /\ failing = FALSE /\ missed = {}
  /\ ring = <<>> /\ capture = NotCapturing /\ all = <<>>
  /\ cap = "None" /\ loop = AtRest /\ captures = 0

-----------------------------------------------------------------------------
(* The callback, `process`. *)

LastOf(s, n) == SubSeq(s, Len(s) - (IF n < Len(s) THEN n ELSE Len(s)) + 1, Len(s))

(* `write_ring`. *)
WriteRing(samples) == LastOf(ring \o samples, Preroll)

(* Variant: audio is taken in again once there is room. *)
KeptIfRoom(samples) ==
  LET room == Ceiling - (capture.frames - capture.start)
  IN  SubSeq(samples, 1, IF room < Len(samples) THEN room ELSE Len(samples))

(* What of a buffer the capture has room for; nothing once it was full. *)
Kept(samples) ==
  LET room == Ceiling - (capture.frames - capture.start)
  IN  IF capture.capped THEN <<>>
      ELSE SubSeq(samples, 1, IF room < Len(samples) THEN room ELSE Len(samples))

Process(n) ==
  LET samples == [i \in 1..n |-> heard + i]
      kept == Kept(samples)
  IN  /\ stream # "none" /\ heard + n <= MaxHeard
      /\ heard' = heard + n /\ stream' = "live"
      /\ \/ /\ capture.on
            /\ recorder' = WriteShared(recorder, samples)
            /\ capture' = [capture EXCEPT
                 !.capped = @ \/ Len(kept) < n,
                 !.frames = @ + Len(kept),
                 !.chunks = IF kept = <<>> THEN @ ELSE Append(@, kept)]
            /\ all' = all \o samples
            /\ UNCHANGED ring
         \/ /\ ~capture.on
            /\ ring' = WriteRing(samples)
            /\ UNCHANGED <<recorder, capture, all>>
      /\ UNCHANGED <<failing, missed, cap, loop, captures>>

(* No callback for STALE_STREAM, or the device ended the stream. *)
GoStale ==
  /\ stream = "live" /\ stream' = "stale"
  /\ UNCHANGED <<recorder, heard, failing, missed, captureVars, cap, loop, captures>>

-----------------------------------------------------------------------------
(* The event loop's thread. *)

Cleared(pre) == <<>>

(* `reopen`: the old stream is aborted, and a new one delivers, is mute, or
   does not open; what was said meanwhile is missed. *)
Reopen ==
  /\ stream' \in {"live", "stale", "none"}
  /\ failing' = (stream' # "live")
  /\ heard < MaxHeard /\ heard' = heard + 1 /\ missed' = missed \cup {heard + 1}
  /\ ring' = IF capture.on THEN ring ELSE Cleared(ring)

(* `snapshot_capture`: the chunks that reach back to `since`, newest first,
   and of the oldest of them what is not asked for is skipped. *)
SnapshotCapture(since) ==
  LET start == IF since > capture.start THEN since ELSE capture.start
      needed == capture.frames - start
      Suffix(k) == SubSeq(capture.chunks, Len(capture.chunks) - k + 1, Len(capture.chunks))
      enough == {k \in 0..Len(capture.chunks) : Queued(Suffix(k)) >= needed}
      selected == FlattenSeq(Suffix(CHOOSE k \in enough : \A j \in enough : k <= j))
  IN  [start |-> start,
       samples |-> IF needed <= 0 THEN <<>>
                   ELSE SubSeq(selected, Len(selected) - needed + 1, Len(selected))]

Expected == capture.on \/ Preroll > 0

(* The ceiling's notice, raised at the next poll. *)
CapReached(c, notice) == IF c.capped /\ notice = "None" THEN "Pending" ELSE notice

(* `poll`: a dead stream is opened again, unless a failed attempt was too
   short a while ago.  `deferred` is that time's verdict. *)
Poll ==
  /\ loop.at = "rest"
  /\ cap' = IF CapReached(capture, cap) = "Pending" THEN "Reported" ELSE cap
  /\ \/ /\ Expected /\ stream # "live"
        /\ Reopen
     \/ /\ ~Expected \/ stream = "live" \/ failing
        /\ failing' = (failing /\ stream # "live")
        /\ UNCHANGED <<heard, stream, missed, ring>>
  /\ <<cap', failing', heard'>> # <<cap, failing, heard>>
  /\ UNCHANGED <<recorder, capture, all, loop, captures>>

(* `start_capture` up to the recording: the microphone is opened if it must
   be, and the press fails if it cannot. *)
StartCapture ==
  /\ loop.at = "rest" /\ ~capture.on /\ captures < MaxCaptures
  /\ cap' = "None"
  /\ \/ /\ Preroll = 0 \/ stream # "live"
        /\ Reopen
     \/ /\ Preroll > 0 /\ stream = "live"
        /\ UNCHANGED <<deviceVars, ring>>
  /\ \/ /\ stream' = "none"
        /\ UNCHANGED <<recorder, loop, captures>>
     \/ /\ stream' # "none"
        /\ captures' = captures + 1
        /\ recorder' \in StartRecording(recorder, captures + 1)
        /\ loop' = [loop EXCEPT !.at = "starting"]
  /\ UNCHANGED <<capture, all>>

(* `start_capture` under the lock: the ring becomes the capture's pre-roll. *)
BeginCapture ==
  /\ loop.at = "starting" /\ loop' = AtRest
  /\ recorder' = WriteShared(recorder, ring)
  /\ capture' = Capturing(ring) /\ all' = ring /\ ring' = <<>>
  /\ UNCHANGED <<deviceVars, cap, captures>>

(* `finish_capture` and `stop_capture` wait for the post-roll. *)
EndCapture ==
  /\ loop.at = "rest" /\ capture.on
  /\ loop' = [loop EXCEPT !.at = "ending"]
  /\ UNCHANGED <<recorder, deviceVars, captureVars, cap, captures>>

(* `take_capture`: the post-roll is there, the stream is dead, the loop is
   asked for, or it has waited long enough; whichever, the capture ends here. *)
TakeCapture ==
  /\ loop.at = "ending"
  /\ capture' = NotCapturing /\ ring' = <<>>
  /\ cap' = CapReached(capture, cap)
  /\ loop' = [loop EXCEPT !.at = "joining", !.writer = recorder.current]
  /\ UNCHANGED <<recorder, deviceVars, captures, all>>

(* `CaptureRecorder::stop`: nothing feeds the writer from here on. *)
StopRecorder ==
  /\ loop.at = "joining" /\ recorder.current # 0
  /\ recorder' = Detach(recorder)
  /\ UNCHANGED <<deviceVars, captureVars, cap, loop, captures>>

(* The writer ended, or is left behind; without a pre-roll the stream is
   closed.  The loop is "taken" until it has decided what to do of the
   capture. *)
WriterJoined ==
  /\ loop.at = "joining" /\ recorder.current = 0
  /\ recorder' = IF loop.writer = 0 THEN recorder ELSE StopEnded(recorder, loop.writer)
  /\ stream' = IF Preroll = 0 THEN "none" ELSE stream
  /\ loop' = [AtRest EXCEPT !.at = "taken"]
  /\ UNCHANGED <<heard, failing, missed, captureVars, cap, captures>>

(* The loop keeps a recording that waits for the model (`keep_recording`). *)
KeepAtEnd ==
  /\ loop.at = "taken" /\ recorder.last # 0
  /\ recorder' = [recorder EXCEPT !.kept = @ \cup {recorder.last}]
  /\ loop' = AtRest
  /\ UNCHANGED <<deviceVars, captureVars, cap, captures>>

(* It is decoded from memory, or given up. *)
NoKeep ==
  /\ loop.at = "taken" /\ loop' = AtRest
  /\ UNCHANGED <<recorder, deviceVars, captureVars, cap, captures>>

ReleaseKept(c) ==
  /\ loop.at = "rest" /\ c \in recorder.kept
  /\ recorder' = [recorder EXCEPT !.kept = @ \ {c}]
  /\ UNCHANGED <<deviceVars, captureVars, cap, loop, captures>>

(* `discard_before`: as many whole chunks as end by `through` go. *)
EndOf(k) == capture.start + Queued(SubSeq(capture.chunks, 1, k))

Passed(whole, through) ==
  /\ EndOf(whole) <= through
  /\ whole < Len(capture.chunks) => EndOf(whole + 1) > through

DiscardBefore(through) ==
  \E whole \in 1..Len(capture.chunks) :
    /\ loop.at = "rest" /\ capture.on /\ Passed(whole, through)
    /\ capture' = [capture EXCEPT !.chunks = SubSeq(@, whole + 1, Len(@)), !.start = EndOf(whole)]
    /\ UNCHANGED <<recorder, deviceVars, ring, all, cap, loop, captures>>

(* `shutdown`. *)
ShutDown ==
  /\ loop.at = "rest"
  /\ capture' = NotCapturing /\ ring' = IF capture.on THEN <<>> ELSE ring
  /\ loop' = [AtRest EXCEPT !.at = "down"]
  /\ recorder' = Detach(recorder)
  /\ stream' = "none"
  /\ UNCHANGED <<heard, failing, missed, all, cap, captures>>

-----------------------------------------------------------------------------
Loop ==
  \/ Poll \/ StartCapture \/ BeginCapture
  \/ EndCapture \/ TakeCapture \/ StopRecorder \/ WriterJoined
  \/ KeepAtEnd \/ NoKeep \/ (\E c \in Captures : ReleaseKept(c))
  \/ (\E through \in 1..MaxHeard : DiscardBefore(through))
  \/ ShutDown

Writers ==
  /\ \E c \in Captures : Writer(c)
  /\ UNCHANGED <<deviceVars, captureVars, cap, loop, captures>>

Next == (\E n \in Buffers : Process(n)) \/ GoStale \/ Loop \/ Writers

Spec == Init /\ [][Next]_vars

-----------------------------------------------------------------------------
(* Properties. *)

(* A recording the daemon calls recorded is, once the capture has ended, every
   sample the device delivered to it, the pre-roll first, in order. *)
RecordedIsWhole ==
  loop.at = "taken" /\ Status(recorder) = "Recorded" /\ recorder.wavs[recorder.last].exists
    => recorder.wavs[recorder.last].written = all

(* Whatever was dropped and wherever the ceiling was, a snapshot holds the
   capture's samples from where it says to where the capture's memory ends. *)
SnapshotIsTheCapture ==
  capture.on =>
    \A since \in 0..capture.frames :
      LET snapshot == SnapshotCapture(since)
      IN  snapshot.samples = SubSeq(all, snapshot.start + 1, capture.frames)

(* A recording kept for a later start is there, unless some writer failed or
   was left behind: one left behind prunes later. *)
KeptIsThere ==
  \A c \in recorder.kept :
    recorder.wavs[c].exists \/ \E other \in Captures : recorder.wavs[other].broken

(* The pre-roll is the last that was heard, nothing missed within or after it,
   and nothing of it was part of the capture before. *)
PrerollIsFresh ==
  ~capture.on =>
    /\ \A i \in DOMAIN ring : ring[i] = heard - Len(ring) + i
    /\ Range(ring) \cap (Range(all) \cup missed) = {}
=============================================================================
