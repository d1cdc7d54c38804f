------------------------------ MODULE Indicator ------------------------------
(***************************************************************************)
(* What the daemon has the window show of a capture (core/session.rs): the *)
(* live preview of what is not written yet, and the one notice that        *)
(* matters most.  A capture's frames are its words, one each; a preview is *)
(* the set of words it shows, of which the recognizer may miss some.       *)
(***************************************************************************)
EXTENDS Naturals, Sequences, FiniteSets, SequencesExt

CONSTANTS
  MaxCaptures, \* bound: captures
  MaxFrames,   \* bound: frames of one capture
  Window,      \* the longest tail that is previewed
  Reported     \* the notices the loop raises of captures, past or running

VARIABLES
  session, \* core/session.rs
  status,  \* what the model's own notice is made of
  frames,  \* of the running capture
  work,    \* what the inference thread has yet to do
  results, \* what the loop has yet to hear
  written, \* how far the inference thread has text, of each capture
  raised   \* history: the notices raised since the key was pressed

vars == <<session, status, frames, work, results, written, raised>>

Captures == 1..MaxCaptures

(* `Priority`, the least first. *)
Priority ==
  <<"PreviewPaused", "Cancelled", "TranscribingRecordings", "ModelLoading",
    "ModelDownloading", "HeldTooBriefly", "NearlySilent", "ConfigInvalid",
    "SilenceTimeout", "KeptTooLong", "LengthLimit", "MicrophoneGap",
    "ModelUnavailable", "RecordingPartlyTranscribed", "RecordingShortened",
    "RecordingLost", "NotKept", "MicrophoneUnavailable", "CaptureIncomplete",
    "MemoryCap">>

IndicatorAssumption ==
  /\ MaxCaptures \in Nat /\ MaxFrames \in Nat /\ Window \in Nat
  /\ Reported \subseteq ToSet(Priority)

NoNotice == "none"
Rank(n) == IF n = NoNotice THEN 0 ELSE CHOOSE i \in DOMAIN Priority : Priority[i] = n

(* `Recognition::notice`. *)
StatusNotice ==
  CASE status.model = "downloading" -> "ModelDownloading"
    [] status.model = "loading" -> "ModelLoading"
    [] status.model = "unavailable" -> "ModelUnavailable"
    [] status.model = "ready" -> IF status.waiting THEN "TranscribingRecordings" ELSE NoNotice

(* `shown_notice`. *)
ShownNotice ==
  IF session.notice # NoNotice /\ Rank(StatusNotice) <= Rank(session.notice)
    THEN session.notice ELSE StatusNotice

Init ==
  /\ session = [state |-> "idle", current |-> 0, hint |-> 0, epoch |-> 0, preview |-> {},
                notice |-> NoNotice, previews |-> "running", tick |-> "idle"]
  /\ status = [model |-> "loading", waiting |-> FALSE]
  /\ frames = 0 /\ work = <<>> /\ results = <<>> /\ raised = {}
  /\ written = [c \in Captures |-> 0]

-----------------------------------------------------------------------------
(* `notify`. *)
Notify(s, n) == IF Rank(n) >= Rank(s.notice) THEN [s EXCEPT !.notice = n] ELSE s

Raises(s, n) == session' = Notify(s, n) /\ raised' = raised \cup {n}

(* A notice raised with others: what matters most is shown. *)
NotifyAll(s, ns) ==
  IF ns = {} THEN s ELSE Notify(s, CHOOSE n \in ns : \A m \in ns : Rank(m) <= Rank(n))

RaisesAll(s, ns) == session' = NotifyAll(s, ns) /\ raised' = raised \cup ns

Ended(s) == [s EXCEPT !.state = "transcribing", !.tick = "idle"]

(* `Command::Start`: without a model there are no previews; without a
   microphone the press is cancelled. *)
Start ==
  /\ session.state # "recording" /\ session.current < MaxCaptures
  /\ LET started == [state |-> "recording", current |-> session.current + 1, hint |-> 0,
                     epoch |-> 0, preview |-> {}, notice |-> NoNotice,
                     previews |-> "running",
                     tick |-> IF status.model = "ready" THEN "due" ELSE "idle"]
     IN  \/ session' = started /\ raised' = {}
         \/ LET cancelled == Notify([started EXCEPT !.state = "idle", !.tick = "idle"], "Cancelled")
            IN  /\ session' = Notify(cancelled, "MicrophoneUnavailable")
                /\ raised' = {"Cancelled", "MicrophoneUnavailable"}
  /\ frames' = 0
  /\ UNCHANGED <<status, work, results, written>>

Speak ==
  /\ session.state = "recording" /\ frames < MaxFrames /\ frames' = frames + 1
  /\ UNCHANGED <<session, status, work, results, written, raised>>

(* What is decoded at the end, or from the recording once there is a model. *)
FinishWork == [kind |-> "finish", c |-> session.current, end |-> frames, previewed |-> FALSE]

(* A capture that began without the model is kept on disk. *)
KeptOnDisk == session.tick = "idle"

(* `note_postroll`: the device stopped before the post-roll arrived. *)
NotePostroll == {{}, {"MicrophoneGap"}}

(* `release`: what the capture turns out to hold. *)
Release == {{}, {"CaptureIncomplete"}, {"NearlySilent"}}

(* `keep`: the recording is the capture from here on, if there is one. *)
Keep == IF KeptOnDisk THEN {{}, {"NotKept"}} ELSE {{}}

(* `Loop::decode`, of a capture that ended for these reasons. *)
Releases(ended, reasons) ==
  \E postroll \in NotePostroll, measured \in Release, unkept \in Keep :
    /\ RaisesAll(IF KeptOnDisk THEN [ended EXCEPT !.state = "idle", !.preview = {}] ELSE ended,
                 reasons \cup postroll \cup measured \cup unkept)
    /\ work' = IF unkept = {} THEN Append(work, FinishWork) ELSE work

(* `Command::Decode`: the key, silence, the length limit, or `cap`. *)
End ==
  /\ session.state = "recording"
  /\ \/ \E reasons \in {{}, {"SilenceTimeout"}, {"LengthLimit"}} : Releases(Ended(session), reasons)
     \/ ~KeptOnDisk /\ Releases([Ended(session) EXCEPT !.previews = "capped"], {"MemoryCap"})
  /\ UNCHANGED <<status, frames, results, written>>

(* `cap_kept`. *)
CapKept ==
  /\ session.state = "recording" /\ KeptOnDisk
  /\ Releases(Ended(session), {"KeptTooLong"})
  /\ UNCHANGED <<status, frames, results, written>>

(* `Command::Discard`; of a closed window the desktop tells. *)
Discard ==
  LET discarded == [session EXCEPT !.state = "idle", !.tick = "idle", !.preview = {}]
  IN  /\ session.state = "recording"
      /\ \/ \E n \in {"HeldTooBriefly", "Cancelled"} : Raises(discarded, n)
         \/ session' = discarded /\ UNCHANGED raised
      /\ UNCHANGED <<status, frames, work, results, written>>

(* `apply_capture_event`, while there is a capture: the stream was restarted,
   or cannot be.  And what becomes of a recording, or of the configuration. *)
Report(n) ==
  /\ n \in {"MicrophoneGap", "MicrophoneUnavailable"} => session.state = "recording"
  /\ Raises(session, n)
  /\ UNCHANGED <<status, frames, work, results, written>>

(* An open tail too long to preview, and one that is short enough again. *)
DeferPreviews(asked) == Raises([asked EXCEPT !.previews = "paused"], "PreviewPaused")

ResumePreviews(asked) ==
  /\ session' = [asked EXCEPT !.previews = "running",
       !.notice = IF @ = "PreviewPaused" THEN NoNotice ELSE @]
  /\ raised' = raised \ {"PreviewPaused"}

(* `tick` *)
TickRequested ==
  LET previewed == frames - session.hint <= Window
  IN  /\ session.state = "recording" /\ session.tick = "due" /\ frames > 0
      /\ work' = Append(work, [kind |-> "tick", c |-> session.current, end |-> frames,
                               previewed |-> previewed])
      /\ LET asked == [session EXCEPT !.tick = "pending"]
         IN  \/ ~previewed /\ DeferPreviews(asked)
             \/ previewed /\ session.previews = "paused" /\ ResumePreviews(asked)
             \/ /\ previewed /\ session.previews # "paused"
                /\ session' = asked /\ UNCHANGED raised
      /\ UNCHANGED <<status, frames, results, written>>

-----------------------------------------------------------------------------
(* The inference thread: what is settled is written first, and the preview is
   of what is left. *)
Commit(c, through) == [kind |-> "commit", c |-> c, through |-> through]

Decode ==
  /\ work # <<>> /\ work' = Tail(work)
  /\ LET job == Head(work)
         from == written[job.c]
     IN  \/ /\ job.kind = "tick"
            /\ \E through \in from..job.end :
                 \E words \in SUBSET ((through + 1)..job.end) :
                   /\ ~job.previewed => words = {}
                   /\ results' = results
                        \o (IF through > from THEN <<Commit(job.c, through)>> ELSE <<>>)
                        \o <<[kind |-> "tick", c |-> job.c, previewed |-> job.previewed,
                              words |-> words, through |-> through]>>
                   /\ written' = [written EXCEPT ![job.c] = through]
         \/ /\ job.kind = "finish"
            /\ results' = results
                 \o (IF job.end > from THEN <<Commit(job.c, job.end)>> ELSE <<>>)
                 \o <<[kind |-> "finished", c |-> job.c]>>
            /\ written' = [written EXCEPT ![job.c] = job.end]
  /\ UNCHANGED <<session, status, frames, raised>>

(* Variant: the preview stays until there is another. *)
NoteCommitOnly(s, through) == [s EXCEPT !.hint = through, !.epoch = through]

(* `note_commit`: the text goes to the window, and the preview of it goes. *)
NoteCommit(s, through) ==
  [s EXCEPT !.hint = IF through > @ THEN through ELSE @,
            !.epoch = IF through > @ THEN through ELSE @,
            !.preview = IF through > s.epoch THEN {} ELSE @]

(* `tick_finished`: a shorter preview does not replace a longer one. *)
TickFinished(s, tick) ==
  LET armed == [s EXCEPT !.tick = IF s.previews = "capped" THEN "idle" ELSE "due"]
      moved == [armed EXCEPT !.epoch = IF tick.through > @ THEN tick.through ELSE @,
                             !.preview = IF tick.through > s.epoch THEN {} ELSE @]
  IN  IF s.state # "recording" THEN s
      ELSE IF ~tick.previewed \/ tick.through < s.hint THEN armed
      ELSE IF Cardinality(tick.words) >= Cardinality(moved.preview)
        THEN [moved EXCEPT !.preview = tick.words]
      ELSE moved

(* `finish`. *)
Finish(s) ==
  [s EXCEPT !.state = IF @ = "transcribing" THEN "idle" ELSE @, !.preview = {}]

Hear ==
  /\ results # <<>> /\ results' = Tail(results)
  /\ LET result == Head(results)
     IN  \/ /\ result.c # session.current /\ UNCHANGED session
         \/ /\ result.c = session.current /\ result.kind = "commit"
            /\ session' = NoteCommit(session, result.through)
         \/ /\ result.c = session.current /\ result.kind = "tick"
            /\ session' = TickFinished(session, result)
         \/ /\ result.c = session.current /\ result.kind = "finished"
            /\ session' = Finish(session)
  /\ UNCHANGED <<status, frames, work, written, raised>>

(* Recordings that wait are announced once there is a model to read them. *)
ModelChanges ==
  /\ status' \in [model : {"downloading", "loading", "ready", "unavailable"}, waiting : BOOLEAN]
  /\ status' # status /\ (status'.waiting => status'.model = "ready")
  /\ UNCHANGED <<session, frames, work, results, written, raised>>

Next ==
  \/ Start \/ Speak \/ End \/ CapKept \/ Discard
  \/ (\E n \in Reported : Report(n))
  \/ TickRequested \/ Decode \/ Hear \/ ModelChanges

Spec == Init /\ [][Next]_vars

-----------------------------------------------------------------------------
(* The window never shows as a preview what it has as text. *)
PreviewIsUnwritten == session.preview \cap 1..session.hint = {}

(* The notice shown is the worst of those raised since the key was pressed,
   but for a pause of the preview that is over, and of the model's own. *)
WorstIsShown ==
  \A n \in raised \cup {StatusNotice} : Rank(n) <= Rank(ShownNotice)
=============================================================================
