----------------------------- MODULE Dictation ------------------------------
(***************************************************************************)
(* The daemon's pipeline, from a capture to the dictation file: the event  *)
(* loop (shell/daemon/mod.rs) with its session (core/session.rs) and its   *)
(* list of recordings whose text is owed (transcriptions.rs), the capture  *)
(* buffer (shell/audio.rs), the recovery WAVs and the waiting list on disk *)
(* (shell/recorder.rs), the inference thread with its worker (engine.rs,   *)
(* core/decode.rs) and the editor thread (editor.rs), with crashes,        *)
(* orderly stops and restarts.                                             *)
(*                                                                         *)
(* A capture is a number, in the order they were begun; it names its       *)
(* utterance, its recovery WAV and its entry in the list alike.  Its audio *)
(* is the frames 1..captured[c]; the frames in Speech carry words, the     *)
(* others are silent.  What ends a capture, and when, is PushToTalk's; the *)
(* loop here is told so.                                                   *)
(*                                                                         *)
(* A definition under "Variant:" is not the code's: it is the one after it *)
(* with a mistake, kept to show that the properties notice.                *)
(***************************************************************************)
EXTENDS Integers, Sequences, FiniteSets

CONSTANTS
  MaxCaptures,  \* bound: captures begun
  MaxFrames,    \* bound: frames of one capture
  Preroll,      \* frames a capture begins with
  Speech,       \* the frames of a capture that carry words
  MaxBoots,     \* bound: how often the daemon is started
  Faults        \* bound: how often each kind of fault happens, and any does

FaultKinds == {"any", "load", "decode", "nomic", "notrecorded", "discard",
               "close", "prune", "crash", "stop", "timeout", "persist", "cut", "stall"}

Captures == 1..MaxCaptures
Frames == 0..MaxFrames

ASSUME PipelineAssumption ==
  /\ MaxCaptures \in Nat /\ MaxFrames \in Nat /\ MaxBoots \in Nat
  /\ Preroll \in Frames
  /\ Speech \subseteq 1..MaxFrames
  /\ Faults \in [FaultKinds -> Nat]

VARIABLES
  \* the event loop
  pc,          \* where the loop is
  session,     \* core/session.rs
  recognition, \* Loop::recognition
  live,        \* Loop::live
  trans,       \* Transcriptions: what each capture's entry says, if it has one
  \* the microphone and the disk
  mic,         \* the capture being captured; 0 for none
  captured,    \* frames each capture has
  base,        \* where the audio held in memory begins
  wav,         \* the length of each recovery WAV; Gone without one
  kept,        \* recordings pruning passes over, beside the open one
  list,        \* waiting.tsv: how far each listed recording's text reaches
  file,        \* the dictation file: the ranges of frames written, in order
  \* the other threads and what they are sent
  life,        \* each utterance's lifecycle, shared by loop and engine
  engine,      \* the inference thread: its phase, job and the worker's progress
  editing,     \* whether the editor thread runs
  work, results, editor, \* the three channels
  \* the model's own
  made,        \* captures begun
  boots,
  faults,      \* what is left of Faults
  stopping,    \* the stop was asked for
  lost,        \* captures the user was told about, or gave up on
  replayed,    \* captures decoded from their WAV
  crashed      \* captures the list named when the daemon crashed

loopVars == <<pc, session, recognition, live, trans>>
diskVars == <<wav, kept, list>>
micVars == <<mic, captured, base>>
modelVars == <<made, boots, stopping, lost, replayed, crashed>>
vars == <<loopVars, micVars, diskVars, file, life, engine, editing,
          work, results, editor, modelVars, faults>>

Gone == -1     \* no WAV, no line in the list
None == 0      \* no capture

Stages == {"none", "capturing", "finishing", "kept", "sent", "retry"}
Unlisted == [stage |-> "none", through |-> 0, from |-> 0]

NoJob == [kind |-> "none", c |-> None, start |-> 0, end |-> 0]
Loading == [phase |-> "loading", job |-> NoJob, segment |-> 0,
            id |-> None, through |-> 0, at |-> 0]

FaultHappens(kind) ==
  /\ faults[kind] > 0 /\ faults["any"] > 0
  /\ faults' = [faults EXCEPT ![kind] = @ - 1, !["any"] = @ - 1]

(* What a start of the daemon finds, whatever the last one left. *)
NewSession == [state |-> "idle", current |-> None, hint |-> 0,
               enabled |-> FALSE, configured |-> FALSE, tick |-> "idle"]

Init ==
  /\ pc = "requests"
  /\ session = NewSession
  /\ recognition = "preparing"
  /\ live = FALSE
  /\ trans = [c \in Captures |-> Unlisted]
  /\ mic = None /\ captured = [c \in Captures |-> 0] /\ base = 0
  /\ wav = [c \in Captures |-> Gone]
  /\ kept = {}
  /\ list = [c \in Captures |-> Gone]
  /\ file = <<>>
  /\ life = [c \in Captures |-> "live"]
  /\ engine = Loading
  /\ editing = TRUE
  /\ work = <<>> /\ results = <<>> /\ editor = <<>>
  /\ made = 0 /\ boots = 1 /\ faults = Faults /\ stopping = FALSE
  /\ lost = {} /\ replayed = {} /\ crashed = {}

-----------------------------------------------------------------------------
(* What goes through the channels. *)

TickWork(c, start, end) == [kind |-> "tick", c |-> c, start |-> start, end |-> end]
FinishWork(c, start, end) ==
  [kind |-> "finish", c |-> c, start |-> start, end |-> end]
RecordingWork(c, from) ==
  [kind |-> "recording", c |-> c, start |-> from, end |-> 0]
LoadWork == [NoJob EXCEPT !.kind = "load"]
QuitWork == [NoJob EXCEPT !.kind = "quit"]

Event(kind) == [kind |-> kind]
Commit(c, from, through) ==
  [kind |-> "commit", c |-> c, from |-> from, through |-> through]
TickDone(c) == [kind |-> "tick", c |-> c]
Finished(c, outcome) == [kind |-> "finished", c |-> c, outcome |-> outcome]
WindowClosed(at) == [kind |-> "closed", at |-> at]

AppendText(c, from, through) ==
  [kind |-> "append", c |-> c, from |-> from, through |-> through]
Copy(c) == [kind |-> "copy", c |-> c]
EditorQuit == [kind |-> "quit"]

Words(from, through) == {i \in Speech : from < i /\ i <= through}

-----------------------------------------------------------------------------
(* Session.  `event` first applies a configuration that waited for the
   capture to end.  A tick is armed for one preview.interval from now, which
   no pass of the loop reaches the end of unless it stalls. *)

Applied(s) ==
  IF s.state # "recording" /\ s.configured
    THEN [s EXCEPT !.enabled = TRUE, !.configured = FALSE]
    ELSE s

(* Variant: ticks begin in a capture that began without them. *)
ConfigureAtOnce(s) == [s EXCEPT !.enabled = TRUE]

Configure(s) == Applied([s EXCEPT !.configured = TRUE])
Started(s, c) ==
  [Applied(s) EXCEPT !.state = "recording", !.current = c, !.hint = 0,
                     !.tick = IF Applied(s).enabled THEN "armed" ELSE "idle"]
Ended(s) == [Applied(s) EXCEPT !.state = "transcribing", !.tick = "idle"]
Discarded(s) == [Applied(s) EXCEPT !.state = "idle", !.tick = "idle"]
IsCurrent(s, c) == s.current = c

NoteCommit(s, c, through, words) ==
  LET heard == IF words = {} THEN s ELSE Applied(s)
  IN  IF ~IsCurrent(s, c) THEN s
      ELSE [heard EXCEPT !.hint = IF through > @ THEN through ELSE @]

(* Variant: the end of a decode leaves the state alone. *)
FinishUnnoticed(s, c) == IF IsCurrent(s, c) THEN Applied(s) ELSE s

Finish(s, c) ==
  IF ~IsCurrent(s, c) THEN s
  ELSE IF s.state = "transcribing" THEN [Applied(s) EXCEPT !.state = "idle"]
       ELSE Applied(s)
TickDue(s) == s.state = "recording" /\ s.enabled /\ s.tick = "due"
TickFinished(s, c) ==
  IF IsCurrent(s, c) /\ s.state = "recording" THEN [s EXCEPT !.tick = "armed"]
  ELSE s

IntervalPassed(s) == IF s.tick = "armed" THEN [s EXCEPT !.tick = "due"] ELSE s

Released(l) == IF l = "live" THEN "released" ELSE l

(* The list the next start reads.  A write that fails leaves the old one. *)
ListedUntilFailed(t) == t.stage \in {"kept", "sent"}   \* Variant
ListedWhileRunning(t) == t.stage \in {"kept", "sent", "retry"}
(* Variant: it says how far the recording reaches, not its text. *)
ListOfWhole(ts, named) ==
  [c \in Captures |-> IF c \in named THEN captured[c] ELSE Gone]
ListOf(ts, named) ==
  [c \in Captures |-> IF c \in named THEN ts[c].through ELSE Gone]
Persist(ts) ==
  \/ /\ list' = ListOf(ts, {c \in Captures : ListedWhileRunning(ts[c])})
     /\ UNCHANGED faults
  \/ FaultHappens("persist") /\ UNCHANGED list

-----------------------------------------------------------------------------
(* The microphone and the recorder's thread. *)

AudioArrives ==
  /\ mic # None /\ captured[mic] < MaxFrames
  /\ captured' = [captured EXCEPT ![mic] = @ + 1]
  /\ wav' = [wav EXCEPT ![mic] = IF @ = Gone THEN Gone ELSE @ + 1]
  /\ UNCHANGED <<loopVars, mic, base, kept, list, file, life, engine, editing,
                 work, results, editor, modelVars, faults>>

(* The writer of a new capture prunes before it writes: the oldest WAVs go,
   except the open one and those kept. *)
Prunable == {c \in Captures : wav[c] # Gone /\ c # mic /\ c \notin kept}
Prune ==
  /\ mic # None /\ wav[mic] # Gone /\ Prunable # {}
  /\ FaultHappens("prune")
  /\ LET oldest == CHOOSE c \in Prunable : \A d \in Prunable : c <= d
     IN  wav' = [wav EXCEPT ![oldest] = Gone]
  /\ UNCHANGED <<loopVars, micVars, kept, list, file, life, engine, editing,
                 work, results, editor, modelVars>>

(* A recording that waits is cut short behind the daemon's back. *)
CutShort(c) ==
  /\ c # mic /\ wav[c] > 0 /\ trans[c].stage = "kept"
  /\ FaultHappens("cut")
  /\ wav' = [wav EXCEPT ![c] = @ - 1]
  /\ lost' = lost \cup {c}
  /\ UNCHANGED <<loopVars, micVars, kept, list, file, life, engine, editing,
                 work, results, editor, made, boots, stopping, replayed, crashed>>

-----------------------------------------------------------------------------
(* The loop takes requests: a capture starts, ends, or is thrown away. *)

LoopAt(at) == pc = at

StartCapture ==
  /\ LoopAt("requests") /\ session.state # "recording" /\ made < MaxCaptures
  /\ made' = made + 1
  /\ live' = (recognition = "ready")
  /\ IF recognition = "unavailable"
       THEN work' = Append(work, LoadWork) /\ recognition' = "preparing"
       ELSE UNCHANGED <<work, recognition>>
  /\ LET c == made + 1
     IN  \/ \* start_capture fails: the press is cancelled
            /\ FaultHappens("nomic")
            /\ session' = Discarded(Started(session, c))
            /\ life' = [life EXCEPT ![c] = "cancelled"]
            /\ lost' = lost \cup {c}
            /\ UNCHANGED <<trans, mic, captured, base, wav>>
         \/ /\ session' = Started(session, c)
            /\ mic' = c /\ base' = 0
            /\ captured' = [captured EXCEPT ![c] = Preroll]
            /\ \/ /\ wav' = [wav EXCEPT ![c] = Preroll]
                  /\ trans' = [trans EXCEPT ![c] =
                                [Unlisted EXCEPT !.stage = "capturing"]]
                  /\ UNCHANGED faults
               \/ FaultHappens("notrecorded") /\ UNCHANGED <<wav, trans>>
            /\ UNCHANGED <<life, lost>>
  /\ UNCHANGED <<pc, kept, list, file, engine, editing, results, editor,
                 boots, stopping, replayed, crashed>>

(* A key, the silence rule or a ceiling ends the capture; the post-roll
   follows, in which the loop does nothing else. *)
EndCapture ==
  /\ LoopAt("requests") /\ session.state = "recording"
  /\ session' = Ended(session)
  /\ life' = [life EXCEPT ![session.current] = Released(@)]
  /\ pc' = "postroll"
  /\ UNCHANGED <<recognition, live, trans, micVars, diskVars, file, engine,
                 editing, work, results, editor, modelVars, faults>>

TakeCapture ==
  /\ LoopAt("postroll")
  /\ pc' = "requests" /\ mic' = None
  /\ LET c == session.current
     IN  IF live
           THEN /\ trans' = [trans EXCEPT ![c].stage =
                              IF @ = "none" THEN @ ELSE "finishing"]
                /\ work' = Append(work, FinishWork(c, base, captured[c]))
                /\ UNCHANGED <<session, kept, list, faults, lost>>
           ELSE /\ session' = Finish(session, c)
                /\ IF trans[c].stage = "none"
                     THEN lost' = lost \cup {c} /\ UNCHANGED <<trans, kept>>
                     ELSE /\ trans' = [trans EXCEPT ![c].stage = "kept"]
                          /\ kept' = kept \cup {c}
                          /\ UNCHANGED lost
                /\ Persist(trans')
                /\ UNCHANGED work
  /\ UNCHANGED <<recognition, live, captured, base, wav, file, life, engine,
                 editing, results, editor, made, boots, stopping, replayed, crashed>>

(* What every discard does, whatever asked for it: capture::discard. *)
DiscardCurrent(deserved) ==
  /\ session' = Discarded(session)
  /\ life' = [life EXCEPT ![session.current] = "cancelled"]
  /\ trans' = [trans EXCEPT ![session.current] = Unlisted]
  /\ lost' = IF deserved THEN lost \cup {session.current} ELSE lost
  /\ mic' = None

DiscardCapture ==
  /\ LoopAt("requests") /\ session.state = "recording"
  /\ FaultHappens("discard")
  /\ DiscardCurrent(TRUE)
  /\ UNCHANGED <<pc, recognition, live, captured, base, diskVars, file, engine,
                 editing, work, results, editor, made, boots, stopping, replayed, crashed>>

EndRequests ==
  /\ LoopAt("requests")
  /\ pc' = "results"
  /\ UNCHANGED <<session, recognition, live, trans, micVars, diskVars, file,
                 life, engine, editing, work, results, editor, modelVars, faults>>

-----------------------------------------------------------------------------
(* The loop delivers one result at a time, in the order they were sent. *)

Delivered(kind) ==
  /\ LoopAt("results") /\ results # <<>> /\ Head(results).kind = kind
  /\ results' = Tail(results)

DeliverPreparing ==
  /\ Delivered("preparing")
  /\ recognition' = "preparing"
  /\ UNCHANGED <<pc, session, live, trans, micVars, diskVars, file, life, engine,
                 editing, work, editor, modelVars, faults>>

DeliverReady ==
  /\ Delivered("ready")
  /\ session' = Configure(session)
  /\ recognition' = "ready"
  /\ UNCHANGED <<pc, live, trans, micVars, diskVars, file, life, engine,
                 editing, work, editor, modelVars, faults>>

DeliverUnavailable ==
  /\ Delivered("unavailable")
  /\ recognition' = "unavailable"
  /\ UNCHANGED <<pc, session, live, trans, micVars, diskVars, file, life, engine,
                 editing, work, editor, modelVars, faults>>

(* Only a capture begun before the window closed is cancelled with it: the
   closing is stamped where it happened. *)
CaptureBegunBy(at) == session.state = "recording" /\ session.current <= at

DeliverWindowClosed ==
  /\ Delivered("closed")
  /\ IF CaptureBegunBy(Head(results).at)
       THEN DiscardCurrent(session.current <= Head(results).at)
       ELSE session' = Applied(session) /\ UNCHANGED <<life, trans, lost, mic>>
  /\ UNCHANGED <<pc, recognition, live, captured, base, diskVars, file, engine,
                 editing, work, editor, made, boots, stopping, replayed, crashed, faults>>

(* Transcriptions::advance, Session::note_commit and the append: the same in
   the loop and in the shutdown's drain. *)
TakeCommit(r) ==
  /\ trans' = [trans EXCEPT ![r.c].through =
                 IF trans[r.c].stage # "none" /\ r.through > @ THEN r.through
                                                              ELSE @]
  /\ session' = NoteCommit(session, r.c, r.through, Words(r.from, r.through))
  /\ editor' = IF Words(r.from, r.through) = {} THEN editor
               ELSE Append(editor, AppendText(r.c, r.from, r.through))

DeliverCommit ==
  /\ Delivered("commit")
  /\ TakeCommit(Head(results))
  /\ UNCHANGED <<pc, recognition, live, micVars, diskVars, file, life, engine,
                 editing, work, modelVars, faults>>

DeliverTick ==
  /\ Delivered("tick")
  /\ session' = TickFinished(session, Head(results).c)
  /\ UNCHANGED <<pc, recognition, live, trans, micVars, diskVars, file, life,
                 engine, editing, work, editor, modelVars, faults>>

(* settle: a recording's transcription failed, how far it got decides. *)
FailedFurther(c) == trans[c].through > trans[c].from
Settled(c, outcome) == outcome # "ok" /\ outcome # "short" /\ FailedFurther(c)
ToldByHand(c, outcome) ==
  outcome = "failed" /\ ~FailedFurther(c) /\ trans[c].through > 0

(* finished: the entry leaves the list unless the next start has to retry. *)
TakeFinished(c, outcome) ==
  CASE trans[c].stage = "sent" ->
         /\ trans' = [trans EXCEPT ![c] =
                        IF Settled(c, outcome) THEN [@ EXCEPT !.stage = "retry"]
                                               ELSE Unlisted]
         /\ kept' = IF Settled(c, outcome) \/ ToldByHand(c, outcome)
                      THEN kept \cup {c} ELSE kept \ {c}
         /\ lost' = IF outcome # "ok" /\ ~Settled(c, outcome)
                      THEN lost \cup {c} ELSE lost
    [] trans[c].stage = "finishing" ->
         /\ trans' = [trans EXCEPT ![c] =
                        IF outcome = "ok" THEN Unlisted
                                          ELSE [@ EXCEPT !.stage = "retry"]]
         /\ kept' = IF outcome = "ok" THEN kept ELSE kept \cup {c}
         /\ UNCHANGED lost
    [] OTHER ->
         /\ UNCHANGED <<trans, kept>>
         /\ lost' = IF outcome = "ok" THEN lost ELSE lost \cup {c}

ListChanges(c, outcome) ==
  \/ trans[c].stage = "sent"
  \/ trans[c].stage = "finishing" /\ outcome # "ok"

DeliverFinished ==
  /\ Delivered("finished")
  /\ LET c == Head(results).c
         outcome == Head(results).outcome
     IN  /\ TakeFinished(c, outcome)
         /\ IF ListChanges(c, outcome) THEN Persist(trans')
                                       ELSE UNCHANGED <<list, faults>>
         /\ session' = Finish(session, c)
         /\ editor' = Append(editor, Copy(c))
  /\ UNCHANGED <<pc, recognition, live, micVars, wav, file, life, engine,
                 editing, work, made, boots, stopping, replayed, crashed>>

EndResults ==
  /\ LoopAt("results") /\ results = <<>>
  /\ pc' = "tick"
  /\ UNCHANGED <<session, recognition, live, trans, micVars, diskVars, file,
                 life, engine, editing, work, results, editor, modelVars, faults>>

(* tick: the whole open tail goes to the engine, when one is due. *)
(* Variant: a tick overtakes the work already queued. *)
SendTickFirst ==
  /\ LoopAt("tick") /\ TickDue(session)
  /\ LET start == IF session.hint > base THEN session.hint ELSE base
     IN  work' = <<TickWork(session.current, start, captured[mic])>> \o work
  /\ session' = [session EXCEPT !.tick = "pending"]
  /\ pc' = "dispatch"
  /\ UNCHANGED <<recognition, live, trans, micVars, diskVars, file, life, engine,
                 editing, results, editor, modelVars, faults>>

SendTick ==
  /\ LoopAt("tick") /\ TickDue(session)
  /\ LET start == IF session.hint > base THEN session.hint ELSE base
     IN  work' = Append(work, TickWork(session.current, start, captured[mic]))
  /\ session' = [session EXCEPT !.tick = "pending"]
  /\ pc' = "dispatch"
  /\ UNCHANGED <<recognition, live, trans, micVars, diskVars, file, life, engine,
                 editing, results, editor, modelVars, faults>>

(* None is due: armed for longer than a pass is not yet for an interval. *)
NoTick ==
  /\ LoopAt("tick")
  /\ pc' = "dispatch"
  /\ UNCHANGED <<session, recognition, live, trans, micVars, diskVars, file,
                 life, engine, editing, work, results, editor, modelVars, faults>>

(* dispatch_recordings: each kept recording, in the order they were made. *)
UndispatchedEarly == {c \in Captures : trans[c].stage = "kept"}   \* Variant
UndispatchedCurrent ==   \* Variant
  {c \in Captures : /\ recognition = "ready" /\ trans[c].stage = "kept"
                    /\ c = session.current}
Undispatched == {c \in Captures : recognition = "ready" /\ trans[c].stage = "kept"}

DispatchRecording ==
  /\ LoopAt("dispatch") /\ Undispatched # {}
  /\ LET c == CHOOSE c \in Undispatched : \A d \in Undispatched : c <= d
     IN  /\ work' = Append(work, RecordingWork(c, trans[c].through))
         /\ trans' = [trans EXCEPT ![c].stage = "sent"]
         /\ replayed' = replayed \cup {c}
  /\ UNCHANGED <<pc, session, recognition, live, micVars, diskVars, file, life,
                 engine, editing, results, editor, made, boots, stopping, lost,
                 crashed, faults>>

(* A pass that stalls, in opening the microphone or a file, lasts longer
   than the interval, so that the tick armed in it is due in it. *)
Stall ==
  /\ LoopAt("results") /\ session.tick = "armed" /\ FaultHappens("stall")
  /\ session' = IntervalPassed(session)
  /\ UNCHANGED <<pc, recognition, live, trans, micVars, diskVars, file, life,
                 engine, editing, work, results, editor, modelVars>>

(* The end of a pass: discard_before, to a whole frame.  The next pass is the
   last one's shutdown if a stop was asked for. *)
EndPass ==
  /\ LoopAt("dispatch") /\ Undispatched = {}
  /\ pc' = IF stopping THEN "leaving" ELSE "requests"
  /\ session' = IntervalPassed(session)
  /\ base' = IF mic = None THEN base
             ELSE IF ~live THEN captured[mic]
             ELSE IF session.hint > base THEN session.hint ELSE base
  /\ UNCHANGED <<recognition, live, trans, mic, captured, diskVars, file, life,
                 engine, editing, work, results, editor, modelVars, faults>>

-----------------------------------------------------------------------------
(* The inference thread.  `load` builds the pipeline; after a failure only
   Load tries again, and decode work that came meanwhile would be dropped. *)

engineOnly == <<loopVars, micVars, diskVars, file, life, editing, editor, modelVars>>

LoadSucceeds ==
  /\ engine.phase = "loading"
  /\ engine' = [engine EXCEPT !.phase = "idle"]
  /\ results' = results \o <<Event("preparing"), Event("ready")>>
  /\ UNCHANGED <<engineOnly, work, faults>>

LoadFails ==
  /\ engine.phase = "loading"
  /\ FaultHappens("load")
  /\ engine' = [engine EXCEPT !.phase = "failed"]
  /\ results' = results \o <<Event("preparing"), Event("unavailable")>>
  /\ UNCHANGED <<engineOnly, work>>

TakeWhileFailed ==
  /\ engine.phase = "failed" /\ work # <<>>
  /\ work' = Tail(work)
  /\ engine' = [engine EXCEPT !.phase =
                  CASE Head(work).kind = "load" -> "loading"
                    [] Head(work).kind = "quit" -> "exited"
                    [] OTHER -> "failed"]
  /\ UNCHANGED <<engineOnly, results, faults>>

(* Worker::begin: another utterance's work starts from nothing. *)
BegunAnew(e, c) == [e EXCEPT !.id = c, !.through = 0]   \* Variant
Begun(e, c) == IF e.id = c THEN e ELSE [e EXCEPT !.id = c, !.through = 0]
Resumed(e, c, from) == [e EXCEPT !.id = c, !.through = from]
ResetProgress(e) == [e EXCEPT !.id = None, !.through = 0]
Busy(e, job, at) ==
  [e EXCEPT !.phase = "busy", !.job = job, !.at = at, !.segment = 0]
Rest(e) == [e EXCEPT !.phase = "idle", !.job = NoJob, !.at = 0, !.segment = 0]

Take(kind) ==
  /\ engine.phase = "idle" /\ work # <<>> /\ Head(work).kind = kind
  /\ work' = Tail(work)

(* What the worker ensures: no audio it has not covered is missing. *)
BeginsTooLate(e, job) == job.start > e.through

TakeTick ==
  /\ Take("tick")
  /\ LET job == Head(work)
         e == Begun(engine, job.c)
     IN  IF life[job.c] # "live"
           THEN results' = Append(results, TickDone(job.c)) /\ UNCHANGED engine
         ELSE IF BeginsTooLate(e, job)
           THEN results' = Append(results, TickDone(job.c)) /\ engine' = e
         ELSE engine' = Busy(e, job, e.through) /\ UNCHANGED results
  /\ UNCHANGED <<engineOnly, faults>>

TakeFinish ==
  /\ Take("finish")
  /\ LET job == Head(work)
         e == Begun(engine, job.c)
     IN  IF BeginsTooLate(e, job)
           THEN /\ results' = Append(results, Finished(job.c, "failed"))
                /\ engine' = e
           ELSE engine' = Busy(e, job, e.through) /\ UNCHANGED results
  /\ UNCHANGED <<engineOnly, faults>>

(* decode_recording reads the WAV from where its text reaches. *)
TakeRecording ==
  /\ Take("recording")
  /\ LET job == Head(work)
         length == wav[job.c]
     IN  IF length = Gone
           THEN results' = Append(results, Finished(job.c, "failed"))
                /\ UNCHANGED engine
         ELSE IF length < job.start
           THEN results' = Append(results, Finished(job.c, "short"))
                /\ UNCHANGED engine
         ELSE /\ engine' = Busy(Resumed(engine, job.c, job.start),
                                [job EXCEPT !.end = length], job.start)
              /\ UNCHANGED results
  /\ UNCHANGED <<engineOnly, faults>>

TakeQuit ==
  /\ Take("quit")
  /\ engine' = [engine EXCEPT !.phase = "exited"]
  /\ UNCHANGED <<engineOnly, results, faults>>

(* Whether the job is called off before the next segment, and after it: a
   tick stops at a release but keeps the segment it was decoding, and only a
   cancel throws that away.  A recording's own utterance is never cancelled. *)
StopsBefore(job) ==
  CASE job.kind = "tick" -> life[job.c] # "live"
    [] job.kind = "finish" -> life[job.c] = "cancelled"
    [] OTHER -> FALSE
StopsAfter(job) == job.kind # "recording" /\ life[job.c] = "cancelled"

Deciding == engine.phase = "busy" /\ engine.segment = 0

(* The next segment ends at frame e, with words in it. *)
DecodeSegment(e) ==
  /\ Deciding /\ ~StopsBefore(engine.job)
  /\ e \in Words(engine.at, engine.job.end)
  /\ engine' = [engine EXCEPT !.segment = e]
  /\ UNCHANGED <<engineOnly, work, results, faults>>

(* Whatever commits moves the worker's offset, but for the final decode's
   commits: it ends by clearing the offset instead. *)
(* Variant: an offset within the tail is taken for one within the capture. *)
CommitFurther(e, through) ==
  [e EXCEPT !.at = @ + through, !.segment = 0, !.through = @ + through]

CommitThrough(e, through) ==
  [e EXCEPT !.at = through, !.segment = 0,
            !.through = IF e.job.kind = "finish" THEN @ ELSE through]

CommitSegment ==
  /\ engine.phase = "busy" /\ engine.segment # 0 /\ ~StopsAfter(engine.job)
  /\ results' = Append(results,
                   Commit(engine.job.c, engine.at, engine.segment))
  /\ engine' = CommitThrough(engine, engine.segment)
  /\ UNCHANGED <<engineOnly, work, faults>>

(* A tick whose every segment settled commits the settled silence after. *)
CommitSilence(e) ==
  /\ Deciding /\ engine.job.kind # "finish" /\ ~StopsAfter(engine.job)
  /\ e \in (engine.at + 1)..engine.job.end
  /\ Words(engine.at, IF engine.job.kind = "tick" THEN engine.job.end ELSE e) = {}
  /\ engine' = CommitThrough(engine, e)
  /\ results' = Append(results, Commit(engine.job.c, engine.at, e))
  /\ UNCHANGED <<engineOnly, work, faults>>

Outcome(job, outcome) ==
  IF job.kind = "tick" THEN TickDone(job.c) ELSE Finished(job.c, outcome)

(* A tick leaves the open tail; a final decode ends with no words left, or
   cancelled. *)
JobEnded ==
  /\ engine.phase = "busy"
  /\ \/ engine.segment = 0
        /\ \/ engine.job.kind = "tick"
           \/ StopsBefore(engine.job)
           \/ Words(engine.at, engine.job.end) = {}
     \/ engine.segment # 0 /\ StopsAfter(engine.job)
  /\ engine' = IF engine.job.kind = "tick" THEN Rest(engine)
                                           ELSE Rest(ResetProgress(engine))

JobDone ==
  /\ JobEnded
  /\ results' = Append(results, Outcome(engine.job, "ok"))
  /\ UNCHANGED <<engineOnly, work, faults>>

(* The recognizer, the detector or the reader fails.  A recording may fail
   in a tick of it, which keeps the offset, or in its final decode. *)
JobFails ==
  /\ engine.phase = "busy"
  /\ FaultHappens("decode")
  /\ results' = Append(results, Outcome(engine.job, "failed"))
  /\ \/ engine' = Rest(engine) /\ engine.job.kind # "finish"
     \/ engine' = Rest(ResetProgress(engine)) /\ engine.job.kind # "tick"
  /\ UNCHANGED <<engineOnly, work>>

-----------------------------------------------------------------------------
(* The editor thread writes what it is sent, in order.  The user closing its
   window is news for the loop, stamped with how many captures had begun. *)

WriteText ==
  /\ editing /\ editor # <<>> /\ Head(editor).kind = "append"
  /\ LET a == Head(editor)
     IN  file' = Append(file, [c |-> a.c, from |-> a.from, through |-> a.through])
  /\ editor' = Tail(editor)
  /\ UNCHANGED <<loopVars, micVars, diskVars, life, engine, editing, work,
                 results, modelVars, faults>>

CopyText ==
  /\ editing /\ editor # <<>> /\ Head(editor).kind = "copy"
  /\ editor' = Tail(editor)
  /\ UNCHANGED <<loopVars, micVars, diskVars, file, life, engine, editing, work,
                 results, modelVars, faults>>

EditorQuits ==
  /\ editing /\ editor # <<>> /\ Head(editor).kind = "quit"
  /\ editor' = Tail(editor)
  /\ editing' = FALSE
  /\ UNCHANGED <<loopVars, micVars, diskVars, file, life, engine, work,
                 results, modelVars, faults>>

CloseWindow ==
  /\ editing /\ FaultHappens("close")
  /\ results' = Append(results, WindowClosed(made))
  /\ UNCHANGED <<loopVars, micVars, diskVars, file, life, engine, editing, work,
                 editor, modelVars>>

-----------------------------------------------------------------------------
(* An orderly stop: the loop leaves, what the engine owes is waited for, the
   list is written for the next start, the editor is waited for. *)

AskToStop ==
  /\ pc # "down" /\ ~stopping /\ FaultHappens("stop")
  /\ stopping' = TRUE
  /\ UNCHANGED <<loopVars, micVars, diskVars, file, life, engine, editing, work,
                 results, editor, made, boots, lost, replayed, crashed>>

ShutDown ==
  /\ LoopAt("leaving")
  /\ pc' = "joining" /\ mic' = None
  /\ IF session.current # None /\ life[session.current] = "live"
       THEN life' = [life EXCEPT ![session.current] = "cancelled"]
       ELSE UNCHANGED life
  /\ work' = Append(work, QuitWork)
  /\ UNCHANGED <<session, recognition, live, trans, captured, base, diskVars,
                 file, engine, editing, results, editor, modelVars, faults>>

(* join_bounded: the thread ended, or SHUTDOWN_GRACE did. *)
Joined(ended) ==
  \/ ended /\ UNCHANGED faults
  \/ ~ended /\ FaultHappens("timeout")

JoinEngine ==
  /\ LoopAt("joining") /\ Joined(engine.phase = "exited")
  /\ pc' = "draining"
  /\ UNCHANGED <<session, recognition, live, trans, micVars, diskVars, file,
                 life, engine, editing, work, results, editor, modelVars>>

DrainResult ==
  /\ LoopAt("draining") /\ results # <<>>
  /\ results' = Tail(results)
  /\ LET r == Head(results)
     IN  CASE r.kind = "commit" -> TakeCommit(r) /\ UNCHANGED <<kept, lost>>
           [] r.kind = "finished" ->
                /\ TakeFinished(r.c, r.outcome)
                /\ editor' = Append(editor, Copy(r.c))
                /\ UNCHANGED session
           [] OTHER -> UNCHANGED <<trans, session, editor, kept, lost>>
  /\ UNCHANGED <<pc, recognition, live, micVars, wav, list, file, life, engine,
                 editing, work, made, boots, stopping, replayed, crashed, faults>>

(* list_what_is_left: every entry; the user is told what to recover by hand
   only where the list cannot be written. *)
OwedAsInCrash(t) == ListedWhileRunning(t)   \* Variant
Owed(t) == t.stage # "none"

ListWhatIsLeft ==
  /\ LoopAt("draining") /\ results = <<>>
  /\ \/ /\ list' = ListOf(trans, {c \in Captures : Owed(trans[c])})
        /\ UNCHANGED <<lost, faults>>
     \/ /\ FaultHappens("persist") /\ UNCHANGED list
        /\ lost' = lost \cup {c \in Captures : Owed(trans[c])}
  /\ editor' = Append(editor, EditorQuit)
  /\ pc' = "closing"
  /\ UNCHANGED <<session, recognition, live, trans, micVars, wav, kept, file,
                 life, engine, editing, work, results, made, boots, stopping,
                 replayed, crashed>>

(* What only the process held is gone with it. *)
ProcessEnds ==
  /\ pc' = "down"
  /\ session' = NewSession /\ recognition' = "preparing" /\ live' = FALSE
  /\ trans' = [c \in Captures |-> Unlisted]
  /\ mic' = None /\ base' = 0 /\ kept' = {}
  /\ life' = [c \in Captures |-> "live"]
  /\ engine' = [Loading EXCEPT !.phase = "exited"] /\ editing' = FALSE
  /\ work' = <<>> /\ results' = <<>> /\ editor' = <<>>
  /\ stopping' = FALSE

(* What an editor that outlasts the grace still holds is gone, and what had
   no WAV existed only in memory, as its start logged. *)
Unwritten(c) ==
  \E k \in DOMAIN editor : editor[k].kind = "append" /\ editor[k].c = c
OnlyInMemory(c) == c <= made /\ wav[c] = Gone

Exit ==
  /\ LoopAt("closing") /\ Joined(~editing)
  /\ ProcessEnds
  /\ lost' = lost \cup {c \in Captures : Unwritten(c) \/ OnlyInMemory(c)}
  /\ UNCHANGED <<captured, wav, list, file, made, boots, replayed, crashed>>

(* The recording that was being written keeps what had reached the disk, and
   captures the list does not name are not transcribed again. *)
Crash ==
  /\ pc # "down" /\ FaultHappens("crash")
  /\ ProcessEnds
  /\ IF mic = None \/ wav[mic] = Gone THEN UNCHANGED wav
       ELSE \E n \in 0..wav[mic] : wav' = [wav EXCEPT ![mic] = n]
  /\ lost' = lost \cup {c \in 1..made : list[c] = Gone}
  /\ crashed' = crashed \cup {c \in 1..made : list[c] # Gone}
  /\ UNCHANGED <<captured, list, file, made, boots, replayed>>

(* CaptureRecorder::new and serve: the listed recordings that are there wait
   for the model, from where their text reaches. *)
Boot ==
  /\ pc = "down" /\ boots < MaxBoots
  /\ boots' = boots + 1
  /\ pc' = "requests" /\ editing' = TRUE /\ engine' = Loading
  /\ kept' = {c \in Captures : list[c] # Gone /\ wav[c] # Gone}
  /\ trans' = [c \in Captures |->
                 IF c \in kept'
                   THEN [stage |-> "kept", through |-> list[c], from |-> list[c]]
                   ELSE Unlisted]
  /\ UNCHANGED <<session, recognition, live, micVars, wav, list, file, life,
                 work, results, editor, made, stopping, lost, replayed, crashed,
                 faults>>

-----------------------------------------------------------------------------
Recorder == \/ AudioArrives \/ Prune \/ \E c \in Captures : CutShort(c)
Deliver == \/ DeliverPreparing \/ DeliverReady \/ DeliverUnavailable
           \/ DeliverWindowClosed \/ DeliverCommit \/ DeliverTick
           \/ DeliverFinished
User == StartCapture \/ EndCapture \/ DiscardCapture \/ AskToStop \/ CloseWindow
Pass == \/ TakeCapture \/ EndRequests \/ Deliver \/ EndResults \/ SendTick
        \/ NoTick \/ DispatchRecording \/ EndPass \/ Stall
Shutdown == ShutDown \/ JoinEngine \/ DrainResult \/ ListWhatIsLeft \/ Exit
Load == LoadSucceeds \/ LoadFails
TakeWork == \/ TakeWhileFailed \/ TakeTick \/ TakeFinish \/ TakeRecording
            \/ TakeQuit
Decode == \/ \E e \in 1..MaxFrames : DecodeSegment(e) \/ CommitSilence(e)
          \/ CommitSegment \/ JobDone \/ JobFails
Engine == Load \/ TakeWork \/ Decode
Editor == WriteText \/ CopyText \/ EditorQuits

Next == Recorder \/ User \/ Pass \/ Shutdown \/ Engine \/ Editor \/ Crash \/ Boot

Spec == Init /\ [][Next]_vars
(* The threads run, the loop passes, and the model loads unless it fails. *)
EngineProgress == LoadSucceeds \/ TakeWork \/ CommitSegment \/ JobDone
                  \/ \E e \in 1..MaxFrames : DecodeSegment(e)
FairSpec == Spec /\ WF_vars(Pass) /\ WF_vars(EngineProgress) /\ WF_vars(Editor)
                 /\ WF_vars(Shutdown)

-----------------------------------------------------------------------------
(* Properties. *)

Entry == [stage : Stages, through : Frames, from : Frames]
DecodeJob == [kind : {"tick", "finish", "recording"}, c : Captures,
              start : Frames, end : Frames]
Job == DecodeJob \cup {NoJob, LoadWork, QuitWork}
Result == {Event(k) : k \in {"preparing", "ready", "unavailable"}}
          \cup [kind : {"commit"}, c : Captures, from : Frames, through : Frames]
          \cup [kind : {"tick"}, c : Captures]
          \cup [kind : {"finished"}, c : Captures,
                outcome : {"ok", "failed", "short"}]
          \cup [kind : {"closed"}, at : Nat]
EditorWork == [kind : {"append"}, c : Captures, from : Frames, through : Frames]
              \cup [kind : {"copy"}, c : Captures] \cup {EditorQuit}
SessionState == [state : {"idle", "recording", "transcribing"},
                 current : Captures \cup {None}, hint : Frames,
                 enabled : BOOLEAN, configured : BOOLEAN,
                 tick : {"idle", "armed", "due", "pending"}]
EngineState == [phase : {"loading", "failed", "idle", "busy", "exited"},
                job : Job, segment : Frames, id : Captures \cup {None},
                through : Frames, at : Frames]
Pcs == {"requests", "postroll", "results", "tick", "dispatch", "leaving",
        "joining", "draining", "closing", "down"}

(* Every variable has its type. *)
TypeOK ==
  /\ pc \in Pcs
  /\ session \in SessionState
  /\ recognition \in {"preparing", "ready", "unavailable"}
  /\ live \in BOOLEAN
  /\ trans \in [Captures -> Entry]
  /\ mic \in Captures \cup {None}
  /\ captured \in [Captures -> Frames]
  /\ base \in Frames
  /\ wav \in [Captures -> Frames \cup {Gone}]
  /\ kept \subseteq Captures
  /\ list \in [Captures -> Frames \cup {Gone}]
  /\ file \in Seq([c : Captures, from : Frames, through : Frames])
  /\ life \in [Captures -> {"live", "released", "cancelled"}]
  /\ engine \in EngineState
  /\ editing \in BOOLEAN
  /\ work \in Seq(Job) /\ results \in Seq(Result) /\ editor \in Seq(EditorWork)
  /\ made \in 0..MaxCaptures /\ boots \in Nat
  /\ faults \in [FaultKinds -> Nat]
  /\ stopping \in BOOLEAN
  /\ lost \subseteq Captures /\ replayed \subseteq Captures
  /\ crashed \subseteq Captures

Written(c, i) == \E k \in DOMAIN file :
                   file[k].c = c /\ i \in Words(file[k].from, file[k].through)

ListIsCurrent == faults["persist"] = Faults["persist"]

(* The words of a capture are written once, in the order they were spoken,
   across ticks, releases, failures, orderly stops and restarts: only a
   capture the list named at a crash, or in a list that could not be
   rewritten, may have words written again. *)
WrittenOnce ==
  ListIsCurrent =>
  \A j, k \in DOMAIN file :
    j < k /\ file[j].c = file[k].c /\ file[j].c \notin crashed
    => file[j].through <= file[k].from

(* Captures decoded as they are spoken are written in the order they were
   begun: a quick re-press never puts its text before the tail of the
   capture it followed.  Only a recording decoded from its WAV comes late. *)
SpokenOrder ==
  \A j, k \in DOMAIN file :
    j < k /\ file[j].c > file[k].c => file[k].c \in replayed

(* Nothing is decoded, queued or waiting any more. *)
AtRest ==
  /\ pc = "requests" /\ session.state = "idle"
  /\ work = <<>> /\ results = <<>> /\ editor = <<>> /\ engine.phase = "idle"
  /\ recognition = "ready" /\ Undispatched = {}

(* Once the daemon is at rest, or has ended in an orderly way, every word of
   a capture the user did not throw away, and was not told about, is in the
   file or is owed: left in a WAV that has it, to be decoded by the next
   start from before it, by what the list says or the daemon remembers.
   (What is pruned while it decodes and then fails has no WAV to retry.) *)
NothingIsLost ==
  AtRest \/ pc = "down" =>
    \A c \in (1..made) \ (lost \cup crashed) : \A i \in Words(0, captured[c]) :
      \/ Written(c, i)
      \/ list[c] # Gone /\ list[c] < i /\ i <= wav[c]
      \/ trans[c].stage = "retry" /\ trans[c].through < i /\ i <= wav[c]
      \/ trans[c].stage = "retry" /\ wav[c] = Gone

(* Unless the list could not be written, what a running daemon owes from a
   WAV survives a crash: the list names it, from no further than its text
   reaches, and pruning passes it by. *)
OwedSurvivesCrash ==
  pc \notin {"draining", "closing"} /\ ListIsCurrent =>
    \A c \in Captures : trans[c].stage \in {"kept", "sent", "retry"} =>
      list[c] # Gone /\ list[c] <= trans[c].through /\ c \in kept

(* The text before a listed offset is in the file, after any end but a
   crash and for what the user was not told about: the next start, which
   skips it, skips nothing. *)
ListedTextIsWritten ==
  pc = "down" =>
    \A c \in Captures \ (lost \cup crashed) : list[c] # Gone =>
      \A i \in Words(0, list[c]) : Written(c, i)

(* The same after a crash: "the frames the text already written reaches"
   (docs/decisions.md), with no text skipped. *)
ListIsNotAhead ==
  pc = "down" =>
    \A c \in Captures \ lost : list[c] # Gone =>
      \A i \in Words(0, list[c]) : Written(c, i)

(* A decode that failed is retried at the next start from a recording that is
   there (the notice `DecodeFailed`, core/session.rs). *)
RetryHasItsWav == \A c \in Captures : trans[c].stage = "retry" => wav[c] # Gone

(* The clipboard copy asked for at the end of an utterance never comes
   before text of that utterance. *)
CopyFollowsText ==
  \A j, k \in DOMAIN editor :
    j < k /\ editor[j].kind = "copy" /\ editor[k].kind = "append"
    => editor[j].c # editor[k].c

(* Text is written, and copied, in the order it was spoken. *)
TextInOrder == SpokenOrder /\ CopyFollowsText

(* No work reaches the engine where it would be dropped: nothing to decode
   before its model is loaded, and no second Load once it is. *)
NothingToDrop ==
  \A k \in DOMAIN work :
    IF engine.phase \in {"loading", "failed"}
      THEN work[k].kind \in {"load", "quit"}
      ELSE work[k].kind # "load"

(* A capture ticks exactly when it was begun with the model ready: becoming
   ready never starts ticks over audio that was already dropped, and never
   leaves a capture that holds its audio without them. *)
LiveIffTicking ==
  session.state = "recording" => (session.enabled <=> live)

(* The audio sent to the worker begins at or before its offset. *)
WorkerHasNoGap ==
  engine.phase = "idle" /\ work # <<>> =>
    LET job == Head(work)
    IN  (\/ job.kind = "finish"
         \/ job.kind = "tick" /\ life[job.c] = "live")
        => ~BeginsTooLate(Begun(engine, job.c), job)

(* Nothing spoken is lost, neither from the file nor on its way to the words. *)
NoWordIsLost == NothingIsLost /\ WorkerHasNoGap

(* A release ends: the capture leaves `transcribing` without another press. *)
ReleaseEnds == session.state = "transcribing" ~> session.state # "transcribing"

(* Recordings that wait for the model, or for the engine, are settled, unless
   there is no model. *)
KeptIsSettled ==
  LET Waiting == \E c \in Captures : trans[c].stage \in {"kept", "sent"}
  IN  Waiting ~> ~Waiting \/ recognition = "unavailable"
=============================================================================
