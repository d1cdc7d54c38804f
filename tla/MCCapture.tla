------------------------------ MODULE MCCapture ------------------------------
(****************************************************************************)
(* A capture on small instances: the microphone and the recordings          *)
(* (Microphone, Recorder), the list of those that wait (WaitingList), what  *)
(* the session says of it (Indicator), and the settings it runs on          *)
(* (Settings). They share no state that is modelled here, so a behaviour is *)
(* of one of them.                                                          *)
(****************************************************************************)
EXTENDS Integers, Sequences, FiniteSets

CONSTANTS
  MaxCaptures,                                                \* Microphone, Indicator
  Seconds, MaxSameSecond, MaxHeld, Configured, Stamps,        \* WaitingList
  QueueRoom, DiskBudget, Preroll, Ceiling, Buffers, MaxHeard, \* Microphone
  MaxFrames, Window, Reported,                                \* Indicator
  Quiets, Intervals, MaxEdits, MaxStarts, MaxTime             \* Settings

VARIABLES
  component, \* which of them this behaviour is of; it does not change
  recorder, heard, stream, failing, ring, capture,       \* Microphone
  cap, loop, captures, all, missed,
  files, now, list, staging, held, daemon,               \* WaitingList
  session, status, frames, work, results, written,       \* Indicator
  raised,
  file, config, nvim, display, manager, reported,        \* Settings
  warned, talker, edits, starts

M == INSTANCE Microphone WITH Budget <- DiskBudget
L == INSTANCE WaitingList
I == INSTANCE Indicator
S == INSTANCE Settings WITH capture <- talker

microphoneVars == <<recorder, heard, stream, failing, ring, capture, cap, loop,
  captures, all, missed>>
listVars == <<files, now, list, staging, held, daemon>>
indicatorVars == <<session, status, frames, work, results, written, raised>>
settingsVars == <<file, config, nvim, display, manager, reported, warned,
  talker, edits, starts>>

ASSUME CaptureAssumptions ==
  /\ M!RecorderAssumption /\ M!MicrophoneAssumption /\ L!WaitingAssumption
  /\ I!IndicatorAssumption /\ S!SettingsAssumption

(* The variables of the others are not used. *)
NoMicrophone == recorder = 0 /\ heard = 0 /\ stream = 0 /\ failing = 0 /\
  ring = 0 /\ capture = 0 /\ cap = 0 /\ loop = 0 /\ captures = 0 /\ all = 0 /\
  missed = 0
NoList == files = 0 /\ now = 0 /\ list = 0 /\ staging = 0 /\ held = 0 /\
  daemon = 0
NoIndicator == session = 0 /\ status = 0 /\ frames = 0 /\ work = 0 /\
  results = 0 /\ written = 0 /\ raised = 0
NoSettings == file = 0 /\ config = 0 /\ nvim = 0 /\ display = 0 /\ manager = 0
  /\ reported = 0 /\ warned = 0 /\ talker = 0 /\ edits = 0 /\ starts = 0

Init ==
  \/ component = "microphone" /\ M!Init /\ NoList /\ NoIndicator /\ NoSettings
  \/ component = "list" /\ L!Init /\ NoMicrophone /\ NoIndicator /\ NoSettings
  \/ component = "indicator" /\ I!Init /\ NoMicrophone /\ NoList /\ NoSettings
  \/ component = "settings" /\ S!Init /\ NoMicrophone /\ NoList /\ NoIndicator

Next ==
  \/ component = "microphone" /\ M!Next /\ UNCHANGED <<component, listVars,
     indicatorVars, settingsVars>>
  \/ component = "list" /\ L!Next /\ UNCHANGED <<component, microphoneVars,
     indicatorVars, settingsVars>>
  \/ component = "indicator" /\ I!Next /\ UNCHANGED <<component, microphoneVars,
     listVars, settingsVars>>
  \/ component = "settings" /\ S!Next /\ UNCHANGED <<component, microphoneVars,
     listVars, indicatorVars>>

vars == <<component, microphoneVars, listVars, indicatorVars, settingsVars>>

Spec == Init /\ [][Next]_vars

-----------------------------------------------------------------------------
(* A recording called recorded is every sample the device delivered to its
   capture, in order (shell/recorder.rs, shell/audio.rs). *)
RecordedIsWhole == component = "microphone" => M!RecordedIsWhole

(* A snapshot holds the samples it says, whatever was dropped, and a pre-roll
   none but the last that was heard (`snapshot_capture`, `process`). *)
MemoryIsTheCapture ==
  component = "microphone" => M!SnapshotIsTheCapture /\ M!PrerollIsFresh

(* A recording kept for a later start is not pruned meanwhile. *)
KeptIsThere == component = "microphone" => M!KeptIsThere

(* The list on disk is the one before a save or the one after, whenever the
   process dies (`save_unfinished`, `read_waiting_list`). *)
SavesWhole == [][component = "list" => L!SavesWholeStep]_vars

(* What is written is not previewed still (`note_commit`), and the worst notice
   since the press is the one that is shown (`Priority`). *)
ShowsWhatIs == component = "indicator" => I!PreviewIsUnwritten /\ I!WorstIsShown

(* The silence timeout ends no capture of somebody who talks (`validate`), and
   the last warning named what a restart would change (`reconfigure`). *)
SettingsAreSound == component = "settings" => S!TalkerIsHeard /\ S!StaleIsTold
=============================================================================
