------------------------------ MODULE Settings ------------------------------
(***************************************************************************)
(* The configuration file (config.rs) and the daemon that runs on it.  The *)
(* file is read at the start and again before each window: [nvim] is then  *)
(* what the file says now, every other section stays what it was at the    *)
(* start.  The user edits the file whenever they like.                     *)
(*                                                                         *)
(* Of the settings the model keeps the two that validate relates, the      *)
(* silence timeout and the interval of the ticks, and one value for each   *)
(* kind of section.  Time is counted in units of the shortest interval.    *)
(***************************************************************************)
EXTENDS Integers

CONSTANTS
  Quiets,     \* `capture.silence_timeout_seconds`, 0 for none
  Intervals,  \* `preview.interval_seconds`
  MaxEdits,   \* bound: edits of the file
  MaxStarts,  \* bound: starts of the daemon
  MaxTime     \* bound: how long a capture is followed

SettingsAssumption ==
  Quiets \subseteq Nat /\ Intervals \subseteq Nat \ {0} /\ 1 \in Intervals

VARIABLES
  file,      \* what the file says
  config,    \* `config`: what the daemon runs on, but for [nvim]
  nvim,      \* the [nvim] settings the next window opens with
  display,   \* the display that window opens on
  manager,   \* the display the user manager has
  reported,  \* `reported`: the sections a restart would change
  warned,    \* the sections the last warning named
  capture,   \* a latched capture of somebody who talks all the time
  edits, starts

vars == <<file, config, nvim, display, manager, reported, warned, capture, edits, starts>>

(* `gone` is a key that was removed or renamed; `typed` is whether the rest
   is TOML of the settings spokenpad has. *)
Files == [gone : BOOLEAN, typed : BOOLEAN, quiet : Quiets, interval : Intervals,
          audio : 0..1, nvim : 0..1]
Default == [gone |-> FALSE, typed |-> TRUE, quiet |-> 0, interval |-> 1,
            audio |-> 0, nvim |-> 0]

(* Variant: the timeout and the interval are validated apart. *)
ValidApart(f) == f.interval > 0

(* `validate`: the earliest a capture can report speech is a tick after the
   press, so the timeout leaves room for two. *)
Valid(f) == f.quiet = 0 \/ f.quiet >= 2 * f.interval

(* `parse`: a key that is gone is refused before anything is read. *)
Loads(f) == ~f.gone /\ f.typed /\ Valid(f)

NoCapture == [now |-> -1, heard |-> 0, asked |-> 0, due |-> 0, pending |-> FALSE, ended |-> FALSE]
Began(c) == [NoCapture EXCEPT !.now = 0, !.due = c.interval]

Init ==
  /\ file \in Files /\ manager \in 0..2
  /\ config = Default /\ nvim = 0 /\ display = 0
  /\ reported = {} /\ warned = {} /\ capture = NoCapture
  /\ edits = 0 /\ starts = 0

(* `load_or_defaults`: a file that does not load never stops the daemon. *)
Starts ==
  /\ starts < MaxStarts /\ starts' = starts + 1
  /\ config' = IF Loads(file) THEN file ELSE Default
  /\ nvim' = config'.nvim /\ display' = 1
  /\ reported' = {} /\ warned' = {} /\ capture' = NoCapture
  /\ UNCHANGED <<file, manager, edits>>

(* External: the user edits the file, or imports another display. *)
Edits ==
  /\ edits < MaxEdits /\ edits' = edits + 1
  /\ \/ file' \in Files /\ UNCHANGED manager
     \/ manager' \in 0..2 /\ UNCHANGED file
  /\ UNCHANGED <<config, nvim, display, reported, warned, capture, starts>>

(* `restart_needed`. *)
RestartNeeded(old, new) ==
  {section \in {"audio", "capture", "preview"} :
     CASE section = "audio" -> old.audio # new.audio
       [] section = "capture" -> old.quiet # new.quiet
       [] section = "preview" -> old.interval # new.interval}

Warns(restart) == restart # reported /\ restart # {}

(* `with_manager_session`, of a window that would open on `own`; 0 is a
   manager that has no display, or cannot be asked. *)
SessionOf(own) == IF manager = 0 THEN own ELSE manager

(* `reconfigure`, before a press opens a window. *)
OpensWindow ==
  /\ starts > 0
  /\ LET restart == RestartNeeded(config, file)
     IN IF Loads(file)
        THEN /\ nvim' = file.nvim /\ display' = SessionOf(1)
             /\ warned' = IF Warns(restart) THEN restart ELSE warned
             /\ reported' = restart
        ELSE display' = SessionOf(display) /\ UNCHANGED <<nvim, warned, reported>>
  /\ UNCHANGED <<file, config, manager, capture, edits, starts>>

-----------------------------------------------------------------------------
(* A latched capture, followed by the ticks of `config` and its silence
   timeout.  Speech is heard in every tick. *)

Latches ==
  /\ starts > 0 /\ capture = NoCapture
  /\ capture' = Began(config)
  /\ UNCHANGED <<file, config, nvim, display, manager, reported, warned, edits, starts>>

(* `tick_due`, `requested`. *)
AsksTick(c) == [c EXCEPT !.pending = TRUE, !.asked = c.now]

(* `tick_finished`: the next is due an interval after the last was asked
   for, or as long again as that one took. *)
TickDone(c) ==
  LET took == c.now - c.asked
      rest == IF took >= config.interval THEN 0 ELSE config.interval - took
  IN [c EXCEPT !.pending = FALSE, !.heard = c.now,
               !.due = c.now + (IF rest >= took THEN rest ELSE took)]

(* A tick is decoded in less than its interval; the loop notices it at once. *)
Ticks ==
  /\ capture.now >= 0 /\ ~capture.ended
  /\ \/ /\ ~capture.pending /\ capture.now >= capture.due
        /\ capture' = AsksTick(capture)
     \/ capture.pending /\ capture' = TickDone(capture)
  /\ UNCHANGED <<file, config, nvim, display, manager, reported, warned, edits, starts>>

(* Time passes, and the clock looks for silence. *)
Passes ==
  /\ capture.now \in 0..(MaxTime - 1) /\ ~capture.ended
  /\ capture.pending => capture.now - capture.asked < config.interval - 1
  /\ capture.pending \/ capture.now < capture.due
  /\ capture' = [capture EXCEPT !.now = @ + 1,
                   !.ended = config.quiet # 0 /\ capture.now + 1 - capture.heard >= config.quiet]
  /\ UNCHANGED <<file, config, nvim, display, manager, reported, warned, edits, starts>>

Next == Starts \/ Edits \/ OpensWindow \/ Latches \/ Ticks \/ Passes
Spec == Init /\ [][Next]_vars

-----------------------------------------------------------------------------
(* Properties. *)

(* No configuration the daemon runs on, the file's or the defaults, ends the
   capture of somebody who talks all the time, while a tick takes less than
   its interval. *)
TalkerIsHeard == ~capture.ended

(* What the last warning named is what a restart would change, whatever the
   file became between two windows. *)
StaleIsTold == reported # {} => warned = reported
=============================================================================
