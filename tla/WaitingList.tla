----------------------------- MODULE WaitingList -----------------------------
(***************************************************************************)
(* The list of recordings that wait to be transcribed, `waiting.tsv`       *)
(* (shell/recorder.rs): how the daemon replaces it, what the next start    *)
(* reads of it, and how a recording gets a name of its own.                *)
(*                                                                         *)
(* A recording's name is the local second it began in, and a number that   *)
(* tells it from others of that second; local time can be set back.  A     *)
(* line of the list is `through`, a name, and a heading, which the lines   *)
(* of an older daemon do not have.                                         *)
(***************************************************************************)
EXTENDS Naturals, Sequences, SequencesExt

CONSTANTS
  Seconds,       \* bound: what the clock can show
  MaxSameSecond, \* `MAX_SAME_SECOND`, less one
  MaxHeld,       \* bound: recordings waiting
  Stamps,        \* a capture's choices of timestamps
  Configured     \* the choice that is the configuration's

(* What stands for a heading of no use is no choice. *)
WaitingAssumption ==
  /\ Seconds \subseteq Nat /\ MaxSameSecond \in Nat /\ MaxHeld \in Nat
  /\ {"none", "unreadable", "cut"} \cap (Stamps \cup {Configured}) = {}

VARIABLES
  files,   \* what became of each recording's name
  now,     \* the local time
  list,    \* the list's file: Absent, or Holding its lines
  staging, \* those of the file beside it
  held,    \* the daemon's recordings that wait
  daemon   \* whether one runs, whether it records, and its place in a save

vars == <<files, now, list, staging, held, daemon>>

Names == Seconds \X (0..MaxSameSecond)
Absent == {}
Holding(lines) == {lines}

NamedTime(name) == [started |-> name[1], timestamps |-> Configured]

(* A heading of no use: a line of an older daemon has none, a damaged one
   cannot be read, and a line that was cut short has but three fields. *)
Useless(why) == [started |-> 0, timestamps |-> why]
CutShort(entry) == [entry EXCEPT !.heading = Useless("cut")]

(* `waiting`: a line that names a recording that is there. *)
Waiting(there, line) ==
  IF there[line.name] # "there" \/ line.heading = Useless("cut") THEN <<>>
  ELSE IF line.heading \in {Useless("none"), Useless("unreadable")}
    THEN <<[line EXCEPT !.heading = NamedTime(line.name)]>>
  ELSE <<line>>

ReadWaitingList(there, file) ==
  IF file = Absent THEN <<>>
  ELSE LET lines == CHOOSE l \in file : TRUE
       IN FlattenSeq([i \in DOMAIN lines |-> Waiting(there, lines[i])])

OldLines ==
  {[name |-> n, through |-> 1, heading |-> Useless(why)] : n \in Names, why \in {"none", "unreadable"}}

Off == [up |-> FALSE, records |-> FALSE, at |-> "rest"]

Init ==
  /\ now \in Seconds /\ staging = <<>> /\ held = <<>> /\ daemon = Off
  /\ \/ files = [n \in Names |-> "unused"] /\ list = Absent
     \/ \E line \in OldLines :
          /\ files = [n \in Names |-> IF n = line.name THEN "there" ELSE "unused"]
          /\ list = Holding(<<line>>)

-----------------------------------------------------------------------------
(* `CaptureRecorder::new`: with recording off, the list is not read. *)
Start(records) ==
  /\ ~daemon.up
  /\ daemon' = [up |-> TRUE, records |-> records, at |-> "rest"]
  /\ held' = IF records THEN ReadWaitingList(files, list) ELSE <<>>
  /\ UNCHANGED <<files, now, list, staging>>

Resting == daemon.up /\ daemon.at = "rest"

(* `open_capture`: the first name of this second no file has.  That no name
   is used again whose recording was deleted is an assumption: the clock is
   not set back over it. *)
OpenCapture(choice) ==
  /\ Resting /\ daemon.records /\ Len(held) < MaxHeld
  /\ \E index \in 0..MaxSameSecond :
       LET name == <<now, index>>
       IN  /\ files[name] = "unused"
           /\ \A lower \in 0..MaxSameSecond : lower < index => files[<<now, lower>>] = "there"
           /\ files' = [files EXCEPT ![name] = "there"]
           /\ held' = Append(held, [name |-> name, through |-> 0,
                                    heading |-> [started |-> now, timestamps |-> choice]])
  /\ UNCHANGED <<now, list, staging, daemon>>

(* A recording is written further, or is finished with. *)
Settle(i) ==
  /\ Resting
  /\ \/ held[i].through = 0 /\ held' = [held EXCEPT ![i].through = 1]
     \/ held' = RemoveAt(held, i)
  /\ UNCHANGED <<files, now, list, staging, daemon>>

(* `save_unfinished` of none. *)
RemoveList ==
  /\ Resting /\ daemon.records /\ held = <<>> /\ list # Absent
  /\ list' = Absent
  /\ UNCHANGED <<files, now, staging, held, daemon>>

(* `save_unfinished`: the staging file is emptied, or made. *)
BeginSave ==
  /\ Resting /\ daemon.records /\ held # <<>>
  /\ daemon' = [daemon EXCEPT !.at = "writing"]
  /\ staging' = <<>>
  /\ UNCHANGED <<files, now, list, held>>

(* A line is written, or the disk takes a part of it and no more. *)
WriteLine ==
  /\ daemon.at = "writing" /\ Len(staging) < Len(held)
  /\ \E next \in {held[Len(staging) + 1]} :
       \/ staging' = Append(staging, next) /\ UNCHANGED daemon
       \/ /\ staging' = Append(staging, CutShort(next))
          /\ daemon' = [daemon EXCEPT !.at = "rest"]
  /\ UNCHANGED <<files, now, list, held>>

(* Variant: the list is written in place. *)
WrittenInPart(lines) == lines # <<>>
Written(lines) == Len(lines) = Len(held)

Rename ==
  /\ daemon.at = "writing" /\ Written(staging)
  /\ daemon' = [daemon EXCEPT !.at = "rest"]
  /\ list' = Holding(staging) /\ staging' = <<>>
  /\ UNCHANGED <<files, now, held>>

(* The open, a write or the rename fails. *)
SaveFails ==
  /\ daemon.at = "writing"
  /\ daemon' = [daemon EXCEPT !.at = "rest"]
  /\ UNCHANGED <<files, now, list, staging, held>>

(* The process dies, or stops. *)
Crash ==
  /\ daemon.up /\ daemon' = Off /\ held' = <<>>
  /\ UNCHANGED <<files, now, list, staging>>

(* Someone deletes a recording. *)
Delete(name) ==
  /\ files[name] = "there" /\ files' = [files EXCEPT ![name] = "deleted"]
  /\ UNCHANGED <<now, list, staging, held, daemon>>

SetClock(time) ==
  /\ time # now /\ now' = time
  /\ UNCHANGED <<files, list, staging, held, daemon>>

Next ==
  \/ \E records \in BOOLEAN : Start(records)
  \/ \E choice \in Stamps : OpenCapture(choice)
  \/ \E i \in DOMAIN held : Settle(i)
  \/ RemoveList \/ BeginSave \/ WriteLine \/ Rename \/ SaveFails
  \/ Crash
  \/ \E name \in Names : Delete(name)
  \/ \E time \in Seconds : SetClock(time)

Spec == Init /\ [][Next]_vars

-----------------------------------------------------------------------------
(* The entries whose recording is there. *)
Remaining(there, entries) ==
  FlattenSeq([i \in DOMAIN entries |->
    IF there[entries[i].name] = "there" THEN <<entries[i]>> ELSE <<>>])

(* What a start would read at this moment is what the last start would have
   read, less what was deleted since, or the whole list a recording daemon
   holds: whenever the process dies, whatever fails, and whatever a daemon
   that does not record does. *)
SavesWholeStep ==
  LET before == Remaining(files', ReadWaitingList(files, list))
      after == ReadWaitingList(files', list')
  IN  after # before => after = Remaining(files', held) /\ daemon.records
=============================================================================
