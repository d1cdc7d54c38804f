----------------------------- MODULE ModelFiles ------------------------------
(***************************************************************************)
(* The default model's files on disk, and the processes that bring them    *)
(* there and load them: the daemon's loader, which trusts sizes, loads,    *)
(* and repairs what did not load, and `spokenpad fetch-models`, which      *)
(* trusts nothing (shell/models.rs, `run` and `load_with_repair` in        *)
(* shell/daemon/mod.rs).  They share the files, the `.part` beside each    *)
(* and the directory's lock.                                               *)
(*                                                                         *)
(* A file's content is a sequence of blocks; "right" ones are the pinned   *)
(* bytes, and only a whole file of them has the pinned size and sha256.    *)
(***************************************************************************)
EXTENDS Integers, Sequences

CONSTANTS
  Loaders, Fetchers, \* daemons, and commands
  Files,             \* the default files, 1..Files
  Size,              \* the blocks of a file, as pinned
  MaxFaults,         \* bound: failures, kills and power losses
  MaxStarts          \* bound: processes started, and loads asked for again

Procs == Loaders \cup Fetchers
Nobody == "nobody"

ModelFilesAssumption ==
  /\ Loaders \cap Fetchers = {} /\ Nobody \notin Procs
  /\ Files \in Nat /\ Size \in Nat \ {0}
  /\ MaxFaults \in Nat /\ MaxStarts \in Nat

Absent == <<"absent">>
Good == [i \in 1..Size |-> "right"]
Damaged == [i \in 1..Size |-> "wrong"]
Found == {Absent, <<"right">>, Good, Damaged}

VARIABLES
  disk, part,  \* what each file, and its `.part`, holds
  unsynced,    \* files the disk itself may not have yet
  lock,        \* who holds the directory's lock
  proc,        \* each process
  loadable,    \* whether this machine can load the right files
  faults, starts

vars == <<disk, part, unsynced, lock, proc, loadable, faults, starts>>
bounds == <<loadable, faults, starts>>

Off == [pc |-> "off", goal |-> "none", at |-> 0, got |-> <<>>, fetched |-> FALSE,
        why |-> "none"]

Init ==
  /\ disk \in [1..Files -> Found]
  /\ part \in [1..Files -> {Absent, <<"right">>}]
  /\ unsynced = {}
  /\ lock = Nobody
  /\ proc = [p \in Procs |-> Off]
  /\ loadable \in BOOLEAN
  /\ faults = MaxFaults /\ starts = MaxStarts

FaultHappens == faults > 0 /\ faults' = faults - 1 /\ UNCHANGED <<loadable, starts>>
At(p, pc) == proc[p].pc = pc
Goes(p, pc) == proc' = [proc EXCEPT ![p].pc = pc]

-----------------------------------------------------------------------------
(* A daemon starts, or is asked to load again; a command starts. *)
Starts(p) ==
  /\ starts > 0 /\ proc[p].pc \in {"off", "unavailable"}
  /\ proc' = [proc EXCEPT ![p] =
                IF p \in Loaders THEN [Off EXCEPT !.pc = "sizes", !.goal = "ensure"]
                                 ELSE [Off EXCEPT !.pc = "locking", !.goal = "fetch"]]
  /\ starts' = starts - 1
  /\ UNCHANGED <<disk, part, unsynced, lock, loadable, faults>>

(* `ensure_defaults`: nothing to do when every file has its pinned size. *)
AllSized == \A f \in 1..Files : disk[f] # Absent /\ Len(disk[f]) = Size

LooksAtSizes(p) ==
  /\ At(p, "sizes")
  /\ Goes(p, IF AllSized THEN "loading" ELSE "locking")
  /\ UNCHANGED <<disk, part, unsynced, lock, bounds>>

(* `lock_dir` *)
(* Variant: any number of processes have the lock. *)
LockShared(p) == TRUE

LockFree(p) == lock = Nobody

Locks(p) ==
  /\ At(p, "locking") /\ LockFree(p)
  /\ lock' = p
  /\ proc' = [proc EXCEPT ![p] = [@ EXCEPT !.pc = "checking", !.at = 1, !.fetched = FALSE]]
  /\ UNCHANGED <<disk, part, unsynced, bounds>>

Unlocked(p) == IF lock = p THEN Nobody ELSE lock

(* `fetch_with`: a file that verifies stays, another is downloaded. *)
FetchedSoFar(p, downloads) == proc[p].fetched \/ downloads

Verified(f) == disk[f] = Good

Checks(p) ==
  /\ At(p, "checking") /\ proc[p].at <= Files
  /\ IF Verified(proc[p].at)
       THEN proc' = [proc EXCEPT ![p].at = @ + 1,
                                 ![p].fetched = FetchedSoFar(p, FALSE)]
       ELSE proc' = [proc EXCEPT ![p].pc = "requesting",
                                 ![p].fetched = FetchedSoFar(p, TRUE)]
  /\ UNCHANGED <<disk, part, unsynced, lock, bounds>>

(* All are in place; a repair that found them so has nothing to load again. *)
Fetched(p) ==
  /\ At(p, "checking") /\ proc[p].at > Files
  /\ lock' = Unlocked(p)
  /\ proc' = [proc EXCEPT ![p] =
       CASE proc[p].goal = "fetch" -> Off
         [] proc[p].goal = "ensure" -> [@ EXCEPT !.pc = "loading"]
         [] proc[p].goal = "repair" ->
              IF proc[p].fetched THEN [@ EXCEPT !.pc = "loading"]
                ELSE [@ EXCEPT !.pc = "unavailable", !.why = "cannot load"]]
  /\ UNCHANGED <<disk, part, unsynced, bounds>>

(* `download`: on a failure the `.part` goes, and with it the attempt. *)
FailsNow(p) ==
  /\ part' = [part EXCEPT ![proc[p].at] = Absent]
  /\ lock' = Unlocked(p)
  /\ proc' = [proc EXCEPT ![p] =
                IF p \in Fetchers THEN Off
                  ELSE [@ EXCEPT !.pc = "unavailable", !.why = "download"]]
  /\ UNCHANGED <<disk, unsynced>>

DownloadFails(p) ==
  /\ proc[p].pc \in {"requesting", "body"} /\ FaultHappens
  /\ FailsNow(p)

(* `download_part`: the file is truncated when the response comes. *)
Requests(p) ==
  /\ At(p, "requesting")
  /\ part' = [part EXCEPT ![proc[p].at] = <<>>]
  /\ proc' = [proc EXCEPT ![p] = [@ EXCEPT !.pc = "body", !.got = <<>>]]
  /\ UNCHANGED <<disk, unsynced, lock, bounds>>

(* Written where this process is in the file, whoever wrote the rest. *)
WrittenAt(content, i, block) ==
  IF content = Absent THEN Absent
    ELSE [k \in 1..(IF Len(content) > i THEN Len(content) ELSE i) |->
            IF k = i THEN block ELSE IF k <= Len(content) THEN content[k] ELSE "hole"]

(* The mirror may send other bytes, or go on past the pinned size. *)
Receives(p) ==
  LET f == proc[p].at
      got(block) == Append(proc[p].got, block)
      Wrote(block) ==
        /\ part' = [part EXCEPT ![f] = WrittenAt(@, Len(got(block)), block)]
        /\ proc' = [proc EXCEPT ![p].got = got(block)]
  IN  /\ At(p, "body")
      /\ \/ Len(proc[p].got) < Size /\ Wrote("right") /\ UNCHANGED faults
         \/ Len(proc[p].got) < Size /\ Wrote("wrong") /\ FaultHappens
      /\ UNCHANGED <<disk, unsynced, lock, loadable, starts>>

BodyEnds(p) ==
  /\ At(p, "body")
  /\ IF proc[p].got = Good
       THEN Goes(p, "renaming") /\ UNCHANGED <<disk, part, unsynced, lock>>
       ELSE /\ Len(proc[p].got) = Size
            /\ FailsNow(p)
  /\ UNCHANGED bounds

(* Renamed into place once it verified, and not flushed to the disk. *)
Renames(p) ==
  /\ At(p, "renaming")
  /\ LET f == proc[p].at
     IN  /\ disk' = [disk EXCEPT ![f] = part[f]]
         /\ part' = [part EXCEPT ![f] = Absent]
         /\ unsynced' = unsynced \cup {f}
         /\ proc' = [proc EXCEPT ![p].pc = "checking", ![p].at = @ + 1]
  /\ UNCHANGED <<lock, bounds>>

-----------------------------------------------------------------------------
(* `load_with_repair`: wrong bytes fail to load, and are looked for once. *)
Loads(p) ==
  /\ At(p, "loading")
  /\ proc' = [proc EXCEPT ![p] =
       IF loadable /\ \A f \in 1..Files : Verified(f) THEN [@ EXCEPT !.pc = "serving"]
       ELSE IF proc[p].goal = "ensure" THEN [@ EXCEPT !.pc = "locking", !.goal = "repair"]
       ELSE [@ EXCEPT !.pc = "unavailable", !.why = "still"]]
  /\ UNCHANGED <<disk, part, unsynced, lock, bounds>>

(* `flock` ends with the process that held it. *)
(* Variant: the lock is the lock file's existence. *)
LockLeft(p) == lock
LockGone(p) == Unlocked(p)

Killed(p) ==
  /\ proc[p].pc # "off" /\ FaultHappens
  /\ proc' = [proc EXCEPT ![p] = Off]
  /\ lock' = LockGone(p)
  /\ UNCHANGED <<disk, part, unsynced>>

(* What was written and not flushed may come back empty, or damaged. *)
PowerLoss ==
  /\ unsynced # {} /\ FaultHappens
  /\ \E survives \in [unsynced -> {Good, Damaged, <<>>}] :
       disk' = [f \in 1..Files |-> IF f \in unsynced THEN survives[f] ELSE disk[f]]
  /\ part' = [f \in 1..Files |-> Absent]
  /\ unsynced' = {} /\ lock' = Nobody
  /\ proc' = [p \in Procs |-> Off]

Works(p) ==
  \/ LooksAtSizes(p) \/ Locks(p) \/ Checks(p) \/ Fetched(p) \/ Requests(p)
  \/ Receives(p) \/ BodyEnds(p) \/ Renames(p) \/ Loads(p)

Next ==
  \/ \E p \in Procs : Starts(p) \/ Works(p) \/ DownloadFails(p) \/ Killed(p)
  \/ PowerLoss

(* A process goes on: every wait but the one for the lock has its timeout. *)
Spec == Init /\ [][Next]_vars /\ \A p \in Procs : WF_vars(Works(p))

-----------------------------------------------------------------------------
(* Whatever process wrote it and however they overlapped or ended, only
   verified bytes come to a model file's name (`fetch_models`). *)
LandsVerified ==
  \A f \in 1..Files : disk'[f] # disk[f] => disk'[f] = Good \/ unsynced' = {}

(* A load ends, served or with its reason, whoever had the lock and however
   that one ended. *)
Looks(p) == proc[p].pc = "sizes"
Settled(p) == proc[p].pc \in {"off", "serving", "unavailable"}
=============================================================================
