------------------------------ MODULE MCThreads ------------------------------
(****************************************************************************)
(* What runs beside the event loop, on small instances: the thread that     *)
(* owns the pane (PaneHost), the model files a worker loads and how they    *)
(* come to be there (ModelFiles), and how the worker cuts a capture into    *)
(* windows (Chunking, Windows). They share no state, so a behaviour is of   *)
(* one of them.                                                             *)
(****************************************************************************)
EXTENDS Integers, Sequences, FiniteSets

CONSTANTS
  Loaders, Fetchers, Files, Size, MaxFaults, MaxStarts  \* ModelFiles

Daemons == {"daemon"}
Commands == {"fetch"}

(* A command, one with a register and a count, `<C-v>`, and `<C-v>` and digits. *)
HalfTyped ==
  [escapes : {1, 2}, types : {"nothing"}] \cup [escapes : {1}, types : {"escape", "number"}]

VARIABLES
  component, \* which of them this behaviour is of; it does not change
  disk, part, unsynced, lock, proc, loadable, faults,    \* ModelFiles
  starts,
  audio, through, decoded, ticked, phase,                \* Chunking
  caller, work, shared, reply, thread, pane, unsaved,    \* PaneHost
  hist

F == INSTANCE ModelFiles
C == INSTANCE Chunking WITH
  Rate <- 2, Pad <- 2, Edge <- 3, Target <- 4, Grid <- 2, MaxLength <- 10
P == INSTANCE PaneHost WITH
  MaxPanes <- 2, MaxKeys <- 1, Halves <- HalfTyped, MaxHolds <- 1, Deaths <- 1

filesVars == <<disk, part, unsynced, lock, proc, loadable, faults, starts>>
chunksVars == <<audio, through, decoded, ticked, phase>>
hostVars == <<caller, work, shared, reply, thread, pane, unsaved, hist>>

ASSUME ThreadsAssumptions ==
  F!ModelFilesAssumption /\ C!WindowsAssumption /\ P!HostAssumption

(* The variables of the others are not used. *)
NoFiles == disk = 0 /\ part = 0 /\ unsynced = 0 /\ lock = 0 /\ proc = 0 /\
  loadable = 0 /\ faults = 0 /\ starts = 0
NoChunks == audio = 0 /\ through = 0 /\ decoded = 0 /\ ticked = 0 /\ phase = 0
NoHost == caller = 0 /\ work = 0 /\ shared = 0 /\ reply = 0 /\ thread = 0 /\
  pane = 0 /\ unsaved = 0 /\ hist = 0

Init ==
  \/ component = "files" /\ F!Init /\ NoChunks /\ NoHost
  \/ component = "chunks" /\ C!Init /\ NoFiles /\ NoHost
  \/ component = "host" /\ P!Init /\ NoFiles /\ NoChunks

Next ==
  \/ component = "files" /\ F!Next /\ UNCHANGED <<component, chunksVars,
     hostVars>>
  \/ component = "chunks" /\ C!Next /\ UNCHANGED <<component, filesVars,
     hostVars>>
  \/ component = "host" /\ P!Next /\ UNCHANGED <<component, filesVars,
     chunksVars>>

vars == <<component, filesVars, chunksVars, hostVars>>

(* A process goes on: every wait but the one for the lock has its timeout. *)
Works(p) == component = "files" /\ F!Works(p) /\ UNCHANGED <<component, chunksVars, hostVars>>

(* The caller's own steps go on once they began, and the thread's once they
   can: BACKSTOP, an hour, is not relied on. *)
Goes(Step) == component = "host" /\ Step /\ UNCHANGED <<component, filesVars, chunksVars>>

Spec ==
  /\ Init /\ [][Next]_vars
  /\ \A p \in F!Procs : WF_vars(Works(p))
  /\ WF_vars(Goes(P!Knock)) /\ WF_vars(Goes(P!HasReply \/ P!TimesOut))
  /\ WF_vars(Goes(P!DropsReply)) /\ WF_vars(Goes(caller.at = "failed" /\ P!Closes))
  /\ WF_vars(Goes(P!Serve))

-----------------------------------------------------------------------------
(* Only verified bytes come to a model file's name (`fetch_models`). *)
OnlyVerifiedLands == [][component = "files" => F!LandsVerified]_vars

(* A load ends, served or with its reason, whoever had the lock. *)
LoadSettles ==
  \A p \in Loaders :
    component = "files" /\ F!Looks(p) ~> component = "files" /\ F!Settled(p)

(* A chunk settles where the release would have cut it, whatever the cadence
   of the ticks, every word is decoded in one window, and silence is dropped
   (`Worker::tick`). *)
CutAsWhole ==
  component = "chunks" => C!CutAsWhole /\ C!WordsOnce /\ C!SilenceIsDropped

(* However a pane ends, the daemon hears of a close by the user and what was
   typed in it is kept (`Shared::closed_by_user`, `Pane::drop`). *)
PaneEndsWell == component = "host" => P!EndsWell

(* A pane its caller gave up goes, and the thread ends with its handle. *)
NothingLeftBehind ==
  component = "host" /\ P!LeftBehind ~> component = "host" /\ ~P!LeftBehind
=============================================================================
