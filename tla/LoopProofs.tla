----------------------------- MODULE LoopProofs ------------------------------
(***************************************************************************)
(* Proofs about the daemon's pipeline (Dictation), for every number of     *)
(* captures, frames, starts and faults. Its types. What the event loop     *)
(* keeps account of: it and the inference thread agree on whether the      *)
(* model is ready, so that no work to decode reaches a thread without one, *)
(* no second Load reaches a thread that has one, and a capture ticks       *)
(* exactly when it was begun with it. What it owes from a recording        *)
(* survives a crash: the waiting list, and the recordings pruning passes   *)
(* over. And text is written, and copied, in the order it was spoken: of   *)
(* quick re-presses, of recordings decoded late, and across failures,      *)
(* stops and crashes.                                                      *)
(***************************************************************************)
EXTENDS Dictation, WellFoundedInduction, TLAPS

(* What the types rest on: only a capture that was begun is recorded, a
   capture under way has a number and is the one captured, and no WAV is
   longer than its capture. *)
Attached ==
  /\ session.state # "idle" => session.current # None
  /\ pc = "postroll" => session.state = "transcribing"
  /\ pc = "down" => session.state = "idle"
  /\ session.state = "recording"
       /\ pc \in {"requests", "results", "tick", "dispatch", "leaving"}
     => mic = session.current
  /\ engine.phase = "busy" => engine.job \in DecodeJob

Recorded ==
  \A c \in Captures : /\ wav[c] <= captured[c]
                      /\ c > made => wav[c] = Gone

TypeInv == TypeOK /\ Attached /\ Recorded

-----------------------------------------------------------------------------
(* What is sent through the channels, and what is read from it. *)

(* Every kind of work the loop sends has its type. *)
LEMMA JobMade ==
  /\ {NoJob, LoadWork, QuitWork} \subseteq Job
  /\ \A c \in Captures, i, j \in Frames :
       /\ TickWork(c, i, j) \in DecodeJob
       /\ FinishWork(c, i, j) \in DecodeJob
       /\ RecordingWork(c, i) \in DecodeJob
  /\ DecodeJob \subseteq Job
BY PipelineAssumption DEF Job, DecodeJob, LoadWork, QuitWork, TickWork, FinishWork, RecordingWork, Frames

(* Work of the decoding kinds names a capture and frames. *)
LEMMA JobRead ==
  \A job \in Job : job.kind \in {"tick", "finish", "recording"} => job \in DecodeJob
BY DEF Job, NoJob, LoadWork, QuitWork

LEMMA ResultMade ==
  /\ \A kind \in {"preparing", "ready", "unavailable"} : Event(kind) \in Result
  /\ \A c \in Captures, i, j \in Frames : Commit(c, i, j) \in Result
  /\ \A c \in Captures : TickDone(c) \in Result
  /\ \A c \in Captures, o \in {"ok", "failed", "short"} : Finished(c, o) \in Result
  /\ \A at \in Nat : WindowClosed(at) \in Result
BY DEF Result, Event, Commit, TickDone, Finished, WindowClosed

LEMMA ResultRead ==
  \A r \in Result :
    /\ r.kind = "commit" => r.c \in Captures /\ r.from \in Frames /\ r.through \in Frames
    /\ r.kind = "tick" => r.c \in Captures
    /\ r.kind = "finished" => r.c \in Captures /\ r.outcome \in {"ok", "failed", "short"}
    /\ r.kind = "closed" => r.at \in Nat
BY DEF Result, Event

LEMMA EditorMade ==
  /\ \A c \in Captures, i, j \in Frames : AppendText(c, i, j) \in EditorWork
  /\ \A c \in Captures : Copy(c) \in EditorWork
  /\ EditorQuit \in EditorWork
BY DEF EditorWork, AppendText, Copy, EditorQuit

LEMMA EditorRead ==
  \A w \in EditorWork :
    w.kind = "append" => w.c \in Captures /\ w.from \in Frames /\ w.through \in Frames
BY DEF EditorWork, EditorQuit

-----------------------------------------------------------------------------
(* The session's operations keep its type. *)
LEMMA SessionSteps ==
  ASSUME NEW s \in SessionState
  PROVE  /\ Applied(s) \in SessionState
         /\ Configure(s) \in SessionState
         /\ \A c \in Captures : Started(s, c) \in SessionState
         /\ Ended(s) \in SessionState /\ Discarded(s) \in SessionState
         /\ \A c, w : \A i \in Frames : NoteCommit(s, c, i, w) \in SessionState
         /\ \A c : Finish(s, c) \in SessionState
         /\ \A c : TickFinished(s, c) \in SessionState
         /\ IntervalPassed(s) \in SessionState
<1> USE DEF SessionState
<1>1. Applied(s) \in SessionState
  BY DEF Applied
<1>2. Configure(s) \in SessionState
  BY DEF Configure, Applied
<1>3. \A c \in Captures : Started(s, c) \in SessionState
  <2>1. 0 \in Frames
    BY PipelineAssumption DEF Frames
  <2> QED BY <1>1, <2>1 DEF Started
<1>4. Ended(s) \in SessionState /\ Discarded(s) \in SessionState
  BY <1>1 DEF Ended, Discarded
<1>5. \A c, w : \A i \in Frames : NoteCommit(s, c, i, w) \in SessionState
  BY <1>1 DEF NoteCommit
<1>6. \A c : Finish(s, c) \in SessionState
  BY <1>1 DEF Finish
<1>7. \A c : TickFinished(s, c) \in SessionState
  BY DEF TickFinished
<1>8. IntervalPassed(s) \in SessionState
  BY DEF IntervalPassed
<1> QED BY <1>1, <1>2, <1>3, <1>4, <1>5, <1>6, <1>7, <1>8

(* A fault that happens is one fewer left. *)
LEMMA FaultStep ==
  ASSUME TypeOK, NEW kind \in FaultKinds \ {"any"}, FaultHappens(kind)
  PROVE  faults' \in [FaultKinds -> Nat]
<1> DEFINE once == [faults EXCEPT ![kind] = @ - 1]
<1>1. /\ faults \in [FaultKinds -> Nat] /\ "any" \in FaultKinds
      /\ faults[kind] > 0 /\ faults["any"] > 0
  BY DEF TypeOK, FaultHappens, FaultKinds
<1>2. faults[kind] - 1 \in Nat
  BY <1>1
<1>3. once \in [FaultKinds -> Nat] /\ once["any"] = faults["any"]
  BY <1>1, <1>2
<1>4. faults' = [once EXCEPT !["any"] = once["any"] - 1]
  BY <1>3 DEF FaultHappens
<1>5. once["any"] - 1 \in Nat
  BY <1>1, <1>3
<1> QED BY <1>3, <1>4, <1>5

(* The inference thread's operations keep its type. *)
LEMMA EngineSteps ==
  ASSUME NEW e \in EngineState
  PROVE  /\ \A p \in {"loading", "failed", "idle", "busy", "exited"} :
              [e EXCEPT !.phase = p] \in EngineState
         /\ \A c \in Captures : Begun(e, c) \in EngineState
         /\ \A c \in Captures, i \in Frames :
              Resumed(e, c, i) \in EngineState
         /\ ResetProgress(e) \in EngineState
         /\ \A job \in Job, i \in Frames : Busy(e, job, i) \in EngineState
         /\ Rest(e) \in EngineState
         /\ \A i \in Frames : [e EXCEPT !.segment = i] \in EngineState
         /\ \A i \in Frames : CommitThrough(e, i) \in EngineState
<1>1. 0 \in Frames /\ None \in Captures \cup {None} /\ NoJob \in Job
  BY JobMade, PipelineAssumption DEF Frames
<1> USE <1>1 DEF EngineState
<1>2. \A p \in {"loading", "failed", "idle", "busy", "exited"} :
        [e EXCEPT !.phase = p] \in EngineState
  OBVIOUS
<1>3. \A c \in Captures, i \in Frames : Resumed(e, c, i) \in EngineState
  BY DEF Resumed
<1>4. \A c \in Captures : Begun(e, c) \in EngineState
  BY DEF Begun
<1>5. ResetProgress(e) \in EngineState
  BY DEF ResetProgress
<1>6. \A job \in Job, i \in Frames : Busy(e, job, i) \in EngineState
  BY DEF Busy
<1>7. Rest(e) \in EngineState
  BY DEF Rest
<1>8. \A i \in Frames : [e EXCEPT !.segment = i] \in EngineState
  OBVIOUS
<1>9. \A i \in Frames : CommitThrough(e, i) \in EngineState
  BY DEF CommitThrough
<1> QED BY <1>2, <1>3, <1>4, <1>5, <1>6, <1>7, <1>8, <1>9

(* What leaves the capture under way alone. *)
LEMMA SessionKeeps ==
  ASSUME NEW s \in SessionState, NEW t \in SessionState,
         \/ t \in {Applied(s), Configure(s), IntervalPassed(s)}
         \/ \E c, i, w : t = NoteCommit(s, c, i, w)
         \/ \E c : t = TickFinished(s, c)
  PROVE  t.state = s.state /\ t.current = s.current
<1> USE DEF SessionState
<1>1. CASE t \in {Applied(s), Configure(s), IntervalPassed(s)}
  BY <1>1 DEF Applied, Configure, IntervalPassed
<1>2. CASE \E c, i, w : t = NoteCommit(s, c, i, w)
  BY <1>2 DEF NoteCommit, Applied
<1>3. CASE \E c : t = TickFinished(s, c)
  BY <1>3 DEF TickFinished
<1> QED BY <1>1, <1>2, <1>3

(* What begins and ends one. *)
LEMMA SessionTurns ==
  ASSUME NEW s \in SessionState, NEW c
  PROVE  /\ Started(s, c).state = "recording" /\ Started(s, c).current = c
         /\ Ended(s).state = "transcribing" /\ Ended(s).current = s.current
         /\ Discarded(s).state = "idle" /\ Discarded(s).current = s.current
         /\ Finish(s, c).current = s.current
         /\ Finish(s, c).state \in {"idle", s.state}
         /\ s.current = c => Finish(s, c).state \in {"idle", "recording"} \cap {"idle", s.state}
<1>1. Applied(s) \in SessionState
  BY SessionSteps
<1>2. Applied(s).state = s.state /\ Applied(s).current = s.current
  BY DEF Applied, SessionState
<1> QED BY <1>1, <1>2 DEF Started, Ended, Discarded, Finish, IsCurrent, SessionState

(* A recording's entry keeps its type in each of its changes. *)
LEMMA EntrySteps ==
  ASSUME NEW ts \in [Captures -> Entry], NEW c
  PROVE  /\ [ts EXCEPT ![c] = Unlisted] \in [Captures -> Entry]
         /\ [ts EXCEPT ![c] = [Unlisted EXCEPT !.stage = "capturing"]]
              \in [Captures -> Entry]
         /\ \A x \in Stages : [ts EXCEPT ![c].stage = x] \in [Captures -> Entry]
         /\ \A i \in Frames : [ts EXCEPT ![c].through = i] \in [Captures -> Entry]
<1>1. 0 \in Frames
  BY PipelineAssumption DEF Frames
<1>2. Unlisted \in Entry /\ [Unlisted EXCEPT !.stage = "capturing"] \in Entry
  BY <1>1 DEF Unlisted, Entry, Stages
<1> QED BY <1>2 DEF Entry

(* The list keeps its type, written or not. *)
LEMMA PersistStep ==
  ASSUME TypeOK, trans' \in [Captures -> Entry], Persist(trans')
  PROVE  /\ list' \in [Captures -> Frames \cup {Gone}]
         /\ faults' \in [FaultKinds -> Nat]
<1>1. CASE list' = ListOf(trans', {c \in Captures : ListedWhileRunning(trans'[c])}) /\ UNCHANGED faults
  BY <1>1 DEF ListOf, Entry, TypeOK
<1>2. CASE FaultHappens("persist") /\ UNCHANGED list
  BY <1>2, FaultStep DEF TypeOK, FaultKinds
<1> QED BY <1>1, <1>2 DEF Persist

(* What reading a commit, and the end of a decode, do to the recordings. *)
LEMMA TakeCommitStep ==
  ASSUME TypeOK, NEW r \in Result, r.kind = "commit", TakeCommit(r)
  PROVE  /\ trans' \in [Captures -> Entry]
         /\ session' \in SessionState
         /\ session'.state = session.state /\ session'.current = session.current
         /\ editor' \in Seq(EditorWork)
<1>1. r.c \in Captures /\ r.from \in Frames /\ r.through \in Frames
  BY ResultRead
<1>2. trans' \in [Captures -> Entry]
  <2>1. trans[r.c].through \in Frames
    BY <1>1 DEF TypeOK, Entry
  <2> QED BY <1>1, <2>1, EntrySteps DEF TypeOK, TakeCommit
<1>3. session' \in SessionState
  BY <1>1, SessionSteps DEF TypeOK, TakeCommit
<1>4. session'.state = session.state /\ session'.current = session.current
  BY <1>3, SessionKeeps DEF TypeOK, TakeCommit
<1>5. editor' \in Seq(EditorWork)
  BY <1>1, EditorMade DEF TypeOK, TakeCommit
<1> QED BY <1>2, <1>3, <1>4, <1>5

LEMMA TakeFinishedStep ==
  ASSUME TypeOK, NEW c \in Captures, NEW o \in {"ok", "failed", "short"},
         TakeFinished(c, o)
  PROVE  trans' \in [Captures -> Entry] /\ kept' \subseteq Captures
         /\ lost' \subseteq Captures
<1>1. trans' \in [Captures -> Entry]
  <2>1. [trans[c] EXCEPT !.stage = "retry"] \in Entry /\ Unlisted \in Entry
    <3>1. 0 \in Frames
      BY PipelineAssumption DEF Frames
    <3> QED BY <3>1, ZenonT(40) DEF TypeOK, Entry, Stages, Unlisted
  <2> QED BY <2>1 DEF TypeOK, TakeFinished
<1>2. kept' \subseteq Captures /\ lost' \subseteq Captures
  BY DEF TypeOK, TakeFinished
<1> QED BY <1>1, <1>2

(* What a discard does keeps the types. *)
LEMMA DiscardStep ==
  ASSUME TypeInv, session.state = "recording", NEW deserved \in BOOLEAN,
         DiscardCurrent(deserved)
  PROVE  /\ session' \in SessionState /\ session'.state = "idle"
         /\ life' \in [Captures -> {"live", "released", "cancelled"}]
         /\ trans' \in [Captures -> Entry]
         /\ lost' \subseteq Captures
         /\ mic' \in Captures \cup {None}
<1>1. session \in SessionState /\ session.current \in Captures
  BY DEF TypeInv, TypeOK, Attached, SessionState
<1>2. session' \in SessionState /\ session'.state = "idle"
  BY <1>1, SessionSteps, SessionTurns DEF DiscardCurrent
<1>3. trans' \in [Captures -> Entry]
  BY <1>1, EntrySteps DEF DiscardCurrent, TypeInv, TypeOK
<1>4. /\ life' \in [Captures -> {"live", "released", "cancelled"}]
      /\ lost' \subseteq Captures
  BY <1>1 DEF DiscardCurrent, TypeInv, TypeOK
<1> QED BY <1>2, <1>3, <1>4 DEF DiscardCurrent

(* What a process leaves, and what the next one finds, has its type. *)
LEMMA FreshTypes ==
  /\ NewSession \in SessionState
  /\ Loading \in EngineState /\ [Loading EXCEPT !.phase = "exited"] \in EngineState
  /\ [c \in Captures |-> Unlisted] \in [Captures -> Entry]
<1>1. 0 \in Frames
  BY PipelineAssumption DEF Frames
<1> QED BY <1>1, JobMade
        DEF NewSession, SessionState, Loading, EngineState, Unlisted, Entry, Stages, None

LEMMA EndStep ==
  ASSUME TypeInv, ProcessEnds
  PROVE  /\ pc' \in Pcs /\ session' \in SessionState
         /\ recognition' \in {"preparing", "ready", "unavailable"} /\ live' \in BOOLEAN
         /\ trans' \in [Captures -> Entry]
         /\ mic' \in Captures \cup {None} /\ base' \in Frames /\ kept' \subseteq Captures
         /\ life' \in [Captures -> {"live", "released", "cancelled"}]
         /\ engine' \in EngineState /\ editing' \in BOOLEAN
         /\ work' \in Seq(Job) /\ results' \in Seq(Result) /\ editor' \in Seq(EditorWork)
         /\ stopping' \in BOOLEAN
         /\ Attached'
<1> USE DEF ProcessEnds
<1>1. base' \in Frames
  BY PipelineAssumption DEF Frames
<1>2. Attached'
  BY DEF Attached, NewSession, Loading
<1>3. live' \in BOOLEAN /\ editing' \in BOOLEAN /\ stopping' \in BOOLEAN
  OBVIOUS
<1>4. work' \in Seq(Job) /\ results' \in Seq(Result) /\ editor' \in Seq(EditorWork)
  OBVIOUS
<1>5. /\ session' \in SessionState /\ engine' \in EngineState
      /\ trans' \in [Captures -> Entry]
  BY FreshTypes
<1> QED BY <1>1, <1>2, <1>3, <1>4, <1>5 DEF Pcs

LEMMA InitTypes == Init => TypeInv
<1> SUFFICES ASSUME Init PROVE TypeInv OBVIOUS
<1> USE PipelineAssumption DEF Init
<1>1. session \in SessionState
  BY DEF SessionState, NewSession, Frames, None
<1>2. engine \in EngineState
  BY JobMade DEF EngineState, Loading, Frames, None
<1>3. trans \in [Captures -> Entry]
  BY DEF Entry, Unlisted, Stages, Frames
<1>4. captured \in [Captures -> Frames] /\ base \in Frames
  BY DEF Frames
<1>5. TypeOK
  <2>1. made \in 0..MaxCaptures /\ boots \in Nat /\ faults \in [FaultKinds -> Nat]
    OBVIOUS
  <2>2. /\ file \in Seq([c : Captures, from : Frames, through : Frames])
        /\ work \in Seq(Job) /\ results \in Seq(Result) /\ editor \in Seq(EditorWork)
    OBVIOUS
  <2>3. /\ wav \in [Captures -> Frames \cup {Gone}]
        /\ list \in [Captures -> Frames \cup {Gone}]
        /\ life \in [Captures -> {"live", "released", "cancelled"}]
    OBVIOUS
  <2>4. pc \in Pcs /\ mic \in Captures \cup {None}
    BY DEF Pcs
  <2> QED BY <1>1, <1>2, <1>3, <1>4, <2>1, <2>2, <2>3, <2>4 DEF TypeOK
<1>6. Attached
  BY DEF Attached, NewSession, Loading, None
<1>7. Recorded
  BY DEF Recorded, Gone
<1> QED BY <1>5, <1>6, <1>7 DEF TypeInv

LEMMA AudioArrivesTypes == TypeInv /\ AudioArrives => TypeInv'
<1> SUFFICES ASSUME TypeInv, AudioArrives PROVE TypeInv' OBVIOUS
<1> USE DEF TypeInv
<1>1. mic \in Captures /\ captured[mic] \in Frames /\ captured[mic] < MaxFrames
      /\ wav[mic] \in Frames \cup {Gone} /\ wav[mic] <= captured[mic]
  BY DEF AudioArrives, TypeOK, None, Recorded
<1>2. captured' \in [Captures -> Frames] /\ wav' \in [Captures -> Frames \cup {Gone}]
  BY <1>1, PipelineAssumption DEF AudioArrives, TypeOK, Frames, Gone
<1>3. TypeOK'
  BY <1>2 DEF AudioArrives, TypeOK, loopVars, diskVars, micVars, modelVars
<1>4. Attached'
  BY DEF AudioArrives, Attached, loopVars
<1>5. Recorded'
  BY <1>1, PipelineAssumption DEF AudioArrives, Recorded, TypeOK, Frames, Gone, modelVars
<1> QED BY <1>3, <1>4, <1>5

LEMMA PruneTypes == TypeInv /\ Prune => TypeInv'
<1> SUFFICES ASSUME TypeInv, Prune PROVE TypeInv' OBVIOUS
<1> USE DEF TypeInv, Prune, loopVars, micVars, diskVars, modelVars
<1>2. TypeOK'
  BY FaultStep DEF FaultKinds, TypeOK, Gone, FaultKinds
<1>3. Attached'
  BY DEF Attached, LoopAt
<1>4. Recorded'
  BY PipelineAssumption DEF Recorded, TypeOK, Gone, Frames
<1> QED BY <1>2, <1>3, <1>4


LEMMA EndCaptureTypes == TypeInv /\ EndCapture => TypeInv'
<1> SUFFICES ASSUME TypeInv, EndCapture PROVE TypeInv' OBVIOUS
<1> USE DEF TypeInv, EndCapture, loopVars, micVars, diskVars, modelVars
<1>1. /\ session' \in SessionState
      /\ life' \in [Captures -> {"live", "released", "cancelled"}]
  <2>1. session.current \in Captures
    BY DEF TypeOK, SessionState, Attached
  <2>2. Released(life[session.current]) \in {"live", "released", "cancelled"}
    BY <2>1 DEF TypeOK, Released
  <2> QED BY <2>1, <2>2, SessionSteps DEF TypeOK
<1>2. TypeOK'
  BY <1>1 DEF TypeOK, Pcs
<1>3. Attached'
  BY <1>1 DEF Attached, LoopAt, Ended, Applied
<1>4. Recorded'
  BY DEF Recorded
<1> QED BY <1>2, <1>3, <1>4


LEMMA AskToStopTypes == TypeInv /\ AskToStop => TypeInv'
<1> SUFFICES ASSUME TypeInv, AskToStop PROVE TypeInv' OBVIOUS
<1> USE DEF TypeInv, AskToStop, loopVars, micVars, diskVars, modelVars
<1>2. TypeOK'
  BY FaultStep DEF FaultKinds, TypeOK
<1>3. Attached'
  BY DEF Attached, LoopAt
<1>4. Recorded'
  BY DEF Recorded
<1> QED BY <1>2, <1>3, <1>4


LEMMA CloseWindowTypes == TypeInv /\ CloseWindow => TypeInv'
<1> SUFFICES ASSUME TypeInv, CloseWindow PROVE TypeInv' OBVIOUS
<1> USE DEF TypeInv, CloseWindow, loopVars, micVars, diskVars, modelVars
<1>1. made \in Nat /\ results' \in Seq(Result)
  BY ResultMade, PipelineAssumption DEF TypeOK
<1>2. TypeOK'
  BY FaultStep, <1>1 DEF FaultKinds, TypeOK
<1>3. Attached'
  BY DEF Attached, LoopAt
<1>4. Recorded'
  BY DEF Recorded
<1> QED BY <1>2, <1>3, <1>4


LEMMA EndRequestsTypes == TypeInv /\ EndRequests => TypeInv'
BY DEF EndRequests, LoopAt, TypeInv, TypeOK, Attached, Recorded,
   loopVars, micVars, diskVars, modelVars, Pcs

LEMMA DeliverPreparingTypes == TypeInv /\ DeliverPreparing => TypeInv'
BY DEF DeliverPreparing, Delivered, LoopAt, TypeInv, TypeOK, Attached, Recorded,
   loopVars, micVars, diskVars, modelVars, Pcs

LEMMA DeliverReadyTypes == TypeInv /\ DeliverReady => TypeInv'
<1> SUFFICES ASSUME TypeInv, DeliverReady PROVE TypeInv' OBVIOUS
<1> USE DEF TypeInv, DeliverReady, loopVars, micVars, diskVars, modelVars
<1>1. session' \in SessionState /\ results' \in Seq(Result)
  BY SessionSteps DEF TypeOK, Delivered
<1>2. TypeOK'
  BY <1>1 DEF TypeOK, Delivered
<1>3. Attached'
  BY <1>1 DEF Attached, Delivered, LoopAt, Configure, Applied
<1>4. Recorded'
  BY DEF Recorded
<1> QED BY <1>2, <1>3, <1>4


LEMMA DeliverUnavailableTypes == TypeInv /\ DeliverUnavailable => TypeInv'
BY DEF DeliverUnavailable, Delivered, LoopAt, TypeInv, TypeOK, Attached, Recorded,
   loopVars, micVars, diskVars, modelVars, Pcs

LEMMA DeliverTickTypes == TypeInv /\ DeliverTick => TypeInv'
<1> SUFFICES ASSUME TypeInv, DeliverTick PROVE TypeInv' OBVIOUS
<1> USE DEF TypeInv, DeliverTick, loopVars, micVars, diskVars, modelVars
<1>1. session' \in SessionState
  BY SessionSteps DEF TypeOK
<1>2. TypeOK'
  BY <1>1 DEF TypeOK, Delivered
<1>3. Attached'
  BY <1>1, SessionKeeps DEF Attached, Delivered, LoopAt, TypeOK
<1>4. Recorded'
  BY DEF Recorded
<1> QED BY <1>2, <1>3, <1>4

LEMMA EndResultsTypes == TypeInv /\ EndResults => TypeInv'
BY DEF EndResults, LoopAt, TypeInv, TypeOK, Attached, Recorded,
   loopVars, micVars, diskVars, modelVars, Pcs

LEMMA NoTickTypes == TypeInv /\ NoTick => TypeInv'
BY DEF NoTick, LoopAt, TypeInv, TypeOK, Attached, Recorded,
   loopVars, micVars, diskVars, modelVars, Pcs

LEMMA StallTypes == TypeInv /\ Stall => TypeInv'
<1> SUFFICES ASSUME TypeInv, Stall PROVE TypeInv' OBVIOUS
<1> USE DEF TypeInv, Stall, loopVars, micVars, diskVars, modelVars
<1>2. TypeOK'
  BY FaultStep, SessionSteps DEF FaultKinds, TypeOK
<1>3. Attached'
  BY DEF Attached, LoopAt, IntervalPassed
<1>4. Recorded'
  BY DEF Recorded
<1> QED BY <1>2, <1>3, <1>4


LEMMA EndPassTypes == TypeInv /\ EndPass => TypeInv'
<1> SUFFICES ASSUME TypeInv, EndPass PROVE TypeInv' OBVIOUS
<1> USE DEF TypeInv, EndPass, loopVars, micVars, diskVars, modelVars
<1>1. session' \in SessionState /\ base' \in Frames
  BY SessionSteps DEF TypeOK, SessionState
<1>2. TypeOK'
  BY <1>1 DEF TypeOK, Pcs, LoopAt
<1>3. Attached'
  BY DEF Attached, LoopAt, IntervalPassed
<1>4. Recorded'
  BY DEF Recorded
<1> QED BY <1>2, <1>3, <1>4


LEMMA LoadSucceedsTypes == TypeInv /\ LoadSucceeds => TypeInv'
<1> SUFFICES ASSUME TypeInv, LoadSucceeds PROVE TypeInv' OBVIOUS
<1> USE DEF TypeInv, LoadSucceeds, loopVars, micVars, diskVars, modelVars
<1> USE DEF engineOnly
<1>1. engine' \in EngineState
  BY EngineSteps DEF TypeOK
<1>2. TypeOK'
  BY <1>1, ResultMade DEF TypeOK
<1>3. Attached'
  BY DEF Attached, TypeOK, EngineState
<1>4. Recorded'
  BY DEF Recorded
<1> QED BY <1>2, <1>3, <1>4


LEMMA LoadFailsTypes == TypeInv /\ LoadFails => TypeInv'
<1> SUFFICES ASSUME TypeInv, LoadFails PROVE TypeInv' OBVIOUS
<1> USE DEF TypeInv, LoadFails, loopVars, micVars, diskVars, modelVars
<1> USE DEF engineOnly
<1>1. engine' \in EngineState
  BY EngineSteps DEF TypeOK
<1>5. results' \in Seq(Result)
  BY ResultMade DEF TypeOK
<1>2. TypeOK'
  BY <1>1, <1>5, FaultStep DEF FaultKinds, TypeOK
<1>3. Attached'
  BY DEF Attached, TypeOK, EngineState
<1>4. Recorded'
  BY DEF Recorded
<1> QED BY <1>2, <1>3, <1>4

LEMMA TakeWhileFailedTypes == TypeInv /\ TakeWhileFailed => TypeInv'
<1> SUFFICES ASSUME TypeInv, TakeWhileFailed PROVE TypeInv' OBVIOUS
<1> USE DEF TypeInv, TakeWhileFailed, loopVars, micVars, diskVars, modelVars
<1> USE DEF engineOnly
<1>1. engine' \in EngineState
  BY EngineSteps DEF TypeOK
<1>2. TypeOK'
  BY <1>1 DEF TypeOK
<1>3. Attached'
  BY DEF Attached, TypeOK, EngineState
<1>4. Recorded'
  BY DEF Recorded
<1> QED BY <1>2, <1>3, <1>4


LEMMA TakeQuitTypes == TypeInv /\ TakeQuit => TypeInv'
<1> SUFFICES ASSUME TypeInv, TakeQuit PROVE TypeInv' OBVIOUS
<1> USE DEF TypeInv, TakeQuit, loopVars, micVars, diskVars, modelVars
<1> USE DEF engineOnly
<1>1. engine' \in EngineState
  BY EngineSteps DEF TypeOK, Take
<1>2. TypeOK'
  BY <1>1 DEF TypeOK, Take
<1>3. Attached'
  BY DEF Attached, TypeOK, EngineState, Take
<1>4. Recorded'
  BY DEF Recorded
<1> QED BY <1>2, <1>3, <1>4


LEMMA WriteTextTypes == TypeInv /\ WriteText => TypeInv'
BY EditorRead DEF WriteText, TypeInv, TypeOK, Attached, Recorded,
   loopVars, micVars, diskVars, modelVars, Pcs

LEMMA CopyTextTypes == TypeInv /\ CopyText => TypeInv'
BY DEF CopyText, TypeInv, TypeOK, Attached, Recorded,
   loopVars, micVars, diskVars, modelVars, Pcs

LEMMA EditorQuitsTypes == TypeInv /\ EditorQuits => TypeInv'
<1> SUFFICES ASSUME TypeInv, EditorQuits PROVE TypeInv' OBVIOUS
<1> USE DEF TypeInv, EditorQuits, loopVars, micVars, diskVars, modelVars
<1>1. editor' \in Seq(EditorWork)
  BY DEF TypeOK
<1>2. TypeOK'
  BY <1>1, Zenon DEF TypeOK
<1>3. Attached'
  BY DEF Attached, LoopAt
<1>4. Recorded'
  BY DEF Recorded
<1> QED BY <1>2, <1>3, <1>4


LEMMA ShutDownTypes == TypeInv /\ ShutDown => TypeInv'
BY JobMade DEF ShutDown, LoopAt, None, TypeInv, TypeOK, Attached, Recorded,
   loopVars, micVars, diskVars, modelVars, Pcs

LEMMA JoinEngineTypes == TypeInv /\ JoinEngine => TypeInv'
<1> SUFFICES ASSUME TypeInv, JoinEngine PROVE TypeInv' OBVIOUS
<1> USE DEF TypeInv, JoinEngine, loopVars, micVars, diskVars, modelVars
<1>2. TypeOK'
  BY FaultStep DEF FaultKinds, TypeOK, Joined, Pcs
<1>3. Attached'
  BY DEF Attached, LoopAt
<1>4. Recorded'
  BY DEF Recorded
<1> QED BY <1>2, <1>3, <1>4


LEMMA DiscardCaptureTypes == TypeInv /\ DiscardCapture => TypeInv'
<1> SUFFICES ASSUME TypeInv, DiscardCapture PROVE TypeInv' OBVIOUS
<1> USE DEF TypeInv, DiscardCapture, loopVars, micVars, diskVars, modelVars
<1>2. TypeOK'
  BY DiscardStep, FaultStep DEF TypeOK, FaultKinds
<1>3. Attached'
  BY DiscardStep DEF Attached, LoopAt
<1>4. Recorded'
  BY DEF Recorded
<1> QED BY <1>2, <1>3, <1>4

LEMMA DeliverWindowClosedTypes == TypeInv /\ DeliverWindowClosed => TypeInv'
<1> SUFFICES ASSUME TypeInv, DeliverWindowClosed PROVE TypeInv' OBVIOUS
<1> USE DEF TypeInv, DeliverWindowClosed, loopVars, micVars, diskVars, modelVars
<1>1. CASE CaptureBegunBy(Head(results).at)
  <2>1. DiscardCurrent(session.current <= Head(results).at)
    BY <1>1
  <2>2. session.state = "recording" /\ (session.current <= Head(results).at) \in BOOLEAN
    BY <1>1 DEF CaptureBegunBy
  <2>3. /\ session' \in SessionState /\ session'.state = "idle"
        /\ life' \in [Captures -> {"live", "released", "cancelled"}]
        /\ trans' \in [Captures -> Entry]
        /\ lost' \subseteq Captures
        /\ mic' \in Captures \cup {None}
    BY <2>1, <2>2, DiscardStep
  <2>4. TypeOK'
    BY <2>3 DEF TypeOK, Delivered
  <2>5. Attached'
    BY <2>3 DEF Attached, Delivered, LoopAt
  <2> QED BY <2>4, <2>5 DEF Recorded
<1>5. CASE ~CaptureBegunBy(Head(results).at)
  <2>1. session' \in SessionState
    BY <1>5, SessionSteps DEF TypeOK
  <2>2. session'.state = session.state /\ session'.current = session.current
    BY <1>5, <2>1, SessionKeeps DEF TypeOK
  <2>3. TypeOK'
    BY <1>5, <2>1 DEF TypeOK, Delivered
  <2>4. Attached'
    BY <1>5, <2>2 DEF Attached, Delivered, LoopAt
  <2> QED BY <2>3, <2>4 DEF Recorded
<1> QED BY <1>1, <1>5

LEMMA DeliverCommitTypes == TypeInv /\ DeliverCommit => TypeInv'
<1> SUFFICES ASSUME TypeInv, DeliverCommit PROVE TypeInv' OBVIOUS
<1> USE DEF TypeInv, DeliverCommit, loopVars, micVars, diskVars, modelVars
<1>1. Head(results) \in Result /\ results' \in Seq(Result)
  BY DEF TypeOK, Delivered
<1>5. /\ trans' \in [Captures -> Entry]
      /\ session' \in SessionState
      /\ session'.state = session.state /\ session'.current = session.current
      /\ editor' \in Seq(EditorWork)
  BY <1>1, TakeCommitStep DEF Delivered
<1>2. TypeOK'
  BY <1>1, <1>5 DEF TypeOK
<1>3. Attached'
  BY <1>5 DEF Attached, Delivered, LoopAt
<1>4. Recorded'
  BY DEF Recorded
<1> QED BY <1>2, <1>3, <1>4

LEMMA DeliverFinishedTypes == TypeInv /\ DeliverFinished => TypeInv'
<1> SUFFICES ASSUME TypeInv, DeliverFinished PROVE TypeInv' OBVIOUS
<1> USE DEF TypeInv, DeliverFinished, loopVars, micVars, diskVars, modelVars
<1>1. /\ Head(results) \in Result /\ results' \in Seq(Result)
      /\ Head(results).c \in Captures /\ Head(results).outcome \in {"ok", "failed", "short"}
  BY ResultRead DEF TypeOK, Delivered
<1>5. trans' \in [Captures -> Entry] /\ kept' \subseteq Captures /\ lost' \subseteq Captures
  BY <1>1, TakeFinishedStep
<1>6. list' \in [Captures -> Frames \cup {Gone}] /\ faults' \in [FaultKinds -> Nat]
  BY <1>5, PersistStep DEF TypeOK
<1>7. session' \in SessionState
  BY SessionSteps DEF TypeOK
<1>9. editor' \in Seq(EditorWork)
  BY <1>1, EditorMade DEF TypeOK
<1>8. session'.current = session.current /\ session'.state \in {"idle", session.state}
  BY <1>1 DEF Finish, Applied, TypeOK, SessionState
<1>2. TypeOK'
  BY <1>1, <1>5, <1>6, <1>7, <1>9 DEF TypeOK
<1>3. Attached'
  BY <1>8 DEF Attached, Delivered, LoopAt
<1>4. Recorded'
  BY DEF Recorded
<1> QED BY <1>2, <1>3, <1>4

LEMMA CutShortTypes ==
  ASSUME NEW c \in Captures, TypeInv, CutShort(c) PROVE TypeInv'
<1> USE DEF TypeInv, CutShort, loopVars, micVars, diskVars, modelVars
<1>1. wav' \in [Captures -> Frames \cup {Gone}]
  <2>1. wav[c] - 1 \in Frames
    <3>1. wav[c] \in Frames \cup {Gone} /\ wav[c] > 0
      BY DEF TypeOK
    <3> QED BY <3>1, PipelineAssumption DEF Frames, Gone
  <2> QED BY <2>1 DEF TypeOK
<1>2. TypeOK'
  BY <1>1, FaultStep DEF TypeOK, FaultKinds
<1>3. Attached'
  BY DEF Attached
<1>4. Recorded'
  BY PipelineAssumption DEF Recorded, TypeOK, Frames, Gone
<1> QED BY <1>2, <1>3, <1>4

LEMMA StartCaptureTypes == TypeInv /\ StartCapture => TypeInv'
<1> SUFFICES ASSUME TypeInv, StartCapture PROVE TypeInv' OBVIOUS
<1> USE DEF TypeInv, StartCapture, loopVars, micVars, diskVars, modelVars
<1> DEFINE c == made + 1
<1>1. c \in Captures /\ made' \in 0..MaxCaptures
  BY PipelineAssumption DEF TypeOK, Captures
<1>2. work' \in Seq(Job) /\ recognition' \in {"preparing", "ready", "unavailable"}
  <2>1. Append(work, LoadWork) \in Seq(Job)
    BY JobMade DEF TypeOK
  <2> QED BY <2>1 DEF TypeOK
<1>3. live' \in BOOLEAN
  OBVIOUS
<1>4. UNCHANGED <<pc, kept, list, file, engine, editing, results, editor,
                  boots, stopping, replayed, crashed>>
  OBVIOUS
<1>5. CASE /\ FaultHappens("nomic")
           /\ session' = Discarded(Started(session, c))
           /\ life' = [life EXCEPT ![c] = "cancelled"]
           /\ lost' = lost \cup {c}
           /\ UNCHANGED <<trans, mic, captured, base, wav>>
  <2>1. session' \in SessionState
    BY <1>1, <1>5, SessionSteps DEF TypeOK
  <2>2. faults' \in [FaultKinds -> Nat]
    BY <1>5, FaultStep DEF FaultKinds
  <2>3. TypeOK'
    BY <1>1, <1>2, <1>3, <1>4, <1>5, <2>1, <2>2 DEF TypeOK
  <2>4. session'.state = "idle"
    BY <1>1, <1>5, SessionSteps, SessionTurns DEF TypeOK
  <2>5. Attached'
    BY <1>4, <2>4 DEF Attached, LoopAt
  <2>6. Recorded'
    BY <1>5, PipelineAssumption DEF Recorded, TypeOK, Captures
  <2> QED BY <2>3, <2>5, <2>6
<1>6. CASE /\ session' = Started(session, c)
           /\ mic' = c /\ base' = 0
           /\ captured' = [captured EXCEPT ![c] = Preroll]
           /\ \/ /\ wav' = [wav EXCEPT ![c] = Preroll]
                 /\ trans' = [trans EXCEPT ![c] =
                               [Unlisted EXCEPT !.stage = "capturing"]]
                 /\ UNCHANGED faults
              \/ FaultHappens("notrecorded") /\ UNCHANGED <<wav, trans>>
           /\ UNCHANGED <<life, lost>>
  <2>1. session' \in SessionState
    BY <1>1, <1>6, SessionSteps DEF TypeOK
  <2>2. faults' \in [FaultKinds -> Nat]
    BY <1>6, FaultStep DEF FaultKinds, TypeOK
  <2>3. trans' \in [Captures -> Entry]
    <3>1. [trans EXCEPT ![c] = [Unlisted EXCEPT !.stage = "capturing"]]
            \in [Captures -> Entry]
      BY EntrySteps DEF TypeOK
    <3> QED BY <1>6, <3>1 DEF TypeOK
  <2>4. /\ captured' \in [Captures -> Frames] /\ base' \in Frames
        /\ wav' \in [Captures -> Frames \cup {Gone}]
    <3>1. 0 \in Frames /\ Preroll \in Frames
      BY PipelineAssumption DEF Frames
    <3> QED BY <1>6, <3>1, ZenonT(40) DEF TypeOK
  <2>5. TypeOK'
    BY <1>1, <1>2, <1>3, <1>4, <1>6, <2>1, <2>2, <2>3, <2>4 DEF TypeOK
  <2>6. session'.current = c /\ c # None
    BY <1>1, <1>6, SessionTurns, PipelineAssumption DEF TypeOK, None, Captures
  <2>7. Attached'
    BY <1>4, <1>6, <2>6 DEF Attached, LoopAt
  <2>8. Recorded'
    <3>1. SUFFICES ASSUME NEW d \in Captures
                   PROVE  /\ wav'[d] <= captured'[d]
                          /\ d > made' => wav'[d] = Gone
      BY DEF Recorded
    <3>2. CASE d = c
      BY <1>1, <1>6, <3>2, PipelineAssumption, SMTT(30) DEF Recorded, TypeOK, Frames, Gone
    <3>3. CASE d # c
      BY <1>1, <1>6, <3>3, PipelineAssumption DEF Recorded, TypeOK, Captures
    <3> QED BY <3>2, <3>3
  <2> QED BY <2>5, <2>7, <2>8
<1> QED BY <1>5, <1>6

LEMMA TakeCaptureTypes == TypeInv /\ TakeCapture => TypeInv'
<1> SUFFICES ASSUME TypeInv, TakeCapture PROVE TypeInv' OBVIOUS
<1> USE DEF TypeInv, TakeCapture, loopVars, micVars, diskVars, modelVars
<1> DEFINE c == session.current
<1>1. c \in Captures
  BY DEF Attached, LoopAt, TypeOK, SessionState
<1>2. trans' \in [Captures -> Entry]
  <2>1. \A x \in {"finishing", "kept"} : [trans EXCEPT ![c].stage = x] \in [Captures -> Entry]
    BY EntrySteps DEF TypeOK, Stages
  <2>2. [trans EXCEPT ![c].stage = IF @ = "none" THEN @ ELSE "finishing"]
          \in [Captures -> Entry]
    <3>1. (IF trans[c].stage = "none" THEN trans[c].stage ELSE "finishing") \in Stages
      BY DEF Stages
    <3> QED BY <3>1, EntrySteps DEF TypeOK
  <2> QED BY <2>1, <2>2 DEF TypeOK
<1>3. list' \in [Captures -> Frames \cup {Gone}] /\ faults' \in [FaultKinds -> Nat]
  BY <1>2, PersistStep DEF TypeOK
<1>4. session' \in SessionState
  <2>1. session \in SessionState /\ Finish(session, c) \in SessionState
    BY SessionSteps DEF TypeOK
  <2>2. session' \in {session, Finish(session, c)}
    OBVIOUS
  <2> QED BY <2>1, <2>2
<1>5. work' \in Seq(Job)
  <2>1. FinishWork(c, base, captured[c]) \in Job
    BY <1>1, JobMade DEF TypeOK
  <2>2. work \in Seq(Job)
    BY DEF TypeOK
  <2>3. work' \in {work, Append(work, FinishWork(c, base, captured[c]))}
    OBVIOUS
  <2> QED BY <2>1, <2>2, <2>3
<1>6. kept' \subseteq Captures /\ lost' \subseteq Captures
  BY <1>1 DEF TypeOK
<1>7. TypeOK'
  BY <1>2, <1>3, <1>4, <1>5, <1>6 DEF TypeOK, Pcs
<1>8. session'.current = c /\ session'.state # "recording"
  BY SessionTurns DEF Attached, LoopAt, TypeOK
<1>9. Attached'
  BY <1>1, <1>8, PipelineAssumption DEF Attached, Captures, None
<1>10. Recorded'
  BY DEF Recorded
<1> QED BY <1>7, <1>9, <1>10

LEMMA SendTickTypes == TypeInv /\ SendTick => TypeInv'
<1> SUFFICES ASSUME TypeInv, SendTick PROVE TypeInv' OBVIOUS
<1> USE DEF TypeInv, SendTick, loopVars, micVars, diskVars, modelVars
<1>1. session.current \in Captures /\ mic \in Captures
  BY DEF Attached, LoopAt, TickDue, TypeOK, SessionState
<1>5. work' \in Seq(Job)
  BY <1>1, JobMade DEF TypeOK, SessionState
<1>6. session' \in SessionState
  BY DEF TypeOK, SessionState
<1>2. TypeOK'
  BY <1>5, <1>6 DEF TypeOK, Pcs
<1>3. Attached'
  BY DEF Attached, LoopAt, TypeOK, SessionState
<1>4. Recorded'
  BY DEF Recorded
<1> QED BY <1>2, <1>3, <1>4

(* There is an earliest recording among those that wait. *)
LEMMA EarliestWaits ==
  ASSUME Undispatched # {}
  PROVE  LET c == CHOOSE c \in Undispatched : \A d \in Undispatched : c <= d
         IN  c \in Undispatched /\ \A d \in Undispatched : c <= d
<1>1. Undispatched \subseteq Nat
  BY PipelineAssumption DEF Undispatched, Captures
<1>2. \E m \in Undispatched : \A d \in Undispatched : <<d, m>> \notin OpToRel(<, Nat)
  BY <1>1, NatLessThanWellFounded, WFMin
<1>3. \A m, d \in Nat : <<d, m>> \notin OpToRel(<, Nat) => m <= d
  BY DEF OpToRel
<1>4. \E m \in Undispatched : \A d \in Undispatched : m <= d
  BY <1>1, <1>2, <1>3
<1> QED BY <1>4

LEMMA DispatchRecordingTypes == TypeInv /\ DispatchRecording => TypeInv'
<1> SUFFICES ASSUME TypeInv, DispatchRecording PROVE TypeInv' OBVIOUS
<1> USE DEF TypeInv, DispatchRecording, loopVars, micVars, diskVars, modelVars
<1> DEFINE c == CHOOSE c \in Undispatched : \A d \in Undispatched : c <= d
<1>1. c \in Captures
  BY EarliestWaits DEF Undispatched
<1>5. trans[c].through \in Frames
  BY <1>1 DEF TypeOK, Entry
<1>6. work' \in Seq(Job)
  BY <1>1, <1>5, JobMade, PipelineAssumption DEF TypeOK, Frames
<1>7. trans' \in [Captures -> Entry]
  BY EntrySteps DEF TypeOK, Stages
<1>2. TypeOK'
  BY <1>1, <1>6, <1>7 DEF TypeOK, Pcs
<1>3. Attached'
  BY DEF Attached, LoopAt
<1>4. Recorded'
  BY DEF Recorded
<1> QED BY <1>2, <1>3, <1>4

LEMMA TakeTickTypes == TypeInv /\ TakeTick => TypeInv'
<1> SUFFICES ASSUME TypeInv, TakeTick PROVE TypeInv' OBVIOUS
<1> USE DEF TypeInv, TakeTick, loopVars, micVars, diskVars, modelVars
<1> USE DEF engineOnly
<1> DEFINE job == Head(work)
           e == Begun(engine, job.c)
<1>1. /\ job \in DecodeJob /\ job.c \in Captures /\ work' \in Seq(Job)
      /\ job.start \in Frames /\ job.end \in Frames
  <2>1. job \in Job /\ job.kind = "tick" /\ work' \in Seq(Job)
    BY DEF Take, TypeOK
  <2> QED BY <2>1, JobRead DEF DecodeJob
<1>2. e \in EngineState /\ e.through \in Frames
  <2>1. e \in EngineState
    BY <1>1, EngineSteps DEF TypeOK
  <2> QED BY <2>1 DEF EngineState
<1>3. engine' \in {engine, e, Busy(e, job, e.through)}
  OBVIOUS
<1>4. engine' \in EngineState
  <2>1. Busy(e, job, e.through) \in EngineState
    BY <1>1, <1>2, EngineSteps, JobMade
  <2> QED BY <1>2, <1>3, <2>1 DEF TypeOK
<1>5. results' \in Seq(Result)
  <2>1. TickDone(job.c) \in Result /\ results \in Seq(Result)
    BY <1>1, ResultMade DEF TypeOK
  <2>2. results' \in {results, Append(results, TickDone(job.c))}
    OBVIOUS
  <2> QED BY <2>1, <2>2
<1>6. TypeOK'
  BY <1>1, <1>4, <1>5 DEF TypeOK
<1>7. Attached'
  BY <1>1, <1>3 DEF Attached, Busy, Begun, Take, TypeOK, EngineState
<1> QED BY <1>6, <1>7 DEF Recorded

LEMMA TakeFinishTypes == TypeInv /\ TakeFinish => TypeInv'
<1> SUFFICES ASSUME TypeInv, TakeFinish PROVE TypeInv' OBVIOUS
<1> USE DEF TypeInv, TakeFinish, loopVars, micVars, diskVars, modelVars
<1> USE DEF engineOnly
<1> DEFINE job == Head(work)
           e == Begun(engine, job.c)
<1>1. /\ job \in DecodeJob /\ job.c \in Captures /\ work' \in Seq(Job)
      /\ job.start \in Frames /\ job.end \in Frames
  <2>1. job \in Job /\ job.kind = "finish" /\ work' \in Seq(Job)
    BY DEF Take, TypeOK
  <2> QED BY <2>1, JobRead DEF DecodeJob
<1>2. e \in EngineState /\ e.through \in Frames
  <2>1. e \in EngineState
    BY <1>1, EngineSteps DEF TypeOK
  <2> QED BY <2>1 DEF EngineState
<1>3. engine' \in {e, Busy(e, job, e.through)}
  OBVIOUS
<1>4. engine' \in EngineState
  <2>1. Busy(e, job, e.through) \in EngineState
    BY <1>1, <1>2, EngineSteps, JobMade
  <2> QED BY <1>2, <1>3, <2>1 DEF TypeOK
<1>5. results' \in Seq(Result)
  <2>1. Finished(job.c, "failed") \in Result /\ results \in Seq(Result)
    BY <1>1, ResultMade DEF TypeOK
  <2>2. results' \in {results, Append(results, Finished(job.c, "failed"))}
    OBVIOUS
  <2> QED BY <2>1, <2>2
<1>6. TypeOK'
  BY <1>1, <1>4, <1>5 DEF TypeOK
<1>7. Attached'
  BY <1>1, <1>3 DEF Attached, Busy, Begun, Take, TypeOK, EngineState
<1> QED BY <1>6, <1>7 DEF Recorded

LEMMA TakeRecordingTypes == TypeInv /\ TakeRecording => TypeInv'
<1> SUFFICES ASSUME TypeInv, TakeRecording PROVE TypeInv' OBVIOUS
<1> USE DEF TypeInv, TakeRecording, loopVars, micVars, diskVars, modelVars
<1> USE DEF engineOnly
<1> DEFINE job == Head(work)
           whole == [job EXCEPT !.end = wav[job.c]]
           e == Resumed(engine, job.c, job.start)
<1>1. /\ job \in DecodeJob /\ job.c \in Captures /\ work' \in Seq(Job)
      /\ job.start \in Frames /\ job.end \in Frames
  <2>1. job \in Job /\ job.kind = "recording" /\ work' \in Seq(Job)
    BY DEF Take, TypeOK
  <2> QED BY <2>1, JobRead DEF DecodeJob
<1>2. e \in EngineState
  BY <1>1, EngineSteps DEF TypeOK
<1>3. \/ engine' = engine
      \/ wav[job.c] # Gone /\ engine' = Busy(e, whole, job.start)
  <2>1. CASE wav[job.c] = Gone
    BY <2>1
  <2>2. CASE wav[job.c] # Gone
    BY <2>2
  <2> QED BY <2>1, <2>2
<1>4. wav[job.c] # Gone => whole \in DecodeJob
  <2>1. wav[job.c] # Gone => wav[job.c] \in Frames
    BY <1>1 DEF TypeOK
  <2> QED BY <1>1, <2>1 DEF DecodeJob
<1>5. engine' \in EngineState
  <2>1. engine \in EngineState
    BY DEF TypeOK
  <2>2. wav[job.c] # Gone => Busy(e, whole, job.start) \in EngineState
    BY <1>1, <1>2, <1>4, EngineSteps, JobMade
  <2> QED BY <1>3, <2>1, <2>2
<1>6. results' \in Seq(Result)
  <2>1. /\ Finished(job.c, "failed") \in Result /\ Finished(job.c, "short") \in Result
        /\ results \in Seq(Result)
    BY <1>1, ResultMade DEF TypeOK
  <2>2. results' \in {results, Append(results, Finished(job.c, "failed")),
                      Append(results, Finished(job.c, "short"))}
    OBVIOUS
  <2> QED BY <2>1, <2>2
<1>7. TypeOK'
  BY <1>1, <1>5, <1>6 DEF TypeOK
<1>8. Attached'
  <2>1. CASE engine' = engine
    BY <2>1 DEF Attached
  <2>2. CASE wav[job.c] # Gone /\ engine' = Busy(e, whole, job.start)
    <3>1. Busy(e, whole, job.start).job = whole
      BY <1>2 DEF Busy, EngineState
    <3> QED BY <1>4, <2>2, <3>1 DEF Attached
  <2> QED BY <1>3, <2>1, <2>2
<1> QED BY <1>7, <1>8 DEF Recorded

LEMMA DecodeSegmentTypes ==
  ASSUME NEW e \in 1..MaxFrames, TypeInv, DecodeSegment(e) PROVE TypeInv'
<1> USE DEF TypeInv, DecodeSegment, loopVars, micVars, diskVars, modelVars
<1> USE DEF engineOnly
<1>1. engine' \in EngineState
  <2>1. e \in Frames
    BY PipelineAssumption DEF Frames
  <2> QED BY <2>1, EngineSteps DEF TypeOK
<1>2. TypeOK'
  BY <1>1 DEF TypeOK
<1>3. Attached'
  BY DEF Attached, TypeOK, EngineState
<1>4. Recorded'
  BY DEF Recorded
<1> QED BY <1>2, <1>3, <1>4

LEMMA CommitSegmentTypes == TypeInv /\ CommitSegment => TypeInv'
<1> SUFFICES ASSUME TypeInv, CommitSegment PROVE TypeInv' OBVIOUS
<1> USE DEF TypeInv, CommitSegment, loopVars, micVars, diskVars, modelVars
<1> USE DEF engineOnly
<1>1. /\ engine.job \in DecodeJob /\ engine.job.c \in Captures
      /\ engine.at \in Frames /\ engine.segment \in Frames
  BY DEF Attached, TypeOK, EngineState, DecodeJob, Deciding
<1>5. engine' \in EngineState
  BY <1>1, EngineSteps DEF TypeOK
<1>6. results' \in Seq(Result)
  BY <1>1, ResultMade DEF TypeOK
<1>7. engine'.job = engine.job
  BY DEF CommitThrough, TypeOK, EngineState
<1>2. TypeOK'
  BY <1>5, <1>6 DEF TypeOK
<1>3. Attached'
  BY <1>1, <1>7 DEF Attached
<1> QED BY <1>2, <1>3 DEF Recorded

LEMMA CommitSilenceTypes ==
  ASSUME NEW e \in 1..MaxFrames, TypeInv, CommitSilence(e) PROVE TypeInv'
<1> USE DEF TypeInv, CommitSilence, loopVars, micVars, diskVars, modelVars
<1> USE DEF engineOnly
<1>1. /\ engine.job \in DecodeJob /\ engine.job.c \in Captures
      /\ engine.at \in Frames /\ engine.segment \in Frames
  BY DEF Attached, TypeOK, EngineState, DecodeJob, Deciding
<1>4. e \in Frames
  BY PipelineAssumption DEF Frames
<1>5. engine' \in EngineState
  BY <1>4, EngineSteps DEF TypeOK
<1>6. results' \in Seq(Result)
  BY <1>1, <1>4, ResultMade DEF TypeOK
<1>7. engine'.job = engine.job
  BY DEF CommitThrough, TypeOK, EngineState
<1>2. TypeOK'
  BY <1>5, <1>6 DEF TypeOK
<1>3. Attached'
  BY <1>1, <1>7 DEF Attached
<1> QED BY <1>2, <1>3 DEF Recorded

LEMMA JobDoneTypes == TypeInv /\ JobDone => TypeInv'
<1> SUFFICES ASSUME TypeInv, JobDone PROVE TypeInv' OBVIOUS
<1> USE DEF TypeInv, JobDone, loopVars, micVars, diskVars, modelVars
<1> USE DEF engineOnly
<1>1. /\ engine.job \in DecodeJob /\ engine.job.c \in Captures
      /\ engine.at \in Frames /\ engine.segment \in Frames
  BY DEF JobEnded, Attached, TypeOK, EngineState, DecodeJob, Deciding
<1>5. /\ engine' \in {Rest(engine), Rest(ResetProgress(engine))}
      /\ results' = Append(results, Outcome(engine.job, "ok"))
  BY DEF JobEnded
<1>6. engine' \in EngineState /\ engine'.phase = "idle"
  <2>1. ResetProgress(engine) \in EngineState /\ engine \in EngineState
    BY EngineSteps DEF TypeOK
  <2>2. engine' \in EngineState
    BY <1>5, <2>1, EngineSteps
  <2>3. \A e \in EngineState : Rest(e).phase = "idle"
    BY DEF Rest, EngineState
  <2> QED BY <1>5, <2>1, <2>2, <2>3
<1>7. results' \in Seq(Result)
  <2>1. Outcome(engine.job, "ok") \in Result
    BY <1>1, ResultMade DEF Outcome
  <2> QED BY <1>5, <2>1 DEF TypeOK
<1>2. TypeOK'
  BY <1>6, <1>7 DEF TypeOK, FaultKinds, JobEnded
<1>3. Attached'
  BY <1>6 DEF Attached, JobEnded
<1> QED BY <1>2, <1>3 DEF Recorded

LEMMA JobFailsTypes == TypeInv /\ JobFails => TypeInv'
<1> SUFFICES ASSUME TypeInv, JobFails PROVE TypeInv' OBVIOUS
<1> USE DEF TypeInv, JobFails, loopVars, micVars, diskVars, modelVars
<1> USE DEF engineOnly
<1>1. /\ engine.job \in DecodeJob /\ engine.job.c \in Captures
      /\ engine.at \in Frames /\ engine.segment \in Frames
  BY DEF Attached, TypeOK, EngineState, DecodeJob, Deciding
<1>5. /\ engine' \in {Rest(engine), Rest(ResetProgress(engine))}
      /\ results' = Append(results, Outcome(engine.job, "failed"))
  BY DEF JobEnded
<1>6. engine' \in EngineState /\ engine'.phase = "idle"
  <2>1. ResetProgress(engine) \in EngineState /\ engine \in EngineState
    BY EngineSteps DEF TypeOK
  <2>2. engine' \in EngineState
    BY <1>5, <2>1, EngineSteps
  <2>3. \A e \in EngineState : Rest(e).phase = "idle"
    BY DEF Rest, EngineState
  <2> QED BY <1>5, <2>1, <2>2, <2>3
<1>7. results' \in Seq(Result)
  <2>1. Outcome(engine.job, "failed") \in Result
    BY <1>1, ResultMade DEF Outcome
  <2> QED BY <1>5, <2>1 DEF TypeOK
<1>2. TypeOK'
  BY <1>6, <1>7, FaultStep DEF TypeOK, FaultKinds, JobEnded
<1>3. Attached'
  BY <1>6 DEF Attached, JobEnded
<1> QED BY <1>2, <1>3 DEF Recorded

LEMMA DrainResultTypes == TypeInv /\ DrainResult => TypeInv'
<1> SUFFICES ASSUME TypeInv, DrainResult PROVE TypeInv' OBVIOUS
<1> USE DEF TypeInv, DrainResult, loopVars, micVars, diskVars, modelVars
<1>1. Head(results) \in Result /\ results' \in Seq(Result)
  BY DEF TypeOK
<1>2. CASE Head(results).kind = "commit"
  <2>1. TakeCommit(Head(results)) /\ UNCHANGED <<kept, lost>>
    BY <1>2
  <2>2. /\ trans' \in [Captures -> Entry] /\ session' \in SessionState
        /\ session'.state = session.state /\ session'.current = session.current
        /\ editor' \in Seq(EditorWork)
    BY <1>1, <1>2, <2>1, TakeCommitStep
  <2>3. TypeOK'
    BY <1>1, <2>1, <2>2 DEF TypeOK
  <2>4. Attached'
    BY <2>2 DEF Attached, LoopAt
  <2> QED BY <2>3, <2>4 DEF Recorded
<1>3. CASE Head(results).kind = "finished"
  <2>1. /\ TakeFinished(Head(results).c, Head(results).outcome)
        /\ editor' = Append(editor, Copy(Head(results).c))
        /\ UNCHANGED session
    BY <1>3
  <2>2. Head(results).c \in Captures /\ Head(results).outcome \in {"ok", "failed", "short"}
    BY <1>1, <1>3, ResultRead
  <2>3. trans' \in [Captures -> Entry] /\ kept' \subseteq Captures /\ lost' \subseteq Captures
    BY <2>1, <2>2, TakeFinishedStep
  <2>4. editor' \in Seq(EditorWork)
    BY <2>1, <2>2, EditorMade DEF TypeOK
  <2>5. TypeOK'
    BY <1>1, <2>1, <2>3, <2>4 DEF TypeOK
  <2>6. Attached'
    BY <2>1 DEF Attached, LoopAt
  <2> QED BY <2>5, <2>6 DEF Recorded
<1>4. CASE Head(results).kind \notin {"commit", "finished"}
  <2>1. UNCHANGED <<trans, session, editor, kept, lost>>
    BY <1>4
  <2>2. TypeOK'
    BY <1>1, <2>1 DEF TypeOK
  <2>3. Attached'
    BY <2>1 DEF Attached, LoopAt
  <2> QED BY <2>2, <2>3 DEF Recorded
<1> QED BY <1>2, <1>3, <1>4

LEMMA ListWhatIsLeftTypes == TypeInv /\ ListWhatIsLeft => TypeInv'
<1> SUFFICES ASSUME TypeInv, ListWhatIsLeft PROVE TypeInv' OBVIOUS
<1> USE DEF TypeInv, ListWhatIsLeft, loopVars, micVars, diskVars, modelVars
<1>1. list' \in [Captures -> Frames \cup {Gone}] /\ faults' \in [FaultKinds -> Nat]
  <2>1. ListOf(trans, {c \in Captures : Owed(trans[c])}) \in [Captures -> Frames \cup {Gone}]
    BY DEF ListOf, TypeOK, Entry
  <2> QED BY <2>1, FaultStep DEF TypeOK, FaultKinds
<1>5. editor' \in Seq(EditorWork)
  BY EditorMade DEF TypeOK
<1>6. lost' \subseteq Captures
  BY DEF TypeOK
<1>2. TypeOK'
  BY <1>1, <1>5, <1>6 DEF TypeOK, Pcs
<1>3. Attached'
  BY DEF Attached
<1>4. Recorded'
  BY DEF Recorded
<1> QED BY <1>2, <1>3, <1>4

LEMMA ExitTypes == TypeInv /\ Exit => TypeInv'
<1> SUFFICES ASSUME TypeInv, Exit PROVE TypeInv' OBVIOUS
<1> USE DEF TypeInv, Exit, loopVars, micVars, diskVars, modelVars
<1>1. faults' \in [FaultKinds -> Nat] /\ lost' \subseteq Captures
  BY FaultStep DEF Joined, FaultKinds, TypeOK
<1>2. TypeOK'
  BY <1>1, EndStep DEF TypeOK
<1>3. Attached'
  BY EndStep
<1> QED BY <1>2, <1>3 DEF Recorded

LEMMA CrashTypes == TypeInv /\ Crash => TypeInv'
<1> SUFFICES ASSUME TypeInv, Crash PROVE TypeInv' OBVIOUS
<1> USE DEF TypeInv, Crash, loopVars, micVars, diskVars, modelVars
<1>1. /\ faults' \in [FaultKinds -> Nat]
      /\ lost' \subseteq Captures /\ crashed' \subseteq Captures
  <2>1. faults' \in [FaultKinds -> Nat]
    BY FaultStep DEF FaultKinds, TypeOK
  <2>2. 1..made \subseteq Captures
    BY PipelineAssumption DEF TypeOK, Captures
  <2> QED BY <2>1, <2>2 DEF TypeOK
<1>2. \/ UNCHANGED wav
      \/ /\ mic \in Captures /\ wav[mic] \in Frames
         /\ \E n \in 0..wav[mic] : wav' = [wav EXCEPT ![mic] = n]
  BY DEF TypeOK, None
<1>3. wav' \in [Captures -> Frames \cup {Gone}] /\ Recorded'
  <2>1. CASE UNCHANGED wav
    BY <2>1 DEF TypeOK, Recorded
  <2>2. CASE /\ mic \in Captures /\ wav[mic] \in Frames
             /\ \E n \in 0..wav[mic] : wav' = [wav EXCEPT ![mic] = n]
    <3>1. PICK n \in 0..wav[mic] : wav' = [wav EXCEPT ![mic] = n]
      BY <2>2
    <3>2. n \in Frames /\ n <= wav[mic]
      BY <2>2, PipelineAssumption DEF Frames
    <3>3. wav' \in [Captures -> Frames \cup {Gone}]
      BY <2>2, <3>1, <3>2 DEF TypeOK
    <3>4. Recorded'
      BY <2>2, <3>1, <3>2, PipelineAssumption DEF Recorded, TypeOK, Frames, Gone
    <3> QED BY <3>3, <3>4
  <2> QED BY <1>2, <2>1, <2>2
<1>4. TypeOK'
  BY <1>1, <1>3, EndStep DEF TypeOK
<1> QED BY <1>3, <1>4, EndStep

LEMMA BootTypes == TypeInv /\ Boot => TypeInv'
<1> SUFFICES ASSUME TypeInv, Boot PROVE TypeInv' OBVIOUS
<1> USE DEF TypeInv, Boot, loopVars, micVars, diskVars, modelVars
<1>1. trans' \in [Captures -> Entry] /\ kept' \subseteq Captures
  <2>1. kept' \subseteq Captures /\ \A c \in kept' : list[c] \in Frames
    BY DEF TypeOK
  <2>2. \A i \in Frames : [stage |-> "kept", through |-> i, from |-> i] \in Entry
    BY DEF Entry, Stages
  <2>3. Unlisted \in Entry
    BY PipelineAssumption DEF Unlisted, Entry, Stages, Frames
  <2> QED BY <2>1, <2>2, <2>3
<1>5. editing' \in BOOLEAN /\ boots' \in Nat /\ pc' \in Pcs
  BY DEF TypeOK, Pcs
<1>2. TypeOK'
  BY <1>1, <1>5, FreshTypes DEF TypeOK
<1>3. Attached'
  BY DEF Attached, Loading
<1>4. Recorded'
  BY DEF Recorded
<1> QED BY <1>2, <1>3, <1>4

-----------------------------------------------------------------------------
LEMMA StepTypes == TypeInv /\ [Next]_vars => TypeInv'
<1> SUFFICES ASSUME TypeInv, [Next]_vars PROVE TypeInv' OBVIOUS
<1>1. CASE Recorder
  BY <1>1, AudioArrivesTypes, PruneTypes, CutShortTypes DEF Recorder
<1>2. CASE User
  BY <1>2, StartCaptureTypes, EndCaptureTypes, DiscardCaptureTypes, AskToStopTypes,
     CloseWindowTypes DEF User
<1>3. CASE Pass
  BY <1>3, TakeCaptureTypes, EndRequestsTypes, DeliverPreparingTypes,
     DeliverReadyTypes, DeliverUnavailableTypes, DeliverWindowClosedTypes,
     DeliverCommitTypes, DeliverTickTypes, DeliverFinishedTypes, EndResultsTypes,
     SendTickTypes, NoTickTypes, DispatchRecordingTypes, EndPassTypes, StallTypes
     DEF Pass, Deliver
<1>4. CASE Shutdown
  BY <1>4, ShutDownTypes, JoinEngineTypes, DrainResultTypes, ListWhatIsLeftTypes,
     ExitTypes DEF Shutdown
<1>5. CASE Engine
  BY <1>5, LoadSucceedsTypes, LoadFailsTypes, TakeWhileFailedTypes, TakeTickTypes,
     TakeFinishTypes, TakeRecordingTypes, TakeQuitTypes, DecodeSegmentTypes,
     CommitSilenceTypes, CommitSegmentTypes, JobDoneTypes, JobFailsTypes
     DEF Engine, Load, TakeWork, Decode
<1>6. CASE Editor
  BY <1>6, WriteTextTypes, CopyTextTypes, EditorQuitsTypes DEF Editor
<1>7. CASE UNCHANGED vars
  BY <1>7 DEF vars, loopVars, micVars, diskVars, modelVars, TypeInv, TypeOK,
     Attached, Recorded
<1> QED BY <1>1, <1>2, <1>3, <1>4, <1>5, <1>6, <1>7, CrashTypes, BootTypes DEF Next

(* The daemon's state keeps its types: in particular no WAV outgrows its
   capture, no offset a capture's audio, and whatever is sent to a thread is
   work it knows, about a capture that was begun. *)
THEOREM TypeCorrect == Spec => []TypeOK
<1>1. TypeInv /\ [Next]_vars => TypeInv'
  BY StepTypes
<1>2. Spec => []TypeInv
  BY InitTypes, <1>1, PTL DEF Spec
<1>3. TypeInv => TypeOK
  BY DEF TypeInv
<1> QED BY <1>2, <1>3, PTL

-----------------------------------------------------------------------------
Verdict(r) == r.kind \in {"ready", "unavailable"}
Loaded == engine.phase \in {"idle", "busy"}

(* One attempt at the model is out at a time: with the thread that loads, as
   the verdict on its way to the loop, as what the loop makes of it, or as
   the Load that asks for the next. *)
News ==
  /\ \A j, k \in DOMAIN results :
       Verdict(results[j]) /\ Verdict(results[k]) => j = k
  /\ \A j \in DOMAIN results : results[j].kind = "preparing" =>
       \E k \in DOMAIN results : j < k /\ Verdict(results[k])
  /\ \A k \in DOMAIN results :
       /\ Verdict(results[k]) => recognition = "preparing"
       /\ results[k].kind = "ready" => Loaded \/ engine.phase = "exited"
       /\ results[k].kind = "unavailable" => engine.phase \in {"failed", "exited"}
  /\ recognition = "ready" => Loaded \/ engine.phase = "exited"
  /\ recognition = "unavailable" => engine.phase \in {"failed", "exited"}
  /\ engine.phase = "loading" =>
       /\ recognition = "preparing"
       /\ \A k \in DOMAIN results : ~Verdict(results[k])

(* What is queued for the thread.  Quit is the last of it. *)
Orders ==
  /\ \A j, k \in DOMAIN work :
       work[j].kind = "load" /\ work[k].kind = "load" => j = k
  /\ \A k \in DOMAIN work :
       /\ work[k].kind = "load" =>
            /\ engine.phase = "failed" /\ recognition = "preparing"
            /\ \A i \in DOMAIN results : ~Verdict(results[i])
       /\ work[k].kind = "quit" => k = Len(work)
       /\ engine.phase \in {"loading", "failed"} => work[k].kind \in {"load", "quit"}
  /\ engine.phase = "exited" => work = <<>>

(* The loop sends Quit as it leaves, and nothing after. *)
Leaving == {"joining", "draining", "closing", "down"}
Quitting ==
  /\ (engine.phase = "exited" \/ \E k \in DOMAIN work : work[k].kind = "quit")
       => pc \in Leaving
  /\ pc = "down" =>
       /\ engine.phase = "exited" /\ results = <<>> /\ ~editing
       /\ recognition = "preparing"

(* The session is configured when the loop has heard that the model is ready,
   but a capture under way keeps what it was begun with. *)
Ticks ==
  /\ recognition = "ready" <=> session.enabled \/ session.configured
  /\ live => recognition = "ready"
  /\ session.state = "recording" => (session.enabled <=> live)
  /\ pc = "down" => ~live

ReadyInv == TypeInv /\ News /\ Orders /\ Quitting /\ Ticks

-----------------------------------------------------------------------------
(* Most steps disturb none of this: they move the channels, the loop or the
   session in one of these ways. *)

SamePhase == \/ engine'.phase = engine.phase
             \/ Loaded /\ Loaded'
ResultsMove ==
  \/ results' = results
  \/ \E r : /\ r.kind \notin {"preparing", "ready", "unavailable"}
            /\ results' = Append(results, r)
  \/ results # <<>> /\ results' = Tail(results)
WorkMove ==
  \/ work' = work
  \/ work # <<>> /\ work' = Tail(work)
  \/ \E w : /\ w.kind \in {"tick", "finish", "recording"}
            /\ recognition = "ready" /\ pc \notin Leaving
            /\ work' = Append(work, w)
SessionMove ==
  /\ session'.enabled \/ session'.configured <=> session.enabled \/ session.configured
  /\ session'.state = "recording" =>
       session.state = "recording" /\ session'.enabled = session.enabled
LoopMove ==
  \/ pc' = pc
  \/ pc # "down" /\ pc' # "down" /\ (pc \in Leaving => pc' \in Leaving)

Quiet ==
  /\ SamePhase /\ ResultsMove /\ WorkMove /\ SessionMove /\ LoopMove
  /\ recognition' = recognition /\ live' = live
  /\ pc = "down" => results' = results /\ editing' = editing

(* What is left of a queue is what was behind its head. *)
LEMMA TailOf ==
  ASSUME NEW S, NEW q \in Seq(S), q # <<>>
  PROVE  /\ Tail(q) \in Seq(S)
         /\ \A k \in DOMAIN Tail(q) : k \in Nat /\ k + 1 \in DOMAIN q /\ Tail(q)[k] = q[k + 1]
         /\ \A k \in DOMAIN q : k \in Nat /\ (k # 1 => k - 1 \in DOMAIN Tail(q))
OBVIOUS

(* What was appended has the type of what is now queued. *)
LEMMA Appended ==
  ASSUME NEW S, NEW q \in Seq(S), NEW longer \in Seq(S), NEW x,
         longer = Append(q, x)
  PROVE  /\ x \in S
         /\ \A k \in DOMAIN longer :
              \/ longer[k] = x
              \/ k \in DOMAIN q /\ longer[k] = q[k]
<1>1. /\ Len(q) \in Nat /\ Len(longer) = Len(q) + 1
      /\ longer[Len(q) + 1] = x
  OBVIOUS
<1>2. x \in S
  BY <1>1
<1>3. ASSUME NEW k \in DOMAIN longer, k # Len(q) + 1
      PROVE  k \in DOMAIN q /\ longer[k] = q[k]
  <2>1. DOMAIN longer = 1..(Len(q) + 1) /\ DOMAIN q = 1..Len(q)
    BY <1>1, <1>2
  <2>2. k \in 1..Len(q)
    BY <1>1, <1>3, <2>1
  <2> QED BY <1>2, <2>1, <2>2
<1> QED BY <1>1, <1>2, <1>3

LEMMA QuietNews == ReadyInv /\ TypeInv' /\ Quiet => News'
<1> SUFFICES ASSUME ReadyInv, TypeInv', Quiet PROVE News' OBVIOUS
<1>1. results \in Seq(Result) /\ results' \in Seq(Result)
  BY DEF ReadyInv, TypeInv, TypeOK
<1>2. \/ engine'.phase = engine.phase
      \/ engine.phase \in {"idle", "busy"} /\ engine'.phase \in {"idle", "busy"}
  BY DEF Quiet, SamePhase, Loaded
<1>3. recognition' = recognition
  BY DEF Quiet
<1>4. CASE results' = results
  BY <1>2, <1>3, <1>4 DEF ReadyInv, News, Loaded, Verdict
<1>5. ASSUME NEW r, r.kind \notin {"preparing", "ready", "unavailable"},
             results' = Append(results, r)
      PROVE  News'
  <2>1. r \in Result
    BY <1>1, <1>5, Appended
  <2> QED BY <2>1, <1>1, <1>2, <1>3, <1>5 DEF ReadyInv, News, Loaded, Verdict
<1>6. CASE results # <<>> /\ results' = Tail(results)
  <2>1. /\ \A k \in DOMAIN results' :
             k \in Nat /\ k + 1 \in DOMAIN results /\ results'[k] = results[k + 1]
        /\ \A k \in DOMAIN results : k \in Nat /\ (k # 1 => k - 1 \in DOMAIN results')
    BY <1>1, <1>6, TailOf
  <2>2. ASSUME NEW j \in DOMAIN results', results'[j].kind = "preparing"
        PROVE  \E k \in DOMAIN results' : j < k /\ Verdict(results'[k])
    <3>1. PICK i \in DOMAIN results : j + 1 < i /\ Verdict(results[i])
      BY <2>1, <2>2 DEF ReadyInv, News
    <3>2. i - 1 \in DOMAIN results' /\ j < i - 1 /\ results'[i - 1] = results[i]
      BY <2>1, <3>1
    <3> QED BY <3>1, <3>2 DEF Verdict
  <2>3. ASSUME NEW j \in DOMAIN results', NEW k \in DOMAIN results',
               Verdict(results'[j]), Verdict(results'[k])
        PROVE  j = k
    <3>1. j + 1 = k + 1
      BY <2>1, <2>3 DEF ReadyInv, News, Verdict
    <3> QED BY <2>1, <3>1
  <2> QED BY <1>2, <1>3, <2>1, <2>2, <2>3 DEF ReadyInv, News, Loaded, Verdict
<1> QED BY <1>4, <1>5, <1>6 DEF Quiet, ResultsMove

LEMMA QuietOrders == ReadyInv /\ TypeInv' /\ Quiet => Orders'
<1> SUFFICES ASSUME ReadyInv, TypeInv', Quiet PROVE Orders' OBVIOUS
<1>1. /\ results \in Seq(Result) /\ results' \in Seq(Result)
      /\ work \in Seq(Job) /\ work' \in Seq(Job)
  BY DEF ReadyInv, TypeInv, TypeOK
<1>2. \/ engine'.phase = engine.phase
      \/ engine.phase \in {"idle", "busy"} /\ engine'.phase \in {"idle", "busy"}
  BY DEF Quiet, SamePhase, Loaded
<1>3. recognition' = recognition
  BY DEF Quiet
<1>4. (\A i \in DOMAIN results : ~Verdict(results[i]))
        => \A i \in DOMAIN results' : ~Verdict(results'[i])
  <2>1. CASE results' = results
    BY <2>1 DEF Verdict
  <2>2. ASSUME NEW r, r.kind \notin {"preparing", "ready", "unavailable"},
               results' = Append(results, r)
        PROVE  \A i \in DOMAIN results' :
                 \/ results'[i] = r
                 \/ i \in DOMAIN results /\ results'[i] = results[i]
    BY <1>1, <2>2, Appended
  <2>3. CASE results # <<>> /\ results' = Tail(results)
    BY <1>1, <2>3, TailOf DEF Verdict
  <2> QED BY <2>1, <2>2, <2>3 DEF Quiet, ResultsMove, Verdict
<1>5. CASE work' = work
  BY <1>2, <1>3, <1>4, <1>5 DEF ReadyInv, Orders
<1>6. CASE work # <<>> /\ work' = Tail(work)
  BY <1>1, <1>2, <1>3, <1>4, <1>6 DEF ReadyInv, Orders
<1>7. ASSUME NEW w, w.kind \in {"tick", "finish", "recording"},
             recognition = "ready", pc \notin Leaving, work' = Append(work, w)
      PROVE  Orders'
  <2>1. engine.phase \in {"idle", "busy"} /\ \A k \in DOMAIN work : work[k].kind # "quit"
    BY <1>7 DEF ReadyInv, News, Quitting, Loaded
  <2>2. w \in Job
    BY <1>1, <1>7, Appended
  <2> QED BY <1>1, <1>2, <1>3, <1>4, <1>7, <2>1, <2>2 DEF ReadyInv, Orders
<1> QED BY <1>5, <1>6, <1>7 DEF Quiet, WorkMove

LEMMA QuietQuitting == ReadyInv /\ TypeInv' /\ Quiet => Quitting'
<1> SUFFICES ASSUME ReadyInv, TypeInv', Quiet PROVE Quitting' OBVIOUS
<1>1. work \in Seq(Job) /\ work' \in Seq(Job)
  BY DEF ReadyInv, TypeInv, TypeOK
<1>2. \/ engine'.phase = engine.phase
      \/ engine.phase \in {"idle", "busy"} /\ engine'.phase \in {"idle", "busy"}
  BY DEF Quiet, SamePhase, Loaded
<1>3. (\E k \in DOMAIN work' : work'[k].kind = "quit")
        => \E k \in DOMAIN work : work[k].kind = "quit"
  <2>1. CASE work' = work
    BY <2>1
  <2>2. CASE work # <<>> /\ work' = Tail(work)
    BY <1>1, <2>2, TailOf
  <2>3. ASSUME NEW w, w.kind \in {"tick", "finish", "recording"},
               work' = Append(work, w)
        PROVE  \A k \in DOMAIN work' :
                 \/ work'[k] = w
                 \/ k \in DOMAIN work /\ work'[k] = work[k]
    BY <1>1, <2>3, Appended
  <2> QED BY <2>1, <2>2, <2>3 DEF Quiet, WorkMove
<1>4. pc \in Leaving => pc' \in Leaving
  BY DEF Quiet, LoopMove
<1>5. pc' = "down" => pc = "down"
  BY DEF Quiet, LoopMove
<1> QED BY <1>2, <1>3, <1>4, <1>5 DEF ReadyInv, Quitting, Quiet

LEMMA QuietTicks == ReadyInv /\ Quiet => Ticks'
BY DEF ReadyInv, Ticks, Quiet, SessionMove, LoopMove
-----------------------------------------------------------------------------
(* The session's operations between two starts leave what it ticks by. *)
LEMMA SessionMoves ==
  ASSUME NEW s \in SessionState, NEW t,
         \/ t \in {s, Applied(s), Ended(s), Discarded(s), IntervalPassed(s)}
         \/ \E c, i, w : t = NoteCommit(s, c, i, w)
         \/ \E c : t = TickFinished(s, c) \/ t = Finish(s, c)
  PROVE  /\ t.enabled \/ t.configured <=> s.enabled \/ s.configured
         /\ t.state = "recording" => s.state = "recording" /\ t.enabled = s.enabled
<1> DEFINE Kept(u) == /\ u \in SessionState
                      /\ u.enabled \/ u.configured <=> s.enabled \/ s.configured
                      /\ u.state = s.state
                      /\ u.state = "recording" => u.enabled = s.enabled
<1>1. Kept(Applied(s))
  BY SessionSteps, ZenonT(40) DEF Applied, SessionState
<1>2. CASE t \in {s, Applied(s), Ended(s), Discarded(s), IntervalPassed(s)}
  BY <1>1, <1>2 DEF Ended, Discarded, IntervalPassed, SessionState
<1>3. CASE \E c, i, w : t = NoteCommit(s, c, i, w)
  BY <1>1, <1>3 DEF NoteCommit, SessionState
<1>4. CASE \E c : t = TickFinished(s, c) \/ t = Finish(s, c)
  BY <1>1, <1>4 DEF TickFinished, Finish, SessionState
<1> QED BY <1>2, <1>3, <1>4

LEMMA QuietRecorder == Recorder => Quiet
BY DEF Recorder, AudioArrives, Prune, CutShort, Quiet, SamePhase, ResultsMove,
       WorkMove, SessionMove, LoopMove, loopVars, micVars, diskVars, modelVars

LEMMA QuietEditor == ReadyInv /\ Editor => Quiet
BY DEF Editor, WriteText, CopyText, EditorQuits, Quiet, SamePhase, ResultsMove,
       WorkMove, SessionMove, LoopMove, loopVars, micVars, diskVars, modelVars,
       ReadyInv, Quitting

LEMMA QuietUser ==
  ReadyInv /\ (EndCapture \/ DiscardCapture \/ AskToStop \/ CloseWindow) => Quiet
<1> SUFFICES ASSUME ReadyInv PROVE EndCapture \/ DiscardCapture \/ AskToStop \/ CloseWindow => Quiet
  OBVIOUS
<1> USE DEF Quiet, SamePhase, ResultsMove, WorkMove, LoopMove,
            loopVars, micVars, diskVars, modelVars
<1>1. session \in SessionState
  BY DEF ReadyInv, TypeInv, TypeOK
<1>2. EndCapture => Quiet
  BY <1>1, SessionMoves DEF EndCapture, SessionMove, LoopAt, Leaving
<1>3. DiscardCapture => Quiet
  BY <1>1, SessionMoves DEF DiscardCapture, DiscardCurrent, SessionMove
<1>4. AskToStop => Quiet
  BY DEF AskToStop, SessionMove
<1>5. CloseWindow => Quiet
  <2> SUFFICES ASSUME CloseWindow PROVE Quiet OBVIOUS
  <2>1. WindowClosed(made).kind \notin {"preparing", "ready", "unavailable"}
    BY DEF WindowClosed
  <2>2. ResultsMove
    BY <2>1 DEF CloseWindow
  <2>3. pc # "down"
    BY DEF CloseWindow, ReadyInv, Quitting
  <2>4. SessionMove
    BY DEF CloseWindow, SessionMove
  <2> QED BY <2>2, <2>3, <2>4 DEF CloseWindow
<1> QED BY <1>2, <1>3, <1>4, <1>5

LEMMA QuietRequests == ReadyInv /\ (TakeCapture \/ EndRequests) => Quiet
<1> SUFFICES ASSUME ReadyInv PROVE TakeCapture \/ EndRequests => Quiet
  OBVIOUS
<1> USE DEF Quiet, SamePhase, ResultsMove, LoopMove, LoopAt, Leaving,
            loopVars, micVars, diskVars, modelVars
<1>1. session \in SessionState
  BY DEF ReadyInv, TypeInv, TypeOK
<1>2. EndRequests => Quiet
  BY DEF EndRequests, SessionMove, WorkMove
<1>3. ASSUME TakeCapture PROVE Quiet
  <2> DEFINE c == session.current
  <2>1. SessionMove
    <3>1. session' \in {session, Finish(session, c)}
      BY <1>3 DEF TakeCapture
    <3> QED BY <1>1, <3>1, SessionMoves DEF SessionMove
  <2>2. WorkMove
    <3>1. CASE live
      <4>1. FinishWork(c, base, captured[c]).kind = "finish"
        BY DEF FinishWork
      <4>2. recognition = "ready" /\ pc \notin Leaving
        BY <1>3, <3>1 DEF TakeCapture, ReadyInv, Ticks
      <4>3. work' = Append(work, FinishWork(c, base, captured[c]))
        BY <1>3, <3>1 DEF TakeCapture
      <4> QED BY <4>1, <4>2, <4>3 DEF WorkMove
    <3>2. CASE ~live
      BY <1>3, <3>2 DEF TakeCapture, WorkMove
    <3> QED BY <3>1, <3>2
  <2> QED BY <1>3, <2>1, <2>2 DEF TakeCapture
<1> QED BY <1>2, <1>3

LEMMA QuietDeliveries ==
  ReadyInv /\ (DeliverWindowClosed \/ DeliverCommit \/ DeliverTick
               \/ DeliverFinished \/ EndResults \/ Stall) => Quiet
<1> SUFFICES ASSUME ReadyInv
             PROVE  DeliverWindowClosed \/ DeliverCommit \/ DeliverTick
                    \/ DeliverFinished \/ EndResults \/ Stall => Quiet
  OBVIOUS
<1> USE DEF Quiet, SamePhase, ResultsMove, WorkMove, LoopMove, LoopAt, Leaving,
            Delivered, loopVars, micVars, diskVars, modelVars
<1>1. session \in SessionState
  BY DEF ReadyInv, TypeInv, TypeOK
<1>2. ASSUME DeliverWindowClosed PROVE Quiet
  <2>1. session' \in {Discarded(session), Applied(session)}
    BY <1>2 DEF DeliverWindowClosed, DiscardCurrent
  <2>2. SessionMove
    BY <1>1, <2>1, SessionMoves DEF SessionMove
  <2> QED BY <1>2, <2>2 DEF DeliverWindowClosed
<1>3. ASSUME DeliverCommit PROVE Quiet
  <2>1. SessionMove
    BY <1>1, <1>3, SessionMoves DEF DeliverCommit, TakeCommit, SessionMove
  <2> QED BY <1>3, <2>1 DEF DeliverCommit
<1>4. ASSUME DeliverTick PROVE Quiet
  <2>1. SessionMove
    BY <1>1, <1>4, SessionMoves DEF DeliverTick, SessionMove
  <2> QED BY <1>4, <2>1 DEF DeliverTick
<1>5. ASSUME DeliverFinished PROVE Quiet
  <2>1. SessionMove
    BY <1>1, <1>5, SessionMoves DEF DeliverFinished, SessionMove
  <2> QED BY <1>5, <2>1 DEF DeliverFinished
<1>6. EndResults => Quiet
  BY DEF EndResults, SessionMove
<1>7. ASSUME Stall PROVE Quiet
  <2>1. SessionMove
    BY <1>1, <1>7, SessionMoves DEF Stall, SessionMove
  <2> QED BY <1>7, <2>1 DEF Stall
<1> QED BY <1>2, <1>3, <1>4, <1>5, <1>6, <1>7

LEMMA QuietDispatch ==
  ReadyInv /\ (SendTick \/ NoTick \/ DispatchRecording \/ EndPass) => Quiet
<1> SUFFICES ASSUME ReadyInv
             PROVE  SendTick \/ NoTick \/ DispatchRecording \/ EndPass => Quiet
  OBVIOUS
<1> USE DEF Quiet, SamePhase, ResultsMove, LoopMove, LoopAt, Leaving,
            loopVars, micVars, diskVars, modelVars
<1>1. session \in SessionState
  BY DEF ReadyInv, TypeInv, TypeOK
<1>2. ASSUME SendTick PROVE Quiet
  <2> DEFINE w == TickWork(session.current,
                           IF session.hint > base THEN session.hint ELSE base,
                           captured[mic])
  <2>1. work' = Append(work, w) /\ w.kind = "tick"
    BY <1>2 DEF SendTick, TickWork
  <2>2. recognition = "ready" /\ pc \notin Leaving
    BY <1>2 DEF SendTick, TickDue, ReadyInv, Ticks
  <2>3. SessionMove
    BY <1>1, <1>2 DEF SendTick, SessionMove, SessionState
  <2>4. WorkMove
    BY <2>1, <2>2 DEF WorkMove
  <2> QED BY <1>2, <2>3, <2>4 DEF SendTick
<1>3. NoTick => Quiet
  BY DEF NoTick, SessionMove, WorkMove
<1>4. ASSUME DispatchRecording PROVE Quiet
  <2> DEFINE c == CHOOSE c \in Undispatched : \A d \in Undispatched : c <= d
             w == RecordingWork(c, trans[c].through)
  <2>1. work' = Append(work, w)
    BY <1>4 DEF DispatchRecording
  <2>2. w.kind = "recording"
    BY DEF RecordingWork
  <2>3. recognition = "ready" /\ pc \notin Leaving
    BY <1>4 DEF DispatchRecording, Undispatched
  <2>4. SessionMove
    BY <1>4 DEF DispatchRecording, SessionMove
  <2>5. WorkMove
    <3> HIDE DEF w
    <3> QED BY <2>1, <2>2, <2>3 DEF WorkMove
  <2> QED BY <1>4, <2>4, <2>5 DEF DispatchRecording
<1>5. ASSUME EndPass PROVE Quiet
  <2>1. SessionMove
    BY <1>1, <1>5, SessionMoves DEF EndPass, SessionMove
  <2>2. pc = "dispatch" /\ pc' \in {"leaving", "requests"}
    BY <1>5 DEF EndPass
  <2> QED BY <1>5, <2>1, <2>2 DEF EndPass, WorkMove
<1> QED BY <1>2, <1>3, <1>4, <1>5

LEMMA QuietShutdown ==
  ReadyInv /\ (JoinEngine \/ DrainResult \/ ListWhatIsLeft) => Quiet
<1> SUFFICES ASSUME ReadyInv
             PROVE  JoinEngine \/ DrainResult \/ ListWhatIsLeft => Quiet
  OBVIOUS
<1> USE DEF Quiet, SamePhase, ResultsMove, WorkMove, LoopMove, LoopAt, Leaving,
            loopVars, micVars, diskVars, modelVars
<1>1. session \in SessionState
  BY DEF ReadyInv, TypeInv, TypeOK
<1>2. JoinEngine => Quiet
  BY DEF JoinEngine, SessionMove
<1>3. ASSUME DrainResult PROVE Quiet
  <2> DEFINE r == Head(results)
  <2>1. \/ session' = session
        \/ session' = NoteCommit(session, r.c, r.through, Words(r.from, r.through))
    BY <1>3 DEF DrainResult, TakeCommit
  <2>2. SessionMove
    BY <1>1, <2>1, SessionMoves DEF SessionMove
  <2> QED BY <1>3, <2>2 DEF DrainResult
<1>4. ListWhatIsLeft => Quiet
  BY DEF ListWhatIsLeft, SessionMove
<1> QED BY <1>2, <1>3, <1>4

(* What a step of the thread with its model loaded leaves its phase at. *)
LEMMA Phases ==
  ASSUME NEW e \in EngineState
  PROVE  /\ \A c : Begun(e, c).phase = e.phase
         /\ \A c, i : Resumed(e, c, i).phase = e.phase
         /\ \A c, job, i : Busy(Begun(e, c), job, i).phase = "busy"
         /\ \A c, job, i, j : Busy(Resumed(e, c, j), job, i).phase = "busy"
         /\ Rest(e).phase = "idle" /\ Rest(ResetProgress(e)).phase = "idle"
         /\ \A i : /\ CommitThrough(e, i).phase = e.phase
                   /\ [e EXCEPT !.segment = i].phase = e.phase
BY DEF EngineState, Begun, Resumed, Busy, Rest, ResetProgress, CommitThrough

(* With its model loaded the thread reports and takes work, and no more. *)
LEMMA QuietThread ==
  ASSUME ReadyInv, Loaded, Loaded', ResultsMove, WorkMove, UNCHANGED engineOnly
  PROVE  Quiet
<1>1. pc # "down"
  BY DEF ReadyInv, Quitting, Loaded
<1> QED BY <1>1 DEF Quiet, SamePhase, SessionMove, LoopMove, engineOnly, loopVars

LEMMA QuietWork ==
  ReadyInv /\ (TakeTick \/ TakeFinish \/ TakeRecording) => Quiet
<1> SUFFICES ASSUME ReadyInv PROVE TakeTick \/ TakeFinish \/ TakeRecording => Quiet
  OBVIOUS
<1> DEFINE job == Head(work)
<1>1. engine \in EngineState
  BY DEF ReadyInv, TypeInv, TypeOK
<1>2. /\ \A c : TickDone(c).kind = "tick"
      /\ \A c, o : Finished(c, o).kind = "finished"
  BY DEF TickDone, Finished
<1>3. ASSUME TakeTick PROVE Quiet
  <2>1. engine.phase = "idle" /\ WorkMove
    BY <1>3 DEF TakeTick, Take, WorkMove
  <2>2. engine' \in {engine, Begun(engine, job.c),
                     Busy(Begun(engine, job.c), job, Begun(engine, job.c).through)}
    BY <1>3 DEF TakeTick
  <2>3. Loaded /\ Loaded'
    BY <1>1, <2>1, <2>2, Phases DEF Loaded
  <2>4. results' \in {results, Append(results, TickDone(job.c))}
    BY <1>3 DEF TakeTick
  <2>5. ResultsMove
    BY <1>2, <2>4 DEF ResultsMove
  <2> QED BY <1>3, <2>1, <2>3, <2>5, QuietThread DEF TakeTick
<1>4. ASSUME TakeFinish PROVE Quiet
  <2>1. engine.phase = "idle" /\ WorkMove
    BY <1>4 DEF TakeFinish, Take, WorkMove
  <2>2. engine' \in {Begun(engine, job.c),
                     Busy(Begun(engine, job.c), job, Begun(engine, job.c).through)}
    BY <1>4 DEF TakeFinish
  <2>3. Loaded /\ Loaded'
    BY <1>1, <2>1, <2>2, Phases DEF Loaded
  <2>4. results' \in {results, Append(results, Finished(job.c, "failed"))}
    BY <1>4 DEF TakeFinish
  <2>5. ResultsMove
    BY <1>2, <2>4 DEF ResultsMove
  <2> QED BY <1>4, <2>1, <2>3, <2>5, QuietThread DEF TakeFinish
<1>5. ASSUME TakeRecording PROVE Quiet
  <2>1. engine.phase = "idle" /\ WorkMove
    BY <1>5 DEF TakeRecording, Take, WorkMove
  <2>2. \/ engine' = engine
        \/ engine' = Busy(Resumed(engine, job.c, job.start),
                          [job EXCEPT !.end = wav[job.c]], job.start)
    <3>1. CASE wav[job.c] = Gone
      BY <1>5, <3>1 DEF TakeRecording
    <3>2. CASE wav[job.c] # Gone
      BY <1>5, <3>2 DEF TakeRecording
    <3> QED BY <3>1, <3>2
  <2>3. Loaded /\ Loaded'
    <3>1. \A whole : Busy(Resumed(engine, job.c, job.start), whole, job.start).phase = "busy"
      BY <1>1, Phases
    <3>2. engine'.phase \in {"idle", "busy"}
      <4> DEFINE whole == [job EXCEPT !.end = wav[job.c]]
      <4>1. engine' = engine \/ engine' = Busy(Resumed(engine, job.c, job.start), whole, job.start)
        BY <2>2
      <4> HIDE DEF whole
      <4> QED BY <2>1, <3>1, <4>1
    <3> QED BY <2>1, <3>2 DEF Loaded
  <2>4. results' \in {results, Append(results, Finished(job.c, "failed")),
                      Append(results, Finished(job.c, "short"))}
    BY <1>5 DEF TakeRecording
  <2>5. ResultsMove
    BY <1>2, <2>4 DEF ResultsMove
  <2> QED BY <1>5, <2>1, <2>3, <2>5, QuietThread DEF TakeRecording
<1> QED BY <1>3, <1>4, <1>5

LEMMA QuietDecode == ReadyInv /\ Decode => Quiet
<1> SUFFICES ASSUME ReadyInv PROVE Decode => Quiet OBVIOUS
<1>1. engine \in EngineState
  BY DEF ReadyInv, TypeInv, TypeOK
<1>2. /\ \A c, i, j : Commit(c, i, j).kind = "commit"
      /\ \A job, o : Outcome(job, o).kind \in {"tick", "finished"}
  BY DEF Commit, Outcome, TickDone, Finished
<1>3. ASSUME NEW e \in 1..MaxFrames, DecodeSegment(e) PROVE Quiet
  <2>1. engine.phase = "busy" /\ engine' = [engine EXCEPT !.segment = e]
    BY <1>3 DEF DecodeSegment, Deciding
  <2>2. Loaded /\ Loaded'
    BY <1>1, <2>1, Phases DEF Loaded
  <2> QED BY <1>3, <2>2, QuietThread DEF DecodeSegment, ResultsMove, WorkMove
<1>4. ASSUME NEW e \in 1..MaxFrames, CommitSilence(e) PROVE Quiet
  <2>1. engine.phase = "busy" /\ engine' = CommitThrough(engine, e)
    BY <1>4 DEF CommitSilence, Deciding
  <2>2. Loaded /\ Loaded'
    BY <1>1, <2>1, Phases DEF Loaded
  <2>3. ResultsMove
    BY <1>2, <1>4 DEF CommitSilence, ResultsMove
  <2> QED BY <1>4, <2>2, <2>3, QuietThread DEF CommitSilence, WorkMove
<1>5. ASSUME CommitSegment PROVE Quiet
  <2>1. engine.phase = "busy" /\ engine' = CommitThrough(engine, engine.segment)
    BY <1>5 DEF CommitSegment
  <2>2. Loaded /\ Loaded'
    BY <1>1, <2>1, Phases DEF Loaded
  <2>3. ResultsMove
    BY <1>2, <1>5 DEF CommitSegment, ResultsMove
  <2> QED BY <1>5, <2>2, <2>3, QuietThread DEF CommitSegment, WorkMove
<1>6. ASSUME JobDone \/ JobFails PROVE Quiet
  <2>1. /\ engine.phase = "busy"
        /\ engine' \in {Rest(engine), Rest(ResetProgress(engine))}
    BY <1>6 DEF JobDone, JobFails, JobEnded
  <2>2. Loaded /\ Loaded'
    BY <1>1, <2>1, Phases DEF Loaded
  <2>3. ResultsMove
    BY <1>2, <1>6 DEF JobDone, JobFails, ResultsMove
  <2> QED BY <1>6, <2>2, <2>3, QuietThread DEF JobDone, JobFails, WorkMove
<1> QED BY <1>3, <1>4, <1>5, <1>6 DEF Decode

-----------------------------------------------------------------------------
(* The steps that do disturb it, each its own way. *)

(* A capture begins with the configuration that waited. *)
LEMMA StartTicks ==
  ASSUME NEW s \in SessionState, NEW c \in Captures, s.state # "recording"
  PROVE  /\ Started(s, c).enabled <=> s.enabled \/ s.configured
         /\ ~Started(s, c).configured
         /\ LET d == Discarded(Started(s, c))
            IN  /\ d.state = "idle"
                /\ d.enabled \/ d.configured <=> s.enabled \/ s.configured
<1>1. Applied(s) \in SessionState /\ Started(s, c) \in SessionState
  BY SessionSteps
<1>2. /\ Applied(s).enabled <=> s.enabled \/ s.configured
      /\ ~Applied(s).configured
  BY DEF Applied, SessionState
<1>3. /\ Started(s, c).enabled = Applied(s).enabled
      /\ Started(s, c).configured = Applied(s).configured
  BY <1>1 DEF Started, SessionState
<1>4. LET d == Discarded(Started(s, c))
      IN  /\ d.state = "idle"
          /\ d.enabled \/ d.configured
               <=> Started(s, c).enabled \/ Started(s, c).configured
  BY <1>1, SessionMoves, SessionTurns
<1> QED BY <1>2, <1>3, <1>4

LEMMA StartCaptureReady == ReadyInv /\ TypeInv' /\ StartCapture => ReadyInv'
<1> SUFFICES ASSUME ReadyInv, TypeInv', StartCapture
             PROVE  News' /\ Orders' /\ Quitting' /\ Ticks'
  BY DEF ReadyInv
<1> USE DEF LoopAt
<1>1. /\ session \in SessionState /\ session.state # "recording"
      /\ made + 1 \in Captures
      /\ work \in Seq(Job) /\ results \in Seq(Result)
  BY PipelineAssumption DEF ReadyInv, TypeInv, TypeOK, StartCapture, Captures
<1>2. pc = "requests" /\ pc' = pc /\ results' = results /\ engine' = engine
  BY DEF StartCapture
<1>3. engine.phase # "exited" /\ \A k \in DOMAIN work : work[k].kind # "quit"
  BY <1>2 DEF ReadyInv, Quitting, Leaving
<1>4. Ticks'
  <2>1. /\ session' \in {Started(session, made + 1), Discarded(Started(session, made + 1))}
        /\ live' = (recognition = "ready")
    BY DEF StartCapture
  <2>2. recognition' = "ready" <=> recognition = "ready"
    BY DEF StartCapture
  <2>3. recognition = "ready" <=> session.enabled \/ session.configured
    BY DEF ReadyInv, Ticks
  <2>4. /\ session'.enabled \/ session'.configured <=> recognition = "ready"
        /\ session'.state = "recording" => (session'.enabled <=> recognition = "ready")
    BY <1>1, <2>1, <2>3, StartTicks
  <2> QED BY <1>2, <2>1, <2>2, <2>4 DEF Ticks
<1>5. CASE recognition = "unavailable"
  <2>1. /\ work' = Append(work, LoadWork) /\ recognition' = "preparing"
        /\ LoadWork \in Job /\ LoadWork.kind = "load"
    BY <1>5, JobMade DEF StartCapture, LoadWork, NoJob
  <2>2. /\ engine.phase = "failed"
        /\ \A k \in DOMAIN results : ~Verdict(results[k])
        /\ \A k \in DOMAIN work : work[k].kind # "load"
    BY <1>3, <1>5 DEF ReadyInv, News, Orders
  <2>3. News'
    BY <1>2, <2>1, <2>2 DEF ReadyInv, News, Verdict
  <2>4. /\ work' \in Seq(Job)
        /\ \A k \in DOMAIN work' :
             \/ k = Len(work') /\ work'[k] = LoadWork
             \/ k \in DOMAIN work /\ work'[k] = work[k]
    BY <1>1, <2>1
  <2>5. Orders'
    BY <1>2, <1>3, <2>1, <2>2, <2>4 DEF ReadyInv, Orders, Verdict
  <2>6. Quitting'
    BY <1>2, <1>3, <2>1, <2>4 DEF ReadyInv, Quitting
  <2> QED BY <1>4, <2>3, <2>5, <2>6
<1>6. CASE recognition # "unavailable"
  <2>1. work' = work /\ recognition' = recognition
    BY <1>6 DEF StartCapture
  <2> QED BY <1>2, <1>4, <2>1 DEF ReadyInv, News, Orders, Quitting, Loaded, Verdict
<1> QED BY <1>5, <1>6

LEMMA DeliverPreparingReady ==
  ReadyInv /\ DeliverPreparing => Quiet
<1> SUFFICES ASSUME ReadyInv, DeliverPreparing PROVE Quiet OBVIOUS
<1>1. results \in Seq(Result) /\ results # <<>>
  BY DEF ReadyInv, TypeInv, TypeOK, DeliverPreparing, Delivered
<1>2. 1 \in DOMAIN results /\ results[1].kind = "preparing"
  BY <1>1 DEF DeliverPreparing, Delivered
<1>3. \E k \in DOMAIN results : Verdict(results[k])
  BY <1>2 DEF ReadyInv, News
<1>4. recognition = "preparing"
  BY <1>3 DEF ReadyInv, News
<1> QED BY <1>1, <1>4
        DEF DeliverPreparing, Delivered, LoopAt, Quiet, SamePhase, ResultsMove,
            WorkMove, SessionMove, LoopMove

(* With the verdict read, none is left, and nothing waits behind it. *)
LEMMA VerdictRead ==
  ASSUME ReadyInv, results # <<>>, Verdict(Head(results)), results' = Tail(results)
  PROVE  /\ recognition = "preparing"
         /\ results' \in Seq(Result)
         /\ \A k \in DOMAIN results' : /\ ~Verdict(results'[k])
                                       /\ results'[k].kind # "preparing"
         /\ \A k \in DOMAIN work : work[k].kind # "load"
         /\ engine.phase # "loading"
<1>1. results \in Seq(Result)
  BY DEF ReadyInv, TypeInv, TypeOK
<1>2. 1 \in DOMAIN results /\ Verdict(results[1])
  BY <1>1
<1>3. /\ results' \in Seq(Result)
      /\ \A k \in DOMAIN results' :
           k \in Nat /\ k + 1 \in DOMAIN results /\ results'[k] = results[k + 1]
      /\ \A k \in DOMAIN results' : k # 0
  BY <1>1, TailOf
<1>4. \A k \in DOMAIN results : Verdict(results[k]) => k = 1
  BY <1>2 DEF ReadyInv, News
<1>5. \A k \in DOMAIN results : results[k].kind = "preparing" => k < 1
  BY <1>4 DEF ReadyInv, News
<1>6. \A k \in DOMAIN results' : ~Verdict(results'[k]) /\ results'[k].kind # "preparing"
  <2> SUFFICES ASSUME NEW k \in DOMAIN results'
               PROVE  ~Verdict(results'[k]) /\ results'[k].kind # "preparing"
    OBVIOUS
  <2>1. k \in Nat /\ k # 0 /\ k + 1 \in DOMAIN results /\ results'[k] = results[k + 1]
    BY <1>3
  <2>2. k + 1 # 1 /\ ~(k + 1 < 1)
    BY <2>1
  <2> QED BY <1>4, <1>5, <2>1, <2>2 DEF Verdict
<1>7. recognition = "preparing" /\ engine.phase # "loading"
  BY <1>2 DEF ReadyInv, News
<1>8. \A k \in DOMAIN work : work[k].kind # "load"
  BY <1>2 DEF ReadyInv, Orders
<1> QED BY <1>3, <1>6, <1>7, <1>8

LEMMA DeliverReadyReady == ReadyInv /\ TypeInv' /\ DeliverReady => ReadyInv'
<1> SUFFICES ASSUME ReadyInv, TypeInv', DeliverReady
             PROVE  News' /\ Orders' /\ Quitting' /\ Ticks'
  BY DEF ReadyInv
<1>1. /\ pc = "results" /\ pc' = pc /\ engine' = engine /\ work' = work
      /\ live' = live /\ recognition' = "ready" /\ session' = Configure(session)
      /\ results # <<>> /\ Head(results).kind = "ready" /\ results' = Tail(results)
  BY DEF DeliverReady, Delivered, LoopAt
<1>2. /\ recognition = "preparing"
      /\ \A k \in DOMAIN results' : /\ ~Verdict(results'[k])
                                    /\ results'[k].kind # "preparing"
      /\ \A k \in DOMAIN work : work[k].kind # "load"
      /\ engine.phase # "loading"
  BY <1>1, VerdictRead DEF Verdict
<1>3. Loaded \/ engine.phase = "exited"
  <2>1. 1 \in DOMAIN results /\ results[1].kind = "ready"
    BY <1>1 DEF ReadyInv, TypeInv, TypeOK
  <2> QED BY <2>1 DEF ReadyInv, News
<1>4. News'
  BY <1>1, <1>2, <1>3 DEF News, Loaded, Verdict
<1>5. Orders'
  BY <1>1, <1>2 DEF ReadyInv, Orders, Verdict
<1>6. Quitting'
  BY <1>1 DEF ReadyInv, Quitting
<1>7. Ticks'
  <2>1. session \in SessionState /\ Configure(session) \in SessionState
    BY SessionSteps DEF ReadyInv, TypeInv, TypeOK
  <2>2. /\ Configure(session).enabled \/ Configure(session).configured
        /\ Configure(session).state = session.state
        /\ session.state = "recording" => Configure(session).enabled = session.enabled
    BY <2>1 DEF Configure, Applied, SessionState
  <2> QED BY <1>1, <2>2 DEF ReadyInv, Ticks
<1> QED BY <1>4, <1>5, <1>6, <1>7

LEMMA DeliverUnavailableReady ==
  ReadyInv /\ TypeInv' /\ DeliverUnavailable => ReadyInv'
<1> SUFFICES ASSUME ReadyInv, TypeInv', DeliverUnavailable
             PROVE  News' /\ Orders' /\ Quitting' /\ Ticks'
  BY DEF ReadyInv
<1>1. /\ pc = "results" /\ pc' = pc /\ engine' = engine /\ work' = work
      /\ live' = live /\ recognition' = "unavailable" /\ session' = session
      /\ results # <<>> /\ Head(results).kind = "unavailable"
      /\ results' = Tail(results)
  BY DEF DeliverUnavailable, Delivered, LoopAt
<1>2. /\ recognition = "preparing"
      /\ \A k \in DOMAIN results' : /\ ~Verdict(results'[k])
                                    /\ results'[k].kind # "preparing"
      /\ \A k \in DOMAIN work : work[k].kind # "load"
      /\ engine.phase # "loading"
  BY <1>1, VerdictRead DEF Verdict
<1>3. engine.phase \in {"failed", "exited"}
  <2>1. 1 \in DOMAIN results /\ results[1].kind = "unavailable"
    BY <1>1 DEF ReadyInv, TypeInv, TypeOK
  <2> QED BY <2>1 DEF ReadyInv, News
<1>4. News'
  BY <1>1, <1>2, <1>3 DEF News, Verdict
<1>5. Orders'
  BY <1>1, <1>2 DEF ReadyInv, Orders, Verdict
<1>6. Quitting' /\ Ticks'
  BY <1>1, <1>2 DEF ReadyInv, Quitting, Ticks
<1> QED BY <1>4, <1>5, <1>6

(* A load that ends reports what came of it. *)
LEMMA Reported ==
  ASSUME ReadyInv, TypeInv', NEW verdict \in {"ready", "unavailable"},
         engine.phase = "loading",
         engine'.phase = IF verdict = "ready" THEN "idle" ELSE "failed",
         results' = results \o <<Event("preparing"), Event(verdict)>>,
         pc' = pc, session' = session, recognition' = recognition, live' = live,
         work' = work, editing' = editing
  PROVE  ReadyInv'
<1> SUFFICES News' /\ Orders' /\ Quitting' /\ Ticks'
  BY DEF ReadyInv
<1>1. /\ recognition = "preparing"
      /\ \A k \in DOMAIN results : ~Verdict(results[k])
  BY DEF ReadyInv, News
<1>2. \A k \in DOMAIN results : results[k].kind # "preparing"
  BY <1>1 DEF ReadyInv, News
<1>3. /\ results \in Seq(Result)
      /\ Event("preparing") \in Result /\ Event(verdict) \in Result
      /\ Event("preparing").kind = "preparing" /\ Event(verdict).kind = verdict
  BY ResultMade DEF ReadyInv, TypeInv, TypeOK, Event
<1>4. /\ Len(results) \in Nat
      /\ Len(results) + 1 \in DOMAIN results' /\ Len(results) + 2 \in DOMAIN results'
      /\ results'[Len(results) + 1] = Event("preparing")
      /\ results'[Len(results) + 2] = Event(verdict)
  BY <1>3
<1>5. ASSUME NEW k \in DOMAIN results'
      PROVE  \/ k = Len(results) + 1
             \/ k = Len(results) + 2
             \/ k \in DOMAIN results /\ results'[k] = results[k]
  <2>1. DOMAIN results' = 1..(Len(results) + 2) /\ DOMAIN results = 1..Len(results)
    BY <1>3
  <2> QED BY <1>3, <1>4, <2>1
<1>6. \A k \in DOMAIN results' : /\ Verdict(results'[k]) => k = Len(results) + 2
                                 /\ results'[k].kind = "preparing" => k = Len(results) + 1
  BY <1>1, <1>2, <1>3, <1>4, <1>5 DEF Verdict
<1>7. News'
  <2>1. \A j \in DOMAIN results' : results'[j].kind = "preparing" =>
          \E k \in DOMAIN results' : j < k /\ Verdict(results'[k])
    <3> SUFFICES ASSUME NEW j \in DOMAIN results', results'[j].kind = "preparing"
                 PROVE  \E k \in DOMAIN results' : j < k /\ Verdict(results'[k])
      OBVIOUS
    <3>1. j < Len(results) + 2
      BY <1>4, <1>6
    <3>2. Verdict(results'[Len(results) + 2])
      BY <1>3, <1>4 DEF Verdict
    <3> QED BY <1>4, <3>1, <3>2
  <2>2. \A k \in DOMAIN results' : results'[k].kind \in {"ready", "unavailable"} =>
          results'[k].kind = verdict
    <3> SUFFICES ASSUME NEW k \in DOMAIN results', Verdict(results'[k])
                 PROVE  results'[k].kind = verdict
      BY DEF Verdict
    <3>1. results'[k] = Event(verdict)
      BY <1>4, <1>6 DEF Verdict
    <3> QED BY <1>3, <3>1
  <2>3. \A j, k \in DOMAIN results' : Verdict(results'[j]) /\ Verdict(results'[k]) => j = k
    BY <1>6 DEF Verdict
  <2>4. CASE verdict = "ready"
    BY <1>1, <2>1, <2>2, <2>3, <2>4, ZenonT(40) DEF News, Loaded, Verdict
  <2>5. CASE verdict = "unavailable"
    BY <1>1, <2>1, <2>2, <2>3, <2>5 DEF News, Verdict
  <2> QED BY <2>4, <2>5
<1>8. \A k \in DOMAIN work : work[k].kind = "quit" /\ k = Len(work)
  BY DEF ReadyInv, Orders
<1>9. Orders'
  BY <1>8 DEF ReadyInv, Orders
<1>10. pc # "down"
  BY DEF ReadyInv, Quitting
<1>11. Quitting' /\ Ticks'
  BY <1>10 DEF ReadyInv, Quitting, Ticks
<1> QED BY <1>7, <1>9, <1>11

LEMMA LoadReady == ReadyInv /\ TypeInv' /\ Load => ReadyInv'
<1> SUFFICES ASSUME ReadyInv, TypeInv' PROVE Load => ReadyInv' OBVIOUS
<1> USE DEF engineOnly, loopVars
<1>1. engine \in EngineState
  BY DEF ReadyInv, TypeInv, TypeOK
<1>2. ASSUME LoadSucceeds PROVE ReadyInv'
  <2>1. engine'.phase = "idle"
    BY <1>1, <1>2 DEF LoadSucceeds, EngineState
  <2> QED BY <1>2, <2>1, Reported DEF LoadSucceeds
<1>3. ASSUME LoadFails PROVE ReadyInv'
  <2>1. engine'.phase = "failed"
    BY <1>1, <1>3 DEF LoadFails, EngineState
  <2> QED BY <1>3, <2>1, Reported DEF LoadFails
<1> QED BY <1>2, <1>3 DEF Load

LEMMA TakeWhileFailedReady ==
  ReadyInv /\ TypeInv' /\ TakeWhileFailed => ReadyInv'
<1> SUFFICES ASSUME ReadyInv, TypeInv', TakeWhileFailed
             PROVE  News' /\ Orders' /\ Quitting' /\ Ticks'
  BY DEF ReadyInv
<1>1. /\ engine.phase = "failed" /\ work # <<>> /\ work' = Tail(work)
      /\ pc' = pc /\ session' = session /\ recognition' = recognition /\ live' = live
      /\ editing' = editing /\ results' = results
  BY DEF TakeWhileFailed, engineOnly, loopVars
<1>2. work \in Seq(Job) /\ 1 \in DOMAIN work /\ Head(work) = work[1]
  BY <1>1 DEF ReadyInv, TypeInv, TypeOK
<1>3. Head(work).kind \in {"load", "quit"}
  BY <1>1, <1>2 DEF ReadyInv, Orders
<1>4. engine'.phase = IF Head(work).kind = "load" THEN "loading" ELSE "exited"
  <2>1. engine \in EngineState
    BY DEF ReadyInv, TypeInv, TypeOK
  <2> QED BY <1>3, <2>1 DEF TakeWhileFailed, EngineState
<1>5. pc # "down"
  BY <1>1 DEF ReadyInv, Quitting
<1>6. Ticks'
  BY <1>1 DEF ReadyInv, Ticks
<1>7. CASE Head(work).kind = "load"
  <2>1. engine'.phase = "loading" /\ recognition = "preparing"
        /\ \A i \in DOMAIN results : ~Verdict(results[i])
    BY <1>2, <1>4, <1>7 DEF ReadyInv, Orders
  <2>2. News'
    BY <1>1, <2>1 DEF ReadyInv, News, Verdict
  <2>3. /\ \A k \in DOMAIN work' :
             k \in Nat /\ k + 1 \in DOMAIN work /\ work'[k] = work[k + 1] /\ k # 0
        /\ Len(work') + 1 = Len(work) /\ Len(work') \in Nat
    BY <1>1, <1>2, TailOf
  <2>4. \A k \in DOMAIN work' : work'[k].kind = "quit" /\ k = Len(work')
    <3> SUFFICES ASSUME NEW k \in DOMAIN work'
                 PROVE  work'[k].kind = "quit" /\ k = Len(work')
      OBVIOUS
    <3>1. k + 1 # 1 /\ k + 1 \in DOMAIN work
      BY <2>3
    <3>2. work[k + 1].kind = "quit" /\ k + 1 = Len(work)
      BY <1>1, <1>2, <1>7, <3>1 DEF ReadyInv, Orders
    <3> QED BY <2>3, <3>2
  <2>5. Orders'
    BY <2>1, <2>4 DEF Orders
  <2>6. Quitting'
    <3>1. ASSUME NEW k \in DOMAIN work' PROVE pc \in Leaving
      BY <2>3, <2>4 DEF ReadyInv, Quitting
    <3> QED BY <1>1, <1>5, <2>1, <3>1 DEF Quitting
  <2> QED BY <1>6, <2>2, <2>5, <2>6
<1>8. CASE Head(work).kind = "quit"
  <2>1. engine'.phase = "exited" /\ Len(work) = 1 /\ pc \in Leaving
    BY <1>2, <1>4, <1>8 DEF ReadyInv, Orders, Quitting
  <2>2. work' = <<>>
    BY <1>1, <1>2, <2>1
  <2>3. News'
    BY <1>1, <2>1 DEF ReadyInv, News, Verdict
  <2>4. Orders' /\ Quitting'
    BY <1>1, <1>5, <2>1, <2>2 DEF Orders, Quitting
  <2> QED BY <1>6, <2>3, <2>4
<1> QED BY <1>3, <1>7, <1>8

LEMMA TakeQuitReady == ReadyInv /\ TypeInv' /\ TakeQuit => ReadyInv'
<1> SUFFICES ASSUME ReadyInv, TypeInv', TakeQuit
             PROVE  News' /\ Orders' /\ Quitting' /\ Ticks'
  BY DEF ReadyInv
<1>1. /\ engine.phase = "idle" /\ work # <<>> /\ work' = Tail(work)
      /\ Head(work).kind = "quit"
      /\ pc' = pc /\ session' = session /\ recognition' = recognition /\ live' = live
      /\ editing' = editing /\ results' = results
  BY DEF TakeQuit, Take, engineOnly, loopVars
<1>2. engine'.phase = "exited"
  <2>1. engine \in EngineState
    BY DEF ReadyInv, TypeInv, TypeOK
  <2> QED BY <2>1 DEF TakeQuit, EngineState
<1>3. work \in Seq(Job) /\ 1 \in DOMAIN work /\ Head(work) = work[1]
  BY <1>1 DEF ReadyInv, TypeInv, TypeOK
<1>4. Len(work) = 1 /\ pc \in Leaving /\ pc # "down"
  BY <1>1, <1>3 DEF ReadyInv, Orders, Quitting
<1>5. work' = <<>>
  BY <1>1, <1>3, <1>4
<1>6. News'
  BY <1>1, <1>2 DEF ReadyInv, News, Loaded, Verdict
<1>7. Orders' /\ Quitting' /\ Ticks'
  BY <1>1, <1>2, <1>4, <1>5 DEF ReadyInv, Orders, Quitting, Ticks
<1> QED BY <1>6, <1>7

LEMMA ShutDownReady == ReadyInv /\ TypeInv' /\ ShutDown => ReadyInv'
<1> SUFFICES ASSUME ReadyInv, TypeInv', ShutDown
             PROVE  News' /\ Orders' /\ Quitting' /\ Ticks'
  BY DEF ReadyInv
<1>1. /\ pc = "leaving" /\ pc' = "joining" /\ work' = Append(work, QuitWork)
      /\ session' = session /\ recognition' = recognition /\ live' = live
      /\ editing' = editing /\ results' = results /\ engine' = engine
  BY DEF ShutDown, LoopAt
<1>2. QuitWork \in Job /\ QuitWork.kind = "quit" /\ work \in Seq(Job)
  BY JobMade DEF QuitWork, NoJob, ReadyInv, TypeInv, TypeOK
<1>3. engine.phase # "exited" /\ \A k \in DOMAIN work : work[k].kind # "quit"
  BY <1>1 DEF ReadyInv, Quitting, Leaving
<1>4. \A k \in DOMAIN work' : \/ k = Len(work') /\ work'[k] = QuitWork
                              \/ k \in DOMAIN work /\ work'[k] = work[k]
  <2>1. /\ Len(work) \in Nat /\ Len(work') = Len(work) + 1
        /\ work'[Len(work')] = QuitWork
    BY <1>1, <1>2
  <2>2. ASSUME NEW k \in DOMAIN work', k # Len(work')
        PROVE  k \in DOMAIN work /\ work'[k] = work[k]
    <3>1. DOMAIN work' = 1..(Len(work) + 1) /\ DOMAIN work = 1..Len(work)
      BY <1>1, <1>2, <2>1
    <3>2. k \in 1..Len(work)
      BY <2>1, <2>2, <3>1
    <3> QED BY <1>1, <1>2, <3>1, <3>2
  <2> QED BY <2>1, <2>2
<1>5. News' /\ Ticks'
  BY <1>1 DEF ReadyInv, News, Ticks, Loaded, Verdict
<1>6. Orders'
  BY <1>1, <1>2, <1>3, <1>4 DEF ReadyInv, Orders, Verdict
<1>7. Quitting'
  BY <1>1 DEF Quitting, Leaving
<1> QED BY <1>5, <1>6, <1>7

(* A process that ended has sent nothing and heard nothing. *)
LEMMA EndReady == ReadyInv /\ TypeInv' /\ ProcessEnds => ReadyInv'
<1> SUFFICES ASSUME ReadyInv, TypeInv', ProcessEnds
             PROVE  News' /\ Orders' /\ Quitting' /\ Ticks'
  BY DEF ReadyInv
<1>1. /\ pc' = "down" /\ recognition' = "preparing" /\ live' = FALSE
      /\ engine'.phase = "exited" /\ editing' = FALSE
      /\ work' = <<>> /\ results' = <<>>
  BY DEF ProcessEnds, Loading
<1>2. session'.state = "idle" /\ ~session'.enabled /\ ~session'.configured
  BY DEF ProcessEnds, NewSession
<1>3. News' /\ Orders'
  BY <1>1 DEF News, Orders
<1> QED BY <1>1, <1>2, <1>3 DEF Quitting, Ticks, Leaving

LEMMA BootReady == ReadyInv /\ TypeInv' /\ Boot => ReadyInv'
<1> SUFFICES ASSUME ReadyInv, TypeInv', Boot
             PROVE  News' /\ Orders' /\ Quitting' /\ Ticks'
  BY DEF ReadyInv
<1>1. /\ pc = "down" /\ pc' = "requests" /\ engine'.phase = "loading"
      /\ work' = work /\ results' = results /\ session' = session
      /\ recognition' = recognition /\ live' = live
  BY DEF Boot, Loading
<1>2. recognition = "preparing" /\ work = <<>> /\ results = <<>>
  BY <1>1 DEF ReadyInv, Quitting, Orders
<1>3. News' /\ Orders'
  BY <1>1, <1>2 DEF News, Orders
<1> QED BY <1>1, <1>2, <1>3 DEF ReadyInv, Quitting, Ticks

LEMMA InitReady == Init => ReadyInv
<1> SUFFICES ASSUME Init PROVE ReadyInv OBVIOUS
<1>1. TypeInv
  BY InitTypes
<1>2. News /\ Orders
  BY DEF Init, News, Orders, Loading
<1>3. Quitting /\ Ticks
  BY DEF Init, Quitting, Ticks, Loading, NewSession
<1> QED BY <1>1, <1>2, <1>3 DEF ReadyInv

LEMMA StepReady == ReadyInv /\ [Next]_vars => ReadyInv'
<1> SUFFICES ASSUME ReadyInv, [Next]_vars PROVE ReadyInv' OBVIOUS
<1>1. TypeInv'
  BY StepTypes DEF ReadyInv
<1>2. ASSUME Quiet PROVE ReadyInv'
  BY <1>1, <1>2, QuietNews, QuietOrders, QuietQuitting, QuietTicks DEF ReadyInv
<1>3. CASE Recorder
  BY <1>2, <1>3, QuietRecorder
<1>4. CASE User
  BY <1>1, <1>2, <1>4, QuietUser, StartCaptureReady DEF User
<1>5. CASE Pass
  <2>1. CASE Deliver
    BY <1>1, <1>2, <2>1, QuietDeliveries, DeliverPreparingReady, DeliverReadyReady,
       DeliverUnavailableReady DEF Deliver
  <2>2. CASE ~Deliver
    BY <1>2, <1>5, <2>2, QuietRequests, QuietDeliveries, QuietDispatch DEF Pass
  <2> QED BY <2>1, <2>2
<1>6. CASE Shutdown
  BY <1>1, <1>2, <1>6, ShutDownReady, QuietShutdown, EndReady DEF Shutdown, Exit
<1>7. CASE Engine
  BY <1>1, <1>2, <1>7, LoadReady, TakeWhileFailedReady, QuietWork, TakeQuitReady,
     QuietDecode DEF Engine, TakeWork
<1>8. CASE Editor
  BY <1>2, <1>8, QuietEditor
<1>9. CASE Crash
  BY <1>1, <1>9, EndReady DEF Crash
<1>10. CASE Boot
  BY <1>1, <1>10, BootReady
<1>11. CASE UNCHANGED vars
  BY <1>2, <1>11 DEF vars, loopVars, Quiet, SamePhase, ResultsMove, WorkMove,
                     SessionMove, LoopMove
<1> QED BY <1>3, <1>4, <1>5, <1>6, <1>7, <1>8, <1>9, <1>10, <1>11 DEF Next

-----------------------------------------------------------------------------
(* No work reaches the inference thread where it would be dropped: while it
   loads the model or has failed to, its queue holds only a request to load
   again, or to quit (engine.rs, spawn and serve), and once it has one, no
   second request to load, which it would ignore while the loop waits. *)
THEOREM NothingDropped == Spec => []NothingToDrop
<1>1. ReadyInv => NothingToDrop
  BY DEF ReadyInv, Orders, NothingToDrop
<1> QED BY <1>1, InitReady, StepReady, PTL DEF Spec

(* The session ticks a capture exactly when the daemon keeps its audio for
   the engine (shell/daemon/capture.rs, start; mod.rs, deliver), though the
   model may become ready, or fail again, at any moment of the capture. *)
THEOREM TicksWithModel == Spec => []LiveIffTicking
<1>1. ReadyInv => LiveIffTicking
  BY DEF ReadyInv, Ticks, LiveIffTicking
<1> QED BY <1>1, InitReady, StepReady, PTL DEF Spec

-----------------------------------------------------------------------------
(* What the daemon owes from a recording is on the list. *)

OwedStages == {"kept", "sent", "retry"}

(* A write of the list that failed is not undone. *)
WritesLeft == faults["persist"] <= Faults["persist"]

OwedInv == TypeInv /\ WritesLeft /\ OwedSurvivesCrash

-----------------------------------------------------------------------------
(* Most steps owe nothing that was not owed, from no further back, and leave
   the list and what is kept alone. *)
FewerFaults == faults'["persist"] <= faults["persist"]
OwedMove ==
  /\ FewerFaults
  /\ list' = list /\ kept \subseteq kept'
  /\ pc' \notin {"draining", "closing"} => pc \notin {"draining", "closing"}
  /\ \A c \in Captures :
       trans'[c].stage \in OwedStages =>
         trans[c].stage \in OwedStages /\ trans[c].through <= trans'[c].through

LEMMA OwedMoves == OwedInv /\ TypeInv' /\ OwedMove => OwedInv'
<1> SUFFICES ASSUME OwedInv, TypeInv', OwedMove PROVE WritesLeft' /\ OwedSurvivesCrash'
  BY DEF OwedInv
<1>1. /\ faults["persist"] \in Nat /\ faults'["persist"] \in Nat
      /\ Faults["persist"] \in Nat
  BY PipelineAssumption DEF OwedInv, TypeInv, TypeOK, FaultKinds
<1>2. WritesLeft' /\ (ListIsCurrent' => ListIsCurrent)
  BY <1>1 DEF OwedInv, OwedMove, FewerFaults, WritesLeft, ListIsCurrent
<1>3. \A c \in Captures : trans[c].through \in Nat /\ trans'[c].through \in Nat
  <2>1. trans \in [Captures -> Entry] /\ trans' \in [Captures -> Entry]
    BY DEF OwedInv, TypeInv, TypeOK
  <2> QED BY <2>1, PipelineAssumption DEF Entry, Frames
<1>4. \A c \in Captures : list[c] # Gone => list[c] \in Nat
  BY PipelineAssumption DEF OwedInv, TypeInv, TypeOK, Frames
<1>5. OwedSurvivesCrash'
  BY <1>2, <1>3, <1>4 DEF OwedInv, OwedMove, OwedStages, OwedSurvivesCrash
<1> QED BY <1>2, <1>5

(* A fault of any kind leaves no more failing writes than there were. *)
LEMMA FaultsFall ==
  ASSUME TypeOK, NEW kind \in FaultKinds \ {"any"}, FaultHappens(kind)
  PROVE  /\ FewerFaults
         /\ kind = "persist" => faults'["persist"] < faults["persist"]
<1>1. faults \in [FaultKinds -> Nat] /\ {"any", "persist"} \subseteq FaultKinds
  BY DEF TypeOK, FaultKinds
<1>2. faults' = [faults EXCEPT ![kind] = @ - 1, !["any"] = @ - 1]
  BY DEF FaultHappens
<1>3. CASE kind = "persist"
  BY <1>1, <1>2, <1>3 DEF FewerFaults
<1>4. CASE kind # "persist"
  BY <1>1, <1>2, <1>4 DEF FewerFaults
<1> QED BY <1>3, <1>4

LEMMA FaultsStay == TypeOK /\ UNCHANGED faults => FewerFaults
BY DEF TypeOK, FewerFaults, FaultKinds

(* The steps that change neither entries nor the list. *)
LEMMA OwedStays ==
  /\ TypeOK /\ FewerFaults /\ UNCHANGED <<trans, list, kept>>
  /\ pc' \notin {"draining", "closing"} => pc \notin {"draining", "closing"}
  => OwedMove
BY PipelineAssumption DEF OwedMove, TypeOK, Entry, Frames

-----------------------------------------------------------------------------
(* The list that is written names what is owed then, from where its text
   reaches; one that could not be written is no longer current. *)
LEMMA OwedListed ==
  ASSUME OwedInv, TypeInv', Persist(trans'), pc \notin {"draining", "closing"},
         \A c \in Captures :
           trans'[c].stage \in OwedStages =>
             \/ c \in kept'
             \/ trans[c].stage \in OwedStages /\ (c \in kept => c \in kept')
  PROVE  OwedInv'
<1>1. /\ faults["persist"] \in Nat /\ faults'["persist"] \in Nat
      /\ Faults["persist"] \in Nat
  BY PipelineAssumption DEF OwedInv, TypeInv, TypeOK, FaultKinds
<1>2. CASE FaultHappens("persist")
  <2>1. faults'["persist"] < faults["persist"]
    BY <1>2, FaultsFall DEF OwedInv, TypeInv, FaultKinds
  <2> QED BY <1>1, <2>1 DEF OwedInv, WritesLeft, ListIsCurrent, OwedSurvivesCrash
<1>3. CASE list' = ListOf(trans', {c \in Captures : ListedWhileRunning(trans'[c])})
             /\ UNCHANGED faults
  <2>1. WritesLeft' /\ (ListIsCurrent' => ListIsCurrent)
    BY <1>3 DEF OwedInv, WritesLeft, ListIsCurrent
  <2>2. \A c \in Captures : trans'[c].stage \in OwedStages =>
          list'[c] = trans'[c].through /\ trans'[c].through \in Nat
    BY <1>3, PipelineAssumption
       DEF ListOf, ListedWhileRunning, OwedStages, TypeInv, TypeOK, Entry, Frames
  <2>3. ASSUME ListIsCurrent', NEW c \in Captures, trans'[c].stage \in OwedStages
        PROVE  c \in kept'
    BY <2>1, <2>3 DEF OwedInv, OwedSurvivesCrash, OwedStages
  <2>4. OwedSurvivesCrash'
    BY <2>2, <2>3 DEF OwedSurvivesCrash, OwedStages, Gone
  <2> QED BY <2>1, <2>4 DEF OwedInv
<1> QED BY <1>2, <1>3 DEF Persist

-----------------------------------------------------------------------------
(* One lemma per part of Next. *)

LEMMA OwedRecorder == OwedInv /\ Recorder => OwedMove
<1> SUFFICES ASSUME OwedInv, Recorder PROVE OwedMove OBVIOUS
<1>1. TypeOK
  BY DEF OwedInv, TypeInv
<1>2. UNCHANGED <<trans, list, kept, pc>>
  BY DEF Recorder, AudioArrives, Prune, CutShort, loopVars, diskVars
<1>3. FewerFaults
  BY <1>1, FaultsFall, FaultsStay DEF Recorder, AudioArrives, Prune, CutShort, FaultKinds
<1> QED BY <1>1, <1>2, <1>3, OwedStays

LEMMA OwedEngine == OwedInv /\ Engine => OwedMove
<1> SUFFICES ASSUME OwedInv, Engine PROVE OwedMove OBVIOUS
<1>1. TypeOK
  BY DEF OwedInv, TypeInv
<1>2. UNCHANGED <<trans, list, kept, pc>>
  BY DEF Engine, Load, TakeWork, Decode, LoadSucceeds, LoadFails, TakeWhileFailed, TakeTick,
         TakeFinish, TakeRecording, TakeQuit, DecodeSegment, CommitSegment, CommitSilence,
         JobDone, JobFails, engineOnly, loopVars, diskVars
<1>3. FewerFaults
  BY <1>1, FaultsFall, FaultsStay
     DEF Engine, Load, TakeWork, Decode, LoadSucceeds, LoadFails, TakeWhileFailed, TakeTick,
         TakeFinish, TakeRecording, TakeQuit, DecodeSegment, CommitSegment, CommitSilence,
         JobDone, JobFails, FaultKinds
<1> QED BY <1>1, <1>2, <1>3, OwedStays

LEMMA OwedEditor == OwedInv /\ Editor => OwedMove
<1> SUFFICES ASSUME OwedInv, Editor PROVE OwedMove OBVIOUS
<1>1. TypeOK
  BY DEF OwedInv, TypeInv
<1>2. UNCHANGED <<trans, list, kept, pc, faults>>
  BY DEF Editor, WriteText, CopyText, EditorQuits, loopVars, diskVars
<1> QED BY <1>1, <1>2, FaultsStay, OwedStays

(* A discard forgets the capture's entry. *)
LEMMA OwedDiscard ==
  ASSUME OwedInv, session.state = "recording", NEW deserved, DiscardCurrent(deserved),
         FewerFaults, UNCHANGED <<list, kept, pc>>
  PROVE  OwedMove
<1>1. trans' = [trans EXCEPT ![session.current] = Unlisted]
  BY DEF DiscardCurrent
<1>2. \A c \in Captures : trans'[c] = trans[c] \/ trans'[c] = Unlisted
  BY <1>1 DEF OwedInv, TypeInv, TypeOK
<1>3. \A c \in Captures : trans[c].through \in Nat
  BY PipelineAssumption DEF OwedInv, TypeInv, TypeOK, Entry, Frames
<1> QED BY <1>2, <1>3 DEF OwedMove, OwedStages, Unlisted

LEMMA OwedUser == OwedInv /\ TypeInv' /\ User => OwedMove
<1> SUFFICES ASSUME OwedInv, TypeInv', User PROVE OwedMove OBVIOUS
<1>1. TypeOK
  BY DEF OwedInv, TypeInv
<1>2. CASE StartCapture
  <2>1. FewerFaults
    BY <1>1, <1>2, FaultsFall, FaultsStay DEF StartCapture, FaultKinds
  <2>2. \A c \in Captures : trans'[c] = trans[c]
                            \/ trans'[c] = [Unlisted EXCEPT !.stage = "capturing"]
    BY <1>1, <1>2 DEF StartCapture, TypeOK
  <2>3. \A c \in Captures : trans[c].through \in Nat
    BY <1>1, PipelineAssumption DEF TypeOK, Entry, Frames
  <2> QED BY <1>2, <2>1, <2>2, <2>3 DEF StartCapture, OwedMove, OwedStages, Unlisted, LoopAt
<1>3. CASE EndCapture
  BY <1>1, <1>3, FaultsStay, OwedStays DEF EndCapture, LoopAt, diskVars
<1>4. CASE DiscardCapture
  <2>1. FewerFaults
    BY <1>1, <1>4, FaultsFall DEF DiscardCapture, FaultKinds
  <2> QED BY <1>4, <2>1, OwedDiscard DEF DiscardCapture, diskVars
<1>5. CASE AskToStop \/ CloseWindow
  <2>1. FewerFaults
    BY <1>1, <1>5, FaultsFall DEF AskToStop, CloseWindow, FaultKinds
  <2> QED BY <1>1, <1>5, <2>1, OwedStays DEF AskToStop, CloseWindow, loopVars, diskVars
<1> QED BY <1>2, <1>3, <1>4, <1>5 DEF User

(* What a commit moves forward is owed from further on. *)
LEMMA OwedCommit ==
  ASSUME OwedInv, TypeInv', NEW r \in Result, r.kind = "commit", TakeCommit(r)
  PROVE  \A c \in Captures :
           trans'[c].stage = trans[c].stage /\ trans[c].through <= trans'[c].through
<1>1. r.c \in Captures /\ r.through \in Nat
  BY ResultRead, PipelineAssumption DEF Frames
<1>2. \A c \in Captures : trans[c] \in Entry /\ trans[c].through \in Nat
  BY PipelineAssumption DEF OwedInv, TypeInv, TypeOK, Entry, Frames
<1>3. trans \in [Captures -> Entry]
  BY DEF OwedInv, TypeInv, TypeOK
<1> QED BY <1>1, <1>2, <1>3 DEF TakeCommit, Entry

(* The end of a decode: what has to be retried is listed and kept. *)
LEMMA OwedFinished ==
  ASSUME OwedInv, TypeInv', NEW o \in {"ok", "failed", "short"}, NEW c \in Captures,
         TakeFinished(c, o)
  PROVE  /\ \A d \in Captures \ {c} : trans'[d] = trans[d] /\ (d \in kept => d \in kept')
         /\ ListChanges(c, o) /\ trans'[c].stage \in OwedStages => c \in kept'
         /\ ~ListChanges(c, o) =>
              kept' = kept /\ (trans'[c] = trans[c] \/ trans'[c] = Unlisted)
<1>1. trans \in [Captures -> Entry]
  BY DEF OwedInv, TypeInv, TypeOK
<1>2. CASE trans[c].stage = "sent"
  BY <1>1, <1>2 DEF TakeFinished, ListChanges, OwedStages, Unlisted
<1>3. CASE trans[c].stage = "finishing"
  BY <1>1, <1>3 DEF TakeFinished, ListChanges, OwedStages, Unlisted
<1>4. CASE trans[c].stage \notin {"sent", "finishing"}
  BY <1>1, <1>4 DEF TakeFinished, ListChanges, OwedStages, Unlisted
<1> QED BY <1>2, <1>3, <1>4

LEMMA OwedDeliver == OwedInv /\ TypeInv' /\ Deliver => OwedInv'
<1> SUFFICES ASSUME OwedInv, TypeInv', Deliver PROVE OwedInv' OBVIOUS
<1>1. TypeOK /\ results \in Seq(Result) /\ (results # <<>> => Head(results) \in Result)
  BY DEF OwedInv, TypeInv, TypeOK
<1>2. CASE DeliverPreparing \/ DeliverReady \/ DeliverUnavailable \/ DeliverTick
  <2>1. UNCHANGED <<trans, list, kept, pc, faults>>
    BY <1>2 DEF DeliverPreparing, DeliverReady, DeliverUnavailable, DeliverTick, diskVars
  <2> QED BY <1>1, <2>1, FaultsStay, OwedStays, OwedMoves
<1>3. CASE DeliverWindowClosed
  <2>1. UNCHANGED <<list, kept, pc, faults>> /\ FewerFaults
    BY <1>1, <1>3, FaultsStay DEF DeliverWindowClosed, diskVars
  <2>2. CASE CaptureBegunBy(Head(results).at)
    BY <1>3, <2>1, <2>2, OwedDiscard, OwedMoves DEF DeliverWindowClosed, CaptureBegunBy
  <2>3. CASE ~CaptureBegunBy(Head(results).at)
    <3>1. trans' = trans
      BY <1>3, <2>3 DEF DeliverWindowClosed
    <3> QED BY <1>1, <2>1, <3>1, OwedStays, OwedMoves
  <2> QED BY <2>2, <2>3
<1>4. CASE DeliverCommit
  <2>1. UNCHANGED <<list, kept, pc, faults>> /\ FewerFaults
    BY <1>1, <1>4, FaultsStay DEF DeliverCommit, diskVars
  <2>2. \A c \in Captures :
          trans'[c].stage = trans[c].stage /\ trans[c].through <= trans'[c].through
    BY <1>1, <1>4, OwedCommit DEF DeliverCommit, Delivered
  <2>3. OwedMove
    BY <2>1, <2>2 DEF OwedMove
  <2> QED BY <2>3, OwedMoves
<1>5. CASE DeliverFinished
  <2> DEFINE c == Head(results).c
             o == Head(results).outcome
  <2>1. /\ c \in Captures /\ o \in {"ok", "failed", "short"}
        /\ TakeFinished(c, o) /\ pc = "results" /\ pc' = pc
        /\ IF ListChanges(c, o) THEN Persist(trans') ELSE UNCHANGED <<list, faults>>
    BY <1>1, <1>5, ResultRead DEF DeliverFinished, Delivered, LoopAt
  <2> HIDE DEF c, o
  <2>2. CASE ListChanges(c, o)
    <3>1. \A d \in Captures :
            trans'[d].stage \in OwedStages =>
              \/ d \in kept'
              \/ trans[d].stage \in OwedStages /\ (d \in kept => d \in kept')
      BY <2>1, <2>2, OwedFinished
    <3> QED BY <2>1, <2>2, <3>1, OwedListed
  <2>3. CASE ~ListChanges(c, o)
    <3>1. \A d \in Captures : trans'[d] = trans[d] \/ trans'[d] = Unlisted
      BY <2>1, <2>3, OwedFinished
    <3>2. kept' = kept /\ list' = list /\ FewerFaults
      BY <1>1, <2>1, <2>3, OwedFinished, FaultsStay
    <3>3. \A d \in Captures : trans[d].through \in Nat
      BY <1>1, PipelineAssumption DEF TypeOK, Entry, Frames
    <3>4. OwedMove
      BY <2>1, <3>1, <3>2, <3>3 DEF OwedMove, OwedStages, Unlisted
    <3> QED BY <3>4, OwedMoves
  <2> QED BY <2>2, <2>3
<1> QED BY <1>2, <1>3, <1>4, <1>5 DEF Deliver

LEMMA OwedTake == OwedInv /\ TypeInv' /\ TakeCapture => OwedInv'
<1> SUFFICES ASSUME OwedInv, TypeInv', TakeCapture PROVE OwedInv' OBVIOUS
<1>1. TypeOK /\ trans \in [Captures -> Entry] /\ pc = "postroll" /\ pc' = "requests"
  BY DEF OwedInv, TypeInv, TypeOK, TakeCapture, LoopAt
<1>2. CASE live
  <2>1. UNCHANGED <<list, kept, faults>> /\ FewerFaults
    BY <1>1, <1>2, FaultsStay DEF TakeCapture
  <2>2. \A c \in Captures : /\ trans'[c].through = trans[c].through
                            /\ trans'[c].stage \in {trans[c].stage, "finishing"}
    BY <1>1, <1>2 DEF TakeCapture, Entry
  <2>3. \A c \in Captures : trans[c].through \in Nat
    BY <1>1, PipelineAssumption DEF Entry, Frames
  <2>4. OwedMove
    BY <1>1, <2>1, <2>2, <2>3 DEF OwedMove, OwedStages
  <2> QED BY <2>4, OwedMoves
<1>3. CASE ~live
  <2>1. Persist(trans')
    BY <1>3 DEF TakeCapture
  <2>2. \A c \in Captures :
          trans'[c].stage \in OwedStages =>
            \/ c \in kept'
            \/ trans[c].stage \in OwedStages /\ (c \in kept => c \in kept')
    BY <1>1, <1>3 DEF TakeCapture, Entry
  <2> QED BY <1>1, <2>1, <2>2, OwedListed
<1> QED BY <1>2, <1>3

LEMMA OwedPass == OwedInv /\ TypeInv' /\ Pass => OwedInv'
<1> SUFFICES ASSUME OwedInv, TypeInv', Pass PROVE OwedInv' OBVIOUS
<1>1. TypeOK
  BY DEF OwedInv, TypeInv
<1>2. CASE EndRequests \/ EndResults \/ SendTick \/ NoTick
  <2>1. UNCHANGED <<trans, list, kept, faults>> /\ pc \in {"requests", "results", "tick"}
    BY <1>2 DEF EndRequests, EndResults, SendTick, NoTick, LoopAt, diskVars
  <2> QED BY <1>1, <2>1, FaultsStay, OwedStays, OwedMoves
<1>3. CASE Stall
  <2>1. FewerFaults
    BY <1>1, <1>3, FaultsFall DEF Stall, FaultKinds
  <2> QED BY <1>1, <1>3, <2>1, OwedStays, OwedMoves DEF Stall, diskVars
<1>4. CASE EndPass
  BY <1>1, <1>4, FaultsStay, OwedStays, OwedMoves DEF EndPass, LoopAt, diskVars
<1>5. CASE DispatchRecording
  <2> DEFINE c == CHOOSE c \in Undispatched : \A d \in Undispatched : c <= d
  <2>1. /\ trans' = [trans EXCEPT ![c].stage = "sent"] /\ Undispatched # {}
        /\ UNCHANGED <<list, kept, faults, pc>>
    BY <1>5 DEF DispatchRecording, diskVars
  <2>2. c \in Undispatched
    BY <2>1, EarliestWaits
  <2> HIDE DEF c
  <2>3. \A d \in Captures : /\ trans'[d].through = trans[d].through
                            /\ trans'[d].stage = trans[d].stage
                               \/ trans[d].stage = "kept"
    BY <1>1, <2>1, <2>2 DEF TypeOK, Entry, Undispatched
  <2>4. \A d \in Captures : trans[d].through \in Nat
    BY <1>1, PipelineAssumption DEF TypeOK, Entry, Frames
  <2>5. OwedMove
    BY <1>1, <2>1, <2>3, <2>4, FaultsStay DEF OwedMove, OwedStages
  <2> QED BY <2>5, OwedMoves
<1> QED BY <1>2, <1>3, <1>4, <1>5, OwedTake, OwedDeliver DEF Pass

(* Nothing is asked of the list while the daemon drains; where it has ended,
   it owes nothing until the next start reads the list. *)
LEMMA OwedShutdown == OwedInv /\ TypeInv' /\ Shutdown => OwedInv'
<1> SUFFICES ASSUME OwedInv, TypeInv', Shutdown PROVE OwedInv' OBVIOUS
<1>1. TypeOK
  BY DEF OwedInv, TypeInv
<1>2. FewerFaults
  BY <1>1, FaultsFall, FaultsStay
     DEF Shutdown, ShutDown, JoinEngine, Joined, DrainResult, ListWhatIsLeft, Exit, FaultKinds
<1>3. WritesLeft'
  <2>1. /\ faults["persist"] \in Nat /\ faults'["persist"] \in Nat
        /\ Faults["persist"] \in Nat
    BY PipelineAssumption DEF OwedInv, TypeInv, TypeOK, FaultKinds
  <2> QED BY <1>2, <2>1 DEF OwedInv, WritesLeft, FewerFaults
<1>4. CASE ShutDown
  BY <1>1, <1>2, <1>4, OwedStays, OwedMoves DEF ShutDown, LoopAt, diskVars
<1>5. CASE JoinEngine \/ DrainResult \/ ListWhatIsLeft
  <2>1. pc' \in {"draining", "closing"}
    BY <1>5 DEF JoinEngine, DrainResult, ListWhatIsLeft, LoopAt
  <2> QED BY <1>3, <2>1 DEF OwedInv, OwedSurvivesCrash
<1>6. CASE Exit
  BY <1>3, <1>6 DEF Exit, ProcessEnds, OwedInv, OwedSurvivesCrash, Unlisted
<1> QED BY <1>4, <1>5, <1>6 DEF Shutdown

LEMMA OwedRestart == OwedInv /\ TypeInv' /\ (Crash \/ Boot) => OwedInv'
<1> SUFFICES ASSUME OwedInv, TypeInv', Crash \/ Boot PROVE OwedInv' OBVIOUS
<1>1. TypeOK
  BY DEF OwedInv, TypeInv
<1>2. FewerFaults
  BY <1>1, FaultsFall, FaultsStay DEF Crash, Boot, FaultKinds
<1>3. WritesLeft'
  <2>1. /\ faults["persist"] \in Nat /\ faults'["persist"] \in Nat
        /\ Faults["persist"] \in Nat
    BY PipelineAssumption DEF OwedInv, TypeInv, TypeOK, FaultKinds
  <2> QED BY <1>2, <2>1 DEF OwedInv, WritesLeft, FewerFaults
<1>4. CASE Crash
  BY <1>3, <1>4 DEF Crash, ProcessEnds, OwedInv, OwedSurvivesCrash, Unlisted
<1>5. CASE Boot
  <2>1. \A c \in Captures : trans'[c].stage # "none" =>
          c \in kept' /\ trans'[c].through = list[c] /\ list'[c] = list[c]
    BY <1>5 DEF Boot, Unlisted
  <2>2. \A c \in kept' : list[c] # Gone
    BY <1>5 DEF Boot
  <2>3. \A c \in kept' : list[c] \in Nat
    BY <1>1, <1>5, <2>2, PipelineAssumption DEF Boot, TypeOK, Frames
  <2> QED BY <1>3, <2>1, <2>2, <2>3 DEF OwedInv, OwedSurvivesCrash
<1> QED BY <1>4, <1>5

LEMMA InitOwed == Init => OwedInv
<1> SUFFICES ASSUME Init PROVE OwedInv OBVIOUS
<1>1. Faults["persist"] \in Nat /\ faults = Faults
  BY PipelineAssumption DEF Init, FaultKinds
<1> QED BY <1>1, InitTypes DEF Init, OwedInv, WritesLeft, OwedSurvivesCrash, Unlisted

LEMMA StepOwed == OwedInv /\ [Next]_vars => OwedInv'
<1> SUFFICES ASSUME OwedInv, [Next]_vars PROVE OwedInv' OBVIOUS
<1>1. TypeInv' /\ TypeOK
  BY StepTypes DEF OwedInv, TypeInv
<1>2. CASE UNCHANGED vars
  BY <1>1, <1>2, FaultsStay, OwedStays, OwedMoves DEF vars, loopVars, diskVars
<1> QED BY <1>1, <1>2, OwedRecorder, OwedUser, OwedPass, OwedShutdown, OwedEngine, OwedEditor,
          OwedRestart, OwedMoves DEF Next

-----------------------------------------------------------------------------
(* Whatever a running daemon owes from a recording, a crash at any moment
   leaves to the next start: the list on disk names it, from no further than
   its text reaches, and pruning passes it by (shell/daemon/transcriptions.rs,
   keep and finished; shell/recorder.rs, save_unfinished).  Only a
   write of the list that failed, which is reported, takes that away. *)
THEOREM OwedIsListed == Spec => []OwedSurvivesCrash
<1>1. OwedInv => OwedSurvivesCrash
  BY DEF OwedInv
<1> QED BY <1>1, InitOwed, StepOwed, PTL DEF Spec
-----------------------------------------------------------------------------
(* The stream.  What a capture's audio becomes goes one way: work for the
   inference thread, the job it decodes, results for the loop, what the
   editor thread is sent, the file.  Of what is under way, some brings text
   of its capture, and some ends it: nothing of it comes after. *)

Text(x) == x.kind \in {"tick", "finish", "recording", "commit", "append"}
Ends(x) == x.kind \in {"finish", "recording", "finished", "copy"}

(* Whether y may be behind x in the stream, R being the captures decoded from
   their WAV. *)
Behind(x, y, R) ==
  Text(y) => /\ Text(x) => x.c <= y.c \/ y.c \in R
             /\ Ends(x) => x.c # y.c

InOrder(q, R) == \A j, k \in DOMAIN q : j < k => Behind(q[j], q[k], R)
Follows(q, x, R) == \A k \in DOMAIN q : Behind(q[k], x, R)
Precedes(x, q, R) == \A k \in DOMAIN q : Behind(x, q[k], R)
Ahead(q, s, R) == \A j \in DOMAIN q : Precedes(q[j], s, R)

(* Nothing is of a capture not begun, n being how many were, and the captures
   in O are open: nothing that ends one is on its way. *)
Fits(x, n, O) ==
  /\ Text(x) \/ Ends(x) => x.c \in Nat /\ x.c <= n
  /\ Ends(x) => x.c \notin O
AllFit(q, n, O) == \A k \in DOMAIN q : Fits(q[k], n, O)

(* The file has text only. *)
WrittenBefore(f, x, R) == Text(x) => \A j \in DOMAIN f : f[j].c <= x.c \/ x.c \in R
WrittenAhead(f, q, R) == \A k \in DOMAIN q : WrittenBefore(f, q[k], R)
WrittenInOrder(f, R) ==
  \A j, k \in DOMAIN f : j < k => f[j].c <= f[k].c \/ f[k].c \in R
WrittenFits(f, n) == \A k \in DOMAIN f : f[k].c \in Nat /\ f[k].c <= n

(* The file f, what the editor is sent e, results r, the job j, work w. *)
Stream(f, e, r, j, w, R, n, O) ==
  /\ WrittenInOrder(f, R) /\ WrittenFits(f, n)
  /\ WrittenAhead(f, e, R) /\ WrittenAhead(f, r, R)
  /\ WrittenBefore(f, j, R) /\ WrittenAhead(f, w, R)
  /\ InOrder(e, R) /\ InOrder(r, R) /\ InOrder(w, R)
  /\ Ahead(e, r, R) /\ Follows(e, j, R) /\ Ahead(e, w, R)
  /\ Follows(r, j, R) /\ Ahead(r, w, R) /\ Precedes(j, w, R)
  /\ AllFit(e, n, O) /\ AllFit(r, n, O) /\ Fits(j, n, O) /\ AllFit(w, n, O)

(* The captures nothing ended yet: the one under way, until its last work is
   sent, and the recordings that wait. *)
UnderWay == session.state = "recording" \/ pc = "postroll"
Open == {c \in Captures : trans[c].stage = "kept"}
          \cup (IF UnderWay THEN {session.current} ELSE {})

InStream == Stream(file, editor, results, engine.job, work, replayed, made, Open)

(* The capture under way is the latest, and its recording does not wait;
   neither do, nor are on the disk, recordings of captures not begun. *)
Numbered ==
  /\ UnderWay => session.current = made
  /\ session.state = "recording" => trans[session.current].stage # "kept"
  /\ \A c \in Captures : trans[c].stage = "kept" => c <= made
  /\ engine.phase # "busy" => engine.job = NoJob

(* A process that ended took with it what was under way. *)
Emptied ==
  pc = "down" =>
    /\ work = <<>> /\ results = <<>> /\ editor = <<>>
    /\ engine.phase = "exited" /\ ~editing

OrderInv == TypeInv /\ Numbered /\ Emptied /\ InStream

-----------------------------------------------------------------------------
(* What a queue longer by one, or shorter, is in order with. *)

LEMMA LongerQueue ==
  ASSUME NEW S, NEW q \in Seq(S), NEW x, NEW R
  PROVE  /\ InOrder(q, R) /\ Follows(q, x, R) => InOrder(Append(q, x), R)
         /\ \A s : Ahead(s, q, R) /\ Follows(s, x, R) => Ahead(s, Append(q, x), R)
         /\ \A s : Ahead(q, s, R) /\ Precedes(x, s, R) => Ahead(Append(q, x), s, R)
         /\ \A y : Follows(q, y, R) /\ Behind(x, y, R) => Follows(Append(q, x), y, R)
         /\ \A y : Precedes(y, q, R) /\ Behind(y, x, R) => Precedes(y, Append(q, x), R)
         /\ \A f : WrittenAhead(f, q, R) /\ WrittenBefore(f, x, R)
                    => WrittenAhead(f, Append(q, x), R)
         /\ \A n, O : AllFit(q, n, O) /\ Fits(x, n, O) => AllFit(Append(q, x), n, O)
<1> DEFINE longer == Append(q, x)
<1>1. /\ \A k \in DOMAIN longer : \/ k = Len(q) + 1 /\ longer[k] = x
                                  \/ k \in DOMAIN q /\ longer[k] = q[k]
      /\ \A k \in DOMAIN q : k \in Nat /\ k < Len(q) + 1
  OBVIOUS
<1> HIDE DEF longer
<1>2. InOrder(q, R) /\ Follows(q, x, R) => InOrder(longer, R)
  <2> SUFFICES ASSUME InOrder(q, R), Follows(q, x, R),
                      NEW j \in DOMAIN longer, NEW k \in DOMAIN longer, j < k
               PROVE  Behind(longer[j], longer[k], R)
    BY DEF InOrder
  <2>1. j \in DOMAIN q /\ longer[j] = q[j]
    BY <1>1
  <2> QED BY <1>1, <2>1 DEF InOrder, Follows
<1>3. /\ \A s : Ahead(s, q, R) /\ Follows(s, x, R) => Ahead(s, longer, R)
      /\ \A s : Ahead(q, s, R) /\ Precedes(x, s, R) => Ahead(longer, s, R)
  BY <1>1 DEF Ahead, Follows, Precedes
<1>4. /\ \A y : Follows(q, y, R) /\ Behind(x, y, R) => Follows(longer, y, R)
      /\ \A y : Precedes(y, q, R) /\ Behind(y, x, R) => Precedes(y, longer, R)
  BY <1>1 DEF Follows, Precedes
<1>5. /\ \A f : WrittenAhead(f, q, R) /\ WrittenBefore(f, x, R) => WrittenAhead(f, longer, R)
      /\ \A n, O : AllFit(q, n, O) /\ Fits(x, n, O) => AllFit(longer, n, O)
  BY <1>1 DEF WrittenAhead, AllFit
<1> QED BY <1>2, <1>3, <1>4, <1>5 DEF longer

LEMMA ShorterQueue ==
  ASSUME NEW S, NEW q \in Seq(S), q # <<>>, NEW R
  PROVE  /\ InOrder(q, R) => InOrder(Tail(q), R) /\ Precedes(Head(q), Tail(q), R)
         /\ \A s : Ahead(s, q, R) => Ahead(s, Tail(q), R) /\ Follows(s, Head(q), R)
         /\ \A s : Ahead(q, s, R) => Ahead(Tail(q), s, R) /\ Precedes(Head(q), s, R)
         /\ \A y : Follows(q, y, R) => Follows(Tail(q), y, R) /\ Behind(Head(q), y, R)
         /\ \A y : Precedes(y, q, R) => Precedes(y, Tail(q), R) /\ Behind(y, Head(q), R)
         /\ \A f : WrittenAhead(f, q, R)
                    => WrittenAhead(f, Tail(q), R) /\ WrittenBefore(f, Head(q), R)
         /\ \A n, O : AllFit(q, n, O) => AllFit(Tail(q), n, O) /\ Fits(Head(q), n, O)
<1> DEFINE rest == Tail(q)
           head == Head(q)
<1>1. /\ 1 \in DOMAIN q /\ head = q[1]
      /\ \A k \in DOMAIN rest : k \in Nat /\ 1 < k + 1 /\ k + 1 \in DOMAIN q /\ rest[k] = q[k + 1]
  OBVIOUS
<1>2. \A j, k \in DOMAIN rest : j < k => j + 1 < k + 1
  BY <1>1
<1> HIDE DEF rest, head
<1>3. InOrder(q, R) => InOrder(rest, R) /\ Precedes(head, rest, R)
  BY <1>1, <1>2 DEF InOrder, Precedes
<1>4. /\ \A s : Ahead(s, q, R) => Ahead(s, rest, R) /\ Follows(s, head, R)
      /\ \A s : Ahead(q, s, R) => Ahead(rest, s, R) /\ Precedes(head, s, R)
  BY <1>1 DEF Ahead, Follows, Precedes
<1>5. /\ \A y : Follows(q, y, R) => Follows(rest, y, R) /\ Behind(head, y, R)
      /\ \A y : Precedes(y, q, R) => Precedes(y, rest, R) /\ Behind(y, head, R)
  BY <1>1 DEF Follows, Precedes
<1>6. /\ \A f : WrittenAhead(f, q, R) => WrittenAhead(f, rest, R) /\ WrittenBefore(f, head, R)
      /\ \A n, O : AllFit(q, n, O) => AllFit(rest, n, O) /\ Fits(head, n, O)
  BY <1>1 DEF WrittenAhead, AllFit
<1> QED BY <1>3, <1>4, <1>5, <1>6 DEF rest, head

(* What takes another's place in the stream, with no more to it. *)
Like(x, y) ==
  /\ Text(x) => Text(y)
  /\ Ends(x) => Ends(y)
  /\ Text(x) \/ Ends(x) => x.c = y.c

LEMMA InItsPlace ==
  ASSUME NEW x, NEW y, Like(x, y), NEW R
  PROVE  /\ \A q : Follows(q, y, R) => Follows(q, x, R)
         /\ \A q : Precedes(y, q, R) => Precedes(x, q, R)
         /\ \A z : Behind(z, y, R) => Behind(z, x, R)
         /\ \A z : Behind(y, z, R) => Behind(x, z, R)
         /\ \A f : WrittenBefore(f, y, R) => WrittenBefore(f, x, R)
         /\ \A n, O : Fits(y, n, O) => Fits(x, n, O)
<1>1. /\ \A z : Behind(z, y, R) => Behind(z, x, R)
      /\ \A z : Behind(y, z, R) => Behind(x, z, R)
  BY DEF Like, Behind
<1> QED BY <1>1 DEF Follows, Precedes, WrittenBefore, Fits, Like

(* What neither brings text nor ends a capture may be anywhere. *)
Notice(x) == ~Text(x) /\ ~Ends(x)

LEMMA NoticeAnywhere ==
  ASSUME NEW x, Notice(x), NEW R
  PROVE  /\ \A q : Follows(q, x, R) /\ Precedes(x, q, R)
         /\ \A y : Behind(x, y, R) /\ Behind(y, x, R)
         /\ \A f : WrittenBefore(f, x, R)
         /\ \A n, O : Fits(x, n, O)
BY DEF Notice, Follows, Precedes, Behind, WrittenBefore, Fits

-----------------------------------------------------------------------------
(* The moves of the stream. *)

(* From result to text or copy. *)
LEMMA PassedOn ==
  ASSUME NEW f, NEW e \in Seq(EditorWork), NEW r \in Seq(Result), NEW j, NEW w,
         NEW R, NEW n, NEW O, Stream(f, e, r, j, w, R, n, O),
         r # <<>>, NEW x, Like(x, Head(r))
  PROVE  Stream(f, Append(e, x), Tail(r), j, w, R, n, O)
<1> DEFINE h == Head(r)
           t == Tail(r)
<1> HIDE DEF h, t
<1>1. /\ WrittenAhead(f, t, R) /\ WrittenBefore(f, h, R)
      /\ InOrder(t, R) /\ Precedes(h, t, R)
      /\ Ahead(e, t, R) /\ Follows(e, h, R)
      /\ Follows(t, j, R) /\ Behind(h, j, R)
      /\ Ahead(t, w, R) /\ Precedes(h, w, R)
      /\ AllFit(t, n, O) /\ Fits(h, n, O)
  BY ShorterQueue DEF Stream, h, t
<1>2. /\ WrittenBefore(f, x, R) /\ Precedes(x, t, R) /\ Follows(e, x, R)
      /\ Behind(x, j, R) /\ Precedes(x, w, R) /\ Fits(x, n, O)
  BY <1>1, InItsPlace DEF h
<1>3. /\ InOrder(Append(e, x), R) /\ WrittenAhead(f, Append(e, x), R)
      /\ Ahead(Append(e, x), t, R) /\ Follows(Append(e, x), j, R)
      /\ Ahead(Append(e, x), w, R) /\ AllFit(Append(e, x), n, O)
  BY <1>1, <1>2, LongerQueue DEF Stream
<1> QED BY <1>1, <1>3 DEF Stream, t

(* From what the editor is sent to the file. *)
LEMMA WrittenDown ==
  ASSUME NEW S, NEW f \in Seq(S), NEW e \in Seq(EditorWork), NEW r, NEW j, NEW w,
         NEW R, NEW n, NEW O, Stream(f, e, r, j, w, R, n, O),
         e # <<>>, Text(Head(e)), NEW x, x.c = Head(e).c
  PROVE  Stream(Append(f, x), Tail(e), r, j, w, R, n, O)
<1> DEFINE h == Head(e)
           t == Tail(e)
           longer == Append(f, x)
<1>1. /\ \A k \in DOMAIN longer : \/ k = Len(f) + 1 /\ longer[k] = x
                                  \/ k \in DOMAIN f /\ longer[k] = f[k]
      /\ \A k \in DOMAIN f : k \in Nat /\ k < Len(f) + 1
  OBVIOUS
<1> HIDE DEF h, t, longer
<1>2. /\ WrittenAhead(f, t, R) /\ WrittenBefore(f, h, R)
      /\ InOrder(t, R) /\ Precedes(h, t, R)
      /\ Ahead(t, r, R) /\ Precedes(h, r, R)
      /\ Follows(t, j, R) /\ Behind(h, j, R)
      /\ Ahead(t, w, R) /\ Precedes(h, w, R)
      /\ AllFit(t, n, O) /\ Fits(h, n, O)
  BY ShorterQueue DEF Stream, h, t
<1>3. Text(h) /\ x.c = h.c
  BY DEF h
<1>4. \A y : Behind(h, y, R) /\ WrittenBefore(f, y, R) => WrittenBefore(longer, y, R)
  BY <1>1, <1>3 DEF Behind, WrittenBefore
<1>5. /\ WrittenAhead(longer, t, R) /\ WrittenAhead(longer, r, R)
      /\ WrittenBefore(longer, j, R) /\ WrittenAhead(longer, w, R)
  BY <1>2, <1>4 DEF Stream, WrittenAhead, Precedes
<1>6. WrittenFits(longer, n)
  BY <1>1, <1>2, <1>3 DEF Stream, WrittenFits, Fits
<1>7. WrittenInOrder(longer, R)
  <2> SUFFICES ASSUME NEW i \in DOMAIN longer, NEW k \in DOMAIN longer, i < k
               PROVE  longer[i].c <= longer[k].c \/ longer[k].c \in R
    BY DEF WrittenInOrder
  <2>1. i \in DOMAIN f /\ longer[i] = f[i]
    BY <1>1
  <2> QED BY <1>1, <1>2, <1>3, <2>1 DEF Stream, WrittenInOrder, WrittenBefore
<1> QED BY <1>2, <1>5, <1>6, <1>7 DEF Stream, t, longer

(* A job reports: its end, and the thread goes on to what is no news; or text
   of it. *)
LEMMA ReportedLast ==
  ASSUME NEW f, NEW e, NEW r \in Seq(Result), NEW j, NEW w,
         NEW R, NEW n, NEW O, Stream(f, e, r, j, w, R, n, O),
         NEW x, Like(x, j), NEW next, Notice(next)
  PROVE  Stream(f, e, Append(r, x), next, w, R, n, O)
<1>1. /\ WrittenBefore(f, x, R) /\ Precedes(x, w, R) /\ Follows(e, x, R)
      /\ Follows(r, x, R) /\ Fits(x, n, O)
  BY InItsPlace DEF Stream
<1>2. /\ InOrder(Append(r, x), R) /\ WrittenAhead(f, Append(r, x), R)
      /\ Ahead(e, Append(r, x), R) /\ Ahead(Append(r, x), w, R)
      /\ AllFit(Append(r, x), n, O)
  BY <1>1, LongerQueue DEF Stream
<1>3. /\ WrittenBefore(f, next, R) /\ Fits(next, n, O)
      /\ \A q : Follows(q, next, R) /\ Precedes(next, q, R)
  BY NoticeAnywhere
<1> QED BY <1>2, <1>3 DEF Stream

LEMMA ReportedText ==
  ASSUME NEW f, NEW e, NEW r \in Seq(Result), NEW j, NEW w,
         NEW R, NEW n, NEW O, Stream(f, e, r, j, w, R, n, O),
         NEW x, Like(x, j), ~Ends(x)
  PROVE  Stream(f, e, Append(r, x), j, w, R, n, O)
<1>1. /\ WrittenBefore(f, x, R) /\ Precedes(x, w, R) /\ Follows(e, x, R)
      /\ Follows(r, x, R) /\ Fits(x, n, O)
  BY InItsPlace DEF Stream
<1>2. /\ InOrder(Append(r, x), R) /\ WrittenAhead(f, Append(r, x), R)
      /\ Ahead(e, Append(r, x), R) /\ Ahead(Append(r, x), w, R)
      /\ AllFit(Append(r, x), n, O)
  BY <1>1, LongerQueue DEF Stream
<1>3. Behind(x, j, R)
  BY <1>1 DEF Behind, Like, Fits
<1>4. Follows(Append(r, x), j, R)
  BY <1>3, LongerQueue DEF Stream
<1> QED BY <1>2, <1>4 DEF Stream

(* The thread takes work: to decode it, or to answer at once. *)
LEMMA TakenUp ==
  ASSUME NEW f, NEW e, NEW r, NEW j, NEW w \in Seq(Job),
         NEW R, NEW n, NEW O, Stream(f, e, r, j, w, R, n, O),
         w # <<>>, NEW x, Like(x, Head(w))
  PROVE  Stream(f, e, r, x, Tail(w), R, n, O)
<1> DEFINE h == Head(w)
           t == Tail(w)
<1> HIDE DEF h, t
<1>1. /\ WrittenAhead(f, t, R) /\ WrittenBefore(f, h, R)
      /\ InOrder(t, R) /\ Precedes(h, t, R)
      /\ Ahead(e, t, R) /\ Follows(e, h, R)
      /\ Ahead(r, t, R) /\ Follows(r, h, R)
      /\ AllFit(t, n, O) /\ Fits(h, n, O)
  BY ShorterQueue DEF Stream, h, t
<1>2. /\ WrittenBefore(f, x, R) /\ Precedes(x, t, R) /\ Follows(e, x, R)
      /\ Follows(r, x, R) /\ Fits(x, n, O)
  BY <1>1, InItsPlace DEF h
<1> QED BY <1>1, <1>2 DEF Stream, t

LEMMA AnsweredAtOnce ==
  ASSUME NEW f, NEW e, NEW r \in Seq(Result), NEW j, NEW w \in Seq(Job),
         NEW R, NEW n, NEW O, Stream(f, e, r, j, w, R, n, O),
         w # <<>>, NEW x, Like(x, Head(w)), Notice(j)
  PROVE  Stream(f, e, Append(r, x), j, Tail(w), R, n, O)
<1>1. Stream(f, e, r, x, Tail(w), R, n, O)
  BY TakenUp
<1>2. Like(x, x)
  BY DEF Like
<1> QED BY <1>1, <1>2, ReportedLast

(* What was read and is not passed on. *)
LEMMA Dropped ==
  ASSUME NEW f, NEW e \in Seq(EditorWork), NEW r \in Seq(Result), NEW j,
         NEW w \in Seq(Job), NEW R, NEW n, NEW O, Stream(f, e, r, j, w, R, n, O)
  PROVE  /\ e # <<>> => Stream(f, Tail(e), r, j, w, R, n, O)
         /\ r # <<>> => Stream(f, e, Tail(r), j, w, R, n, O)
         /\ w # <<>> => Stream(f, e, r, j, Tail(w), R, n, O)
<1>1. e # <<>> => Stream(f, Tail(e), r, j, w, R, n, O)
  BY ShorterQueue DEF Stream
<1>2. r # <<>> => Stream(f, e, Tail(r), j, w, R, n, O)
  BY ShorterQueue DEF Stream
<1>3. w # <<>> => Stream(f, e, r, j, Tail(w), R, n, O)
  BY ShorterQueue DEF Stream
<1> QED BY <1>1, <1>2, <1>3

(* Notices and orders go with the rest. *)
LEMMA NoticeAdded ==
  ASSUME NEW f, NEW e \in Seq(EditorWork), NEW r \in Seq(Result), NEW j,
         NEW w \in Seq(Job), NEW R, NEW n, NEW O, Stream(f, e, r, j, w, R, n, O),
         NEW x, Notice(x)
  PROVE  /\ Stream(f, Append(e, x), r, j, w, R, n, O)
         /\ Stream(f, e, Append(r, x), j, w, R, n, O)
         /\ Stream(f, e, r, j, Append(w, x), R, n, O)
<1>0. \A q : Follows(q, x, R) /\ Precedes(x, q, R)
  BY NoticeAnywhere
<1>1. /\ \A y : Behind(x, y, R) /\ Behind(y, x, R)
      /\ WrittenBefore(f, x, R) /\ Fits(x, n, O)
  BY NoticeAnywhere
<1>2. Stream(f, Append(e, x), r, j, w, R, n, O)
  BY <1>0, <1>1, LongerQueue DEF Stream
<1>3. Stream(f, e, Append(r, x), j, w, R, n, O)
  BY <1>0, <1>1, LongerQueue DEF Stream
<1>4. Stream(f, e, r, j, Append(w, x), R, n, O)
  BY <1>0, <1>1, LongerQueue DEF Stream
<1> QED BY <1>2, <1>3, <1>4

(* More captures begun, and those open that were or had not begun; more of
   them decoded from their WAV. *)
LEMMA GoesOn ==
  ASSUME NEW f, NEW e, NEW r, NEW j, NEW w, NEW R, NEW n \in Nat, NEW O,
         Stream(f, e, r, j, w, R, n, O),
         NEW R2, R \subseteq R2, NEW n2 \in Nat, n <= n2,
         NEW O2, \A c \in O2 \ O : c \in Nat /\ c > n
  PROVE  Stream(f, e, r, j, w, R2, n2, O2)
<1>1. \A x : Fits(x, n, O) => Fits(x, n2, O2)
  BY DEF Fits
<1>2. /\ \A x, y : Behind(x, y, R) => Behind(x, y, R2)
      /\ \A x : WrittenBefore(f, x, R) => WrittenBefore(f, x, R2)
  BY DEF Behind, WrittenBefore
<1>3. WrittenInOrder(f, R2) /\ WrittenFits(f, n2)
  BY DEF Stream, WrittenInOrder, WrittenFits
<1>4. /\ \A q : InOrder(q, R) => InOrder(q, R2)
      /\ \A q, x : Follows(q, x, R) => Follows(q, x, R2)
      /\ \A x, q : Precedes(x, q, R) => Precedes(x, q, R2)
      /\ \A q : WrittenAhead(f, q, R) => WrittenAhead(f, q, R2)
      /\ \A q : AllFit(q, n, O) => AllFit(q, n2, O2)
  BY <1>1, <1>2 DEF InOrder, Follows, Precedes, WrittenAhead, AllFit
<1>5. \A q, s : Ahead(q, s, R) => Ahead(q, s, R2)
  BY <1>4 DEF Ahead
<1> QED BY <1>1, <1>2, <1>3, <1>4, <1>5 DEF Stream

(* The loop sends work of an open capture: the latest, or one decoded from
   its WAV. *)
LEMMA Sent ==
  ASSUME NEW f, NEW e, NEW r, NEW j, NEW w \in Seq(Job), NEW R, NEW n \in Nat, NEW O,
         Stream(f, e, r, j, w, R, n, O),
         NEW x, x.c \in O, x.c \in Nat, x.c <= n,
         NEW R2, R \subseteq R2, x.c = n \/ x.c \in R2,
         NEW O2, O2 \subseteq O, Ends(x) => x.c \notin O2
  PROVE  Stream(f, e, r, j, Append(w, x), R2, n, O2)
<1>0. n <= n /\ O2 \ O = {}
  OBVIOUS
<1>1. Stream(f, e, r, j, w, R2, n, O2)
  BY <1>0, GoesOn
<1>2. \A y : Fits(y, n, O) => Behind(y, x, R2)
  BY DEF Fits, Behind
<1>3. \A q : AllFit(q, n, O) => Follows(q, x, R2)
  BY <1>2 DEF AllFit, Follows
<1>4. Follows(e, x, R2) /\ Follows(r, x, R2) /\ Behind(j, x, R2) /\ Follows(w, x, R2)
  BY <1>2, <1>3 DEF Stream
<1>5. WrittenBefore(f, x, R2)
  BY DEF Stream, WrittenFits, WrittenBefore
<1>6. Fits(x, n, O2)
  BY DEF Fits
<1> QED BY <1>1, <1>4, <1>5, <1>6, LongerQueue DEF Stream

(* Of a process that is gone only the file is left. *)
LEMMA OnlyTheFile ==
  ASSUME NEW f, NEW e, NEW r, NEW j, NEW w, NEW R, NEW n, NEW O,
         Stream(f, e, r, j, w, R, n, O), NEW j2, Notice(j2), NEW O2
  PROVE  Stream(f, <<>>, <<>>, j2, <<>>, R, n, O2)
BY NoticeAnywhere DEF Stream, WrittenAhead, InOrder, Ahead, Follows, Precedes, AllFit

-----------------------------------------------------------------------------
(* The steps.  Most leave the captures under way, and those that wait, to be
   what they were, or fewer. *)

Steady ==
  /\ UNCHANGED <<made, replayed>>
  /\ UnderWay' => UnderWay /\ session'.current = session.current
  /\ session'.state = "recording" => session.state = "recording"
  /\ \A c \in Captures : trans'[c].stage = "kept" => trans[c].stage = "kept"
  /\ engine'.phase # "busy" => engine'.job = NoJob

LEMMA SteadyStep ==
  ASSUME OrderInv, TypeInv', Emptied', Steady,
         Stream(file', editor', results', engine'.job, work', replayed, made, Open)
  PROVE  OrderInv'
<1>0. session.state = "recording" => session.current \in Captures
  BY DEF OrderInv, TypeInv, TypeOK, Attached, SessionState
<1>1. Numbered'
  <2>1. UnderWay' => session'.current = made'
    BY DEF OrderInv, Numbered, Steady
  <2>2. session'.state = "recording" => trans'[session'.current].stage # "kept"
    BY <1>0 DEF OrderInv, Numbered, Steady, UnderWay
  <2> QED BY <2>1, <2>2 DEF OrderInv, Numbered, Steady
<1>2. Open' \ Open = {} /\ made \in Nat /\ made <= made /\ replayed \subseteq replayed
  BY PipelineAssumption DEF OrderInv, TypeInv, TypeOK, Steady, Open
<1>3. Stream(file', editor', results', engine'.job, work', replayed, made, Open')
  BY <1>2, GoesOn
<1> QED BY <1>1, <1>3 DEF OrderInv, InStream, Steady

(* What the steps before are from. *)
LEMMA FromHere ==
  OrderInv =>
    /\ Stream(file, editor, results, engine.job, work, replayed, made, Open)
    /\ editor \in Seq(EditorWork) /\ results \in Seq(Result) /\ work \in Seq(Job)
    /\ file \in Seq([c : Captures, from : Frames, through : Frames])
    /\ session \in SessionState /\ engine \in EngineState /\ trans \in [Captures -> Entry]
    /\ made \in Nat /\ Numbered /\ Attached /\ Emptied
BY DEF OrderInv, InStream, TypeInv, TypeOK

LEMMA StepEmptied == OrderInv /\ [Next]_vars => Emptied'
<1> SUFFICES ASSUME OrderInv, [Next]_vars, pc' = "down" PROVE Emptied'
  BY DEF Emptied
<1>1. CASE pc # "down"
  <2>1. ProcessEnds
    BY <1>1 DEF Next, Recorder, User, Pass, Shutdown, Engine, Load, TakeWork, Decode, Editor,
       Deliver, AudioArrives, Prune, CutShort, StartCapture, EndCapture, DiscardCapture,
       AskToStop, CloseWindow, TakeCapture, EndRequests, DeliverPreparing, DeliverReady,
       DeliverUnavailable, DeliverWindowClosed, DeliverCommit, DeliverTick, DeliverFinished,
       EndResults, SendTick, NoTick, DispatchRecording, EndPass, Stall, ShutDown, JoinEngine,
       DrainResult, ListWhatIsLeft, Exit, LoadSucceeds, LoadFails, TakeWhileFailed, TakeTick,
       TakeFinish, TakeRecording, TakeQuit, DecodeSegment, CommitSilence, CommitSegment,
       JobDone, JobFails, WriteText, CopyText, EditorQuits, Crash, Boot, engineOnly, loopVars,
       vars
  <2> QED BY <2>1 DEF ProcessEnds, Emptied, Loading
<1>2. CASE pc = "down"
  <2>1. /\ work = <<>> /\ results = <<>> /\ editor = <<>>
        /\ engine.phase = "exited" /\ ~editing
    BY <1>2 DEF OrderInv, Emptied
  <2>2. Recorder \/ UNCHANGED vars
    BY <1>2, <2>1 DEF Next, User, Pass, Shutdown, Engine, Load, TakeWork, Decode, Editor,
       Deliver, StartCapture, EndCapture, DiscardCapture,
       AskToStop, CloseWindow, TakeCapture, EndRequests, DeliverPreparing, DeliverReady,
       DeliverUnavailable, DeliverWindowClosed, DeliverCommit, DeliverTick, DeliverFinished,
       EndResults, SendTick, NoTick, DispatchRecording, EndPass, Stall, ShutDown, JoinEngine,
       DrainResult, ListWhatIsLeft, Exit, LoadSucceeds, LoadFails, TakeWhileFailed, TakeTick,
       TakeFinish, TakeRecording, TakeQuit, DecodeSegment, CommitSilence, CommitSegment,
       JobDone, JobFails, WriteText, CopyText, EditorQuits, Crash, Boot, LoopAt, Delivered,
       Take, Deciding, JobEnded
  <2>3. UNCHANGED <<work, results, editor, engine, editing>>
    BY <2>2 DEF Recorder, AudioArrives, Prune, CutShort, vars
  <2> QED BY <2>1, <2>3 DEF Emptied
<1> QED BY <1>1, <1>2

LEMMA OrderRecorder == OrderInv /\ TypeInv' /\ Emptied' /\ Recorder => OrderInv'
<1> SUFFICES ASSUME OrderInv, TypeInv', Emptied', Recorder PROVE OrderInv' OBVIOUS
<1>1. UNCHANGED <<pc, session, trans, file, editor, results, engine, work, made, replayed>>
  BY DEF Recorder, AudioArrives, Prune, CutShort, loopVars, modelVars
<1>2. Steady
  BY <1>1, FromHere DEF Steady, UnderWay, Numbered
<1> QED BY <1>1, <1>2, FromHere, SteadyStep

LEMMA OrderEditor == OrderInv /\ TypeInv' /\ Emptied' /\ Editor => OrderInv'
<1> SUFFICES ASSUME OrderInv, TypeInv', Emptied', Editor PROVE OrderInv' OBVIOUS
<1>1. UNCHANGED <<pc, session, trans, results, engine, work, made, replayed>>
  BY DEF Editor, WriteText, CopyText, EditorQuits, loopVars, modelVars
<1>2. Steady
  BY <1>1, FromHere DEF Steady, UnderWay, Numbered
<1>3. Stream(file', editor', results, engine.job, work, replayed, made, Open)
  <2>1. CASE CopyText \/ EditorQuits
    BY <2>1, FromHere, Dropped DEF CopyText, EditorQuits
  <2>2. CASE WriteText
    <3> DEFINE a == Head(editor)
               x == [c |-> a.c, from |-> a.from, through |-> a.through]
               t == Tail(editor)
               longer == Append(file, x)
    <3>1. editor # <<>> /\ file' = longer /\ editor' = t /\ Text(a) /\ x.c = a.c
      BY <2>2 DEF WriteText, Text
    <3>2. Stream(longer, t, results, engine.job, work, replayed, made, Open)
      <4> HIDE DEF x
      <4> QED BY <3>1, FromHere, WrittenDown
    <3> QED BY <3>1, <3>2
  <2> QED BY <2>1, <2>2 DEF Editor
<1> QED BY <1>1, <1>2, <1>3, SteadyStep

(* The job the thread's operations leave it with. *)
LEMMA JobLeft ==
  ASSUME NEW e \in EngineState
  PROVE  /\ \A c : Begun(e, c).job = e.job /\ Begun(e, c).phase = e.phase
         /\ \A c, job, at : Busy(Begun(e, c), job, at).job = job
                          /\ Busy(Begun(e, c), job, at).phase = "busy"
         /\ \A c, from, job, at : Busy(Resumed(e, c, from), job, at).job = job
                                /\ Busy(Resumed(e, c, from), job, at).phase = "busy"
         /\ Rest(e).job = NoJob /\ Rest(ResetProgress(e)).job = NoJob
         /\ \A through : CommitThrough(e, through).job = e.job
                        /\ CommitThrough(e, through).phase = e.phase
         /\ \A i : [e EXCEPT !.segment = i].job = e.job
                  /\ [e EXCEPT !.segment = i].phase = e.phase
         /\ \A phase : [e EXCEPT !.phase = phase].job = e.job
                      /\ [e EXCEPT !.phase = phase].phase = phase
<1> USE DEF EngineState
<1>1. \A c : Begun(e, c).job = e.job /\ Begun(e, c).phase = e.phase
  BY DEF Begun
<1>2. /\ \A c, job, at : /\ Busy(Begun(e, c), job, at).job = job
                         /\ Busy(Begun(e, c), job, at).phase = "busy"
      /\ \A c, from, job, at : /\ Busy(Resumed(e, c, from), job, at).job = job
                               /\ Busy(Resumed(e, c, from), job, at).phase = "busy"
  BY DEF Begun, Busy, Resumed
<1>3. Rest(e).job = NoJob /\ Rest(ResetProgress(e)).job = NoJob
  BY DEF Rest, ResetProgress
<1>4. \A through : /\ CommitThrough(e, through).job = e.job
                  /\ CommitThrough(e, through).phase = e.phase
  BY DEF CommitThrough
<1> QED BY <1>1, <1>2, <1>3, <1>4

(* What is in the stream, and what is not. *)
LEMMA Kinds ==
  /\ Notice(NoJob) /\ Notice(LoadWork) /\ Notice(QuitWork) /\ Notice(EditorQuit)
  /\ Notice(Event("preparing")) /\ Notice(Event("ready")) /\ Notice(Event("unavailable"))
  /\ \A at : Notice(WindowClosed(at))
  /\ \A job : job.kind = "tick" => Like(TickDone(job.c), job)
  /\ \A job, o : job.kind \in {"finish", "recording"} => Like(Finished(job.c, o), job)
  /\ \A job, i, j : job.kind \in {"tick", "finish", "recording"} =>
       Like(Commit(job.c, i, j), job) /\ ~Ends(Commit(job.c, i, j))
  /\ \A r, i, j : r.kind = "commit" => Like(AppendText(r.c, i, j), r)
  /\ \A r : r.kind = "finished" => Like(Copy(r.c), r)
  /\ \A x : Like(x, x)
BY DEF Notice, Like, Text, Ends, NoJob, LoadWork, QuitWork, EditorQuit, Event, WindowClosed,
       TickDone, Finished, Commit, AppendText, Copy

(* The thread's steps move the stream alone. *)
LEMMA OrderThread ==
  ASSUME OrderInv, TypeInv', Emptied', UNCHANGED engineOnly,
         engine'.phase # "busy" => engine'.job = NoJob,
         Stream(file, editor, results', engine'.job, work', replayed, made, Open)
  PROVE  OrderInv'
<1>1. UNCHANGED <<pc, session, trans, file, editor, made, replayed>>
  BY DEF engineOnly, loopVars, modelVars
<1>2. Steady
  BY <1>1 DEF Steady, UnderWay
<1> QED BY <1>1, <1>2, SteadyStep

LEMMA OrderLoad == OrderInv /\ TypeInv' /\ Emptied' /\ Load => OrderInv'
<1> SUFFICES ASSUME OrderInv, TypeInv', Emptied', Load PROVE OrderInv' OBVIOUS
<1>1. PICK x \in {Event("ready"), Event("unavailable")} :
        results' = results \o <<Event("preparing"), x>>
  BY DEF Load, LoadSucceeds, LoadFails
<1> DEFINE longer == Append(results, Event("preparing"))
<1>2. /\ longer \in Seq(Result) /\ Event("preparing") \in Result /\ x \in Result
      /\ results' = Append(longer, x)
  <2>1. Event("preparing") \in Result /\ x \in Result
    BY ResultMade
  <2> QED BY <1>1, <2>1, FromHere
<1>3. Notice(Event("preparing")) /\ Notice(x)
  BY Kinds
<1> HIDE DEF longer
<1>4. Stream(file, editor, longer, engine.job, work, replayed, made, Open)
  BY <1>3, FromHere, NoticeAdded DEF longer
<1>5. Stream(file, editor, results', engine.job, work, replayed, made, Open)
  BY <1>2, <1>3, <1>4, FromHere, NoticeAdded
<1>6. /\ UNCHANGED <<engineOnly, work>> /\ engine.phase = "loading"
      /\ \E phase : engine' = [engine EXCEPT !.phase = phase]
  BY DEF Load, LoadSucceeds, LoadFails
<1>7. engine.job = NoJob
  BY <1>6, FromHere DEF Numbered
<1>8. engine'.job = engine.job
  BY <1>6, FromHere, JobLeft
<1> QED BY <1>5, <1>6, <1>7, <1>8, OrderThread

LEMMA OrderTakeWork == OrderInv /\ TypeInv' /\ Emptied' /\ TakeWork => OrderInv'
<1> SUFFICES ASSUME OrderInv, TypeInv', Emptied', TakeWork PROVE OrderInv' OBVIOUS
<1> DEFINE job == Head(work)
           rest == Tail(work)
<1>1. engine.phase # "busy" /\ work # <<>> /\ work' = rest /\ UNCHANGED engineOnly
  BY DEF TakeWork, TakeWhileFailed, TakeTick, TakeFinish, TakeRecording, TakeQuit, Take
<1>2. engine.job = NoJob /\ Notice(engine.job) /\ engine \in EngineState
  BY <1>1, FromHere, Kinds DEF Numbered
<1>3. Stream(file, editor, results, engine.job, rest, replayed, made, Open)
  BY <1>1, FromHere, Dropped
<1>4. ASSUME results' = results, engine'.job = engine.job
      PROVE  OrderInv'
  BY <1>1, <1>2, <1>3, <1>4, OrderThread
<1>5. ASSUME NEW x, results' = Append(results, x), engine'.job = engine.job, Like(x, job)
      PROVE  OrderInv'
  <2>1. Stream(file, editor, Append(results, x), engine.job, rest, replayed, made, Open)
    BY <1>1, <1>2, <1>5, FromHere, AnsweredAtOnce
  <2> QED BY <1>1, <1>2, <1>5, <2>1, OrderThread
<1>6. ASSUME NEW x, results' = results, engine'.job = x, engine'.phase = "busy", Like(x, job)
      PROVE  OrderInv'
  <2>1. Stream(file, editor, results, x, rest, replayed, made, Open)
    BY <1>1, <1>6, FromHere, TakenUp
  <2> QED BY <1>1, <1>6, <2>1, OrderThread
<1> HIDE DEF job, rest
<1>7. CASE TakeWhileFailed \/ TakeQuit
  <2>1. results' = results /\ \E phase : engine' = [engine EXCEPT !.phase = phase]
    BY <1>7 DEF TakeWhileFailed, TakeQuit
  <2> QED BY <1>2, <1>4, <2>1, JobLeft
<1>8. CASE TakeTick
  <2>1. job.kind = "tick" /\ Like(TickDone(job.c), job) /\ Like(job, job)
    BY <1>8, Kinds DEF TakeTick, Take, job
  <2>2. \/ results' = Append(results, TickDone(job.c)) /\ engine' \in {engine, Begun(engine, job.c)}
        \/ /\ engine' = Busy(Begun(engine, job.c), job, Begun(engine, job.c).through)
           /\ results' = results
    BY <1>8 DEF TakeTick, job
  <2> QED BY <1>2, <1>5, <1>6, <2>1, <2>2, JobLeft
<1>9. CASE TakeFinish
  <2>1. job.kind = "finish" /\ Like(Finished(job.c, "failed"), job) /\ Like(job, job)
    BY <1>9, Kinds DEF TakeFinish, Take, job
  <2>2. \/ results' = Append(results, Finished(job.c, "failed")) /\ engine' = Begun(engine, job.c)
        \/ /\ engine' = Busy(Begun(engine, job.c), job, Begun(engine, job.c).through)
           /\ results' = results
    BY <1>9 DEF TakeFinish, job
  <2> QED BY <1>2, <1>5, <1>6, <2>1, <2>2, JobLeft
<1>10. CASE TakeRecording
  <2> DEFINE whole == [job EXCEPT !.end = wav[job.c]]
  <2>1. /\ job.kind = "recording" /\ \A o : Like(Finished(job.c, o), job)
        /\ Like(whole, job)
    <3>1. job.kind = "recording" /\ job \in DecodeJob
      BY <1>1, <1>10, FromHere, JobRead DEF TakeRecording, Take, job
    <3>2. whole.kind = job.kind /\ whole.c = job.c
      BY <3>1 DEF DecodeJob
    <3> HIDE DEF whole
    <3> QED BY <3>1, <3>2, Kinds DEF Like, Text, Ends
  <2>2. \/ /\ results' \in {Append(results, Finished(job.c, "failed")),
                             Append(results, Finished(job.c, "short"))}
           /\ engine' = engine
        \/ engine' = Busy(Resumed(engine, job.c, job.start), whole, job.start) /\ results' = results
    <3>1. CASE wav[job.c] = Gone
      BY <1>10, <3>1 DEF TakeRecording, job
    <3>2. CASE wav[job.c] # Gone
      BY <1>10, <3>2 DEF TakeRecording, job
    <3> QED BY <3>1, <3>2
  <2> HIDE DEF whole
  <2> QED BY <1>2, <1>5, <1>6, <2>1, <2>2, JobLeft
<1> QED BY <1>7, <1>8, <1>9, <1>10 DEF TakeWork

LEMMA OrderDecode == OrderInv /\ TypeInv' /\ Emptied' /\ Decode => OrderInv'
<1> SUFFICES ASSUME OrderInv, TypeInv', Emptied', Decode PROVE OrderInv' OBVIOUS
<1>1. /\ engine.phase = "busy" /\ engine.job.kind \in {"tick", "finish", "recording"}
      /\ UNCHANGED <<engineOnly, work>>
  BY FromHere DEF Decode, DecodeSegment, CommitSilence, CommitSegment, JobDone, JobFails,
     JobEnded, Deciding, Attached, DecodeJob
<1>2. CASE \E e \in 1..MaxFrames : DecodeSegment(e)
  <2>1. /\ \E i : engine' = [engine EXCEPT !.segment = i]
        /\ results' = results
    BY <1>2 DEF DecodeSegment
  <2>2. engine'.job = engine.job /\ engine'.phase = "busy"
    BY <1>1, <2>1, FromHere, JobLeft
  <2> QED BY <1>1, <2>1, <2>2, FromHere, OrderThread
<1>3. CASE CommitSegment \/ \E e \in 1..MaxFrames : CommitSilence(e)
  <2>1. PICK i, through : /\ engine' = CommitThrough(engine, through)
                          /\ results' = Append(results, Commit(engine.job.c, i, through))
    BY <1>3 DEF CommitSegment, CommitSilence
  <2> DEFINE x == Commit(engine.job.c, i, through)
  <2>2. Like(x, engine.job) /\ ~Ends(x)
    BY <1>1, Kinds
  <2>3. engine'.job = engine.job /\ engine'.phase = "busy"
    BY <1>1, <2>1, FromHere, JobLeft
  <2> HIDE DEF x
  <2>4. Stream(file, editor, Append(results, x), engine.job, work, replayed, made, Open)
    BY <2>2, FromHere, ReportedText
  <2>5. results' = Append(results, x)
    BY <2>1 DEF x
  <2> QED BY <1>1, <2>3, <2>4, <2>5, OrderThread
<1>4. CASE JobDone \/ JobFails
  <2>1. PICK o : results' = Append(results, Outcome(engine.job, o))
    BY <1>4 DEF JobDone, JobFails
  <2> DEFINE x == Outcome(engine.job, o)
  <2>2. Like(x, engine.job)
    BY <1>1, Kinds DEF Outcome
  <2>3. engine'.job = NoJob
    <3>1. engine' \in {Rest(engine), Rest(ResetProgress(engine))}
      BY <1>4 DEF JobDone, JobFails, JobEnded
    <3> QED BY <3>1, FromHere, JobLeft
  <2> HIDE DEF x
  <2>4. Stream(file, editor, Append(results, x), NoJob, work, replayed, made, Open)
    BY <2>2, FromHere, Kinds, ReportedLast
  <2>5. results' = Append(results, x)
    BY <2>1 DEF x
  <2> QED BY <1>1, <2>3, <2>4, <2>5, OrderThread
<1> QED BY <1>2, <1>3, <1>4 DEF Decode

-----------------------------------------------------------------------------
(* The loop. *)

(* A step that begins no capture and turns no recording to wait. *)
LEMMA OrderLoop ==
  ASSUME OrderInv, TypeInv', Emptied', UNCHANGED <<engine, made, replayed>>,
         UnderWay' => UnderWay /\ session'.current = session.current,
         session'.state = "recording" => session.state = "recording",
         \A c \in Captures : trans'[c].stage = "kept" => trans[c].stage = "kept",
         Stream(file', editor', results', engine.job, work', replayed, made, Open)
  PROVE  OrderInv'
<1>1. Steady
  BY FromHere DEF Steady, Numbered
<1> QED BY <1>1, SteadyStep

(* A discard forgets the capture under way. *)
LEMMA Forgotten ==
  ASSUME OrderInv, NEW deserved, DiscardCurrent(deserved), pc # "postroll", UNCHANGED pc
  PROVE  /\ ~UnderWay' /\ session'.state # "recording"
         /\ \A c \in Captures : trans'[c].stage = "kept" => trans[c].stage = "kept"
<1>1. session'.state = "idle"
  BY FromHere, SessionTurns DEF DiscardCurrent
<1>2. \A c \in Captures : trans'[c] = trans[c] \/ trans'[c] = Unlisted
  BY FromHere DEF DiscardCurrent
<1> QED BY <1>1, <1>2 DEF UnderWay, Unlisted

LEMMA OrderUser ==
  OrderInv /\ TypeInv' /\ Emptied' /\ (EndCapture \/ DiscardCapture \/ AskToStop \/ CloseWindow)
  => OrderInv'
<1> SUFFICES ASSUME OrderInv, TypeInv', Emptied',
                    EndCapture \/ DiscardCapture \/ AskToStop \/ CloseWindow
             PROVE  OrderInv'
  OBVIOUS
<1>1. UNCHANGED <<engine, made, replayed, file, editor, work>>
  BY DEF EndCapture, DiscardCapture, AskToStop, CloseWindow, modelVars
<1>2. CASE EndCapture
  <2>1. session'.state = "transcribing" /\ session'.current = session.current /\ UnderWay
    BY <1>2, FromHere, SessionTurns DEF EndCapture, UnderWay
  <2> QED BY <1>1, <1>2, <2>1, FromHere, OrderLoop DEF EndCapture
<1>3. CASE DiscardCapture
  BY <1>1, <1>3, FromHere, Forgotten, OrderLoop DEF DiscardCapture, LoopAt
<1>4. CASE AskToStop
  BY <1>1, <1>4, FromHere, OrderLoop DEF AskToStop, loopVars, UnderWay
<1>5. CASE CloseWindow
  <2>1. Stream(file, editor, Append(results, WindowClosed(made)), engine.job, work,
               replayed, made, Open)
    BY FromHere, Kinds, NoticeAdded
  <2> QED BY <1>1, <1>5, <2>1, OrderLoop DEF CloseWindow, loopVars, UnderWay
<1> QED BY <1>2, <1>3, <1>4, <1>5

(* What the loop makes of a commit and of the end of a decode. *)
LEMMA CommitPassedOn ==
  ASSUME OrderInv, results # <<>>, Head(results).kind = "commit", TakeCommit(Head(results))
  PROVE  /\ Stream(file, editor', Tail(results), engine.job, work, replayed, made, Open)
         /\ session'.state = session.state /\ session'.current = session.current
         /\ \A c \in Captures : trans'[c].stage = "kept" => trans[c].stage = "kept"
<1> DEFINE r == Head(results)
           x == AppendText(r.c, r.from, r.through)
<1>1. r \in Result /\ TypeOK
  BY FromHere DEF OrderInv, TypeInv
<1>2. session'.state = session.state /\ session'.current = session.current
  BY <1>1, TakeCommitStep
<1>3. \A c \in Captures : trans'[c].stage = trans[c].stage
  BY FromHere DEF TakeCommit, Entry
<1>4. Like(x, r)
  BY Kinds
<1>5. editor' \in {editor, Append(editor, x)}
  BY DEF TakeCommit
<1> HIDE DEF x
<1>6. Stream(file, Append(editor, x), Tail(results), engine.job, work, replayed, made, Open)
  BY <1>4, FromHere, PassedOn
<1>7. Stream(file, editor, Tail(results), engine.job, work, replayed, made, Open)
  BY FromHere, Dropped
<1> QED BY <1>2, <1>3, <1>5, <1>6, <1>7

LEMMA EndPassedOn ==
  ASSUME OrderInv, results # <<>>, Head(results).kind = "finished",
         TakeFinished(Head(results).c, Head(results).outcome),
         editor' = Append(editor, Copy(Head(results).c))
  PROVE  /\ Stream(file, editor', Tail(results), engine.job, work, replayed, made, Open)
         /\ \A c \in Captures : trans'[c].stage = "kept" => trans[c].stage = "kept"
<1> DEFINE r == Head(results)
           x == Copy(r.c)
<1>1. \A c \in Captures : \/ trans'[c] = trans[c]
                           \/ trans'[c] = Unlisted
                           \/ trans'[c].stage = "retry"
  BY FromHere DEF TakeFinished, Entry
<1>2. Like(x, r)
  BY Kinds
<1> HIDE DEF x
<1>3. Stream(file, Append(editor, x), Tail(results), engine.job, work, replayed, made, Open)
  BY <1>2, FromHere, PassedOn
<1> QED BY <1>1, <1>3 DEF Unlisted, x

LEMMA OrderDeliver == OrderInv /\ TypeInv' /\ Emptied' /\ Deliver => OrderInv'
<1> SUFFICES ASSUME OrderInv, TypeInv', Emptied', Deliver PROVE OrderInv' OBVIOUS
<1> USE DEF DeliverPreparing, DeliverReady, DeliverUnavailable, DeliverWindowClosed,
            DeliverCommit, DeliverTick, DeliverFinished
<1>1. /\ UNCHANGED <<pc, engine, made, replayed, file, work>>
      /\ pc = "results" /\ results # <<>> /\ results' = Tail(results)
  BY DEF Deliver, Delivered, LoopAt, modelVars
<1>2. Stream(file, editor, Tail(results), engine.job, work, replayed, made, Open)
  BY <1>1, FromHere, Dropped
<1>3. ASSUME session'.state = session.state, session'.current = session.current
      PROVE  /\ UnderWay' => UnderWay /\ session'.current = session.current
             /\ session'.state = "recording" => session.state = "recording"
  BY <1>1, <1>3 DEF UnderWay
<1>4. CASE DeliverPreparing \/ DeliverReady \/ DeliverUnavailable \/ DeliverTick
  <2>1. session'.state = session.state /\ session'.current = session.current
    <3>1. \/ session' = session \/ session' = Configure(session)
          \/ \E c : session' = TickFinished(session, c)
      BY <1>4
    <3>2. session' \in SessionState
      BY DEF TypeInv, TypeOK
    <3> QED BY <3>1, <3>2, FromHere, SessionKeeps
  <2>2. trans' = trans /\ editor' = editor
    BY <1>4
  <2> QED BY <1>1, <1>2, <1>3, <2>1, <2>2, OrderLoop
<1>5. CASE DeliverWindowClosed
  <2>1. CASE CaptureBegunBy(Head(results).at)
    BY <1>1, <1>2, <1>5, <2>1, Forgotten, OrderLoop
  <2>2. CASE ~CaptureBegunBy(Head(results).at)
    <3>1. session' = Applied(session) /\ trans' = trans /\ editor' = editor
      BY <1>5, <2>2
    <3>2. session'.state = session.state /\ session'.current = session.current
      BY <3>1, FromHere, SessionSteps, SessionKeeps
    <3> QED BY <1>1, <1>2, <1>3, <3>1, <3>2, OrderLoop
  <2> QED BY <2>1, <2>2
<1>6. CASE DeliverCommit
  BY <1>1, <1>3, <1>6, CommitPassedOn, OrderLoop DEF Delivered
<1>7. CASE DeliverFinished
  <2>1. /\ Stream(file, editor', Tail(results), engine.job, work, replayed, made, Open)
        /\ \A c \in Captures : trans'[c].stage = "kept" => trans[c].stage = "kept"
    BY <1>1, <1>7, EndPassedOn DEF Delivered
  <2>2. /\ session'.current = session.current
        /\ session'.state = "recording" => session.state = "recording"
    BY <1>7, FromHere, SessionTurns
  <2>3. UnderWay' => UnderWay /\ session'.current = session.current
    BY <1>1, <2>2 DEF UnderWay
  <2> QED BY <1>1, <2>1, <2>2, <2>3, OrderLoop
<1> QED BY <1>4, <1>5, <1>6, <1>7 DEF Deliver

(* A capture begins: it is the latest, and open. *)
LEMMA OrderStart == OrderInv /\ TypeInv' /\ Emptied' /\ StartCapture => OrderInv'
<1> SUFFICES ASSUME OrderInv, TypeInv', Emptied', StartCapture PROVE OrderInv' OBVIOUS
<1> DEFINE c == made + 1
<1>1. /\ made \in Nat /\ c \in Nat /\ made <= c /\ made < c /\ c \in Captures
      /\ made' = c /\ pc' = pc /\ pc = "requests"
      /\ UNCHANGED <<file, editor, results, engine, replayed>>
  BY FromHere, PipelineAssumption DEF StartCapture, LoopAt, Captures
<1>2. Stream(file, editor, results, engine.job, work', replayed, made, Open)
  <2>1. work' = work \/ work' = Append(work, LoadWork)
    BY DEF StartCapture
  <2> QED BY <2>1, FromHere, Kinds, NoticeAdded
<1>3. session'.current = c
  <2>1. session' \in {Started(session, c), Discarded(Started(session, c))}
    BY DEF StartCapture
  <2>2. Started(session, c) \in SessionState
    BY <1>1, FromHere, SessionSteps
  <2>3. Started(session, c).current = c
    BY FromHere, SessionTurns
  <2>4. Discarded(Started(session, c)).current = Started(session, c).current
    BY <2>2, SessionTurns
  <2> QED BY <2>1, <2>3, <2>4
<1>4. \A d \in Captures : trans'[d] = trans[d] \/ trans'[d].stage = "capturing"
  BY FromHere DEF StartCapture, Unlisted
<1>5. session'.state = "recording" => trans'[c].stage # "kept"
  BY <1>1, <1>4, FromHere DEF Numbered
<1>6. Numbered'
  <2>1. \A d \in Captures : trans'[d].stage = "kept" => d <= made'
    <3> SUFFICES ASSUME NEW d \in Captures, trans'[d].stage = "kept" PROVE d <= made'
      OBVIOUS
    <3>1. d \in Nat
      BY PipelineAssumption DEF Captures
    <3>2. trans[d].stage = "kept"
      BY <1>4
    <3>3. d <= made
      BY <3>2, FromHere DEF Numbered
    <3> QED BY <1>1, <3>1, <3>3
  <2> QED BY <1>1, <1>3, <1>5, <2>1, FromHere DEF Numbered
<1>7. \A d \in Open' \ Open : d \in Nat /\ d > made
  BY <1>1, <1>3, <1>4 DEF Open
<1>8. Stream(file, editor, results, engine.job, work', replayed, made', Open')
  <2>1. replayed \subseteq replayed /\ made' \in Nat /\ made <= made'
    BY <1>1
  <2> QED BY <1>1, <1>2, <1>7, <2>1, GoesOn
<1> QED BY <1>1, <1>6, <1>8 DEF OrderInv, InStream

(* At its end it is closed, by the last of its work, or waits. *)
LEMMA OrderTake == OrderInv /\ TypeInv' /\ Emptied' /\ TakeCapture => OrderInv'
<1> SUFFICES ASSUME OrderInv, TypeInv', Emptied', TakeCapture PROVE OrderInv' OBVIOUS
<1> DEFINE c == session.current
<1>1. /\ pc = "postroll" /\ pc' = "requests" /\ UnderWay /\ c = made /\ made \in Nat
      /\ session.state = "transcribing" /\ c \in Open /\ c \in Captures
      /\ UNCHANGED <<file, editor, results, engine, replayed, made>>
  BY FromHere DEF TakeCapture, LoopAt, UnderWay, Attached, Numbered, Open, SessionState
<1>2. session'.state # "recording" /\ ~UnderWay'
  BY <1>1, FromHere, SessionTurns DEF TakeCapture, UnderWay
<1>3. CASE live
  <2> DEFINE x == FinishWork(c, base, captured[c])
  <2>1. work' = Append(work, x) /\ x.c = c
    BY <1>3 DEF TakeCapture, FinishWork
  <2>2. \A d \in Captures : \/ trans'[d] = trans[d] /\ d # c
                           \/ trans'[d].stage # "kept"
    BY <1>3, FromHere DEF TakeCapture, Entry
  <2>3. Open' \subseteq Open /\ c \notin Open'
    BY <1>2, <2>2 DEF Open
  <2> HIDE DEF x
  <2>4. Stream(file, editor, results, engine.job, Append(work, x), replayed, made, Open')
    <3>1. x.c \in Open /\ x.c \in Nat /\ x.c <= made /\ x.c = made /\ x.c \notin Open'
      BY <1>1, <2>1, <2>3
    <3> QED BY <2>3, <3>1, FromHere, Sent
  <2>5. Numbered'
    BY <1>1, <1>2, <2>2, FromHere DEF Numbered
  <2> QED BY <1>1, <2>1, <2>4, <2>5 DEF OrderInv, InStream
<1>4. CASE ~live
  <2>1. work' = work /\ \A d \in Captures : trans'[d] = trans[d] \/ d = c
    BY <1>4, FromHere DEF TakeCapture
  <2>2. Numbered'
    BY <1>1, <1>2, <2>1, FromHere DEF Numbered
  <2>3. Open' \ Open = {} /\ replayed \subseteq replayed /\ made <= made
    BY <1>1, <1>2, <2>1 DEF Open
  <2>4. Stream(file, editor, results, engine.job, work, replayed, made, Open')
    BY <1>1, <2>3, FromHere, GoesOn
  <2> QED BY <1>1, <2>1, <2>2, <2>4 DEF OrderInv, InStream
<1> QED BY <1>3, <1>4

(* Its ticks are sent while it is open, the latest of all. *)
LEMMA OrderTick == OrderInv /\ TypeInv' /\ Emptied' /\ SendTick => OrderInv'
<1> SUFFICES ASSUME OrderInv, TypeInv', Emptied', SendTick PROVE OrderInv' OBVIOUS
<1> DEFINE start == IF session.hint > base THEN session.hint ELSE base
           x == TickWork(session.current, start, captured[mic])
<1>1. /\ session.state = "recording" /\ pc = "tick" /\ pc' = "dispatch"
      /\ session' = [session EXCEPT !.tick = "pending"] /\ work' = Append(work, x)
      /\ UNCHANGED <<trans, file, editor, results, engine, replayed, made>>
  BY DEF SendTick, TickDue, LoopAt, modelVars
<1>2. session'.state = session.state /\ session'.current = session.current
  BY <1>1, FromHere DEF SessionState
<1>3. Numbered' /\ Open' = Open
  BY <1>1, <1>2, FromHere DEF Numbered, UnderWay, Open
<1>4. x.c = session.current /\ ~Ends(x)
  BY DEF TickWork, Ends
<1>5. x.c \in Open /\ x.c = made /\ x.c \in Nat /\ x.c <= made
  BY <1>1, <1>4, FromHere DEF Numbered, UnderWay, Open
<1> HIDE DEF x
<1>6. Stream(file, editor, results, engine.job, Append(work, x), replayed, made, Open)
  BY <1>4, <1>5, FromHere, Sent
<1> QED BY <1>1, <1>3, <1>6 DEF OrderInv, InStream

(* A recording that waited is closed by the work to decode it. *)
LEMMA OrderDispatch == OrderInv /\ TypeInv' /\ Emptied' /\ DispatchRecording => OrderInv'
<1> SUFFICES ASSUME OrderInv, TypeInv', Emptied', DispatchRecording PROVE OrderInv' OBVIOUS
<1> DEFINE c == CHOOSE c \in Undispatched : \A d \in Undispatched : c <= d
           x == RecordingWork(c, trans[c].through)
<1>1. /\ pc = "dispatch" /\ pc' = pc /\ work' = Append(work, x) /\ Undispatched # {}
      /\ trans' = [trans EXCEPT ![c].stage = "sent"] /\ replayed' = replayed \cup {c}
      /\ UNCHANGED <<session, file, editor, results, engine, made>>
  BY DEF DispatchRecording, LoopAt
<1>2. c \in Undispatched
  BY <1>1, EarliestWaits
<1>3. x.c = c
  BY DEF RecordingWork
<1> HIDE DEF c, x
<1>4. c \in Captures /\ trans[c].stage = "kept" /\ c \in Nat /\ c <= made /\ c \in Open
  BY <1>2, FromHere, PipelineAssumption DEF Undispatched, Numbered, Captures, Open
<1>5. \A d \in Captures :
        \/ trans'[d] = trans[d] /\ d # c
        \/ d = c /\ trans'[d].stage = "sent"
  <2>1. trans'[c].stage = "sent"
    BY <1>1, <1>4, FromHere DEF Entry
  <2>2. \A d \in Captures \ {c} : trans'[d] = trans[d]
    BY <1>1, FromHere
  <2> QED
    <3> SUFFICES ASSUME NEW d \in Captures
                 PROVE  \/ trans'[d] = trans[d] /\ d # c
                        \/ d = c /\ trans'[d].stage = "sent"
      OBVIOUS
    <3>1. CASE d = c
      BY <2>1, <3>1
    <3>2. CASE d # c
      BY <2>2, <3>2
    <3> QED BY <3>1, <3>2
<1>6. UnderWay => session.state = "recording" /\ session.current # c
  BY <1>1, <1>4, FromHere DEF UnderWay, Numbered
<1>7. Open' \subseteq Open /\ c \notin Open'
  BY <1>1, <1>5, <1>6 DEF Open, UnderWay
<1>8. Numbered'
  BY <1>1, <1>5, FromHere DEF Numbered, UnderWay, Attached, SessionState
<1>9. Stream(file, editor, results, engine.job, Append(work, x), replayed', made, Open')
  <2>1. replayed \subseteq replayed' /\ x.c \in replayed' /\ x.c \in Open /\ x.c \in Nat
        /\ x.c <= made /\ x.c \notin Open'
    BY <1>1, <1>3, <1>4, <1>7
  <2> QED BY <1>7, <2>1, FromHere, Sent
<1> QED BY <1>1, <1>8, <1>9 DEF OrderInv, InStream

LEMMA OrderPass == OrderInv /\ TypeInv' /\ Emptied' /\ Pass => OrderInv'
<1> SUFFICES ASSUME OrderInv, TypeInv', Emptied', Pass PROVE OrderInv' OBVIOUS
<1>1. CASE EndRequests \/ EndResults \/ NoTick \/ Stall \/ EndPass
  <2>1. /\ UNCHANGED <<trans, file, editor, results, engine, work, made, replayed>>
        /\ pc # "postroll" /\ pc' # "postroll"
        /\ session' \in {session, IntervalPassed(session)}
    BY <1>1 DEF EndRequests, EndResults, NoTick, Stall, EndPass, LoopAt, modelVars
  <2>2. session'.state = session.state /\ session'.current = session.current
    BY <2>1, FromHere, SessionSteps, SessionKeeps
  <2>3. UnderWay' => UnderWay /\ session'.current = session.current
    BY <2>1, <2>2 DEF UnderWay
  <2> QED BY <2>1, <2>2, <2>3, FromHere, OrderLoop
<1> QED BY <1>1, OrderTake, OrderTick, OrderDispatch, OrderDeliver DEF Pass

-----------------------------------------------------------------------------
(* The end of a process, and the next. *)

LEMMA OrderEnds ==
  ASSUME OrderInv, TypeInv', Emptied', ProcessEnds, UNCHANGED <<file, made, replayed>>
  PROVE  OrderInv'
<1>1. ~UnderWay' /\ Numbered'
  BY DEF ProcessEnds, UnderWay, NewSession, Numbered, Unlisted, Loading
<1>2. engine'.job = NoJob
  BY DEF ProcessEnds, Loading
<1>3. Stream(file, <<>>, <<>>, NoJob, <<>>, replayed, made, Open')
  BY FromHere, Kinds, OnlyTheFile
<1> QED BY <1>1, <1>2, <1>3 DEF ProcessEnds, OrderInv, InStream

LEMMA OrderShutdown == OrderInv /\ TypeInv' /\ Emptied' /\ Shutdown => OrderInv'
<1> SUFFICES ASSUME OrderInv, TypeInv', Emptied', Shutdown PROVE OrderInv' OBVIOUS
<1>1. CASE ShutDown
  <2>1. /\ UNCHANGED <<session, trans, file, editor, results, engine, made, replayed>>
        /\ pc = "leaving" /\ pc' = "joining" /\ work' = Append(work, QuitWork)
    BY <1>1 DEF ShutDown, LoopAt, modelVars
  <2>2. Stream(file, editor, results, engine.job, Append(work, QuitWork), replayed, made, Open)
    BY FromHere, Kinds, NoticeAdded
  <2> QED BY <2>1, <2>2, OrderLoop DEF UnderWay
<1>2. CASE JoinEngine
  BY <1>2, FromHere, OrderLoop DEF JoinEngine, LoopAt, UnderWay, modelVars
<1>3. CASE DrainResult
  <2>1. /\ UNCHANGED <<pc, file, engine, work, made, replayed>>
        /\ pc = "draining" /\ results # <<>> /\ results' = Tail(results)
    BY <1>3 DEF DrainResult, LoopAt
  <2>2. CASE Head(results).kind = "commit"
    <3>1. TakeCommit(Head(results))
      BY <1>3, <2>2 DEF DrainResult
    <3> QED BY <2>1, <2>2, <3>1, CommitPassedOn, OrderLoop DEF UnderWay
  <2>3. CASE Head(results).kind = "finished"
    <3>1. /\ TakeFinished(Head(results).c, Head(results).outcome)
          /\ editor' = Append(editor, Copy(Head(results).c)) /\ session' = session
      BY <1>3, <2>3 DEF DrainResult
    <3> QED BY <2>1, <2>3, <3>1, EndPassedOn, OrderLoop DEF UnderWay
  <2>4. CASE Head(results).kind \notin {"commit", "finished"}
    <3>1. UNCHANGED <<trans, session, editor>>
      BY <1>3, <2>4 DEF DrainResult
    <3>2. Stream(file, editor, Tail(results), engine.job, work, replayed, made, Open)
      BY <2>1, FromHere, Dropped
    <3> QED BY <2>1, <3>1, <3>2, OrderLoop DEF UnderWay
  <2> QED BY <2>2, <2>3, <2>4
<1>4. CASE ListWhatIsLeft
  <2>1. /\ UNCHANGED <<session, trans, file, results, work, engine, made, replayed>>
        /\ pc = "draining" /\ pc' = "closing" /\ editor' = Append(editor, EditorQuit)
    BY <1>4 DEF ListWhatIsLeft, LoopAt
  <2>2. Stream(file, Append(editor, EditorQuit), results, engine.job, work, replayed, made, Open)
    BY FromHere, Kinds, NoticeAdded
  <2> QED BY <2>1, <2>2, OrderLoop DEF UnderWay
<1>5. CASE Exit
  BY <1>5, OrderEnds DEF Exit
<1> QED BY <1>1, <1>2, <1>3, <1>4, <1>5 DEF Shutdown

LEMMA OrderBoot == OrderInv /\ TypeInv' /\ Emptied' /\ Boot => OrderInv'
<1> SUFFICES ASSUME OrderInv, TypeInv', Emptied', Boot PROVE OrderInv' OBVIOUS
<1>1. /\ pc = "down" /\ pc' = "requests" /\ session.state = "idle" /\ engine' = Loading
      /\ UNCHANGED <<session, wav, file, work, results, editor, made, replayed>>
      /\ work = <<>> /\ results = <<>> /\ editor = <<>>
  BY FromHere DEF Boot, Emptied, Attached
<1>2. \A c \in Captures : trans'[c].stage = "kept" => wav[c] # Gone
  BY DEF Boot, Unlisted
<1>3. \A c \in Captures : wav[c] # Gone => c <= made
  BY FromHere DEF OrderInv, TypeInv, Recorded, Captures
<1>4. Numbered'
  BY <1>1, <1>2, <1>3 DEF Numbered, UnderWay, Loading
<1>5. Stream(file, <<>>, <<>>, NoJob, <<>>, replayed, made, Open')
  BY FromHere, Kinds, OnlyTheFile
<1> QED BY <1>1, <1>4, <1>5 DEF OrderInv, InStream, Loading

LEMMA InitOrder == Init => OrderInv
<1> SUFFICES ASSUME Init PROVE OrderInv OBVIOUS
<1> USE DEF Init
<1>1. Numbered /\ Emptied
  BY DEF Numbered, UnderWay, NewSession, Unlisted, Loading, Emptied
<1>2. \A R, n, O : Stream(<<>>, <<>>, <<>>, NoJob, <<>>, R, n, O)
  <2>1. /\ \A f, R : WrittenBefore(f, NoJob, R)
        /\ \A n, O : Fits(NoJob, n, O)
    BY Kinds, NoticeAnywhere
  <2> QED BY <2>1 DEF Stream, WrittenInOrder, WrittenFits, WrittenAhead, InOrder, Ahead,
             Follows, Precedes, AllFit
<1> QED BY <1>1, <1>2, InitTypes DEF OrderInv, InStream, Loading

LEMMA StepOrder == OrderInv /\ [Next]_vars => OrderInv'
<1> SUFFICES ASSUME OrderInv, [Next]_vars PROVE OrderInv' OBVIOUS
<1>1. TypeInv' /\ Emptied'
  BY StepTypes, StepEmptied DEF OrderInv
<1>2. CASE UNCHANGED vars
  BY <1>1, <1>2, FromHere, OrderLoop DEF vars, loopVars, modelVars, UnderWay
<1>3. CASE Crash
  BY <1>1, <1>3, OrderEnds DEF Crash
<1> QED BY <1>1, <1>2, <1>3, OrderRecorder, OrderUser, OrderStart, OrderPass, OrderShutdown,
           OrderLoad, OrderTakeWork, OrderDecode, OrderEditor, OrderBoot
        DEF Next, User, Engine

-----------------------------------------------------------------------------
(* Text is written in the order it was spoken, and an utterance copied only
   when its text is written (shell/daemon/mod.rs, deliver; engine.rs, run;
   editor.rs): a quick re-press never puts its text before the tail of the
   capture it followed, whatever of either fails, is cancelled or retried,
   over stops, crashes and starts.  Only a recording decoded from its WAV
   comes late. *)
THEOREM TextKeepsOrder == Spec => []TextInOrder
<1>1. OrderInv => TextInOrder
  <2> SUFFICES ASSUME OrderInv PROVE SpokenOrder /\ CopyFollowsText
    BY DEF TextInOrder
  <2>1. SpokenOrder
    BY FromHere, PipelineAssumption
    DEF Stream, WrittenInOrder, WrittenFits, SpokenOrder
  <2>2. CopyFollowsText
    BY FromHere DEF Stream, InOrder, Behind, Text, Ends, CopyFollowsText
  <2> QED BY <2>1, <2>2
<1> QED BY <1>1, InitOrder, StepOrder, PTL DEF Spec
=============================================================================
