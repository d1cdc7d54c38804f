------------------------------ MODULE PaneHost ------------------------------
(***************************************************************************)
(* The thread that owns the dictation pane (shell/pane/host.rs), the       *)
(* daemon's editor thread that asks it for panes (`caller`), and what a    *)
(* pane goes through until it is dropped (shell/pane/mod.rs, ui.rs): its   *)
(* window, its Neovim, and the queue both report to.                       *)
(*                                                                         *)
(* Panes are numbered as they are asked for.  A command is put in the      *)
(* thread's channel and then knocked for, in two steps: the knock is an    *)
(* event of the pane whose waker is published, and is lost when none is.   *)
(***************************************************************************)
EXTENDS Integers, Sequences, SequencesExt, FiniteSets

CONSTANTS
  MaxPanes,  \* bound: panes asked for
  MaxKeys,   \* bound: keys the user types into a pane
  Halves,    \* what may be half typed, as the `<Esc>`s that end it and what
             \* the last of them types
  MaxHolds,  \* bound: calls held behind a half-typed command
  Deaths     \* bound: editors that die unannounced

HostAssumption ==
  MaxPanes \in Nat /\ MaxKeys \in Nat /\ MaxHolds \in Nat /\ Deaths \in Nat

None == 0
Panes == 1..MaxPanes
Earlier == -1  \* an earlier daemon's pane

VARIABLES
  caller,  \* the editor thread, in NvimSession
  work,    \* the channel: [op, pane]; `hung` once its sender is dropped
  shared,  \* `Shared`
  reply,   \* of each pane asked for: "none", "ok", "failed"
  thread,  \* `serve`
  pane,    \* what each pane is
  unsaved, \* the files beside the passage's, by number: whose text each keeps
  hist     \* the model's own: what became of each pane, `failed`, `ended` and
           \* `taken` of the last

vars == <<caller, work, shared, reply, thread, pane, unsaved, hist>>

(* A pane's editor: not there, running, quitting because it was told to, gone.
   `text` is what the user typed since the last write, and what became of it:
   `stray` what an `<Esc>` put into it, and `half` whether a command is left
   half typed in it. *)
NoPane == [open |-> FALSE, queue |-> <<>>, woken |-> FALSE, editor |-> "none", leaving |-> FALSE,
           gone |-> FALSE, held |-> FALSE, half |-> FALSE, text |-> "none", stray |-> "nothing"]

Init ==
  /\ caller = [at |-> "idle", pane |-> None, then |-> "idle", asked |-> None]
  /\ work = [queue |-> <<>>, hung |-> FALSE]
  /\ shared = [alive |-> FALSE, waker |-> None, held |-> FALSE, closed |-> None]
  /\ reply = [n \in Panes |-> "none"]
  /\ thread = [at |-> "next", pane |-> None, opening |-> None]
  /\ pane = [n \in Panes |-> NoPane]
  /\ unsaved = [k \in 0..MaxPanes + 1 |-> IF k = 0 THEN Earlier ELSE None]
  /\ hist = [byUser |-> {}, quit |-> {}, died |-> {}, failed |-> {}, ended |-> {},
             taken |-> {}, holds |-> 0, keys |-> 0]

Reported(n, event) == [pane EXCEPT ![n].queue = Append(@, event)]

-----------------------------------------------------------------------------
(* The caller.  `knock` follows every command; `then` is where it goes on. *)

Sends(op, n, then) ==
  /\ work' = [work EXCEPT !.queue = Append(@, [op |-> op, pane |-> n])]
  /\ caller' = [caller EXCEPT !.at = "knock", !.then = then, !.pane = n]

Waking == shared.waker

Knock ==
  /\ caller.at = "knock"
  /\ caller' = [caller EXCEPT !.at = caller.then]
  /\ pane' = IF Waking # None THEN [pane EXCEPT ![Waking].woken = TRUE] ELSE pane
  /\ UNCHANGED <<work, shared, reply, thread, hist, unsaved>>

(* `open`: a `Held` is over before the next editor is asked for. *)
Asks ==
  /\ caller.at = "idle" /\ caller.asked < MaxPanes /\ ~shared.held
  /\ work' = [work EXCEPT !.queue = Append(@, [op |-> "open", pane |-> caller.asked + 1])]
  /\ caller' = [caller EXCEPT !.at = "knock", !.then = "waiting",
                              !.asked = @ + 1, !.pane = caller.asked + 1]
  /\ UNCHANGED <<shared, reply, thread, pane, hist, unsaved>>

(* `open_pane_and_attach`: whatever went wrong, the pane is closed. *)
HasReply ==
  /\ caller.at = "waiting" /\ reply[caller.pane] # "none"
  /\ caller' = [caller EXCEPT !.at = IF reply[caller.pane] = "ok" THEN "idle" ELSE "failed"]
  /\ UNCHANGED <<work, shared, reply, thread, pane, hist, unsaved>>

(* The deadline passed; the thread can still answer until the receiver goes. *)
TimesOut ==
  /\ caller.at = "waiting" /\ reply[caller.pane] = "none"
  /\ caller' = [caller EXCEPT !.at = "timed out"]
  /\ UNCHANGED <<work, shared, reply, thread, pane, hist, unsaved>>

DropsReply ==
  /\ caller.at = "timed out"
  /\ caller' = [caller EXCEPT !.at = "failed"]
  /\ UNCHANGED <<work, shared, reply, thread, pane, hist, unsaved>>

(* `close`, of the pane that is open or of one that never was. *)
Closes ==
  /\ \/ caller.at = "failed"
     \/ caller.at = "idle" /\ caller.pane # None
  /\ Sends("close", None, "idle")
  /\ UNCHANGED <<shared, reply, thread, pane, hist, unsaved>>

TakesClose ==
  /\ caller.at = "idle" /\ shared.closed # None
  /\ shared' = [shared EXCEPT !.closed = None]
  /\ hist' = [hist EXCEPT !.taken = @ \cup {shared.closed}]
  /\ UNCHANGED <<caller, work, reply, thread, pane, unsaved>>

(* `show_held`: a call is held, and is not any more. *)
ShowsHeld ==
  /\ caller.at = "idle"
  /\ shared.held \/ hist.holds < MaxHolds
  /\ shared' = [shared EXCEPT !.held = ~@]
  /\ hist' = [hist EXCEPT !.holds = IF shared.held THEN @ ELSE @ + 1]
  /\ caller' = [caller EXCEPT !.at = "knock", !.then = "idle"]
  /\ UNCHANGED <<work, reply, thread, pane, unsaved>>

(* `drop`: the sender goes, then the knock, then the thread is joined. *)
Leaves ==
  /\ caller.at = "idle" /\ ~shared.held
  /\ work' = [work EXCEPT !.hung = TRUE]
  /\ caller' = [caller EXCEPT !.at = "knock", !.then = "gone"]
  /\ UNCHANGED <<shared, reply, thread, pane, hist, unsaved>>

Caller ==
  \/ Knock \/ Asks \/ HasReply \/ TimesOut \/ DropsReply \/ Closes
  \/ TakesClose \/ ShowsHeld \/ Leaves

-----------------------------------------------------------------------------
(* The pane is dropped (`Drop for Pane`). *)

CancelAttempts == 3
Answers(p) == p.editor = "running" /\ ~p.half

(* ESCAPE_TRACE: what takes back what the last `<Esc>` typed. *)
Trace(p) == CASE p.stray = "escape" -> "backspace"
              [] p.stray = "number" -> "delete"
              [] OTHER -> "none"

(* `take_back_escape`: a `<BS>`, or the character is deleted. *)
TookBackEscape(p) == IF Trace(p) = "none" THEN p ELSE [p EXCEPT !.stray = "nothing"]

(* `cancel_half_typed_command`: Neovim runs no call while it waits for the
   rest of a command, so it is ended, one `<Esc>` at a time. *)
Cancelled(p, half) ==
  IF p.half /\ half.escapes <= CancelAttempts
  THEN TookBackEscape([p EXCEPT !.half = FALSE, !.stray = half.types])
  ELSE p

(* `write_buffers`: what Neovim cannot write is kept beside it.  After an
   editor that quit by itself there is nothing to ask. *)
WrittenOut(p, half, writable) ==
  IF p.text # "typed" \/ p.gone THEN p
  ELSE LET q == Cancelled(p, half)
       IN  [q EXCEPT !.text = IF ~Answers(q) THEN "lost" ELSE IF writable THEN "none" ELSE "beside"]

(* `write_new`: the first name nothing is at yet. *)
WriteNew(n) ==
  LET free == CHOOSE k \in DOMAIN unsaved :
                unsaved[k] = None /\ \A j \in 0..(k - 1) : unsaved[j] # None
  IN  [unsaved EXCEPT ![free] = n]

(* `Drop for Pane`. *)
PaneGoes(n) ==
  IF n = None THEN UNCHANGED <<pane, unsaved>>
  ELSE \E half \in Halves, writable \in BOOLEAN :
         LET left == WrittenOut(pane[n], half, writable)
         IN  /\ pane' = [pane EXCEPT ![n] = [NoPane EXCEPT !.text = left.text, !.stray = left.stray]]
             /\ unsaved' = IF left.text = "beside" THEN WriteNew(n) ELSE unsaved

GaveUp == [shared EXCEPT !.alive = FALSE, !.waker = None]

-----------------------------------------------------------------------------
(* The thread. *)

(* `handle`, for what the queue holds, in order: the events after one that
   finished the pane are handled too, and the last finish is the ending.
   Input for an editor that is gone fails the step. *)
Handled(p) ==
  LET Handle(done, event) ==
        IF done.failed THEN done
        ELSE CASE event = "leaving" -> [done EXCEPT !.p.leaving = TRUE]
               [] event = "gone" ->
                    [done EXCEPT !.p.gone = TRUE,
                                 !.status = IF done.p.leaving THEN "by user" ELSE "died"]
               [] event = "close" -> [done EXCEPT !.status = "by user"]
               [] event = "key" ->
                    IF p.editor = "gone" THEN [done EXCEPT !.failed = TRUE]
                    ELSE [done EXCEPT !.p.text = "typed"]
               [] OTHER -> done
  IN  FoldLeft(Handle, [p |-> [p EXCEPT !.queue = <<>>, !.woken = FALSE], status |-> "running", failed |-> FALSE],
               p.queue)

(* `step`, which blocks until something is queued. *)
Steps ==
  /\ thread.at = "next" /\ thread.pane # None
  /\ \E n \in Panes :
       /\ n = thread.pane /\ (pane[n].queue # <<>> \/ pane[n].woken)
       /\ LET done == Handled(pane[n])
              byUser == ~done.failed /\ done.status = "by user"
          IN  /\ pane' = [pane EXCEPT ![n] = done.p]
              /\ thread' = [thread EXCEPT
                   !.at = IF done.failed \/ done.status = "died" THEN "drop"
                          ELSE IF byUser THEN "record" ELSE "show"]
              /\ hist' = [hist EXCEPT !.failed = IF done.failed THEN @ \cup {n} ELSE @]
  /\ UNCHANGED <<caller, work, shared, reply, unsaved>>

ShowsNotice ==
  /\ thread.at = "show"
  /\ \E n \in Panes : n = thread.pane /\ pane' = [pane EXCEPT ![n].held = shared.held]
  /\ thread' = [thread EXCEPT !.at = "look"]
  /\ UNCHANGED <<caller, work, shared, reply, hist, unsaved>>

(* A close by the user is recorded, then the pane goes, then `alive`. *)
Records ==
  /\ thread.at = "record"
  /\ shared' = [shared EXCEPT !.closed = thread.pane]
  /\ thread' = [thread EXCEPT !.at = "drop"]
  /\ UNCHANGED <<caller, work, reply, pane, hist, unsaved>>

Drops ==
  /\ thread.at = "drop"
  /\ PaneGoes(thread.pane)
  /\ shared' = GaveUp
  /\ thread' = [thread EXCEPT !.at = "look", !.pane = None]
  /\ hist' = [hist EXCEPT !.ended = @ \cup {thread.pane}]
  /\ UNCHANGED <<caller, work, reply>>

(* `try_recv` while a pane is open or was until now, `recv` without one. *)
Waits == thread.at = "look" \/ (thread.at = "next" /\ thread.pane = None)

FindsNothing ==
  /\ thread.at = "look" /\ work.queue = <<>> /\ ~work.hung
  /\ thread' = [thread EXCEPT !.at = "next"]
  /\ UNCHANGED <<caller, work, shared, reply, pane, hist, unsaved>>

TakesClosing ==
  /\ Waits /\ work.queue # <<>> /\ Head(work.queue).op = "close"
  /\ work' = [work EXCEPT !.queue = Tail(@)]
  /\ thread' = [thread EXCEPT !.at = "closing"]
  /\ UNCHANGED <<caller, shared, reply, pane, hist, unsaved>>

ClosesPane ==
  /\ thread.at = "closing"
  /\ PaneGoes(thread.pane)
  /\ shared' = GaveUp
  /\ thread' = [thread EXCEPT !.at = "next", !.pane = None]
  /\ UNCHANGED <<caller, work, reply, hist>>

(* A close recorded for the pane before is not the next one's. *)
(* Variant: it is still there when the next one opens. *)
ClosedKept == shared

ClosedForgotten == [shared EXCEPT !.closed = None]

TakesOpening ==
  /\ Waits /\ work.queue # <<>> /\ Head(work.queue).op = "open"
  /\ work' = [work EXCEPT !.queue = Tail(@)]
  /\ shared' = ClosedForgotten
  /\ thread' = [thread EXCEPT !.at = "replace", !.opening = Head(work.queue).pane]
  /\ hist' = [hist EXCEPT !.failed = {}, !.ended = {}, !.taken = {}]
  /\ UNCHANGED <<caller, reply, pane, unsaved>>

Replaces ==
  /\ thread.at = "replace"
  /\ PaneGoes(thread.pane)
  /\ shared' = GaveUp
  /\ thread' = [thread EXCEPT !.at = "open", !.pane = None]
  /\ UNCHANGED <<caller, work, reply, hist>>

(* `open`: window and editor are there and the window is mapped, or neither
   is; the waker is published before the caller is answered. *)
Took == [shared EXCEPT !.alive = TRUE, !.waker = thread.opening]

Opens ==
  /\ thread.at = "open"
  /\ \/ /\ pane' = [pane EXCEPT ![thread.opening] = [NoPane EXCEPT !.open = TRUE, !.editor = "running"]]
        /\ shared' = Took
        /\ thread' = [thread EXCEPT !.at = "answer"]
        /\ UNCHANGED reply
     \/ /\ reply' = [reply EXCEPT ![thread.opening] = "failed"]
        /\ thread' = [thread EXCEPT !.at = "next"]
        /\ UNCHANGED <<pane, shared>>
  /\ UNCHANGED <<caller, work, hist, unsaved>>

(* A pane nobody waits for any more is dropped. *)
Awaited(n) == caller.pane = n /\ caller.at \in {"knock", "waiting", "timed out"}

(* Variant: the pane is kept although its caller gave up. *)
AnsweredAnyway == TRUE

Answered == Awaited(thread.opening)

AnswersCaller ==
  /\ thread.at = "answer"
  /\ reply' = [reply EXCEPT ![thread.opening] = "ok"]
  /\ thread' = [thread EXCEPT !.pane = thread.opening,
                              !.at = IF Answered THEN "next" ELSE "unwanted"]
  /\ UNCHANGED <<caller, work, shared, pane, hist, unsaved>>

DropsUnwanted ==
  /\ thread.at = "unwanted"
  /\ PaneGoes(thread.pane)
  /\ shared' = GaveUp
  /\ thread' = [thread EXCEPT !.at = "next", !.pane = None]
  /\ UNCHANGED <<caller, work, reply, hist>>

(* The sender is gone: so is the pane, and the thread ends. *)
Ends ==
  /\ Waits /\ work.queue = <<>> /\ work.hung
  /\ PaneGoes(thread.pane)
  /\ shared' = GaveUp
  /\ thread' = [thread EXCEPT !.at = "ended", !.pane = None]
  /\ UNCHANGED <<caller, work, reply, hist>>

Serve ==
  \/ Steps \/ ShowsNotice \/ Records \/ Drops \/ FindsNothing \/ TakesClosing \/ ClosesPane
  \/ TakesOpening \/ Replaces \/ Opens \/ AnswersCaller \/ DropsUnwanted \/ Ends

-----------------------------------------------------------------------------
(* The user, the window manager and the pane's Neovim. *)

External == UNCHANGED <<caller, work, shared, reply, thread, unsaved>>

(* A key typed into the window may leave a command half typed in Neovim. *)
Types(n) ==
  /\ pane[n].open /\ hist.keys < MaxKeys
  /\ \E half \in BOOLEAN : pane' = [Reported(n, "key") EXCEPT ![n].half = half]
  /\ hist' = [hist EXCEPT !.keys = @ + 1]
  /\ External

ClosesWindow(n) ==
  /\ pane[n].open /\ n \notin hist.byUser
  /\ pane' = Reported(n, "close")
  /\ hist' = [hist EXCEPT !.byUser = @ \cup {n}]
  /\ External

(* `:q`, which Neovim announces before it exits (ANNOUNCE_LEAVING). *)
Quits(n) ==
  /\ pane[n].open /\ pane[n].editor = "running" /\ ~pane[n].half
  /\ pane' = [Reported(n, "leaving") EXCEPT ![n].editor = "quitting"]
  /\ hist' = [hist EXCEPT !.byUser = @ \cup {n}, !.quit = @ \cup {n}]
  /\ External

Exits(n) ==
  /\ pane[n].open /\ pane[n].editor = "quitting"
  /\ pane' = [Reported(n, "gone") EXCEPT ![n].editor = "gone"]
  /\ External /\ UNCHANGED hist

Dies(n) ==
  /\ pane[n].open /\ pane[n].editor = "running" /\ Cardinality(hist.died) < Deaths
  /\ pane' = [Reported(n, "gone") EXCEPT ![n].editor = "gone"]
  /\ hist' = [hist EXCEPT !.died = @ \cup {n}]
  /\ External

Users(n) == Types(n) \/ ClosesWindow(n) \/ Quits(n) \/ Exits(n) \/ Dies(n)

Done == caller.at = "gone" /\ thread.at = "ended" /\ UNCHANGED vars

Next == Caller \/ Serve \/ (\E n \in Panes : Users(n)) \/ Done

(* The caller's own steps go on once they began, and the thread's once they
   can: BACKSTOP, an hour, is not relied on. *)
Spec ==
  /\ Init /\ [][Next]_vars
  /\ WF_vars(Knock) /\ WF_vars(HasReply \/ TimesOut) /\ WF_vars(DropsReply)
  /\ WF_vars(caller.at = "failed" /\ Closes)
  /\ WF_vars(Serve)

-----------------------------------------------------------------------------
(* The pane that is open or last was. *)
LastPane == thread.opening

(* A caller who finds the pane gone and no close recorded knows that it did not
   end by the user's hand (`Shared::closed_by_user`), and a close is never
   taken for the next pane's.  An editor that died unannounced, or input for
   one that is gone, hides the close. *)
CloseIsTold ==
  /\ LastPane \in (hist.ended \cap hist.byUser) /\ ~shared.alive =>
       \/ LastPane \in (hist.died \cup hist.failed)
       \/ LastPane \in (hist.taken \cup {shared.closed})
  /\ shared.closed \in {None, LastPane}

(* What the user typed into a pane outlives it, and nothing else: even when the
   pane goes while a command is half typed in it, or its file cannot be
   written, unless its editor ended first.  What was kept before stays. *)
TypedIsKept ==
  /\ unsaved[0] = Earlier
  /\ \A n \in Panes :
       /\ pane[n].text = "lost" => n \in (hist.quit \cup hist.died)
       /\ pane[n].text = "beside" => \E k \in DOMAIN unsaved : unsaved[k] = n
       /\ pane[n].stray = "nothing"

(* However a pane ends, the daemon hears of a close and keeps what was typed. *)
EndsWell == CloseIsTold /\ TypedIsKept

(* A pane goes that the caller gave up opening, closed, or asked to replace,
   and the thread ends with its handle, with no event but the knocks. *)
LeftBehind ==
  \/ \E n \in Panes : n # caller.pane /\ pane[n].open
  \/ caller.at = "gone" /\ thread.at # "ended"
NothingLeftBehind == LeftBehind ~> ~LeftBehind
=============================================================================
