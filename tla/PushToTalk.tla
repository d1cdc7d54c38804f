----------------------------- MODULE PushToTalk -----------------------------
(***************************************************************************)
(* One key, its auto-repeat, the client processes its binding spawns, the  *)
(* control thread that stamps what they send (shell/control.rs), the       *)
(* channel to the event loop, and the loop's drain of it into the capture  *)
(* state machine (shell/daemon/requests.rs, core/session.rs, Hold).        *)
(*                                                                         *)
(* Time is explicit: `now` advances only while every client process that   *)
(* is due has been read and every repeat that is due has fired.  The loop  *)
(* has no deadline: it may be as late as the machine makes it.             *)
(***************************************************************************)
EXTENDS Hold, Sequences, FiniteSets

CONSTANTS
  Setups,        \* what a behaviour may be given: a set of Setup records
  MaxWaiting,    \* bound: requests queued at once, so how late the loop is
  RepeatDelay,   \* from a press to its first auto-repeat
  RepeatInterval,\* between two auto-repeats
  Jitter         \* the longest a client takes to be read by the daemon

ExtraKinds == {"shift", "cancel", "speech", "ceiling", "gather", "close", "preempted"}

(* A desktop, a configuration and the bounds of a behaviour: the instant the
   model stops at, the physical presses, what a press may fire, what may
   happen besides (once each), whether a repeat is a stop and a start (X11)
   or a start (i3), and the silence timeout, a set of at most one duration. *)
Setup == [until : Nat, presses : Nat, bindings : SUBSET {"start", "toggle"},
          extras : SUBSET ExtraKinds, paired : BOOLEAN, silence : SUBSET Nat]

KeyboardAssumption ==
  /\ {RepeatDelay, RepeatInterval} \subseteq Nat \ {0}
  /\ {MaxWaiting, Jitter} \subseteq Nat
  /\ \A s \in Setups : /\ s.until \in Nat /\ s.presses \in Nat
                       /\ s.bindings \subseteq {"start", "toggle"}
                       /\ s.extras \subseteq ExtraKinds
                       /\ s.paired \in BOOLEAN
                       /\ s.silence \subseteq Nat /\ Cardinality(s.silence) <= 1

VARIABLES
  setup,     \* of Setups; it does not change
  now,
  key,       \* the physical key: [down, since, binding, repeatAt, presses]
  extras,    \* of setup.extras, what has not happened yet
  ups,       \* when the key came up, so far
  clients,   \* client processes spawned and not read yet
  stamped,   \* what the control thread read and has not queued: at most one
  channel,   \* the mpsc channel from the control thread to the loop
  early,     \* Requests::early
  drain,     \* Requests::drain: "clock", "request" or "done"
  read,      \* Requests::next's local `now`, between its read and its use
  state,     \* Session::state
  last,      \* the last step of the state machine: event, before, command
  released   \* the release that ended the last capture, if one did

keyboard == <<key, ups, clients>>
control == <<stamped, channel>>
loop == <<early, drain, read>>
machine == <<state, last, released>>
vars == <<setup, now, extras, keyboard, control, loop, machine>>

None == {}
Requests == {"start", "stop", "toggle", "cancel"}
Origins == {"press", "repeat", "release", "other"}
Client == [request : Requests, origin : Origins, born : Nat]
Spawned(request, origin) ==
  [request |-> request, origin |-> origin, born |-> now]

Init ==
  /\ setup \in Setups
  /\ now = 0
  /\ key = [down |-> FALSE, since |-> 0, binding |-> "start", repeatAt |-> 0,
            presses |-> 0]
  /\ extras = setup.extras
  /\ ups = {}
  /\ clients = {}
  /\ stamped = None
  /\ channel = <<>>
  /\ early = <<>>
  /\ drain = "clock"
  /\ read = None
  /\ state = Idle
  /\ last = [event |-> "none", origin |-> "other", at |-> 0,
             before |-> Idle, command |-> Nothing]
  /\ released = None

-----------------------------------------------------------------------------
(* The keyboard and the window manager's bindings (external).  Pressing the
   key alone fires `start`, Shift and the key fire `toggle`, and so do the
   repeats from the moment Shift joins a key that is held. *)

Press(binding) ==
  /\ ~key.down /\ key.presses < setup.presses /\ now \notin ups
  /\ key' = [down |-> TRUE, since |-> now, binding |-> binding,
             repeatAt |-> now + RepeatDelay, presses |-> key.presses + 1]
  /\ clients' = clients \cup {Spawned(binding, "press")}
  /\ UNCHANGED <<setup, now, extras, ups, control, loop, machine>>

Shift ==
  /\ key.down /\ key.binding = "start" /\ "shift" \in extras
  /\ key' = [key EXCEPT !.binding = "toggle"]
  /\ extras' = extras \ {"shift"}
  /\ UNCHANGED <<setup, now, ups, clients, control, loop, machine>>

Repeat ==
  /\ key.down /\ now = key.repeatAt
  /\ key' = [key EXCEPT !.repeatAt = now + RepeatInterval]
  /\ clients' = clients \cup {Spawned(key.binding, "repeat")}
                        \cup (IF setup.paired THEN {Spawned("stop", "repeat")} ELSE {})
  /\ UNCHANGED <<setup, now, extras, ups, control, loop, machine>>

Release ==
  /\ key.down
  /\ now > key.since
  /\ key' = [key EXCEPT !.down = FALSE]
  /\ ups' = ups \cup {now}
  /\ clients' = clients \cup {Spawned("stop", "release")}
  /\ UNCHANGED <<setup, now, extras, control, loop, machine>>

CancelBinding ==
  /\ "cancel" \in extras
  /\ extras' = extras \ {"cancel"}
  /\ clients' = clients \cup {Spawned("cancel", "other")}
  /\ UNCHANGED <<setup, now, key, ups, control, loop, machine>>

Overdue == \/ \E c \in clients : now >= c.born + Jitter
           \/ key.down /\ now = key.repeatAt

Tick ==
  /\ now < setup.until
  /\ ~Overdue
  /\ now' = now + 1
  /\ UNCHANGED <<setup, extras, keyboard, control, loop, machine>>

-----------------------------------------------------------------------------
(* The control thread: `answer` reads a connection, stamps it, queues it. *)

(* Whether client c may be read before the others in flight: the processes
   of one instant are read in any order, but for a release's behind those of
   the repeat that fired with it. *)
MayBeRead(c) ==
  \A d \in clients \ {c} :
    \/ c.born < d.born
    \/ c.born = d.born /\ (c.origin # "release" \/ d.origin # "repeat")

Stamp(c) == [request |-> c.request, origin |-> c.origin, at |-> now]

Answer(c) ==
  /\ stamped = None /\ Len(channel) + Len(early) < MaxWaiting
  /\ MayBeRead(c)
  /\ clients' = clients \ {c}
  /\ \/ channel' = Append(channel, Stamp(c)) /\ UNCHANGED <<stamped, extras>>
     \/ /\ "preempted" \in extras /\ extras' = extras \ {"preempted"}
        /\ stamped' = {Stamp(c)} /\ UNCHANGED channel
  /\ UNCHANGED <<setup, now, key, ups, loop, machine>>

(* The thread was preempted between the stamp and the queue. *)
Send ==
  /\ \E r \in stamped : channel' = Append(channel, r)
  /\ stamped' = None
  /\ UNCHANGED <<setup, now, extras, keyboard, loop, machine>>

-----------------------------------------------------------------------------
(* The loop.  Requests::next hands out events one at a time and the session
   steps on each; a call reads the channel only when `early` is empty. *)

Waiting == early \o channel

(* What `receive` moves into `early` before the head is looked at. *)
Receive == IF early = <<>> /\ channel # <<>>
             THEN <<<<Head(channel)>>, Tail(channel)>>
             ELSE <<early, channel>>

Took(event, origin, at, result) ==
  /\ state' = result.state
  /\ last' = [event |-> event, origin |-> origin, at |-> at,
              before |-> state, command |-> result.command]
  /\ released' = IF result.command.command \notin {"decode", "discard"}
                   THEN released
                   ELSE {r \in {state.at} : event = "clock"
                                            /\ state.hold = "releasing"
                                            /\ WindowPassed(state, at)}

(* next(): the clock at the head request's stamp. *)
ClockAtHead ==
  /\ read = None /\ Waiting # <<>> /\ drain # "request"
  /\ early' = Receive[1] /\ channel' = Receive[2]
  /\ drain' = "request"
  /\ LET at == Head(Waiting).at
     IN  Took("clock", "other", at, OnClock(state, at, setup.silence))
  /\ UNCHANGED <<setup, now, extras, keyboard, stamped, read>>

(* next(): the head request itself. *)
TakeRequest ==
  /\ read = None /\ Waiting # <<>> /\ drain = "request"
  /\ LET r == Head(Waiting)
     IN  Took(r.request, r.origin, r.at, OnRequest(state, r.request, r.at))
  /\ early' = Tail(Receive[1]) /\ channel' = Receive[2]
  /\ drain' = "clock"
  /\ UNCHANGED <<setup, now, extras, keyboard, stamped, read>>

(* next(): nothing waited, so the time is read; what arrived by the time
   the channel is looked at again goes first. *)
ReadClock ==
  /\ read = None /\ early = <<>> /\ drain # "done"
  /\ read' = {now}
  /\ UNCHANGED <<setup, now, extras, keyboard, control, early, drain, machine>>

(* Variant: the channel is not looked at again. *)
ClockAtOnce ==
  /\ \E at \in read : Took("clock", "other", at, OnClock(state, at, setup.silence))
  /\ read' = None /\ drain' = "done"
  /\ UNCHANGED <<setup, now, extras, keyboard, control, early>>

ClockAtNow ==
  /\ \E at \in read :
       IF channel # <<>>
         THEN LET head == Head(channel).at
              IN  /\ early' = <<Head(channel)>> /\ channel' = Tail(channel)
                  /\ drain' = "request"
                  /\ Took("clock", "other", head, OnClock(state, head, setup.silence))
         ELSE /\ drain' = "done"
              /\ Took("clock", "other", at, OnClock(state, at, setup.silence))
              /\ UNCHANGED <<early, channel>>
  /\ read' = None
  /\ UNCHANGED <<setup, now, extras, keyboard, stamped>>

(* next(): None, and the rest of the pass; the next call begins a drain. *)
EndDrain ==
  /\ read = None /\ Waiting = <<>> /\ drain = "done"
  /\ drain' = "clock"
  /\ UNCHANGED <<setup, now, extras, keyboard, control, early, read, machine>>

(* start_waiting, inside a post-roll, and wait, between two passes. *)
Gather ==
  /\ "gather" \in extras /\ read = None /\ channel # <<>>
  /\ early' = early \o channel /\ channel' = <<>>
  /\ UNCHANGED <<setup, now, extras, keyboard, stamped, drain, read, machine>>

(* What reaches the session between two drains: text from the recognizer,
   the in-memory ceiling, the end of the decode.  Each bears the time the
   loop reads then. *)
Between == read = None /\ drain # "done"

Speech ==
  /\ Between /\ "speech" \in extras /\ IsRecording(state)
  /\ Took("speech", "other", now, OnSpeech(state, now))
  /\ extras' = extras \ {"speech"}
  /\ UNCHANGED <<setup, now, keyboard, control, loop>>

Ceiling ==
  /\ Between /\ "ceiling" \in extras /\ IsRecording(state)
  /\ Took("exhausted", "other", now, OnExhausted(state, now))
  /\ extras' = extras \ {"ceiling"}
  /\ UNCHANGED <<setup, now, keyboard, control, loop>>

(* The editor thread stamped the closing of its window at some time before. *)
WindowClosed(at) ==
  /\ Between /\ "close" \in extras /\ IsRecording(state)
  /\ Took("closed", "other", at, OnWindowClosed(state, at))
  /\ extras' = extras \ {"close"}
  /\ UNCHANGED <<setup, now, keyboard, control, loop>>

Finished ==
  /\ Between /\ state = Transcribing
  /\ Took("finished", "other", now, OnFinished(state))
  /\ UNCHANGED <<setup, now, extras, keyboard, control, loop>>

Keyboard == \/ \E b \in setup.bindings : Press(b)
            \/ Shift \/ Repeat \/ Release \/ CancelBinding \/ Tick
ControlThread == (\E c \in clients : Answer(c)) \/ Send
Loop == \/ ClockAtHead \/ TakeRequest \/ ReadClock \/ ClockAtNow \/ EndDrain
        \/ Gather \/ Speech \/ Ceiling \/ Finished
        \/ \E at \in 0..now : WindowClosed(at)

Next == Keyboard \/ ControlThread \/ Loop

Spec == Init /\ [][Next]_vars

-----------------------------------------------------------------------------
(* Properties. *)

EndedByKey == \/ last.command = Discard("tooshort")
              \/ last.command.command = "decode"
                   /\ last.command.cause = "keypress"

(* A capture the push-to-talk key holds ends by a release only where the key
   came up: no auto-repeat, however its processes are reordered, reads as
   one, and the release it is dated to is within a repeat of the real one. *)
ReleaseWasReal ==
  EndedByKey /\ last.event = "clock" =>
    \E u \in ups : /\ last.before.at <= u + Jitter
                   /\ u <= last.before.at + RepeatInterval + Jitter

(* A press stamped inside the repeat window of a release continues the
   capture: it never finds that release already taken for the end, unless
   the control thread was preempted with a stamped request in its hand. *)
PressInWindowContinues ==
  last.command = StartCommand /\ ("preempted" \in setup.extras => "preempted" \in extras) =>
    \A r \in released : last.at > r + REPEAT_WINDOW

(* Only a press of its own ends a latched capture by key: neither the
   auto-repeat of the press that latched it nor a stray stop does. *)
LatchEndsByPress ==
  EndedByKey /\ last.before.hold = "latched" => last.origin = "press"

(* The silence timeout never ends a capture whose key is held down, however
   late the loop is: the repeats that say so were read first. *)
SilenceSparesHeldKey ==
  (/\ last.command.command = "decode"
   /\ last.command.cause = "silence"
   /\ key.down)
  => last.at <= key.since + Jitter

(* Once every process of the key was read and every request taken, a capture
   is held only by a key that is down: a release always ends what it held. *)
HeldMeansKeyDown ==
  IsRecording(state) /\ state.hold = "held"
    /\ clients = {} /\ stamped = None /\ Waiting = <<>>
  => key.down

(* A latched capture is never thrown away as a stray tap. *)
LatchIsNoTap == last.command = Discard("tooshort") => last.before.hold # "latched"
=============================================================================
