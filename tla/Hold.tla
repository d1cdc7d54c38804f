-------------------------------- MODULE Hold --------------------------------
(***************************************************************************)
(* The capture state machine, core/state.rs: the pure function `step` from *)
(* a state and an event to a state and a command.  Instants and durations  *)
(* are natural numbers of one unit of time; wall-clock headings are left   *)
(* out, since nothing here reads them.                                     *)
(*                                                                         *)
(* A definition under "Variant:" is not the code's: it is the one after it *)
(* with a mistake, kept to show that the properties notice.                *)
(***************************************************************************)
EXTENDS Naturals

CONSTANTS MINIMUM_HOLD,    \* a key end below this is a stray tap
          REPEAT_WINDOW,   \* how long a stop stays revocable
          KEY_SETTLED,     \* how long after a press a latch has no key down
          MAX_CAPTURE      \* the longest capture

DurationsAssumption ==
  /\ {MINIMUM_HOLD, REPEAT_WINDOW, KEY_SETTLED, MAX_CAPTURE} \subseteq Nat \ {0}
  /\ MINIMUM_HOLD <= REPEAT_WINDOW
  /\ REPEAT_WINDOW < KEY_SETTLED
  /\ KEY_SETTLED < MAX_CAPTURE

Holds == {"held", "releasing", "latched"}
Causes == {"keypress", "silence", "length", "memory"}

(* `at` is Releasing's `at` or Latched's `last_press`; 0 where the code has
   no such field. *)
Idle == [phase |-> "idle"]
Transcribing == [phase |-> "transcribing"]
Recording(started, lastSpeech, hold, at) ==
  [phase |-> "recording", started |-> started, lastSpeech |-> lastSpeech,
   hold |-> hold, at |-> at]

IsRecording(s) == s.phase = "recording"
Nothing == [command |-> "nothing"]
StartCommand == [command |-> "start"]
Discard(reason) == [command |-> "discard", reason |-> reason]
Decode(released, held, cause) ==
  [command |-> "decode", released |-> released, held |-> held, cause |-> cause]

Command == {Nothing, StartCommand}
           \cup [command : {"discard"},
                 reason : {"tooshort", "cancelled", "windowclosed"}]
           \cup [command : {"decode"}, released : Nat, held : Nat,
                 cause : Causes]

Result(state, command) == [state |-> state, command |-> command]

(* Instant::saturating_duration_since *)
Since(a, b) == IF a >= b THEN a - b ELSE 0

Begin(at, hold) ==
  Result(Recording(at, at, hold, IF hold = "latched" THEN at ELSE 0),
         StartCommand)

End(started, released, cause) ==
  IF cause = "keypress" /\ Since(released, started) < MINIMUM_HOLD
    THEN Result(Idle, Discard("tooshort"))
    ELSE Result(Transcribing,
                Decode(released, Since(released, started), cause))

Holding(s, hold, at) ==
  Result(Recording(s.started, s.lastSpeech, hold, at), Nothing)

OnRequestAtRest(s, request, at) ==
  CASE request = "start"  -> Begin(at, "held")
    [] request = "toggle" -> Begin(at, "latched")
    [] OTHER              -> Result(s, Nothing)

OnPressWhileLatched(s, at) ==
  IF Since(at, s.at) <= REPEAT_WINDOW
    THEN Holding(s, "latched", at)
    ELSE End(s.started, at, "keypress")

OnRequestRecording(s, request, at) ==
  CASE request = "cancel" -> Result(Idle, Discard("cancelled"))
    [] s.hold = "held" /\ request = "stop" -> Holding(s, "releasing", at)
    [] s.hold = "releasing" /\ request = "start" -> Holding(s, "held", 0)
    [] s.hold # "latched" /\ request = "toggle" -> Holding(s, "latched", at)
    [] s.hold = "latched" /\ request \in {"start", "toggle"} -> OnPressWhileLatched(s, at)
    [] OTHER -> Result(s, Nothing)

OnRequest(s, request, at) ==
  IF IsRecording(s) THEN OnRequestRecording(s, request, at)
                    ELSE OnRequestAtRest(s, request, at)

(* Variant: a stop ends the capture at the next clock. *)
AnyStopEnds(s, now) == s.hold = "releasing" /\ Since(now, s.at) >= 0

WindowPassed(s, now) ==
  s.hold = "releasing" /\ Since(now, s.at) > REPEAT_WINDOW

(* Variant: a latch is never taken for a held key. *)
FellSilentHeld(s, now, silence) ==
  /\ s.hold = "latched"
  /\ \E q \in silence : Since(now, s.lastSpeech) >= q

(* `silence` is the set of the timeout: empty for the code's None. *)
FellSilent(s, now, silence) ==
  /\ s.hold = "latched"
  /\ Since(now, s.at) >= KEY_SETTLED
  /\ \E q \in silence : Since(now, s.lastSpeech) >= q

OnClock(s, now, silence) ==
  IF ~IsRecording(s) THEN Result(s, Nothing)
  ELSE IF WindowPassed(s, now) THEN End(s.started, s.at, "keypress")
  ELSE IF Since(now, s.started) >= MAX_CAPTURE THEN End(s.started, now, "length")
  ELSE IF FellSilent(s, now, silence) THEN End(s.started, now, "silence")
  ELSE Result(s, Nothing)

OnSpeech(s, at) ==
  IF IsRecording(s) /\ at > s.lastSpeech
    THEN Result([s EXCEPT !.lastSpeech = at], Nothing)
    ELSE Result(s, Nothing)

OnExhausted(s, at) ==
  IF IsRecording(s) THEN End(s.started, at, "memory") ELSE Result(s, Nothing)

OnWindowClosed(s, at) ==
  IF IsRecording(s) /\ at >= s.started
    THEN Result(Idle, Discard("windowclosed"))
    ELSE Result(s, Nothing)

OnFinished(s) ==
  Result(IF s = Transcribing THEN Idle ELSE s, Nothing)
=============================================================================
