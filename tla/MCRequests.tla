----------------------------- MODULE MCRequests ------------------------------
(****************************************************************************)
(* How a key press becomes a capture, on small instances: the processes of  *)
(* a key and the capture state machine (PushToTalk), and how a press        *)
(* reaches a daemon at all (Control). They meet only in the request itself, *)
(* so a behaviour is of one of them.                                        *)
(****************************************************************************)
EXTENDS Integers, Sequences, FiniteSets

CONSTANTS
  MINIMUM_HOLD, REPEAT_WINDOW, KEY_SETTLED, MAX_CAPTURE, \* PushToTalk
  Setups, MaxWaiting, RepeatDelay, RepeatInterval, Jitter,
  Starts, Stops, MaxDaemons, Activations, MaxEnds        \* Control

Given(until, presses, bindings, besides, paired, silence) ==
  [until |-> until, presses |-> presses, bindings |-> bindings,
   extras |-> besides, paired |-> paired, silence |-> silence]

(* X11 without detectable auto-repeat; i3 with Shift; and one press with
   everything else that reaches the session. *)
Desktops ==
  {Given(8, 2, {"start"}, {}, TRUE, {}),
   Given(7, 2, {"start", "toggle"}, {"shift"}, FALSE, {5}),
   Given(4, 1, {"toggle"}, {"speech", "gather", "close", "preempted"}, FALSE, {3}),
   Given(4, 1, {"start"}, {"cancel", "ceiling"}, FALSE, {})}

VARIABLES
  component, \* which of them this behaviour is of; it does not change
  setup, now, key, extras, ups, clients, stamped,        \* PushToTalk
  channel, early, drain, read, state, last, released,
  client, unit, path, queue, lock, daemon, taken,        \* Control
  ends, robbed

K == INSTANCE PushToTalk
C == INSTANCE Control

keyVars == <<setup, now, key, extras, ups, clients, stamped, channel, early,
  drain, read, state, last, released>>
socketVars == <<client, unit, path, queue, lock, daemon, taken, ends, robbed>>

ASSUME RequestsAssumption ==
  K!DurationsAssumption /\ K!KeyboardAssumption /\ C!ControlAssumption

(* The variables of the others are not used. *)
NoKey == setup = 0 /\ now = 0 /\ key = 0 /\ extras = 0 /\ ups = 0 /\
  clients = 0 /\ stamped = 0 /\ channel = 0 /\ early = 0 /\ drain = 0 /\
  read = 0 /\ state = 0 /\ last = 0 /\ released = 0
NoSocket == client = 0 /\ unit = 0 /\ path = 0 /\ queue = 0 /\ lock = 0 /\
  daemon = 0 /\ taken = 0 /\ ends = 0 /\ robbed = 0

Init ==
  \/ component = "key" /\ K!Init /\ NoSocket
  \/ component = "socket" /\ C!Init /\ NoKey

Next ==
  \/ component = "key" /\ K!Next /\ UNCHANGED <<component, socketVars>>
  \/ component = "socket" /\ C!Next /\ UNCHANGED <<component, keyVars>>

vars == <<component, keyVars, socketVars>>

Spec == Init /\ [][Next]_vars

-----------------------------------------------------------------------------
(* A release that ends a capture was one: no auto-repeat reads as the key's
   release, in whatever order its processes come, and every release is
   noticed; only a press of its own ends a latched capture, and none is thrown
   away as a tap (core/state.rs). *)
KeyEndsAreReal ==
  component = "key" => /\ K!ReleaseWasReal /\ K!HeldMeansKeyDown
                       /\ K!LatchEndsByPress /\ K!LatchIsNoTap

(* A press within the repeat window of a release continues the capture
   (`Requests::next` looks at the channel again after it read the time). *)
PressInWindowContinues == component = "key" => K!PressInWindowContinues

(* The silence timeout never ends a capture whose key is down. *)
SilenceSparesHeldKey == component = "key" => K!SilenceSparesHeldKey

(* A press reaches a loop at most once, and one told so did. *)
OncePerPress == component = "socket" => C!OncePerPress

(* The socket file leads to the daemon that serves, or to the unit, and no
   press makes the unit fail. *)
ServedWhereConnected ==
  component = "socket" => C!ServedWhereConnected /\ C!UnitSurvives
=============================================================================
