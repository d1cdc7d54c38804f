\* Four desktops, of one or two presses with what else can happen (Desktops); two
\* clients and three daemons, of which the unit starts one.
CONSTANTS
  MINIMUM_HOLD = 1
  REPEAT_WINDOW = 3
  KEY_SETTLED = 5
  MAX_CAPTURE = 7
  Setups <- Desktops
  MaxWaiting = 2
  RepeatDelay = 2
  RepeatInterval = 2
  Jitter = 1
  Starts = {"press"}
  Stops = {"stop"}
  MaxDaemons = 3
  Activations = 1
  MaxEnds = 2
SPECIFICATION Spec
CHECK_DEADLOCK FALSE
INVARIANTS
  KeyEndsAreReal PressInWindowContinues SilenceSparesHeldKey
  OncePerPress ServedWhereConnected
