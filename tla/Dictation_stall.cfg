\* A pass that outlasts the tick interval.
CONSTANTS
  MaxCaptures = 2
  MaxFrames = 2
  Preroll = 1
  Speech = {1, 2}
  MaxBoots = 1
  Faults <- StallFaults
SPECIFICATION Spec
CHECK_DEADLOCK FALSE
INVARIANT WrittenOnce
