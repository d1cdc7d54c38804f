\* The daemon is killed with text still queued for the editor.
CONSTANTS
  MaxCaptures = 2
  MaxFrames = 2
  Preroll = 0
  Speech = {1, 2}
  MaxBoots = 1
  Faults <- CrashFaults
SPECIFICATION Spec
CHECK_DEADLOCK FALSE
INVARIANT ListIsNotAhead
