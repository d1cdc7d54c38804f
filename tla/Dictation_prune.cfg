\* Recordings are pruned while an older capture decodes.
CONSTANTS
  MaxCaptures = 2
  MaxFrames = 2
  Preroll = 0
  Speech = {1, 2}
  MaxBoots = 1
  Faults <- PruneFaults
SPECIFICATION Spec
CHECK_DEADLOCK FALSE
INVARIANT RetryHasItsWav
