\* Orderly stops, crashes and starts, with decodes, lists and recordings failing.
CONSTANTS
  MaxCaptures = 2
  MaxFrames = 2
  Preroll = 0
  Speech = {1}
  MaxBoots = 2
  Faults <- StopFaults
SPECIFICATION Spec
CHECK_DEADLOCK FALSE
INVARIANTS
  WrittenOnce NoWordIsLost ListedTextIsWritten OwedSurvivesCrash
