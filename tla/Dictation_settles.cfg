\* Every release ends and every recording is settled, whatever fails or stalls.
CONSTANTS
  MaxCaptures = 2
  MaxFrames = 2
  Preroll = 1
  Speech = {2}
  MaxBoots = 1
  Faults <- SettlingFaults
SPECIFICATION FairSpec
CHECK_DEADLOCK FALSE
INVARIANTS
  TypeOK TextInOrder NothingToDrop LiveIffTicking
PROPERTIES
  ReleaseEnds KeptIsSettled
