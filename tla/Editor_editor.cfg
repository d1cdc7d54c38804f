CONSTANTS
  MaxFiles = 4
  MaxEditors = 3
  Modes <- BothModes
  Scripts <- TwoUtterances
  Faults <- AllFaults
SPECIFICATION Spec
CHECK_DEADLOCK FALSE
INVARIANTS
  TextLands InOrderOnce NotBehind
PROPERTIES
  UserCloseHolds PreviewIsTrue
