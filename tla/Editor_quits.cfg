CONSTANTS
  MaxFiles = 4
  MaxEditors = 3
  Modes <- BothModes
  Scripts <- AndAnotherPress
  Faults <- OneFault
SPECIFICATION Spec
CHECK_DEADLOCK FALSE
PROPERTIES
  QuitEnds Delivers
