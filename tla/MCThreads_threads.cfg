\* A daemon and a command over two files of two blocks.
CONSTANTS
  Loaders <- Daemons
  Fetchers <- Commands
  Files = 2
  Size = 2
  MaxFaults = 3
  MaxStarts = 3
SPECIFICATION Spec
CHECK_DEADLOCK FALSE
INVARIANTS
  CutAsWhole PaneEndsWell
PROPERTIES
  OnlyVerifiedLands LoadSettles NothingLeftBehind
