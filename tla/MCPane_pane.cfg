\* Two monitors, a grid of two rows and one column, one text in the cells,
\* three characters of two pages and two fonts, three presses.
CONSTANTS
  BaseDpi = 2
  GapPixels = 1
  FramePixels = 2
  MarginPixels = 1
  Desktops <- SomeDesktops
  Frames <- SomeFrames
  Pointers <- Everywhere
  MaxOpens = 2
  MaxChanges = 1
  GridRows = 2
  GridColumns = 1
  Texts <- OneText
  MostCells = 6
  MaxCharacter = 3
  Fonts = {"f", "g"}
  Budget = 1
  MaxCost = 1
  MaxPresses = 3
  HasCompose = TRUE
SPECIFICATION Spec
CHECK_DEADLOCK FALSE
INVARIANTS
  FocusIsLeft GapIsKept ShownOrPending Converges ReadAsPressed LandsAsShown
PROPERTIES
  WindowServesItsUser
