\* Three characters on two pages, two fonts that may have any of them.
CONSTANTS
  MaxCharacter = 3
  Fonts = {"f", "g"}
  Budget = 1
  MaxCost = 1
SPECIFICATION Spec
CHECK_DEADLOCK FALSE
INVARIANT BlankIfNoFontHasIt
