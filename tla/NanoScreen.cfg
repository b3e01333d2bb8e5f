CONSTANTS
  Values <- MCValues
  Titles <- MCTitles
  VALUE_LINES = 3
  WINDOW = 6
  SPACE = 0
  BREAK <- Newline
SPECIFICATION Spec
INVARIANTS
  NothingHidden
  TitleIsWhole
  NoTrailingSpace
PROPERTY LayoutEnds
CHECK_DEADLOCK FALSE
