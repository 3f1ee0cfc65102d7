SPECIFICATION Spec
CONSTANTS
  c1 = c1
  c2 = c2
  none = none
  inCells = inCells
  inNames = inNames
  Conn = {c1, c2}
  Default = c1
  Blank = Blank
  Query = {"q"}
  Rows <- MCRows
  Cols <- MCCols
  Text = {none, inCells, inNames}
  Empty = none
  Hits <- MCHits
  PageRows = 2
  MaxHistory = 1
  Faults = {}
  None = None
INVARIANTS
  TypeOK
  CursorInGrid
  MatchesCurrent
  PanelOfResult
PROPERTIES
  NewestShown
  EveryRunEnds
