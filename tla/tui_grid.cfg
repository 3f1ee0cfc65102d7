SPECIFICATION Spec
CONSTANTS
  none = none
  inCells = inCells
  inHeaders = inHeaders
  NumRows = 4
  Source <- MixedSource
  Width <- MixedWidth
  CellLen <- MixedLen
  JsonLines <- MixedJson
  WantedLists <- Reordered
  Text = {none, inCells, inHeaders}
  NoText = none
  Hits <- MCHits
  Widths = {26, 60}
  Heights = {1, 4, 7}
  Far = 4
INVARIANTS
  TypeOK
  NoPanic
  CursorInGrid
  MatchIsCurrent
PROPERTIES
  KeyShowsCursorRow
  KeyShowsCursorCol
CHECK_DEADLOCK FALSE
