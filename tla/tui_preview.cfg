SPECIFICATION Spec
CONSTANTS
  none = none
  inCells = inCells
  inHeaders = inHeaders
  NumRows = 4
  Source <- MixedSource
  Width <- MixedWidth
  CellLen <- MixedLen
  JsonLines <- MixedJson
  WantedLists <- ReorderedOnly
  Text = {none}
  NoText = none
  Hits <- MCHits
  Widths = {24, 60}
  Heights = {4, 7}
  Far = 4
INVARIANTS
  PreviewShowsCell
CHECK_DEADLOCK FALSE
