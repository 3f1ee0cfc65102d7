SPECIFICATION SpecConfig
CONSTANTS
  None = None
  e1 = e1
  e2 = e2
  Editor = {e1, e2}
  Texts <- AllTexts
  Default <- MCDefault
  Onward = FALSE
  Uses = {"b", "nobody"}
  Sets <- SetTwo
  Kill = TRUE
SYMMETRY EditorSymmetry
INVARIANTS
  ConnectionsKept
PROPERTIES
  SetTouchesOnlyNamed
  EditTakesEffect
  NoLostUpdate
