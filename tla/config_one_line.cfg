SPECIFICATION SpecConfig
CONSTANTS
  None = None
  e1 = e1
  e2 = e2
  Editor = {e1}
  Texts <- OneLiners
  Default <- MCDefault
  Onward = FALSE
  Uses = {}
  Sets <- SetOneLine
  Kill = FALSE
PROPERTIES
  SetTouchesOnlyNamed
