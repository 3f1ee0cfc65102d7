SPECIFICATION SpecConfig
CONSTANTS
  None = None
  e1 = e1
  e2 = e2
  Editor = {e1}
  Texts <- PlainTexts
  Default <- MCDefault
  Onward = FALSE
  Uses = {}
  Sets <- SetAbsent
  Kill = FALSE
PROPERTIES
  AlwaysTakesEffect
