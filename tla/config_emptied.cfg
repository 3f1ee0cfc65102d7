SPECIFICATION SpecConfig
CONSTANTS
  None = None
  e1 = e1
  e2 = e2
  Editor = {e1, e2}
  Texts <- PlainTexts
  Default <- MCDefault
  Onward = FALSE
  Uses = {"b"}
  Sets <- SetTwo
  Kill = FALSE
PROPERTIES
  NeverEmptied
