SPECIFICATION Spec
CONSTANTS
  None = None
  c1 = c1
  c2 = c2
  s1 = s1
  e1 = e1
  Texts <- NoDatabase
  Default <- MCDefault
  Onward = FALSE
  Sets <- NoSets
  Uses = {}
  Kill = FALSE
  Names = {"a"}
  Editor = {}
  Command = {c1}
  Slot = {s1}
  Flags <- OnlyNoFlags
  Env <- DatabaseEnv
  Modes = {"cached"}
  Query = {"q"}
INVARIANTS
  AnswerFromTarget
