SPECIFICATION Spec
CONSTANTS
  None = None
  c1 = c1
  c2 = c2
  s1 = s1
  e1 = e1
  Texts <- Full
  Default <- MCDefault
  Onward = FALSE
  Sets <- SetProvider
  Uses = {}
  Kill = FALSE
  Names = {"a", "b", "nobody"}
  Editor = {e1}
  Command = {c1}
  Slot = {s1}
  Flags <- OnlyNoFlags
  Env <- DatabaseEnv
  Modes = {"cached", "refresh", "nocache"}
  Query = {"q"}
INVARIANTS
  FlowTypeOK
  AnswerFromTarget
  CacheMatchesConfig
