SPECIFICATION Spec
CONSTANTS
  None = None
  c1 = c1
  c2 = c2
  s1 = s1
  e1 = e1
  Texts <- OneKusto
  Default <- MCDefault
  Onward = FALSE
  Sets <- SetDatabase
  Uses = {}
  Kill = FALSE
  Names = {"a"}
  Editor = {e1}
  Command = {c1}
  Slot = {}
  Flags <- OnlyNoFlags
  Env <- NoEnv
  Modes = {"cached"}
  Query = {"q"}
INVARIANTS
  CacheMatchesConfig
