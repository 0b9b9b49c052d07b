CONSTANTS
  Chars <- AllChars
  Connectors <- ThreeNames
  Lower <- LowerCase
  Globs <- MixedGlobs
  ToolNames <- Names
  RuleLists <- OneOrMoreRules
  MaxGlob = 4
  MaxName = 3
  MaxRules = 2
SPECIFICATION Spec
CHECK_DEADLOCK FALSE
INVARIANTS
  TypeOK
  CursorInv
  AnswerIsStrictest
PROPERTIES
  Terminates
