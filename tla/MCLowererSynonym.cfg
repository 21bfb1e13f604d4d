SPECIFICATION Spec
CONSTANTS
  Ident <- Names
  Node <- SynonymNodes
  Units <- SynonymPrograms
  MaxLiteral = 7
  Half <- SmallHalf
  Undef = Undef
  LlvmAsserts = TRUE
INVARIANTS
  SynonymsAreExpanded
CHECK_DEADLOCK FALSE
