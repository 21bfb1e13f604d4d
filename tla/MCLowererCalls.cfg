SPECIFICATION Spec
CONSTANTS
  Ident <- Names
  Node <- StmtNodes
  Units <- StmtPrograms
  MaxLiteral = 7
  Half <- SmallHalf
  Undef = Undef
  LlvmAsserts = TRUE
INVARIANTS
  OnlyWriteIntIsCalled
CHECK_DEADLOCK FALSE
