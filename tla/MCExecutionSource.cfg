SPECIFICATION ExecSpec
CONSTANTS
  Ident <- Names
  Node <- SourceNodes
  Units <- SourcePrograms
  MaxLiteral = 7
  Half <- SmallHalf
  Undef = Undef
  LlvmAsserts = TRUE
PROPERTIES
  ImplementsPascal
CHECK_DEADLOCK FALSE
