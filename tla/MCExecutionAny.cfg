SPECIFICATION ExecSpec
CONSTANTS
  Ident <- Names
  Node <- AnyNodes
  Units <- AnyPrograms
  MaxLiteral = 7
  Half <- SmallHalf
  Undef = Undef
  LlvmAsserts = FALSE
INVARIANTS
  ExecTypeOK
  OperandsReady
PROPERTIES
  ProcessEnds
  RunsAsWritten
CHECK_DEADLOCK FALSE
