SPECIFICATION Spec
CONSTANTS
  Ident <- Names
  Node <- ExprNodes
  Units <- ExprPrograms
  MaxLiteral = 7
  Half <- SmallHalf
  Undef = Undef
  LlvmAsserts = TRUE
INVARIANTS
  AdditionOnlyOfNumbers
CHECK_DEADLOCK FALSE
