SPECIFICATION Spec
CONSTANTS
  Ident <- Names
  Node <- PrinterNodes
  Units <- PrinterPrograms
  MaxLiteral = 7
INVARIANTS
  DirectionIsKnown
CHECK_DEADLOCK FALSE
