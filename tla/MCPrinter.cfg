SPECIFICATION Spec
CONSTANTS
  Ident <- Names
  Node <- PrinterNodes
  Units <- PrinterPrograms
  MaxLiteral = 7
INVARIANTS
  TypeOK
  DepthIsNesting
  DumpCanBeRead
CHECK_DEADLOCK FALSE
