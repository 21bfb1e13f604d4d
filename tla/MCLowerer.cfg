SPECIFICATION FairSpec
CONSTANTS
  Ident <- Names
  Node <- AllNodes
  Units <- AllPrograms
  MaxLiteral = 7
  Half <- SmallHalf
  Undef = Undef
  LlvmAsserts = TRUE
INVARIANTS
  TypeOK
  IInv
  AccessesGoToSlots
  WriteIntIsDeclared
  VerdictAsSpecified
  ValuesComputedBeforeUse
  ValuesUsedExactlyOnce
PROPERTIES
  DeclarationsAndCodeAreFinal
  WalkEnds
CHECK_DEADLOCK FALSE
