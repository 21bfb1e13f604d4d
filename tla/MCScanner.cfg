SPECIFICATION Spec
CONSTANTS
  Texts <- MCTexts
  Letter <- MCLetter
  Keyword <- MCKeyword
  IntMax = 11
  LongMaxes <- MCLongMaxes
INVARIANTS
  TypeOK
  LocationFollowsText
  NumbersAreExact
  LexemesAreWhole
CHECK_DEADLOCK FALSE
