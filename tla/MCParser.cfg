SPECIFICATION FairSpec
CONSTANTS
  Ident <- Names
  Node <- ParserNodes
  Units <- ParserPrograms
  MaxLiteral = 7
  Texts <- MCTexts
  Sentences <- SentencesHere
  EndsOpen <- EndsOpenHere
  ParameterLists <- ParameterListsHere
INVARIANTS
  TypeOK
  ParsedAsWritten
  ErrorsAreJust
PROPERTIES
  ParserEnds
CHECK_DEADLOCK FALSE
