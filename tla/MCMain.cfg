\* Every command line of up to four arguments, over every state of a file
\* and of standard input.
CONSTANTS
  File <- MCFile
  Args <- MCArgs
  MaxArgs = 4
SPECIFICATION Spec
CHECK_DEADLOCK FALSE
INVARIANTS
  TypeOK
  StatusAsPromised
  FirstFileIsRead
  StagesInOrder
PROPERTY MainEnds
