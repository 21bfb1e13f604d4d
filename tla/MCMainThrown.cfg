\* What the parser throws is not shown.
CONSTANTS
  File <- MCFile
  Args <- MCArgs
  MaxArgs = 1
SPECIFICATION Spec
CHECK_DEADLOCK FALSE
INVARIANT ThrownIsShown
