CONSTANTS
  Chars <- MCChars
  Sep = " "
  MaxLen = 5

SPECIFICATION Spec

\* The line generator stops at MaxLen characters.
CHECK_DEADLOCK FALSE

INVARIANT
  SplitAsSpecified
