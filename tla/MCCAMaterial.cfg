\* CACert, CAKey and DHGroupParams lines in the global scope and in blocks,
\* up to 5 lines and 2 listeners.
CONSTANTS
  Files <- MCFiles
  Holds <- MCHolds
  None = None
  MaxListeners = 2
  MaxLines = 5
SPECIFICATION Spec
\* Loading ends with "ok" or "error".
CHECK_DEADLOCK FALSE
INVARIANT TypeOK
INVARIANT RefcountsMatchHolders
