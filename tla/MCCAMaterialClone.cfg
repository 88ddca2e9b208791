\* A listener declared after the global CA lines gets the same CA material.
CONSTANTS
  Files <- MCFiles
  Holds <- MCHolds
  None = None
  MaxListeners = 1
  MaxLines = 3
SPECIFICATION Spec
CHECK_DEADLOCK FALSE
PROPERTY ListenerCAMatchesGlobal
