CONSTANTS
  CmdLines <- MCCmdLines
  FileLines <- MCFileLines
  Users <- MCUsers
  UserTokens <- MCUserTokens
  MaxUsers = 2
  UserAuthPlatform = TRUE
  DefaultNat = "pf"
  MaxArgs = 1
  MaxLines = 3
  MaxIncLines = 1
  MaxListeners = 2
  NoBlock = NoBlock

SPECIFICATION Spec

\* Loading ends: main goes on with the options or exits on an error.
CHECK_DEADLOCK FALSE

INVARIANT
  UserRulesNeedUserAuth
