\* proxyspec_parse() on every input of up to MaxArgs tokens, from the command
\* line or from a configuration line split into MAX_TOKENS (8) argv slots;
\* nine tokens are one more than the slots hold.
CONSTANTS
  InputTokens <- MCInputTokens
  Addrs <- MCAddrs
  Ports <- MCPorts
  ZeroPorts <- MCZeroPorts
  UpTokens <- MCUpTokens
  UaTokens <- MCUaTokens
  RaTokens <- MCRaTokens
  NatNames <- MCNatNames
  DefaultNat = "pf"
  NoNat = NoNat
  NoToken = NoToken
  Split = FALSE
  GlobalDivert = TRUE
  MaxArgs = 9
  MaxTokens = 8
SPECIFICATION Spec
\* The parser returns: a run ends in "ok" or "error".
CHECK_DEADLOCK FALSE
INVARIANT TypeOK
INVARIANT SpecsAreListeners
