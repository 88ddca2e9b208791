\* A NAT engine token different from the default engine.
CONSTANTS
  InputTokens <- MCInputTokens
  Addrs <- MCAddrs
  Ports <- MCPorts
  ZeroPorts <- MCZeroPorts
  UpTokens <- MCUpTokens
  UaTokens <- MCUaTokens
  RaTokens <- MCRaTokens
  NatNames <- MCNatNames
  DefaultNat = "pf"
  NoNat = NoNat
  NoToken = NoToken
  Split = FALSE
  GlobalDivert = TRUE
  MaxArgs = 4
  MaxTokens = 8
SPECIFICATION Spec
CHECK_DEADLOCK FALSE
INVARIANT ExplicitNatHonoured
