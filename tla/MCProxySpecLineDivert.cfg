\* A line of two specs, the first without an upstream divert address.
CONSTANTS
  InputTokens <- MCInputTokens
  Addrs <- MCAddrs
  Ports <- MCPorts
  ZeroPorts <- MCZeroPorts
  UpTokens <- MCUpTokens
  UaTokens <- MCUaTokens
  RaTokens <- MCRaTokens
  NatNames <- MCNatNames
  DefaultNat = "pf"
  NoNat = NoNat
  NoToken = NoToken
  Split = FALSE
  GlobalDivert = TRUE
  MaxArgs = 7
  MaxTokens = 8
SPECIFICATION Spec
CHECK_DEADLOCK FALSE
INVARIANT DivertModeRule
