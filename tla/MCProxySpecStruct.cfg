CONSTANTS
  Lines <- MCLines
  Addrs <- MCAddrs
  Ports <- MCPorts
  ZeroPorts <- MCZeroPorts
  NatNames <- MCNatNames
  YesNoOptions <- MCYesNoOptions
  DefaultNat = "pf"
  NoValue = NoValue
  Split = FALSE
  GlobalDivert = TRUE
  MaxLines = 6

SPECIFICATION Spec

\* load_proxyspec_struct() returns after "}", an error or the end of file.
CHECK_DEADLOCK FALSE

INVARIANT
  TypeOK
