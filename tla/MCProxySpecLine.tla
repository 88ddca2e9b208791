-------------------------- MODULE MCProxySpecLine --------------------------
(* Token classes for checking proxyspec_parse(): one token of each class,  *)
(* two NAT engines so that a named engine can differ from the default.    *)
EXTENDS ProxySpecLine

MCInputTokens ==
  {"tcp", "ssl", "127.0.0.1", "8443", "0", "up:8080", "ua:127.0.0.2",
   "ra:127.0.0.3", "sni", "pf", "ipfw", "x"}
MCAddrs == {"127.0.0.1"}
MCPorts == {"8443", "0"}
MCZeroPorts == {"0"}
MCUpTokens == {"up:8080"}
MCUaTokens == {"ua:127.0.0.2"}
MCRaTokens == {"ra:127.0.0.3"}
MCNatNames == {"pf", "ipfw"}
=============================================================================
