------------------------- MODULE MCProxySpecStruct -------------------------
(* A block of up to MaxLines lines drawn from one line of each kind the   *)
(* setters tell apart.                                                     *)
EXTENDS ProxySpecStruct

L(n, v) == [name |-> n, value |-> v]

MCLines ==
  { L("#", ""), L("Proto", ""), L("Proto", "tcp"), L("Proto", "https"),
    L("Proto", "x"), L("Addr", "127.0.0.1"), L("Addr", "x"),
    L("Port", "8443"), L("DivertAddr", "127.0.0.1"), L("DivertPort", "8080"),
    L("DivertPort", "x"), L("ReturnAddr", "127.0.0.1"), L("ReturnAddr", "x"),
    L("TargetAddr", "127.0.0.1"), L("TargetPort", "8443"), L("SNIPort", "8443"),
    L("SNIPort", "0"), L("NatEngine", "pf"), L("NatEngine", "x"),
    L("Divert", "yes"), L("Divert", "no"), L("Divert", "*"),
    L("NATEngine", "ipfw"), L("VerifyPeer", "no"), L("VerifyPeer", "x"),
    L("Foo", "x"), L("}", "") }

MCAddrs == {"127.0.0.1"}
MCPorts == {"8443", "8080", "0"}
MCZeroPorts == {"0"}
MCNatNames == {"pf", "ipfw"}
MCYesNoOptions == {"VerifyPeer"}
=============================================================================
