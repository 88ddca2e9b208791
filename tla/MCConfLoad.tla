---------------------------- MODULE MCConfLoad ----------------------------
(* Up to two command-line options and files of up to MaxLines lines drawn *)
(* from one line of each kind the dispatchers tell apart.                 *)
EXTENDS ConfLoad

L(n, v) == [name |-> n, value |-> v]

MCCmdLines ==
  { L("ProxySpec", "{"), L("UserAuth", "yes"), L("Include", "sslproxy.inc") }

MCFileLines ==
  { L("#", ""), L("Divert", "no"), L("Pass", "*"), L("Pass", "from user *"),
    L("UserAuth", "yes"), L("UserAuth", "no"), L("ForceSSLProto", "tls12"),
    L("DivertUsers", "u1,u2"), L("DivertUsers", ","),
    L("DivertUsers", "u1,u2,u1"), L("NATEngine", "ipfw"),
    L("Foo", "x"), L("Include", "sslproxy.inc"), L("ProxySpec", "{"),
    L("ProxySpec", "tcp"), L("ProxySpec", "tcp up"), L("Listen", "8443"),
    L("DivertPort", "8080"), L("}", "") }

MCUsers == {"u1", "u2"}

MCUserTokens ==
  ("u1,u2" :> <<"u1", "u2">>) @@ ("," :> <<>>) @@ ("u1,u2,u1" :> <<"u1", "u2", "u1">>)
=============================================================================
