--------------------------- MODULE ProxySpecLine ---------------------------
(***************************************************************************)
(* The one-line proxyspec parser of opts.c: proxyspec_parse() turns the    *)
(* tokens of a command line, or of a "ProxySpec <tokens>" line of the      *)
(* configuration file, into listener specs with a seven-state machine:     *)
(*                                                                         *)
(*   0 proto | 1 listenaddr | 2 listenport | 3 [up:port [ua:] [ra:]]       *)
(*   | 4 natengine, dstaddr or "sni" | 5 dstport | 6 sni port              *)
(*                                                                         *)
(* A protocol keyword met in state 3 or 4 rewinds the input and starts the *)
(* next spec. Every spec is created as a clone of the global options       *)
(* (proxyspec_new) and pushed on the front of global->spec. After the      *)
(* loop, set_divert() settles the divert/split mode.                       *)
(*                                                                         *)
(* Tokens are abstracted to the classes the code tells apart: protocol     *)
(* keywords, addresses, ports, "up:"/"ua:"/"ra:" tokens, "sni", NAT engine *)
(* names, and anything else. The input is drawn one token at a time; the   *)
(* token already read but not consumed (the "ua:"/"ra:" look-ahead, or the *)
(* rewound protocol keyword) is kept in cur.                               *)
(***************************************************************************)
EXTENDS Naturals, Sequences, FiniteSets

CONSTANTS
  InputTokens,   \* the tokens an input may consist of
  Addrs,         \* tokens sys_sockaddr_parse() accepts as an address
  Ports,         \* tokens sys_sockaddr_parse() accepts as a port
  ZeroPorts,     \* members of Ports whose atoi() is 0
  UpTokens,      \* tokens containing "up:"
  UaTokens,      \* tokens containing "ua:"
  RaTokens,      \* tokens containing "ra:"
  NatNames,      \* engine names for which nat_exist() holds
  DefaultNat,    \* the natengine argument (-e or NATEngine)
  NoNat,         \* spec->natengine == NULL
  NoToken,       \* no token read ahead
  Split,         \* tmp_global_opts->split (-n)
  GlobalDivert,  \* global->opts->divert, copied by global_opts_copy()
  MaxArgs,       \* bound on the number of tokens of *argc
  MaxTokens      \* MAX_TOKENS: the argv slots of load_proxyspec_line()

ASSUME ZeroPorts \subseteq Ports
ASSUME DefaultNat # NoNat
ASSUME Split \in BOOLEAN /\ GlobalDivert \in BOOLEAN
ASSUME MaxArgs \in Nat /\ MaxTokens \in Nat \ {0}

(* proxyspec_set_proto(): the protocol flags each keyword sets. *)
ProtoFlags ==
  [ tcp |-> {}, ssl |-> {"ssl"}, http |-> {"http"}, https |-> {"ssl", "http"},
    autossl |-> {"upgrade"}, pop3 |-> {"pop3"}, pop3s |-> {"ssl", "pop3"},
    smtp |-> {"smtp"}, smtps |-> {"ssl", "smtp"} ]

ProtoKeywords == DOMAIN ProtoFlags

Flags == {"ssl", "http", "upgrade", "pop3", "smtp"}

(* The listener spec fields the parser writes. listen, divertAddr,       *)
(* returnAddr and target stand for listen_addrlen, conn_dst_addrlen,     *)
(* child_src_addrlen and connect_addrlen being non-zero. natToken is a   *)
(* history field: the NAT engine token the input named for this spec.    *)
ProxySpecRecord ==
  [ proto : SUBSET Flags, listen : BOOLEAN, natengine : NatNames \cup {DefaultNat, NoNat},
    divertAddr : BOOLEAN, returnAddr : BOOLEAN, target : BOOLEAN,
    dns : BOOLEAN, divert : BOOLEAN, natToken : NatNames \cup {NoNat} ]

(* proxyspec_new(): a zeroed spec whose opts are a copy of the global opts. *)
NewSpec ==
  [ proto |-> {}, listen |-> FALSE, natengine |-> NoNat,
    divertAddr |-> FALSE, returnAddr |-> FALSE, target |-> FALSE,
    dns |-> FALSE, divert |-> GlobalDivert, natToken |-> NoNat ]

(* sys_sockaddr_parse() of an address and a port. *)
SockaddrParse(a, p) == a \in Addrs /\ p \in Ports

(* nat_exist() *)
NatExist(name) == name \in NatNames

VARIABLES
  state,    \* the parser state, 0..6
  argc,     \* *argc: tokens not yet consumed
  cur,      \* **argv when it has already been read, else NoToken
  addr,     \* the saved listen or target address token
  specs,    \* global->spec: the most recently created spec first
  result,   \* "running", then the return value: "ok" (0) or "error" (-1)
  phase,    \* "strtok" while load_proxyspec_line() splits the line, then "parse"
  stored    \* the argc of load_proxyspec_line(): argv slots filled

vars == <<state, argc, cur, addr, specs, result, phase, stored>>

TypeOK ==
  /\ state \in 0..6
  /\ argc \in 0..MaxArgs
  /\ cur \in InputTokens \cup {NoToken}
  /\ addr \in InputTokens \cup {NoToken}
  /\ specs \in Seq(ProxySpecRecord)
  /\ result \in {"running", "ok", "error"}
  /\ phase \in {"strtok", "parse"}
  /\ stored \in Nat

Init ==
  /\ state = 0
  /\ argc \in 0..MaxArgs
  /\ cur = NoToken
  /\ addr = NoToken
  /\ specs = <<>>
  /\ result = "running"
  /\ phase \in {"strtok", "parse"}
  /\ stored = 0

(* The spec being filled is the one at the front of global->spec. *)
UpdateSpec(s) == specs' = <<s>> \o Tail(specs)

Fail == /\ result' = "error"
        /\ UNCHANGED <<state, argc, cur, addr>>

(* The token an iteration reads: the look-ahead or rewound token if     *)
(* there is one, else the next input token t.                           *)
ReadToken(t) == IF cur = NoToken THEN t ELSE cur

Consume(st) == /\ state' = st
               /\ argc' = argc - 1
               /\ cur' = NoToken

----------------------------------------------------------------------------
(* load_proxyspec_line(): a "ProxySpec <tokens>" line of the file is    *)
(* split by strtok_r() into an argv of MAX_TOKENS slots before          *)
(* proxyspec_parse() sees it; the command line hands main's argv over   *)
(* directly (phase "parse" from the start). argc is the number of       *)
(* tokens in the value.                                                 *)

Tokenize ==
  /\ phase = "strtok"
  /\ result = "running"
  /\ \/ /\ stored = argc
        /\ phase' = "parse"
        /\ UNCHANGED <<stored, result>>
     \/ /\ stored < argc
        /\ stored < MaxTokens
        /\ stored' = stored + 1
        /\ UNCHANGED <<phase, result>>
     \/ /\ stored < argc
        /\ stored >= MaxTokens
        /\ result' = "error"
        /\ UNCHANGED <<phase, stored>>
  /\ UNCHANGED <<state, argc, cur, addr, specs>>

----------------------------------------------------------------------------
(* case 0: a new spec is cloned, linked in, and given its protocol. *)
NewProxySpec(tok) ==
  /\ state = 0
  /\ IF tok \in ProtoKeywords
       THEN /\ specs' = <<[NewSpec EXCEPT !.proto = ProtoFlags[tok]]>> \o specs
            /\ Consume(1)
            /\ UNCHANGED <<addr, result>>
       ELSE /\ specs' = <<NewSpec>> \o specs
            /\ Fail

(* case 1: remember the listen address. *)
ListenAddr(tok) ==
  /\ state = 1
  /\ addr' = tok
  /\ Consume(2)
  /\ UNCHANGED <<specs, result>>

(* case 2: proxyspec_set_listen_addr() parses address and port and      *)
(* stores the default natengine.                                         *)
ListenPort(tok) ==
  /\ state = 2
  /\ IF SockaddrParse(addr, tok)
       THEN /\ UpdateSpec([specs[1] EXCEPT !.listen = TRUE, !.natengine = DefaultNat])
            /\ Consume(3)
            /\ UNCHANGED <<addr, result>>
       ELSE /\ UNCHANGED specs
            /\ Fail

(* Seeded fault for DivertSpec: the look-ahead drops the *argc test and *)
(* consumes "ua:"/"ra:" tokens past the end of argv.                    *)
DivertSpecNoArgcTest(tok) ==
  /\ state = 3
  /\ tok \in UpTokens
  /\ \E n1, n2 \in InputTokens :
       LET left  == argc - 1
           ua    == n1 \in UaTokens
           left2 == IF ua THEN left - 1 ELSE left
           next  == IF ua THEN n2 ELSE n1
           ra    == next \in RaTokens
       IN /\ state' = 4
          /\ argc' = IF ra THEN left2 - 1 ELSE left2
          /\ cur' = IF ra \/ left2 <= 0 THEN NoToken ELSE next
  /\ UpdateSpec([specs[1] EXCEPT !.divertAddr = TRUE, !.returnAddr = TRUE])
  /\ UNCHANGED <<addr, result>>

(* case 3 with an "up:" token: divert port, then optionally "ua:" and   *)
(* "ra:" read ahead from argv[1]. n1 and n2 are the tokens the         *)
(* look-ahead sees; one it does not consume is the next token read.     *)
DivertSpec(tok) ==
  /\ state = 3
  /\ tok \in UpTokens
  /\ \E n1, n2 \in InputTokens :
       LET left  == argc - 1
           ua    == left > 0 /\ n1 \in UaTokens
           left2 == IF ua THEN left - 1 ELSE left
           next  == IF ua THEN n2 ELSE n1
           ra    == left2 > 0 /\ next \in RaTokens
       IN /\ state' = 4
          /\ argc' = IF ra THEN left2 - 1 ELSE left2
          /\ cur' = IF ra \/ left2 = 0 THEN NoToken ELSE next
  /\ UpdateSpec([specs[1] EXCEPT !.divertAddr = TRUE, !.returnAddr = TRUE])
  /\ UNCHANGED <<addr, result>>

(* case 4, also reached from case 3 by fall-through: a protocol keyword  *)
(* rewinds (argv--, argc++) and starts the next spec.                   *)
ImplicitNat(tok) ==
  /\ state = 4 \/ (state = 3 /\ tok \notin UpTokens)
  /\ tok \in ProtoKeywords
  /\ state' = 0
  /\ cur' = tok
  /\ UNCHANGED <<argc, addr, specs, result>>

SniKeyword(tok) ==
  /\ state = 4 \/ (state = 3 /\ tok \notin UpTokens)
  /\ tok \notin ProtoKeywords
  /\ tok = "sni"
  /\ Consume(6)
  /\ UNCHANGED <<addr, specs, result>>

(* A NAT engine token: proxyspec_set_natengine(spec, natengine) is       *)
(* called with the natengine argument, not with the token.               *)
NatEngineToken(tok) ==
  /\ state = 4 \/ (state = 3 /\ tok \notin UpTokens)
  /\ tok \notin ProtoKeywords \cup {"sni"}
  /\ NatExist(tok)
  /\ IF NatExist(DefaultNat)
       THEN /\ UpdateSpec([specs[1] EXCEPT !.natengine = DefaultNat, !.natToken = tok])
            /\ Consume(0)
            /\ UNCHANGED <<addr, result>>
       ELSE /\ UpdateSpec([specs[1] EXCEPT !.natToken = tok])
            /\ Fail

TargetAddr(tok) ==
  /\ state = 4 \/ (state = 3 /\ tok \notin UpTokens)
  /\ tok \notin ProtoKeywords \cup {"sni"}
  /\ ~NatExist(tok)
  /\ addr' = tok
  /\ Consume(5)
  /\ UNCHANGED <<specs, result>>

(* Seeded fault for TargetPort: the natengine is not freed. *)
TargetPortKeepsNat(tok) ==
  /\ state = 5
  /\ IF SockaddrParse(addr, tok)
       THEN /\ UpdateSpec([specs[1] EXCEPT !.target = TRUE])
            /\ Consume(0)
            /\ UNCHANGED <<addr, result>>
       ELSE /\ UNCHANGED specs
            /\ Fail

(* case 5: proxyspec_set_target_addr() also drops the natengine. *)
TargetPort(tok) ==
  /\ state = 5
  /\ IF SockaddrParse(addr, tok)
       THEN /\ UpdateSpec([specs[1] EXCEPT !.target = TRUE, !.natengine = NoNat])
            /\ Consume(0)
            /\ UNCHANGED <<addr, result>>
       ELSE /\ UNCHANGED specs
            /\ Fail

(* Seeded fault for SniPort: the spec->ssl test is dropped. *)
SniPortAnyProto(tok) ==
  /\ state = 6
  /\ IF tok \in Ports \ ZeroPorts
       THEN /\ UpdateSpec([specs[1] EXCEPT !.dns = TRUE, !.natengine = NoNat])
            /\ Consume(0)
            /\ UNCHANGED <<addr, result>>
       ELSE /\ UNCHANGED specs
            /\ Fail

(* case 6: proxyspec_set_sni_port() needs an ssl spec and a non-zero port. *)
SniPort(tok) ==
  /\ state = 6
  /\ IF "ssl" \in specs[1].proto /\ tok \in Ports \ ZeroPorts
       THEN /\ UpdateSpec([specs[1] EXCEPT !.dns = TRUE, !.natengine = NoNat])
            /\ Consume(0)
            /\ UNCHANGED <<addr, result>>
       ELSE /\ UNCHANGED specs
            /\ Fail

----------------------------------------------------------------------------
(* set_divert(): split mode when -n is given or no divert address is set. *)
SetDivert(s) == IF Split \/ ~s.divertAddr THEN [s EXCEPT !.divert = FALSE] ELSE s

(* Seeded fault for CompleteStates: an input ending after the listen    *)
(* address is accepted.                                                  *)
CompleteStatesWithListenAddr == {0, 2, 3, 4}

(* The states the input may end in. *)
CompleteStates == {0, 3, 4}

(* After the loop: the completeness check, then set_divert() on spec. *)
Finish ==
  /\ phase = "parse"
  /\ result = "running"
  /\ argc = 0
  /\ IF state \in CompleteStates
       THEN /\ result' = "ok"
            /\ IF specs = <<>> THEN UNCHANGED specs ELSE UpdateSpec(SetDivert(specs[1]))
       ELSE /\ result' = "error"
            /\ UNCHANGED specs
  /\ UNCHANGED <<state, argc, cur, addr, phase, stored>>

(* One iteration of while (argc--) and its switch (state). *)
Iteration ==
  /\ phase = "parse"
  /\ result = "running"
  /\ argc > 0
  /\ UNCHANGED <<phase, stored>>
  /\ \E t \in InputTokens :
       LET tok == ReadToken(t) IN
         \/ NewProxySpec(tok)
         \/ ListenAddr(tok)
         \/ ListenPort(tok)
         \/ DivertSpec(tok)
         \/ ImplicitNat(tok)
         \/ SniKeyword(tok)
         \/ NatEngineToken(tok)
         \/ TargetAddr(tok)
         \/ TargetPort(tok)
         \/ SniPort(tok)

Next == Tokenize \/ Iteration \/ Finish

Spec == Init /\ [][Next]_vars

----------------------------------------------------------------------------
Specs == {specs[i] : i \in DOMAIN specs}

(* spec.md 3.1 and 4.4: every spec proxyspec_parse() makes is a listener *)
(* of the grammar [<nat>|<target-addr> <target-port>|sni <port>]: at     *)
(* most one destination (the target and sni setters must drop the        *)
(* natengine stored with the listen address), SNI lookup only on an ssl  *)
(* protocol, and once the line is accepted, a listen address (an input   *)
(* that stops before the listen port is refused). A line may hold many   *)
(* specs; each new protocol token starts the next one.                   *)
SpecsAreListeners ==
  \A s \in Specs :
    /\ Cardinality({d \in {"nat", "target", "sni"} :
                     \/ d = "nat" /\ s.natengine # NoNat
                     \/ d = "target" /\ s.target
                     \/ d = "sni" /\ s.dns}) <= 1
    /\ s.dns => "ssl" \in s.proto
    /\ result = "ok" => s.listen

(* spec.md 4.4: split (-n) forces split mode; otherwise a listener       *)
(* without an upstream divert address is in split mode. This must hold  *)
(* for every spec proxyspec_parse() accepted, not only the last one.     *)
DivertModeRule ==
  result = "ok" =>
    \A s \in Specs : (Split \/ ~s.divertAddr) => ~s.divert

(* A spec whose input named a NAT engine uses that engine. *)
ExplicitNatHonoured ==
  result = "ok" =>
    \A s \in Specs : s.natToken # NoNat => s.natengine = s.natToken

=============================================================================
