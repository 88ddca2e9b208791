--------------------------- MODULE ProxySpecStruct ---------------------------
(***************************************************************************)
(* The structured proxyspec of a configuration file (opts.c):              *)
(*                                                                         *)
(*   ProxySpec {                                                           *)
(*       Proto https                                                       *)
(*       Addr 127.0.0.1                                                    *)
(*       Port 8443                                                         *)
(*       ...                                                               *)
(*   }                                                                     *)
(*                                                                         *)
(* load_proxyspec_struct() clones the global options into a new spec,      *)
(* links it into global->spec, sets the default return address, then      *)
(* reads lines until "}" or end of file. Each non-comment line is split    *)
(* by get_name_value() and handled by set_proxyspec_option(), which sets   *)
(* the spec's addresses itself and passes every other name to set_option() *)
(* on the spec's own options. After "}" it applies set_divert().           *)
(*                                                                         *)
(* A line is a record [name, value]; values are abstracted to the classes  *)
(* the setters tell apart (parsable or not, zero port, known NAT engine).  *)
(***************************************************************************)
EXTENDS Integers, FiniteSets

CONSTANTS
  Lines,        \* the lines the block may contain, as [name, value] records
  Addrs,        \* values sys_sockaddr_parse() accepts as an address
  Ports,        \* values sys_sockaddr_parse() accepts as a port
  ZeroPorts,    \* values of Ports for which atoi() is 0
  NatNames,     \* values for which nat_exist() holds
  YesNoOptions, \* set_option() names taking yes|no (VerifyPeer, ...)
  DefaultNat,   \* the natengine of the loader when the block starts
  NoValue,      \* a NULL pointer
  Split,        \* tmp_global_opts->split (-n)
  GlobalDivert, \* global->opts->divert when the block starts
  MaxLines      \* the number of lines the file has left

ASSUME /\ ZeroPorts \subseteq Ports
       /\ Split \in BOOLEAN /\ GlobalDivert \in BOOLEAN
       /\ MaxLines \in Nat

(* proxyspec_set_proto(): the flags each protocol keyword sets; any other *)
(* value is an error.                                                      *)
ProtoFlags ==
  [tcp |-> {}, ssl |-> {"ssl"}, http |-> {"http"}, https |-> {"ssl", "http"},
   autossl |-> {"upgrade"}, pop3 |-> {"pop3"}, pop3s |-> {"ssl", "pop3"},
   smtp |-> {"smtp"}, smtps |-> {"ssl", "smtp"}]

(* The address families proxyspec_set_listen_addr() returns: none yet (0), *)
(* the parse error (-1), a family.                                         *)
AfValues == {0, -1, 1}

(* The values the lines carry; "" is a line with a name and no value. *)
Values == {l.value : l \in Lines}

(* The fields of proxyspec_t the properties read; natengine is a string   *)
(* or NULL, the *len fields become booleans (set or not).                 *)
ProxySpecRecord ==
  [proto: SUBSET {"ssl", "http", "upgrade", "pop3", "smtp"},
   listen: BOOLEAN, natengine: Values \cup {DefaultNat, NoValue},
   divertAddr: BOOLEAN, returnAddr: BOOLEAN, target: BOOLEAN,
   dns: BOOLEAN, divert: BOOLEAN]

(* spec_addrs_t: the strings saved for the setter of a later line, and  *)
(* the family the Port line returned.                                    *)
SpecAddrsRecord ==
  [addr: Values \cup {NoValue}, divertAddr: Values \cup {NoValue},
   targetAddr: Values \cup {NoValue}, af: AfValues]

(* proxyspec_new(): memset to 0, options cloned from the global options.  *)
(* The clone has divert = global->opts->divert.                            *)
NewSpec ==
  [proto |-> {}, listen |-> FALSE, natengine |-> NoValue, divertAddr |-> FALSE,
   returnAddr |-> FALSE, target |-> FALSE, dns |-> FALSE, divert |-> GlobalDivert]

SockaddrParse(addr, port) == addr \in Addrs /\ port \in Ports
NatExist(name) == name \in NatNames

VARIABLES
  spec,        \* the spec being built (the head of global->spec)
  specAddrs,   \* spec_addrs
  natengine,   \* the loader's *natengine, changed by a NATEngine line
  left,        \* lines of the file not yet read
  result       \* "running", then "ok" (0) or "error" (-1)

vars == <<spec, specAddrs, natengine, left, result>>

TypeOK ==
  /\ spec \in ProxySpecRecord
  /\ specAddrs \in SpecAddrsRecord
  /\ natengine \in Values \cup {DefaultNat, NoValue}
  /\ left \in 0..MaxLines
  /\ result \in {"running", "ok", "error"}

(* proxyspec_new(), then the default return address "127.0.0.1". *)
Init ==
  /\ spec = [NewSpec EXCEPT !.returnAddr = TRUE]
  /\ specAddrs = [addr |-> NoValue, divertAddr |-> NoValue,
                  targetAddr |-> NoValue, af |-> 0]
  /\ natengine = DefaultNat
  /\ left = MaxLines
  /\ result = "running"

(* Every action below handles one line and counts it as read. *)
Ok(s, a) == /\ spec' = s
            /\ specAddrs' = a
            /\ left' = left - 1

Fail == /\ result' = "error"
        /\ left' = left - 1
        /\ UNCHANGED <<spec, specAddrs, natengine>>

(* Skip comments and empty lines. *)
Comment(l) ==
  /\ l.name = "#"
  /\ left' = left - 1
  /\ UNCHANGED <<spec, specAddrs, natengine, result>>

(* Every name but "}" needs a value. *)
NoValueLine(l) ==
  /\ l.name # "#" /\ l.name # "}"
  /\ l.value = ""
  /\ Fail

Proto(l) ==
  /\ l.name = "Proto" /\ l.value # ""
  /\ IF l.value \in DOMAIN ProtoFlags
       THEN Ok([spec EXCEPT !.proto = ProtoFlags[l.value]], specAddrs)
            /\ UNCHANGED <<natengine, result>>
       ELSE Fail

(* Addr, DivertAddr and TargetAddr only save the string. *)
SaveAddr(l) ==
  /\ l.name \in {"Addr", "DivertAddr", "TargetAddr"} /\ l.value # ""
  /\ LET f == CASE l.name = "Addr" -> "addr"
                [] l.name = "DivertAddr" -> "divertAddr"
                [] l.name = "TargetAddr" -> "targetAddr"
     IN Ok(spec, [specAddrs EXCEPT ![f] = l.value])
  /\ UNCHANGED <<natengine, result>>

(* Port: proxyspec_set_listen_addr() with the loader's natengine. Its   *)
(* result is stored in spec_addrs->af and is not tested: -1 is kept.    *)
Port(l) ==
  /\ l.name = "Port" /\ l.value # ""
  /\ IF specAddrs.addr # NoValue
       THEN /\ IF SockaddrParse(specAddrs.addr, l.value)
                 THEN Ok([spec EXCEPT !.listen = TRUE, !.natengine = natengine],
                         [specAddrs EXCEPT !.af = 1])
                 ELSE Ok(spec, [specAddrs EXCEPT !.af = -1])
            /\ UNCHANGED <<natengine, result>>
       ELSE Fail

(* DivertPort: the divert address defaults to 127.0.0.1 (in Addrs). *)
DivertPort(l) ==
  /\ l.name = "DivertPort" /\ l.value # ""
  /\ LET a == IF specAddrs.divertAddr # NoValue THEN specAddrs.divertAddr
              ELSE CHOOSE x \in Addrs : TRUE
     IN IF SockaddrParse(a, l.value)
          THEN Ok([spec EXCEPT !.divertAddr = TRUE], specAddrs)
               /\ UNCHANGED <<natengine, result>>
          ELSE Fail

ReturnAddr(l) ==
  /\ l.name = "ReturnAddr" /\ l.value # ""
  /\ IF l.value \in Addrs
       THEN Ok([spec EXCEPT !.returnAddr = TRUE], specAddrs)
            /\ UNCHANGED <<natengine, result>>
       ELSE Fail

(* TargetPort: proxyspec_set_target_addr() with the family of the Port   *)
(* line; getaddrinfo() refuses the family -1. It drops the natengine.   *)
TargetPort(l) ==
  /\ l.name = "TargetPort" /\ l.value # ""
  /\ IF /\ specAddrs.targetAddr # NoValue
        /\ SockaddrParse(specAddrs.targetAddr, l.value)
        /\ specAddrs.af # -1
       THEN Ok([spec EXCEPT !.target = TRUE, !.natengine = NoValue], specAddrs)
            /\ UNCHANGED <<natengine, result>>
       ELSE Fail

(* SNIPort: proxyspec_set_sni_port() tests the ssl flag as it is now. *)
SNIPort(l) ==
  /\ l.name = "SNIPort" /\ l.value # ""
  /\ IF "ssl" \in spec.proto /\ l.value \in Ports \ ZeroPorts
       THEN Ok([spec EXCEPT !.dns = TRUE, !.natengine = NoValue], specAddrs)
            /\ UNCHANGED <<natengine, result>>
       ELSE Fail

(* NatEngine: proxyspec_set_natengine() with the value. *)
NatEngine(l) ==
  /\ l.name = "NatEngine" /\ l.value # ""
  /\ IF NatExist(l.value)
       THEN Ok([spec EXCEPT !.natengine = l.value], specAddrs)
            /\ UNCHANGED <<natengine, result>>
       ELSE Fail

(* The names set_proxyspec_option() handles itself. *)
SpecNames == {"Proto", "Addr", "Port", "DivertAddr", "DivertPort", "ReturnAddr",
              "TargetAddr", "TargetPort", "SNIPort", "NatEngine", "}"}

(* Any other name goes to set_option(spec->opts, ...). Divert yes|no     *)
(* sets the spec's divert option; any other Divert value is a filter     *)
(* rule, compiled into the spec's rules (returns 0 or 1).                *)
DivertOption(l) ==
  /\ l.name = "Divert" /\ l.value # ""
  /\ IF l.value \in {"yes", "no"}
       THEN Ok([spec EXCEPT !.divert = (l.value = "yes")], specAddrs)
       ELSE Ok(spec, specAddrs)
  /\ UNCHANGED <<natengine, result>>

(* NATEngine replaces the loader's *natengine: the string is not checked. *)
NATEngineOption(l) ==
  /\ l.name = "NATEngine" /\ l.value # ""
  /\ natengine' = l.value
  /\ Ok(spec, specAddrs)
  /\ UNCHANGED result

(* A yes|no option: check_value_yesno(), then the setter. *)
YesNoOption(l) ==
  /\ l.name \in YesNoOptions /\ l.value # ""
  /\ IF l.value \in {"yes", "no"}
       THEN Ok(spec, specAddrs) /\ UNCHANGED <<natengine, result>>
       ELSE Fail

UnknownOption(l) ==
  /\ l.name \notin SpecNames \cup YesNoOptions \cup {"#", "Divert", "NATEngine"}
  /\ l.value # ""
  /\ Fail

(* set_divert(): split mode when -n is given or no divert address is set. *)
SetDivert(s) == IF Split \/ ~s.divertAddr THEN [s EXCEPT !.divert = FALSE] ELSE s

(* "}": spec_addrs->addr and spec_addrs->af must be set; then the loop    *)
(* ends and set_divert() runs.                                            *)
ClosingBrace(l) ==
  /\ l.name = "}"
  /\ IF specAddrs.addr # NoValue /\ specAddrs.af # 0
       THEN /\ Ok(SetDivert(spec), specAddrs)
            /\ result' = "ok"
            /\ UNCHANGED natengine
       ELSE Fail

(* Seeded fault for MoreLines: the loop does not test feof(). *)
MoreLinesNoEof == TRUE

(* while (!feof(f) && !closing_brace): the file has another line. *)
MoreLines == left > 0

(* One iteration of the getline() loop. *)
ReadLine ==
  /\ result = "running"
  /\ MoreLines
  /\ \E l \in Lines :
       \/ Comment(l)
       \/ NoValueLine(l)
       \/ Proto(l)
       \/ SaveAddr(l)
       \/ Port(l)
       \/ DivertPort(l)
       \/ ReturnAddr(l)
       \/ TargetPort(l)
       \/ SNIPort(l)
       \/ NatEngine(l)
       \/ DivertOption(l)
       \/ NATEngineOption(l)
       \/ YesNoOption(l)
       \/ UnknownOption(l)
       \/ ClosingBrace(l)

(* The file may end after any line: no closing brace is an error. *)
EndOfFile ==
  /\ result = "running"
  /\ result' = "error"
  /\ UNCHANGED <<spec, specAddrs, natengine, left>>

Next == ReadLine \/ EndOfFile

Spec == Init /\ [][Next]_vars

----------------------------------------------------------------------------
(* spec.md 4.4, 2 and 7: the block form builds the same listener as the *)
(* one-line form, [<nat>|<target-addr> <target-port>|sni <port>]. An     *)
(* accepted block has a listen address; it has at most one destination  *)
(* (the natengine stored by the Port line, the target of TargetPort, or  *)
(* SNI); and SNI only on an ssl protocol. The lines may come in any      *)
(* order: "}" tests only spec_addrs, each setter tests only the state of *)
(* the spec when its line is read, and Port re-stores the natengine, a   *)
(* later Proto replaces the flags SNIPort tested (opts.c:2740, 804,      *)
(* 2730).                                                                 *)
BlockIsListenerSpec ==
  result = "ok" =>
    /\ spec.listen
    /\ Cardinality({d \in {"nat", "target", "sni"} :
                     \/ d = "nat" /\ spec.natengine # NoValue
                     \/ d = "target" /\ spec.target
                     \/ d = "sni" /\ spec.dns}) <= 1
    /\ spec.dns => "ssl" \in spec.proto

====
