---------------------------- MODULE OptionScopes ----------------------------
(***************************************************************************)
(* What the configuration loader promises about option scopes (spec.md    *)
(* 3 and 8.1), independent of how lines are read.                         *)
(*                                                                         *)
(* There is one global scope and a list of listener scopes, one per       *)
(* proxyspec, in declaration order. A listener starts as a copy of the    *)
(* global scope (its divert mode aside, which set_divert() decides).      *)
(* While a ProxySpec block is open only that listener's scope changes;    *)
(* outside a block only the global scope changes. A listener whose        *)
(* declaration is over never changes again, and none is ever removed.     *)
(* User lists are compared as sets: who is diverted, not in what order.   *)
(***************************************************************************)
EXTENDS Naturals, Sequences

VARIABLES
  global,    \* the global scope, a record of option values
  scopes,    \* the listener scopes, oldest first
  open       \* the listener whose block is open, 0 if none

vars == <<global, scopes, open>>

(* The fields a listener takes from the global scope when declared. *)
Copied(g, s) == [f \in DOMAIN g \ {"divert"} |-> g[f]] = [f \in DOMAIN s \ {"divert"} |-> s[f]]

Init == /\ scopes = <<>>
        /\ open = 0
        /\ global \in [divert: BOOLEAN, userAuth: BOOLEAN, sslversion: BOOLEAN,
                       users: {{}}, rules: {<<>>}]

(* An option outside any block changes the global scope only. *)
SetGlobal ==
  /\ open = 0
  /\ global' # global
  /\ UNCHANGED <<scopes, open>>

(* A proxyspec is declared: a new scope copied from the global one. A     *)
(* one-line proxyspec is complete at once; a block stays open.            *)
Declare ==
  /\ open = 0
  /\ Len(scopes') = Len(scopes) + 1
  /\ SubSeq(scopes', 1, Len(scopes)) = scopes
  /\ Copied(global, scopes'[Len(scopes')])
  /\ open' \in {0, Len(scopes')}
  /\ UNCHANGED global

(* A line of the open block changes that listener's scope only, and may   *)
(* close the block.                                                       *)
SetOpen ==
  /\ open # 0
  /\ scopes' = [scopes EXCEPT ![open] = scopes'[open]]
  /\ open' \in {open, 0}
  /\ UNCHANGED global

Next == SetGlobal \/ Declare \/ SetOpen

Spec == Init /\ [][Next]_vars

====
