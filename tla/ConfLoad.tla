------------------------------ MODULE ConfLoad ------------------------------
(***************************************************************************)
(* The configuration loader of opts.c and the option scopes it fills.      *)
(*                                                                         *)
(* The command line is a sequence of -o NAME=VALUE options                 *)
(* (global_set_option) and -f FILE options (global_load_conffile). A file  *)
(* is read line by line by opts_load_conffile(); every directive goes to   *)
(* set_global_option(), which handles the global-only names, Include (one  *)
(* level: tmp_global_opts->include) and ProxySpec, and passes every other  *)
(* name to set_option() on global->opts. A proxyspec clones global->opts   *)
(* (global_opts_copy); the lines of a ProxySpec { } block go to            *)
(* set_proxyspec_option(), which passes option names to set_option() on    *)
(* the listener's own copy.                                                *)
(*                                                                         *)
(* The address lines of a block and the one-line grammar are modelled in   *)
(* ProxySpecStruct and ProxySpecLine; here a block's Addr and Port lines   *)
(* are one line "Listen", and a one-line ProxySpec is one of two outcomes: *)
(* with or without an up: divert address.                                  *)
(*                                                                         *)
(* The options kept are those whose scoping the properties are about:      *)
(* divert, user_auth, sslversion (ForceSSLProto), the divertusers list and *)
(* the filter rules (reduced to whether a rule has a user predicate).      *)
(***************************************************************************)
EXTENDS Integers, Sequences, FiniteSets, SequencesExt

CONSTANTS
  CmdLines,         \* the -o NAME=VALUE options, as [name, value] records
  FileLines,        \* the lines a configuration file may contain
  Users,            \* user names
  UserTokens,       \* the names strtok_r(value, ", \t") yields for a value
  MaxUsers,         \* MAX_USERS
  UserAuthPlatform, \* opts_set_user_auth() sets user_auth (OpenBSD, Linux)
  DefaultNat,       \* the natengine before any NATEngine option
  MaxArgs,          \* bound on the command-line options
  MaxLines,         \* bound on the lines of a file given with -f
  MaxIncLines,      \* bound on the lines of an included file
  MaxListeners,     \* bound on the proxyspecs
  NoBlock           \* not inside a ProxySpec { } block

ASSUME /\ MaxUsers \in Nat /\ MaxArgs \in Nat /\ MaxLines \in Nat
       /\ MaxIncLines \in 0..MaxLines /\ MaxListeners \in Nat /\ UserAuthPlatform \in BOOLEAN

(* The values the lines carry. *)
Values == {l.value : l \in CmdLines \cup FileLines}

(* A filter rule, reduced to whether it has a from user|desc predicate. *)
RuleKinds == {"plain", "user"}

(* The opts_t fields kept. *)
OptsRecord ==
  [divert: BOOLEAN, userAuth: BOOLEAN, sslversion: BOOLEAN,
   divertUsers: Seq(Users), rules: Seq(RuleKinds)]

Fields == {"divert", "userAuth", "sslversion", "divertUsers", "rules"}

(* opts_new(): divert = 1, user_auth = 0, sslversion = 0, no users, no   *)
(* rules.                                                                 *)
OptsNew ==
  [divert |-> TRUE, userAuth |-> FALSE, sslversion |-> FALSE,
   divertUsers |-> <<>>, rules |-> <<>>]

(* A listener: its options, its natengine, whether it has a divert       *)
(* address. History: the global options and the natengine set outside   *)
(* any block when it was declared, the fields its block set, its form.  *)
ListenerRecord ==
  [opts: OptsRecord, natengine: Values \cup {DefaultNat},
   divertAddr: BOOLEAN, listen: BOOLEAN,
   snap: OptsRecord, snapNat: Values \cup {DefaultNat},
   over: SUBSET (Fields \cup {"natengine"}), form: {"line", "block"}]

(* A file being read by opts_load_conffile(): lines left, the retval of  *)
(* its last directive, the listener of an open ProxySpec block.          *)
FrameRecord ==
  [left: 0..MaxLines, retval: {-1, 0}, block: 1..MaxListeners \cup {NoBlock},
   inc: BOOLEAN]

VARIABLES
  gopts,      \* global->opts
  listeners,  \* global->spec, oldest first
  natengine,  \* the *natengine passed to every setter
  globalNat,  \* history: the natengine as set outside any block
  include,    \* tmp_global_opts->include
  files,      \* the files being read, the innermost last
  args,       \* command-line options not yet processed
  result,     \* "running", "ok", "error", or "crash" (undefined behaviour)
  failure     \* history: the line that made the load fail, if any

vars == <<gopts, listeners, natengine, globalNat, include, files, args, result, failure>>

NoLine == [name |-> "", value |-> ""]
MissingBrace == [name |-> "}", value |-> "EOF"]

TypeOK ==
  /\ gopts \in OptsRecord
  /\ listeners \in Seq(ListenerRecord) /\ Len(listeners) <= MaxListeners
  /\ natengine \in Values \cup {DefaultNat}
  /\ globalNat \in Values \cup {DefaultNat}
  /\ include \in BOOLEAN
  /\ files \in Seq(FrameRecord) /\ Len(files) <= 2
  /\ args \in 0..MaxArgs
  /\ result \in {"running", "ok", "error", "crash"}
  /\ failure \in CmdLines \cup FileLines \cup {NoLine, MissingBrace}

(* global_new(), then main's option loop. *)
Init ==
  /\ gopts = OptsNew
  /\ listeners = <<>>
  /\ natengine = DefaultNat
  /\ globalNat = DefaultNat
  /\ include = FALSE
  /\ files = <<>>
  /\ args = MaxArgs
  /\ result = "running"
  /\ failure = NoLine

----------------------------------------------------------------------------
(* The outcome of a setter: its return value, the options it leaves, the *)
(* natengine it leaves, and the option fields it set.                    *)
Outcome(rv, o, nat, set) == [rv |-> rv, opts |-> o, nat |-> nat, set |-> set]

Error(o) == Outcome(-1, o, natengine, {})
Done(o, set) == Outcome(0, o, natengine, set)

(* filter_rule_set() (filter.c): a rule with a user or desc predicate is *)
(* refused when user_auth is off; an accepted rule is appended.          *)
FilterRuleSet(o, kind) ==
  IF kind = "user" /\ ~o.userAuth
    THEN Error(o)
    ELSE Done([o EXCEPT !.rules = Append(o.rules, kind)], {"rules"})

(* The kind of rule a rule text is: "from user|desc ..." or not. *)
RuleKind(v) == IF v = "from user *" THEN "user" ELSE "plain"

(* opts_force_proto(): a second ForceSSLProto on the same options fails. *)
ForceProto(o, v) ==
  IF o.sslversion \/ v # "tls12"
    THEN Error(o)
    ELSE Done([o EXCEPT !.sslversion = TRUE], {"sslversion"})

(* opts_set_userlist(): at least one and at most MAX_USERS names; the    *)
(* list replaces the one copied from the global options, in order.       *)
SetUserlist(o, v) ==
  IF Len(v) = 0 \/ Len(v) > MaxUsers
    THEN Error(o)
    ELSE Done([o EXCEPT !.divertUsers = v], {"divertUsers"})

(* set_option(): the option names kept. A value is required; yes|no     *)
(* values are checked; Divert with another value is a filter rule;       *)
(* NATEngine replaces *natengine unchecked; any other name is unknown.   *)
SetOption(o, l) ==
  CASE l.value = "" -> Error(o)
    [] l.name = "Divert" /\ l.value \in {"yes", "no"} ->
         Done([o EXCEPT !.divert = (l.value = "yes")], {"divert"})
    [] l.name \in {"Divert", "Pass"} -> FilterRuleSet(o, RuleKind(l.value))
    [] l.name = "UserAuth" /\ l.value \in {"yes", "no"} ->
         Done([o EXCEPT !.userAuth = IF l.value = "no" THEN FALSE
                                     ELSE UserAuthPlatform \/ o.userAuth],
              {"userAuth"})
    [] l.name = "ForceSSLProto" -> ForceProto(o, l.value)
    [] l.name = "DivertUsers" -> SetUserlist(o, UserTokens[l.value])
    [] l.name = "NATEngine" -> Outcome(0, o, l.value, {"natengine"})
    [] OTHER -> Error(o)

(* Seeded fault for GlobalOptsCopy: user_auth is not copied. *)
GlobalOptsCopyNoUserAuth(g) ==
  [g EXCEPT !.divertUsers = Reverse(g.divertUsers), !.userAuth = FALSE]

(* global_opts_copy(): scalars are copied, the rules deep-copied in      *)
(* order, and each user list is copied by prepending, node by node.     *)
GlobalOptsCopy(g) == [g EXCEPT !.divertUsers = Reverse(g.divertUsers)]

(* set_divert() with split off: no divert address means split mode. *)
SetDivert(L) ==
  IF ~L.divertAddr THEN [L EXCEPT !.opts.divert = FALSE] ELSE L

(* proxyspec_new(): a listener with a copy of the global options. *)
NewListener(form) ==
  [opts |-> GlobalOptsCopy(gopts), natengine |-> DefaultNat, divertAddr |-> FALSE,
   listen |-> FALSE, snap |-> gopts, snapNat |-> globalNat, over |-> {},
   form |-> form]

(* The files after the current line has been read. *)
LineRead == IF files = <<>> THEN files
            ELSE [files EXCEPT ![Len(files)].left = @ - 1]

(* The command-line options after the current one. *)
ArgRead == IF files = <<>> THEN args - 1 ELSE args

(* A directive that returned rv: it becomes the file's retval. *)
Step(rv) == /\ files' = IF files = <<>> THEN files
                        ELSE [LineRead EXCEPT ![Len(files)].retval = rv]
            /\ args' = ArgRead

Stop(l) == /\ result' = "error"
           /\ failure' = l
           /\ UNCHANGED <<gopts, listeners, natengine, globalNat, include, files, args>>

----------------------------------------------------------------------------
(* set_global_option() on the directive l, at the command line (f is     *)
(* NULL) or in the innermost file.                                       *)

(* ProxySpec {: load_proxyspec_struct() reads the following lines of the *)
(* file; on the command line there is no file and feof(NULL) is called. *)
ProxySpecBlock(l) ==
  /\ l.name = "ProxySpec" /\ l.value = "{"
  /\ IF files = <<>>
       THEN /\ result' = "crash"
            /\ failure' = l
            /\ UNCHANGED <<gopts, listeners, natengine, globalNat, include, files, args>>
       ELSE /\ Len(listeners) < MaxListeners
            /\ listeners' = Append(listeners, NewListener("block"))
            /\ files' = [LineRead EXCEPT ![Len(files)].block = Len(listeners) + 1]
            /\ UNCHANGED <<gopts, natengine, globalNat, include, args, result, failure>>

(* A one-line ProxySpec, with or without an up: divert address:          *)
(* proxyspec_parse() clones, stores the natengine with the listen        *)
(* address, and applies set_divert().                                    *)
ProxySpecLine(l) ==
  /\ l.name = "ProxySpec" /\ l.value \in {"tcp", "tcp up"}
  /\ Len(listeners) < MaxListeners
  /\ listeners' = Append(listeners,
                    SetDivert([NewListener("line") EXCEPT
                                 !.natengine = natengine, !.listen = TRUE,
                                 !.divertAddr = (l.value = "tcp up")]))
  /\ Step(0)
  /\ UNCHANGED <<gopts, natengine, globalNat, include, result, failure>>

(* Seeded fault for Include: the include flag is not tested. *)
IncludeNoFlag(l) ==
  /\ l.name = "Include" /\ l.value # ""
  /\ \/ /\ include' = TRUE
        /\ files' = Append(LineRead, [left |-> MaxIncLines, retval |-> -1,
                                      block |-> NoBlock, inc |-> TRUE])
        /\ args' = ArgRead
        /\ UNCHANGED <<gopts, listeners, natengine, globalNat, result, failure>>
     \/ Stop(l)

(* Include: refused inside an included file; otherwise the flag is set   *)
(* while the file is read. fopen() may fail.                             *)
Include(l) ==
  /\ l.name = "Include" /\ l.value # ""
  /\ IF include
       THEN Stop(l)
       ELSE \/ /\ include' = TRUE
               /\ files' = Append(LineRead, [left |-> MaxIncLines, retval |-> -1,
                                                 block |-> NoBlock, inc |-> TRUE])
               /\ args' = ArgRead
               /\ UNCHANGED <<gopts, listeners, natengine, globalNat, result, failure>>
            \/ Stop(l)

(* Every other name: set_option() on global->opts. *)
GlobalOption(l) ==
  /\ l.name \notin {"ProxySpec", "Include"}
  /\ LET r == SetOption(gopts, l) IN
       IF r.rv = -1
         THEN Stop(l)
         ELSE /\ gopts' = r.opts
              /\ natengine' = r.nat
              /\ globalNat' = r.nat
              /\ Step(0)
              /\ UNCHANGED <<listeners, include, result, failure>>

SetGlobalOption(l) ==
  IF l.value = ""
    THEN Stop(l)
    ELSE \/ ProxySpecBlock(l)
         \/ ProxySpecLine(l)
         \/ Include(l)
         \/ GlobalOption(l)

(* A comment or empty line of a file is skipped. *)
IsComment(l) == l.name = "#"

(* main: -o NAME=VALUE. *)
CmdOption ==
  /\ result = "running"
  /\ files = <<>> /\ args > 0
  /\ \E l \in CmdLines : SetGlobalOption(l)

(* main: -f FILE, global_load_conffile(). *)
ConfFile ==
  /\ result = "running"
  /\ files = <<>> /\ args > 0
  /\ files' = <<[left |-> MaxLines, retval |-> -1, block |-> NoBlock, inc |-> FALSE]>>
  /\ args' = args - 1
  /\ UNCHANGED <<gopts, listeners, natengine, globalNat, include, result, failure>>

(* Seeded fault for FileLine: the open-block test is dropped, so a line *)
(* of a block may go to set_global_option().                           *)
FileLineInBlock ==
  /\ result = "running"
  /\ files # <<>>
  /\ files[Len(files)].left > 0
  /\ \E l \in FileLines :
       IF IsComment(l)
         THEN /\ files' = LineRead
              /\ UNCHANGED <<gopts, listeners, natengine, globalNat, include, args, result, failure>>
         ELSE SetGlobalOption(l)

(* opts_load_conffile(): one line outside a ProxySpec block. *)
FileLine ==
  /\ result = "running"
  /\ files # <<>>
  /\ files[Len(files)].block = NoBlock /\ files[Len(files)].left > 0
  /\ \E l \in FileLines :
       IF IsComment(l)
         THEN /\ files' = LineRead
              /\ UNCHANGED <<gopts, listeners, natengine, globalNat, include, args, result, failure>>
         ELSE SetGlobalOption(l)

(* load_proxyspec_struct(): one line of the block of listener i, handled *)
(* by set_proxyspec_option().                                            *)
BlockDirective(i, l) ==
  LET L == listeners[i]
      fr == files[Len(files)]
  IN CASE l.value = "" /\ l.name # "}" -> Stop(l)
       [] l.name = "Listen" ->
            /\ listeners' = [listeners EXCEPT ![i].listen = TRUE,
                                               ![i].natengine = natengine]
            /\ files' = LineRead
            /\ UNCHANGED <<gopts, natengine, globalNat, include, args, result, failure>>
       [] l.name = "DivertPort" ->
            /\ listeners' = [listeners EXCEPT ![i].divertAddr = TRUE]
            /\ files' = LineRead
            /\ UNCHANGED <<gopts, natengine, globalNat, include, args, result, failure>>
       [] l.name = "}" ->
            IF L.listen
              THEN /\ listeners' = [listeners EXCEPT ![i] = SetDivert(L)]
                   /\ files' = [LineRead EXCEPT ![Len(files)].block = NoBlock,
                                                ![Len(files)].retval = 0]
                   /\ UNCHANGED <<gopts, natengine, globalNat, include, args, result, failure>>
              ELSE Stop(l)
       [] OTHER ->
            LET r == SetOption(L.opts, l) IN
              IF r.rv = -1
                THEN Stop(l)
                ELSE /\ listeners' = [listeners EXCEPT ![i].opts = r.opts,
                                                       ![i].over = @ \cup r.set]
                     /\ natengine' = r.nat
                     /\ files' = LineRead
                     /\ UNCHANGED <<gopts, globalNat, include, args, result, failure>>

BlockLine ==
  /\ result = "running"
  /\ files # <<>>
  /\ files[Len(files)].block # NoBlock /\ files[Len(files)].left > 0
  /\ \E l \in FileLines :
       IF IsComment(l)
         THEN /\ files' = LineRead
              /\ UNCHANGED <<gopts, listeners, natengine, globalNat, include, args, result, failure>>
         ELSE BlockDirective(files[Len(files)].block, l)

(* The file ends (it may end after any line). opts_load_conffile()       *)
(* returns the retval of the last directive, -1 if there was none; a     *)
(* block without "}" is an error. An included file's value is the        *)
(* Include directive's, and the include flag is cleared.                 *)
EndOfFile ==
  /\ result = "running"
  /\ files # <<>>
  /\ LET fr == files[Len(files)]
         rv == IF fr.block # NoBlock THEN -1 ELSE fr.retval
         rest == SubSeq(files, 1, Len(files) - 1)
     IN /\ include' = (include /\ ~fr.inc)
        /\ IF rv = -1
             THEN /\ result' = "error"
                  /\ failure' = IF fr.block # NoBlock THEN MissingBrace ELSE NoLine
                  /\ files' = rest
             ELSE /\ files' = IF rest = <<>> THEN rest
                              ELSE [rest EXCEPT ![Len(rest)].retval = rv]
                  /\ UNCHANGED <<result, failure>>
  /\ UNCHANGED <<gopts, listeners, natengine, globalNat, args>>

(* The option loop of main is over. *)
Finish ==
  /\ result = "running"
  /\ files = <<>> /\ args = 0
  /\ result' = "ok"
  /\ UNCHANGED <<gopts, listeners, natengine, globalNat, include, files, args, failure>>

Next == CmdOption \/ ConfFile \/ FileLine \/ BlockLine \/ EndOfFile \/ Finish

Spec == Init /\ [][Next]_vars

----------------------------------------------------------------------------
(* Refinement mapping to OptionScopes: a scope is its options with the   *)
(* user list as a set; the open block is the innermost file's.           *)
AbsOpts(o) ==
  [divert |-> o.divert, userAuth |-> o.userAuth, sslversion |-> o.sslversion,
   users |-> ToSet(o.divertUsers), rules |-> o.rules]

OpenBlock ==
  IF files = <<>> \/ files[Len(files)].block = NoBlock THEN 0
  ELSE files[Len(files)].block

Scoping == INSTANCE OptionScopes
             WITH global <- AbsOpts(gopts),
                  scopes <- [i \in DOMAIN listeners |-> AbsOpts(listeners[i].opts)],
                  open <- OpenBlock

(* The loader implements the scope discipline of OptionScopes: global    *)
(* options change only outside a block, a block changes only its own     *)
(* listener, a finished listener never changes, none is lost.            *)
ImplementsOptionScopes == Scoping!Spec

----------------------------------------------------------------------------
(* The option scopes that exist: the global one and each listener's. *)
Scopes == {gopts} \cup {listeners[i].opts : i \in DOMAIN listeners}

(* A listener's value of a field agrees with the global one: a user list *)
(* is the global list reversed, name for name (global_opts_copy()        *)
(* prepends each node it copies).                                        *)
SameValue(f, a, b) == IF f = "divertUsers" THEN a = Reverse(b) ELSE a = b

(* Fields a listener inherits; divert is settled by set_divert().       *)
InheritedFields == Fields \ {"divert"}

(* spec.md 8.1: every option of a listener equals the global value at   *)
(* the instant the listener was declared, unless its block set it.      *)
(* Global options set later, and other listeners' blocks, must not      *)
(* reach it: global_opts_copy() must copy every field, and setters in a *)
(* block must act on the listener's copy only.                          *)
ListenerInheritsGlobal ==
  \A i \in DOMAIN listeners :
    \A f \in InheritedFields \ listeners[i].over :
      SameValue(f, listeners[i].opts[f], listeners[i].snap[f])

(* spec.md 8.1 and sslproxy.conf(5): NATEngine is a global default; a   *)
(* listener that set no NAT engine in its own block has the one set     *)
(* outside any block before it was declared. set_option() writes the    *)
(* loader's natengine even for a line of a ProxySpec block.             *)
NatEngineStaysInBlock ==
  \A i \in DOMAIN listeners :
    listeners[i].listen /\ "natengine" \notin listeners[i].over =>
      listeners[i].natengine = listeners[i].snapNat

(* spec.md 3.2 and 8.1: no scope with user_auth off holds a rule with a *)
(* user or desc predicate; filter_rule_set() checks it only when the    *)
(* rule is read, while UserAuth may change later.                       *)
UserRulesNeedUserAuth ==
  \A o \in Scopes : ~o.userAuth => "user" \notin ToSet(o.rules)

(* spec.md 7: a load ends "ok" or stops on one of the parse or semantic *)
(* errors it lists, at the line that has it. Not: undefined behaviour    *)
(* ('-o ProxySpec={' reads the NULL FILE, opts.c:3189); an error with no *)
(* line at fault (a file of comments only keeps retval -1, opts.c:3215); *)
(* nor the refusal of a valid ForceSSLProto that is the first in its     *)
(* block, a per-listener override spec.md 8.1 allows but which           *)
(* opts_force_proto() refuses when the clone copied a global one         *)
(* (opts.c:1652).                                                        *)
LoadFailsOnlyOnError ==
  /\ result # "crash"
  /\ result = "error" =>
       /\ failure # NoLine
       /\ ~ /\ failure = [name |-> "ForceSSLProto", value |-> "tls12"]
            /\ OpenBlock # 0
            /\ "sslversion" \notin listeners[OpenBlock].over

====
