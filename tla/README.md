# TLA+ models of the SSLproxy configuration subsystem

This directory holds TLA+ models of SSLproxy's option and proxyspec
handling (`src/unnamed/part_000` is `opts.c`; `src/unnamed/part_001` holds
the `sslproxy.conf` man page and the filter test suite). Each module is
translated from the C code, with tokens, addresses and names abstracted to
the classes the code tells apart. The models are checked with TLC.

## The system

SSLproxy builds its runtime configuration in four steps:

- **Global options** (`global_t`, `opts_t`). `global_new`/`opts_new` set
  the defaults (divert on, 8192-byte header limit, and so on). Command-line
  switches and configuration-file lines are dispatched by
  `set_global_option` → `set_option`.
- **Proxyspecs** (`proxyspec_t`). There are two grammars:
  - *One-line*: `-P`/command-line arguments, or `ProxySpec tcp 127.0.0.1
    8443 ...`. `proxyspec_parse` handles this form with a 7-state token
    machine. One line may create several specs.
  - *Structured*: `ProxySpec { ... }`. `load_proxyspec_struct` reads it
    line by line, and `set_proxyspec_option` handles each line.

  Every spec starts from a clone of the global options
  (`global_opts_copy`).
- **Configuration loader**. `opts_load_conffile` reads a file line by line
  (`get_name_value`) and supports one level of `Include`.
- **Filter rules**. `Divert`/`Split`/`Pass`/`Block`/`Match` lines are
  compiled into per-listener rule lists. `filter.c` is not in `src/`; its
  behaviour is known from spec.md and the test suite in `part_001`.

These parts interact as follows. A spec inherits a copy of the global
options at the moment it is parsed, so global options set later do not
reach it. Options inside a `ProxySpec { }` block override only that spec.
`set_divert`, applied after a spec is parsed, decides between divert and
split mode.

## Modules

| Module | Models | Source |
|---|---|---|
| `ProxySpecLine` | `load_proxyspec_line`'s `strtok_r` split into `MAX_TOKENS` argv slots, and `proxyspec_parse` with `proxyspec_set_proto`, `_listen_addr`, `_divert_addr`, `_return_addr`, `_target_addr`, `_sni_port`, `_natengine`, `set_divert` | opts.c 731–1058, 2861–2883 |
| `MCProxySpecLine` | TLC instance: 12 input tokens, one address, ports `8443` and `0`, NAT engines `pf` and `ipfw` | |
| `ProxySpecStruct` | one `ProxySpec { }` block: `load_proxyspec_struct`, `set_proxyspec_option`, the block's share of `set_option`, `set_divert` | opts.c 744–937, 2543–2717, 2719–2799, 2896–2966 |
| `MCProxySpecStruct` | TLC instance: 27 line kinds (every `set_proxyspec_option` name, with a valid, invalid and empty value where the code tells them apart) | |
| `ConfLoad` | the loader: `global_set_option` (`-o`), `global_load_conffile`/`opts_load_conffile` (`-f`, `Include`), `set_global_option`, the `ProxySpec` dispatch, `global_opts_copy`, and the `set_option` names `Divert`, `Pass`, `UserAuth`, `ForceSSLProto`, `DivertUsers`, `NATEngine` | opts.c 124–176, 587–741, 927–937, 1645–1727, 1934–1986, 2543–2966, 3000–3269 |
| `MCConfLoad` | TLC instance: 3 command-line options, 19 file-line kinds, users `u1`, `u2` | |
| `OptionScopes` | the abstract scope discipline of spec.md 3 and 8.1: one global scope, one scope per listener, copied at declaration, changed only inside its block; `ConfLoad` is shown to implement it | spec.md |
| `NameValue` | `get_name_value` and the white-space/comment skip of `opts_load_conffile` and `global_set_option`, as RECURSIVE operators, with the spec.md 4.2 split as a reference | opts.c 2808–2859, 3228–3235 |
| `MCNameValue` | TLC instance: lines of up to 5 characters over letter, space, tab, CR, `=`, `#` | |
| `CAMaterial` | `opts_set_cacrt`, `opts_set_cakey`, `opts_set_dh` in the global scope and in blocks, the `tmp_global_opts` strings and their replay by `global_opts_copy`, the CA chain and the X509 reference counts | opts.c 123–153, 588–668, 1322–1402, 1549–1577, 2543–2584, 2785–2799, 2896–2955, 3164–3166, 3218–3243 |
| `MCCAMaterial` | TLC instance: five PEM files (cert+key+DH, cert+key, cert only, key only, DH only) | |

### ProxySpecLine

State:

| Variable | Code |
|---|---|
| `state` | the switch state |
| `argc` | `*argc`, the tokens left |
| `cur` | a token already read, by the `ua:`/`ra:` look-ahead or by the rewind `(argv--, argc++)` |
| `addr` | the saved listen or target address |
| `specs` | `global->spec`, newest first |
| `result` | the return value |
| `phase`, `stored` | `"strtok"` while `load_proxyspec_line` fills its argv, whose slots used are `stored`; `"parse"` from the start for the command line |

`Tokenize` is one step of the `strtok_r` loop of `load_proxyspec_line`:
the end of the value starts the parser, a token is stored while a slot
is free, and a token beyond `MAX_TOKENS` refuses the line.

Tokens are produced lazily: each iteration draws one token from
`InputTokens`, unless `cur` already holds one.

Actions, one per case of the switch:

| Action | Switch case |
|---|---|
| `NewProxySpec` | 0 |
| `ListenAddr` | 1 |
| `ListenPort` | 2 |
| `DivertSpec` | 3 with `up:` |
| `ImplicitNat`, `SniKeyword`, `NatEngineToken`, `TargetAddr` | 3/4, the four branches |
| `TargetPort` | 5 |
| `SniPort` | 6 |
| `Finish` | the completeness check and `set_divert` after the loop |

Every setter's failure path sets `result` to `"error"` and stops the
machine, as the code returns -1.

The model is sequential: the parser runs single-threaded at start-up, so
there is no interleaving and no fairness assumption. Termination is
structural, because `argc` strictly decreases except on a rewind, and a
rewind is always followed by a consuming step. `CHECK_DEADLOCK FALSE` is
set because the parser really stops once it has returned.

### ProxySpecStruct

State: `spec` (the `proxyspec_t` fields the properties read: proto
flags, listen address present, natengine, divert address, return
address, target, SNI, divert mode), `specAddrs` (the `spec_addrs_t`
that `Addr`/`Port`/`DivertAddr`/`TargetAddr` fill), `natengine` (the
loader's `natengine` string, which a `NATEngine` line inside the block
overwrites), `left` (lines the file still has) and `result`.

`ReadLine` draws one line from `Lines` and takes the branch of
`set_proxyspec_option` (or of `set_option` for the other names) that
the line's name selects; `ClosingBrace` is the `}` branch with the
`!addr || !af` test and `set_divert`; `EndOfFile` is the "no closing
brace" error after the loop.

### ConfLoad

State:

| Variable | Code |
|---|---|
| `gopts` | `global->opts`, reduced to the fields the modelled setters write: divert, user_auth, sslversion, divertusers, the filter rules (user or plain) |
| `listeners` | `global->spec`, in declaration order; each holds its cloned `opts`, `natengine`, divert address, listen flag, the global options at the moment it was declared (`snap`), the fields its own block set (`over`) and its form |
| `natengine` | `natengine` of `opts_load_conffile`, which every setter receives by pointer |
| `globalNat` | history: the natengine as set by lines outside any block; each listener records it at declaration (`snapNat`) |
| `include` | the static `include` flag of `set_global_option` |
| `files` | the stack of open files: for each, lines left, the `retval` of the last directive, the open block (if any) and whether it is an include file |
| `args` | command-line `-o`/`-f` options left |
| `result`, `failure` | the outcome and the line it failed on |

A file line is dispatched as in the code: comments and empty lines are
skipped (`IsComment`); in a block, `BlockDirective` is
`set_proxyspec_option`; otherwise `SetGlobalOption` is
`set_global_option`, whose `ProxySpec`, `Include` and default
(`set_option`) branches are `ProxySpecBlock`/`ProxySpecLine`,
`Include` and `GlobalOption`. A one-line proxyspec is abstracted to its
effect (one listener with or without a divert address): its parser is
`ProxySpecLine`. `DivertUsers` values are string constants mapped by
`UserTokens` to the name list `strtok` yields.

The loader runs single-threaded before any proxy thread starts, so there
are no interleavings and no fairness is assumed. That loading ends is
not kept as a liveness property: every action consumes a line or an
option and the counts are bounded, so it would hold by the shape of the
model; the one way the code could read forever, a file that includes
itself, is caught by `TypeOK` (at most one include level).
`CHECK_DEADLOCK FALSE` is set because loading really stops.

### OptionScopes and the refinement

`OptionScopes` has a global scope, the list of listener scopes and the
listener whose block is open. `SetGlobal` changes the global scope while
no block is open; `Declare` appends a scope equal to the global one on
every field but `divert` (decided by `set_divert`), open or already
complete; `SetOpen` changes the open listener's scope only and may close
it. `ConfLoad` instantiates it (`Scoping`) with user lists mapped to sets
(`AbsOpts`) and the open block taken from the innermost file
(`OpenBlock`), and `conf_load` checks `ImplementsOptionScopes ==
Scoping!Spec` as a property.

### CAMaterial

State: `opts` (for scope 0, `global->opts`, and each listener: the CA
cert as an X509 object number, the chain, the key and DH parameters as
the file they came from, and the history flag `keyExplicit`, set when a
`CAKey` line named the key), `nscopes`, `open` (the last listener's block
is open), `tmp` (`tmp_global_opts->cacrt_str`, `cakey_str`, `dh_str`),
`objs` and `refs` (the file and reference count of each X509 object ever
loaded), `left` and `result`.

A file is a model value; `Holds[f]` says which of a cert, a key and DH
parameters `ssl_x509_load`, `ssl_key_load` and `ssl_dh_load` find in it.
The setters are operators on a context (the scope's opts, the objects
and counts, and whether the setter returned -1), so that `Declare` can
run the three replays of `global_opts_copy` one after another in one
step, as the code does inside `proxyspec_new`. `GlobalLine` also saves
the file name in `tmp`, while `BlockLine` passes `tmp_global_opts` NULL,
as `set_proxyspec_option` does. `EndOfFile` fails for an open block and
for a file with no directive (`retval` starts at -1).

### NameValue

The state is one variable, `line`, grown one character at a time up to
`MaxLen` (`Type`); each state is one input. `GetNameValue` translates the
three loops of `get_name_value` (`SkipNot` for the name, `Skip` for the
left trim, `Back` for the right trim); `SkipWhite` and `IsSkipped` are the
loader's leading-blank and comment tests. `RefName`/`RefValue` state the
split of spec.md 4.2 with `SelectInSeq`/`SelectLastInSeq`. `Sep` is `" "`
for a file and `"="` for `-o`.

## Runs

| Run | cfg | Expect | Shows |
|---|---|---|---|
| `proxyspec_line` | `MCProxySpecLine.cfg` | pass | Every spec of a line is a listener of the grammar: at most one destination source, SNI only on ssl, and a listen address once the line is accepted (`SpecsAreListeners`) The `MAX_TOKENS` split of `load_proxyspec_line` runs before each parse. |
| `proxyspec_line_divert` | `MCProxySpecLineDivert.cfg` | violation | `tcp 127.0.0.1 8443 tcp 127.0.0.1 8443 up:8080` (the token set has one port): the first spec has no divert address but stays in divert mode, because `set_divert` runs only on the last spec (opts.c:1054). |
| `proxyspec_line_nat` | `MCProxySpecLineNat.cfg` | violation | `ssl 127.0.0.1 8443 ipfw` gives a spec whose natengine is the default `pf`: line 1023 passes the `natengine` argument instead of the token. |
| `proxyspec_struct` | `MCProxySpecStruct.cfg` | pass | Every block of up to 6 lines keeps the reader's state within its types (`TypeOK`: the loop stops at the end of the file) and reaches every branch of `set_proxyspec_option`, the ground of `proxyspec_struct_form`. |
| `proxyspec_struct_form` | `MCProxySpecStructForm.cfg` | violation | `BlockIsListenerSpec`: an accepted block is a listener the one-line grammar allows (a listen address, at most one of NAT engine, target and SNI, SNI only on ssl). TLC shows `Addr x`, `Port 8443`, `}`, accepted without a listen address: the -1 from `proxyspec_set_listen_addr` is stored in `af` and `}` tests only `!af` (opts.c:2740). With that path removed from a copy of the model it finds `Addr`, `TargetAddr`, `TargetPort`, `Port`, `}` (Port re-stores the natengine beside the target, opts.c:804), and with that removed too `Proto https`, `SNIPort 8443`, `Proto tcp`, `Addr`, `Port`, `}` (SNI on a tcp listener, opts.c:2730). |
| `conf_load` | `MCConfLoad.cfg` | pass | Every listener holds the global options of the moment it was declared, except the fields its block set, its user lists being exactly the global lists reversed (`ListenerInheritsGlobal`); the loader implements `OptionScopes` (`ImplementsOptionScopes`); at most one include level (`TypeOK`). |
| `conf_load_user_auth` | `MCConfLoadUserAuth.cfg` | violation | `UserAuth yes`, `Pass from user *`, `UserAuth no` keeps a user rule with user_auth off (opts.c:2624). |
| `conf_load_errors` | `MCConfLoadErrors.cfg` | violation | `LoadFailsOnlyOnError`: the load ends ok or on a spec.md §7 error at the faulty line. TLC shows `-o 'ProxySpec={'`, which reaches `load_proxyspec_struct` with `f == NULL` (opts.c:3189). With that removed it finds a file (or `-o Include`) with no directive, failing with `retval` -1 and no line at fault (opts.c:3215); with that removed too, `ForceSSLProto tls12`, `ProxySpec {`, `ForceSSLProto tls12`: the block's first ForceSSLProto is refused because the clone copied `sslversion` (opts.c:1652). |
| `conf_load_nat` | `MCConfLoadNat.cfg` | violation | `ProxySpec {`, `NATEngine ipfw`, `Listen`, `}`, `ProxySpec tcp`: the one-line listener declared after the block gets `ipfw`, because `set_proxyspec_option` hands the loader's natengine to `set_option` (opts.c:2797). |
| `name_value` | `MCNameValue.cfg` | pass | Every file line of up to 5 characters is skipped or split as spec.md 4.2 says (`SplitAsSpecified`). |
| `ca_material` | `MCCAMaterial.cfg` | pass | Whatever the order of `CACert`, `CAKey`, `DHGroupParams`, `ProxySpec` and `}` lines, every X509 CA object's reference count equals the pointers to it (`opts->cacrt` and chain entries): no chained cert is freed, none leaks (`RefcountsMatchHolders`). |
| `ca_material_clone` | `MCCAMaterialClone.cfg` | violation | `CACert ca1.pem`, `CACert ca2.pem` (both hold a key), `ProxySpec`: the global scope has ca2's cert with ca1's key, the new listener ca2's cert with ca2's key. The clone replays only the last saved name, while the setters fill the key only into an empty field (opts.c:648, 1348). spec.md 3.1/4.1 say the listener gets the global material. |

More disagreements are reachable in the models but not kept as runs
(they are listed as hazards in `PROJECT.json`):

- With `=` as separator the right trim also removes trailing `=`: `-o
  a=a=` gives the value `a`, and `-o 'UserAuthURL=http://login/?next='`
  loses its last character (opts.c:2853). `SplitAsSpecified` fails with
  `Sep = "="` on `#=#=`.
- The CA key, cert or DH parameters of a listener differ from the
  global ones also after `CAKey a`, `CAKey b` (the global cert from `a`,
  the listener's from `b`) and after two `CACert` files with DH
  parameters (opts.c:1386, 1351).

A listener's user lists are the global lists reversed
(`global_opts_copy` prepends node by node, opts.c:689-718);
`ListenerInheritsGlobal` compares them name for name, so a copy that
loses or duplicates a name fails it. The refinement to `OptionScopes`
abstracts them to sets.

Bounds: up to 9 tokens with the real `MAX_TOKENS` of 8, so that a line
of one token more than the argv holds is split. Seven tokens are enough
for two complete specs, or for one spec with `up: ua: ra:` followed by a
target or `sni` port. Every
branch of the switch is reached, including the rewind from state 3 and
state 4. The token set contains one member of each class the code
distinguishes:

- protocol keyword;
- valid address;
- valid and zero port;
- `up:`, `ua:`, `ra:`;
- `sni`;
- existing NAT name;
- anything else.

Each property of the passing run has a seeded fault, defined in the
module just before the definition it replaces. The fault breaks the
property under the same configuration:

| Seeded fault | Breaks |
|---|---|
| `DivertSpecNoArgcTest` | `TypeOK` (argc below 0) |
| `TargetPortKeepsNat` | `SpecsAreListeners` |
| `CompleteStatesWithListenAddr` | `SpecsAreListeners` |
| `SniPortAnyProto` | `SpecsAreListeners` |
| `MoreLinesNoEof` | `TypeOK` of `ProxySpecStruct` (`left` below 0) |
| `IncludeNoFlag` | `TypeOK` of `ConfLoad` (three open files) |
| `GlobalOptsCopyNoUserAuth` | `ListenerInheritsGlobal` |
| `FileLineInBlock` | `ImplementsOptionScopes` (a block line changes the global scope) |
| `GetNameValueNoRightTrim` | `SplitAsSpecified` |
| `ReadingNoEof` | `TypeOK` of `CAMaterial` (`left` below 0) |
| `LoadCACrtNoRefInc` | `RefcountsMatchHolders` (a chained cert with one reference too few) |

Bounds of the other modules: `ProxySpecStruct` reads up to 6 lines,
enough for `Proto`, `Addr`, `Port`, `SNIPort`/`TargetPort`, a divert
line and `}`. `ConfLoad` takes 1 command-line option (`-o` or `-f`), files
of up to 6 lines and an include file of 1 line (`MaxIncLines`), `MaxUsers = 2`
(so the lists of 2 names are accepted and the one of 3 refused) and at
most 2 listeners: enough to set a global option, declare a listener,
change the global option and declare a second one, or to nest an
`Include` in an include file. Two `-f` options or a 2-line include file
make the run exceed 15 minutes; they add no case the properties
distinguish. The violation runs use smaller bounds, so TLC prints the
shortest trace; `conf_load_errors` keeps 3 lines, the length of the
ForceSSLProto override, so that all three causes of
`LoadFailsOnlyOnError` are in reach, and `proxyspec_struct_form` keeps
the 6 lines the SNI trace needs. `NameValue` takes lines of up to 5 characters: enough
for a name, a separator run, a value and a trailing separator or blank.
`CAMaterial` reads up to 5 lines with at most 2 listeners: enough for two
global lines, a block with one line and its `}`, or two global lines
between two listeners; each file kind is one that the loaders tell
apart. The clone run uses 3 lines and one listener, the shortest trace.

## Plan and what is not yet modelled

Done: `ProxySpecLine` (with the `MAX_TOKENS` split), `ProxySpecStruct`,
`ConfLoad`, `OptionScopes` (with the refinement), `NameValue`,
`CAMaterial`.

The filter compiler (rule precedence, the leaf merge of action and log
masks) is left out on purpose: `filter.c` is not in the repository, so
the only sources are spec.md and the expected dumps of the unit tests in
`src/unnamed/part_001`, and they disagree. spec.md 4.3 computes
precedence as source + site + port + Block + log, which gives 3 for
`Divert from ip 192.168.0.1 to ip 192.168.0.2 port 443`; spec.md 8.2
scenario 5 and the test `set_filter_rule_08` give 2 (and 1 without the
port), so the source predicate is not counted. spec.md 4.3 says the
outcome is the highest-precedence rule, while the same test expects the
`divert` bit of a precedence-1 rule to survive in a leaf whose rules
reach precedence 2. A module written from either would be a guess at
code nobody can read.

Not modelled:

- the other `set_option`/`set_global_option` names: `CAChain`,
  `ClientCert`/`ClientKey`, `LeafCRLURL`, `ECDHCurve` (their loaders,
  `ssl_x509chain_load` among them, are in `ssl.c`, not under `src/`), log
  paths, numeric range setters;
- the string formatting in `opts_str`/`proxyspec_str`;
- `src/src/protohttp.h`: it declares the `protohttp_ctx_t` record and
  the prototypes of `protohttp_validate` and the setup functions. Their
  code (`protohttp.c`) is not in the repository, and spec.md puts
  protocol-specific rewriting out of scope, so there is no behaviour to
  translate.
