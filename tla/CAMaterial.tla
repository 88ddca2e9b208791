----------------------------- MODULE CAMaterial -----------------------------
(***************************************************************************)
(* The CA material of the option scopes: opts_set_cacrt(),               *)
(* opts_set_cakey() and opts_set_dh() (the CACert, CAKey and             *)
(* DHGroupParams lines), and how global_opts_copy() gives it to a new    *)
(* listener by replaying the file names saved in tmp_global_opts.        *)
(*                                                                         *)
(* A PEM file is a model value; Holds[f] says which of a certificate, a  *)
(* key and DH parameters it contains, which is all that ssl_x509_load(), *)
(* ssl_key_load() and ssl_dh_load() tell apart. Every ssl_x509_load()    *)
(* makes a new X509 object, numbered in order of creation, with its      *)
(* reference count; a key and DH parameters are named by their file.     *)
(* Scope 0 is global->opts; scopes 1.. are the listeners in declaration  *)
(* order, and only the last one can have an open block.                  *)
(***************************************************************************)
EXTENDS Naturals, Sequences, SequencesExt, FiniteSetsExt

CONSTANTS
  Files,         \* PEM file names
  Holds,         \* Holds[f] \subseteq {"crt", "key", "dh"}
  None,          \* a NULL pointer
  MaxListeners,  \* bound on the listeners declared
  MaxLines       \* bound on the lines read

ASSUME Holds \in [Files -> SUBSET {"crt", "key", "dh"}] /\ None \notin Files
ASSUME MaxListeners \in Nat /\ MaxLines \in Nat

VARIABLES
  opts,      \* opts[s]: the CA fields of scope s
  nscopes,   \* scopes 0..nscopes exist
  open,      \* a ProxySpec block of listener nscopes is open
  tmp,       \* tmp_global_opts: cacrt_str, cakey_str, dh_str
  objs,      \* objs[i]: the file X509 object i was loaded from
  refs,      \* refs[i]: the reference count of X509 object i
  left,      \* lines the configuration still has
  result     \* "running", "ok" or "error"

vars == <<opts, nscopes, open, tmp, objs, refs, left, result>>

Scopes == 0..nscopes
File == Files \cup {None}

(* The fields of opts_t that hold CA material: cacrt is an X509 object   *)
(* (0 for NULL), chain the X509 stack. keyExplicit is history: the key   *)
(* was set by a CAKey line (or its replay), not taken from a CACert file. *)
OptsRecord ==
  [cacrt : Nat, chain : Seq(Nat), cakey : File, dh : File, keyExplicit : BOOLEAN]

(* opts_new(): no material and an empty chain. *)
NewOpts == [cacrt |-> 0, chain |-> <<>>, cakey |-> None, dh |-> None, keyExplicit |-> FALSE]

TypeOK ==
  /\ nscopes \in 0..MaxListeners
  /\ opts \in [0..MaxListeners -> OptsRecord]
  /\ open \in BOOLEAN
  /\ tmp \in [cacrt : File, cakey : File, dh : File]
  /\ objs \in Seq(Files)
  /\ refs \in Seq(Nat) /\ Len(refs) = Len(objs)
  /\ left \in 0..MaxLines
  /\ result \in {"running", "ok", "error"}

(* ssl_key_load() and ssl_dh_load(): NULL when the file lacks the part. *)
KeyLoad(f) == IF "key" \in Holds[f] THEN f ELSE None
DhLoad(f) == IF "dh" \in Holds[f] THEN f ELSE None

(* A setter works on a context: the scope's opts, the X509 objects and   *)
(* their counts, and ok, FALSE once a setter returned -1.                *)
Ctx(o) == [o |-> o, objs |-> objs, refs |-> refs, ok |-> TRUE]

(* X509_free(): one reference less. *)
X509Free(c, id) == IF id = 0 THEN c.refs ELSE [c.refs EXCEPT ![id] = @ - 1]

(* Seeded fault for LoadCACrt: the ssl_x509_refcount_inc() before the  *)
(* insert into the chain is missing.                                     *)
LoadCACrtNoRefInc(c, f, refs0) ==
  LET id == Len(c.objs) + 1 IN
  [c EXCEPT !.objs = Append(c.objs, f), !.refs = Append(refs0, 1),
            !.o = [@ EXCEPT !.cacrt = id, !.chain = Cons(id, @)]]

(* ssl_x509_load() of a certificate (count 1), ssl_x509_refcount_inc()   *)
(* (count 2), and sk_X509_insert(chain, cacrt, 0).                       *)
LoadCACrt(c, f, refs0) ==
  LET id == Len(c.objs) + 1 IN
  [c EXCEPT !.objs = Append(c.objs, f), !.refs = Append(refs0, 2),
            !.o = [@ EXCEPT !.cacrt = id, !.chain = Cons(id, @)]]

(* opts_set_cacrt() after the tmp_global_opts update: the old cert is    *)
(* freed, the new one loaded (an error without a certificate), linked    *)
(* into the chain; the key and DH parameters come from the same file     *)
(* only if the scope has none yet.                                       *)
SetCACert(c, f) ==
  LET freed == X509Free(c, c.o.cacrt) IN
  IF "crt" \notin Holds[f]
    THEN [c EXCEPT !.refs = freed, !.o.cacrt = 0, !.ok = FALSE]
    ELSE LET d == LoadCACrt(c, f, freed) IN
         [d EXCEPT !.o.cakey = IF @ = None THEN KeyLoad(f) ELSE @,
                   !.o.dh = IF @ = None THEN DhLoad(f) ELSE @]

(* opts_set_cakey(): the key is replaced (an error without a key); the  *)
(* certificate and DH parameters come from the same file only if the    *)
(* scope has none yet.                                                   *)
SetCAKey(c, f) ==
  IF "key" \notin Holds[f]
    THEN [c EXCEPT !.o.cakey = None, !.ok = FALSE]
    ELSE LET k == [c EXCEPT !.o.cakey = f, !.o.keyExplicit = TRUE,
                            !.o.dh = IF @ = None THEN DhLoad(f) ELSE @]
         IN IF c.o.cacrt = 0 /\ "crt" \in Holds[f] THEN LoadCACrt(k, f, k.refs) ELSE k

(* opts_set_dh(): the DH parameters are replaced (an error without any). *)
SetDH(c, f) ==
  IF "dh" \notin Holds[f]
    THEN [c EXCEPT !.o.dh = None, !.ok = FALSE]
    ELSE [c EXCEPT !.o.dh = f]

(* The set_option() branches of the three names. *)
Setter(name, c, f) ==
  CASE name = "CACert" -> SetCACert(c, f)
    [] name = "CAKey" -> SetCAKey(c, f)
    [] name = "DHGroupParams" -> SetDH(c, f)

(* The tmp_global_opts string each setter saves when it is given one. *)
TmpField == [CACert |-> "cacrt", CAKey |-> "cakey", DHGroupParams |-> "dh"]

(* global_opts_copy(): the saved names are replayed on a new opts in the *)
(* order cacrt_str, cakey_str, dh_str, each only if it is set.           *)
Replay(c, name) ==
  IF tmp[TmpField[name]] = None THEN c ELSE Setter(name, c, tmp[TmpField[name]])

GlobalOptsCopy ==
  Replay(Replay(Replay(Ctx(NewOpts), "CACert"), "CAKey"), "DHGroupParams")

(* The context c becomes the state of scope s. *)
Store(s, c) ==
  /\ opts' = [opts EXCEPT ![s] = c.o]
  /\ objs' = c.objs
  /\ refs' = c.refs
  /\ result' = IF c.ok THEN "running" ELSE "error"
  /\ left' = left - 1

Init ==
  /\ opts = [s \in 0..MaxListeners |-> NewOpts]
  /\ nscopes = 0
  /\ open = FALSE
  /\ tmp = [cacrt |-> None, cakey |-> None, dh |-> None]
  /\ objs = <<>>
  /\ refs = <<>>
  /\ left = MaxLines
  /\ result = "running"

(* Seeded fault for Reading: the loop reads on past the end of file. *)
ReadingNoEof == result = "running"

(* The read loop of opts_load_conffile() has a line and no error. *)
Reading == result = "running" /\ left > 0

(* A CACert, CAKey or DHGroupParams line outside any block: the setter   *)
(* saves the name in tmp_global_opts, then acts on global->opts.         *)
GlobalLine(name, f) ==
  /\ Reading
  /\ ~open
  /\ tmp' = [tmp EXCEPT ![TmpField[name]] = f]
  /\ Store(0, Setter(name, Ctx(opts[0]), f))
  /\ UNCHANGED <<nscopes, open>>

(* A ProxySpec line: proxyspec_new() clones the global options; the     *)
(* block form stays open, the one-line form is complete at once. A      *)
(* replay that fails makes proxyspec_new() fail.                         *)
Declare ==
  /\ Reading
  /\ ~open
  /\ nscopes < MaxListeners
  /\ nscopes' = nscopes + 1
  /\ open' \in BOOLEAN
  /\ Store(nscopes + 1, GlobalOptsCopy)
  /\ UNCHANGED tmp

(* A line of the open block: set_proxyspec_option() hands it to          *)
(* set_option() with tmp_global_opts NULL.                               *)
BlockLine(name, f) ==
  /\ Reading
  /\ open
  /\ Store(nscopes, Setter(name, Ctx(opts[nscopes]), f))
  /\ UNCHANGED <<nscopes, open, tmp>>

(* The "}" line. *)
CloseBlock ==
  /\ Reading
  /\ open
  /\ open' = FALSE
  /\ left' = left - 1
  /\ UNCHANGED <<opts, nscopes, tmp, objs, refs, result>>

(* The end of the configuration: load_proxyspec_struct() refuses a      *)
(* block without "}", and opts_load_conffile() returns the retval of the *)
(* last directive, -1 if there was none.                                 *)
EndOfFile ==
  /\ result = "running"
  /\ result' = IF open \/ left = MaxLines THEN "error" ELSE "ok"
  /\ UNCHANGED <<opts, nscopes, open, tmp, objs, refs, left>>

Next ==
  \/ \E name \in DOMAIN TmpField, f \in Files : GlobalLine(name, f) \/ BlockLine(name, f)
  \/ Declare
  \/ CloseBlock
  \/ EndOfFile

Spec == Init /\ [][Next]_vars

----------------------------------------------------------------------------
(* The references to X509 object id: the opts->cacrt pointers and the   *)
(* chain entries of every scope.                                         *)
Holders(id) ==
  MapThenSumSet(LAMBDA s : (IF opts[s].cacrt = id THEN 1 ELSE 0)
                             + Len(SelectSeq(opts[s].chain, LAMBDA x : x = id)),
                Scopes)

(* Every X509 object's reference count equals the pointers to it: the   *)
(* chain keeps a replaced CA cert after opts_set_cacrt() has freed the   *)
(* scope's reference, so the increment before each sk_X509_insert() is  *)
(* what keeps it alive (no use after free, no leak), across CACert and  *)
(* CAKey lines in every order, in the global scope, in blocks and in the *)
(* replay of global_opts_copy().                                         *)
RefcountsMatchHolders ==
  \A id \in 1..Len(objs) : refs[id] = Holders(id)

(* The CA material of a scope as the files it came from. *)
CAOf(o, ob) == [cacrt |-> IF o.cacrt = 0 THEN None ELSE ob[o.cacrt],
                cakey |-> o.cakey, dh |-> o.dh]

(* spec.md 3.1 and 4.1: a listener starts as a clone of the global      *)
(* options, and the cert, key and DH inputs are saved as strings so that *)
(* they can be re-applied to it. A listener declared without an error holds the   *)
(* CA cert, CA key and DH parameters the global scope holds at that      *)
(* moment. global_opts_copy() replays only the last name each setter     *)
(* saved, while a setter loads the key, cert or DH parameters of its     *)
(* file only into an empty field (opts.c:1348, 1386, 1352).              *)
ListenerCAMatchesGlobal ==
  [][nscopes' > nscopes /\ result' = "running" =>
       CAOf(opts'[nscopes'], objs') = CAOf(opts[0], objs)]_vars

====
