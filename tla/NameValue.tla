------------------------------ MODULE NameValue ------------------------------
(***************************************************************************)
(* How a configuration line, or the argument of -o, becomes a name and a  *)
(* value: the white-space and comment skip of opts_load_conffile() and    *)
(* global_set_option(), and get_name_value() with the separator ' ' (a    *)
(* file) or '=' (the command line).                                       *)
(*                                                                         *)
(* A line is a sequence of characters from a small alphabet with one      *)
(* member of each class the code tells apart: a letter, space, tab, a     *)
(* line end, '=' and '#'. The C loops are translated as RECURSIVE scans   *)
(* over indices; the reference split of spec.md 4.2 and 6 is            *)
(* written with SequencesExt selections instead, and the two are          *)
(* compared on every line up to MaxLen characters.                        *)
(***************************************************************************)
EXTENDS Naturals, Sequences, SequencesExt

CONSTANTS
  Chars,     \* the alphabet
  Sep,       \* the separator: " " in a file, "=" on the command line
  MaxLen     \* bound on the length of a line

ASSUME Sep \in {" ", "="} /\ MaxLen \in Nat

VARIABLE line

(* Characters the loops of get_name_value() test for. *)
WhiteSpace == {" ", "\t", "\r", "\n"}
Delims == WhiteSpace \cup {Sep}

(* The first index from i on whose character is not in D, or Len(s) + 1. *)
RECURSIVE Skip(_, _, _)
Skip(s, i, D) == IF i <= Len(s) /\ s[i] \in D THEN Skip(s, i + 1, D) ELSE i

(* The first index from i on whose character is in D, or Len(s) + 1. *)
RECURSIVE SkipNot(_, _, _)
SkipNot(s, i, D) == IF i <= Len(s) /\ s[i] \notin D THEN SkipNot(s, i + 1, D) ELSE i

(* The last index down from i whose character is not in D. *)
RECURSIVE Back(_, _, _)
Back(s, i, D) == IF s[i] \in D THEN Back(s, i - 1, D) ELSE i

(* Seeded fault for GetNameValue: the right trim of the value is missing. *)
GetNameValueNoRightTrim(s) ==
  LET n == SkipNot(s, 1, Delims)
      v == Skip(s, n + 1, Delims)
  IN CASE n = 1 -> [rv |-> -1, name |-> <<>>, value |-> <<>>]
       [] n > Len(s) \/ v > Len(s) -> [rv |-> 0, name |-> SubSeq(s, 1, n - 1), value |-> <<>>]
       [] OTHER -> [rv |-> 0, name |-> SubSeq(s, 1, n - 1), value |-> SubSeq(s, v, Len(s))]

(* get_name_value(): the name ends at the first white space or Sep; a    *)
(* line without a name is an error; the value starts after every white  *)
(* space and Sep that follow, and loses its trailing white space and    *)
(* Sep.                                                                  *)
GetNameValue(s) ==
  LET n == SkipNot(s, 1, Delims)
      v == Skip(s, n + 1, Delims)
  IN CASE n = 1 -> [rv |-> -1, name |-> <<>>, value |-> <<>>]
       [] n > Len(s) \/ v > Len(s) -> [rv |-> 0, name |-> SubSeq(s, 1, n - 1), value |-> <<>>]
       [] OTHER -> [rv |-> 0, name |-> SubSeq(s, 1, n - 1),
                    value |-> SubSeq(s, v, Back(s, Len(s), Delims))]

(* opts_load_conffile() and global_set_option(): leading spaces and tabs *)
(* are skipped.                                                          *)
SkipWhite(s) == SubSeq(s, Skip(s, 1, {" ", "\t"}), Len(s))

(* opts_load_conffile(): an empty line, a comment (# or ;) or a line     *)
(* that starts with a line end is skipped. The command line skips none. *)
IsSkipped(s) ==
  Sep = " " /\ (s = <<>> \/ s[1] \in {"#", ";", "\r", "\n"})

Init == line = <<>>

(* One more character of the line. *)
Type == /\ Len(line) < MaxLen
        /\ \E c \in Chars : line' = Append(line, c)

Next == Type

Spec == Init /\ [][Next]_line

----------------------------------------------------------------------------
(* The split spec.md 4.2 and 6 state: the name runs to the first white  *)
(* space or, on the command line, "="; the value is what follows the   *)
(* separators, with trailing white space trimmed; no name is an error. *)
RefName(s) == LET e == SelectInSeq(s, LAMBDA c : c \in Delims)
              IN IF e = 0 THEN s ELSE SubSeq(s, 1, e - 1)

RefValue(s) ==
  LET rest == SubSeq(s, Len(RefName(s)) + 1, Len(s))
      a == SelectInSeq(rest, LAMBDA c : c \notin Delims)
      b == SelectLastInSeq(rest, LAMBDA c : c \notin WhiteSpace)
  IN IF a = 0 THEN <<>> ELSE SubSeq(rest, a, b)

(* Every directive line the loader does not skip is split into the name *)
(* and value spec.md 4.2 gives it: get_name_value() keeps every character *)
(* of the value but the separators before it and the white space after. *)
SplitAsSpecified ==
  LET s == SkipWhite(line) IN
    ~IsSkipped(s) =>
      LET r == GetNameValue(s) IN
        /\ (r.rv = -1) <=> (RefName(s) = <<>>)
        /\ r.rv = 0 => r.name = RefName(s) /\ r.value = RefValue(s)

====
