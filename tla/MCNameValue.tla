---------------------------- MODULE MCNameValue ----------------------------
(* Lines of up to MaxLen characters over one character of each class. *)
EXTENDS NameValue

MCChars == {"a", " ", "\t", "\r", "=", "#"}
=============================================================================
