------------------------------- MODULE Regex -------------------------------
(***************************************************************************)
(* What the regular expressions of parser.py and macros.py have in common. *)
(***************************************************************************)
EXTENDS Naturals, Sequences

\* In Python "$" matches before a final line feed as well as at the end.
Chomp(s) ==
  IF s # <<>> /\ s[Len(s)] = "nl" THEN SubSeq(s, 1, Len(s) - 1) ELSE s
=============================================================================
