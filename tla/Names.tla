------------------------------- MODULE Names -------------------------------
(***************************************************************************)
(* What becomes of an expanded macro-string before it is looked up:        *)
(* truncate_domain() (macros.py) trims it, and valid_domain()              *)
(* (evaluator.py) decides whether it is asked for at all.  A name is the   *)
(* sequence of the lengths of its labels.                                  *)
(***************************************************************************)
EXTENDS Naturals, Sequences, SequencesExt

CONSTANTS
  Expansions,  \* the names of a run
  NameLimit,   \* 253
  LabelLimit   \* 63

ASSUME NamesAssumption ==
  /\ LabelLimit \in Nat /\ NameLimit \in Nat
  /\ 2 * LabelLimit + 1 <= NameLimit
  /\ \A s \in Expansions : s \in Seq(Nat) /\ s # <<>>

VARIABLES expanded, name, use

nameVars == <<expanded, name, use>>

\* len(name): the labels and the dots between them.
Size(s) ==
  LET upto[i \in 0..Len(s)] == IF i = 0 THEN 0 ELSE upto[i - 1] + s[i]
  IN  upto[Len(s)] + Len(s) - 1

NamesInit ==
  /\ expanded \in Expansions
  /\ name = expanded
  /\ use = "truncate"

TooLongLate(s)  == Size(s) > NameLimit + 1 /\ Len(s) > 1  \* mutant: off by one
TooLongEarly(s) == Size(s) >= NameLimit /\ Len(s) > 1     \* mutant: off by one
TooLong(s) == Size(s) > NameLimit /\ Len(s) > 1

\* One turn of the loop of truncate_domain().
Trim ==
  /\ use = "truncate" /\ TooLong(name)
  /\ name' = Tail(name)
  /\ UNCHANGED <<expanded, use>>

\* valid_domain() of what is left.
Valid(s) ==
  /\ Size(s) <= NameLimit /\ Len(s) > 1
  /\ \A i \in DOMAIN s : s[i] \in 1..LabelLimit

Use ==
  /\ use = "truncate" /\ ~TooLong(name)
  /\ use' = IF Valid(name) THEN "looked up" ELSE "no match"
  /\ UNCHANGED <<expanded, name>>

NamesNext == Trim \/ Use
NamesSpec == NamesInit /\ [][NamesNext]_nameVars

-----------------------------------------------------------------------------
\* A name of two labels or more that DNS could hold is looked up, however
\* long the macro made it: trimming never leaves less than a domain.
LegalIsLookedUp ==
  Len(expanded) > 1 /\ (\A i \in DOMAIN expanded : expanded[i] \in 1..LabelLimit)
    => use # "no match"

\* What is looked up is the longest part of the name that fits, cut between
\* two labels and from the left.
LongestPart ==
  use # "truncate" =>
    /\ IsSuffix(name, expanded)
    /\ \A i \in 1..(Len(expanded) - Len(name)) :
         Size(SubSeq(expanded, i, Len(expanded))) > NameLimit
=============================================================================
