---------------------------- MODULE MCLifecycle ----------------------------
(***************************************************************************)
(* Values for the constants of Lifecycle: three calls on two Evaluators    *)
(* over one resolver.                                                      *)
(***************************************************************************)
EXTENDS Lifecycle

CONSTANTS m1, m2, c1, c2, c3

TwoMachines == {m1, m2}
ThreeCalls  == {c1, c2, c3}
Second      == {m2}

\* One call on the first Evaluator, and two, one after the other, on the second.
OnOwn == [c \in Call |-> IF c = c1 THEN m1 ELSE m2]
=============================================================================
