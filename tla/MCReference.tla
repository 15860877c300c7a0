---------------------------- MODULE MCReference ----------------------------
(***************************************************************************)
(* Generated policies for Reference: every record of up to two terms for   *)
(* R, and every record of one for I, from a set of terms that has each     *)
(* mechanism, %{p}, a redirect and an exp=.  A name always fails or never  *)
(* does, and the deadline is far away: the runs are about the verdict.     *)
(***************************************************************************)
EXTENDS MCEvaluator, Reference, TLC

CONSTANT Hosts  \* what H may answer for its address

\* The hypothesis under which the verdict is proved to be the reference's.
ASSUME MCSteady == Steady

Walked ==
  {T("mx", Implicit, {"self"}), T("ptr", Implicit, {}), T("include", I, {}),
   T("exists", PMacro, {}), All("fail")}

Inner == {T("a", H, {"self", "near"}), T("include", PMacro, {}),
          [All("fail") EXCEPT !.qualifier = "pass"],
          [T("exists", I, {}) EXCEPT !.qualifier = "softfail"]}

OuterPolicy ==
  [terms : {<<t>> : t \in Walked} \cup (Walked \X Walked),
   redirect : {NoArg, I}, exp : {NoArg, H}]

InnerPolicy ==
  [terms : {<<>>} \cup {<<t>> : t \in Inner},
   redirect : {NoArg, PMacro}, exp : {PMacro}]

\* The TXT string of a policy.
Txt(p) == ToString(p)

GenText == {Txt(p) : p \in OuterPolicy \cup InnerPolicy} \cup {plain}

GenPolicyOf ==
  [t \in GenText |->
     IF t = plain THEN NotSpf
     ELSE CHOOSE p \in OuterPolicy \cup InnerPolicy : Txt(p) = t]

\* A policy supplied by the caller: include:I mx redirect=I exp=H.
GenOverride ==
  CHOOSE t \in GenText :
    GenPolicyOf[t] =
      [terms |-> <<T("include", I, {}), T("mx", Implicit, {"self"})>>,
       redirect |-> I, exp |-> H]

GenExpOf == [t \in GenText |-> IF t = plain THEN "plain" ELSE "bad"]

GenReply ==
  [k \in MCKey |->
     CASE k = <<R, "TXT">> -> {Ok(<<Txt(p)>>) : p \in OuterPolicy}
       [] k = <<I, "TXT">> -> {Ok(<<Txt(p)>>) : p \in InnerPolicy} \cup {Absent}
       [] k = <<H, "TXT">> -> {Ok(<<plain>>), Absent}
       [] k = <<H, "A">>   -> {[rcode |-> h[1], answers |-> h[2]] : h \in Hosts}
       [] k = <<R, "A">>   -> {Ok(<<"self">>), Absent}
       [] k = <<R, "MX">>  -> {Ok(<<R, H>>), Ok(<<R, H, I>>), Empty}
       [] k = <<V, "PTR">> -> {Ok(<<H, R>>), Ok(<<I, R>>), Ok(<<I, H, R>>)}
       [] OTHER -> {Absent}]

Answering == {<<"NOERROR", <<"self">>>>, <<"NOERROR", <<"far", "near">>>>,
              <<"NXDOMAIN", <<>>>>}
Failing   == {<<"SERVFAIL", <<>>>>}

InTimeSpec == EvalInit /\ [][Step \/ (Environment /\ ~expired')]_vars
=============================================================================
