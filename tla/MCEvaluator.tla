---------------------------- MODULE MCEvaluator ----------------------------
(***************************************************************************)
(* Values for the constants of Evaluator: a zone of four names.  R is the  *)
(* sender's domain, I the one it includes or redirects to, H a host, V the *)
(* reverse name of the client.  What the zone answers is chosen while the  *)
(* evaluation runs, so a run covers every combination of the replies.      *)
(***************************************************************************)
EXTENDS Evaluator

CONSTANTS R, I, H, V,            \* names
  mixed, walks, loops, garbage,  \* TXT strings: policies of R and of I
  leaf, back, soft,
  other, plain, pmacro           \* TXT strings that are not policies

MCName == {R, I, H, V}
MCKey  == MCName \X RType
NoKeys == {}
MCText == {mixed, walks, loops, garbage, leaf, back, soft, other, plain, pmacro}

Below2 == {<<R, R>>, <<I, I>>, <<H, H>>, <<H, R>>}

T(name, arg, hit) ==
  [name |-> name, qualifier |-> "pass", arg |-> arg, hit |-> hit]
All(q) == [name |-> "all", qualifier |-> q, arg |-> NoArg, hit |-> {}]

MCPolicyOf ==
  [t \in MCText |->
     CASE t = mixed ->  \* mx include:I -all exp=H
            [terms |-> <<T("mx", Implicit, {"self"}), T("include", I, {}),
                         All("fail")>>,
             redirect |-> NoArg, exp |-> H]
       [] t = walks ->  \* ptr exists:%{p} redirect=I
            [terms |-> <<T("ptr", Implicit, {}), T("exists", PMacro, {})>>,
             redirect |-> I, exp |-> PMacro]
       [] t = loops ->  \* a:<malformed> ip4:... include:R
            [terms |-> <<T("a", Malformed, {"self"}), T("ip4", NoArg, {"far"}),
                         T("include", R, {})>>,
             redirect |-> NoArg, exp |-> NoArg]
       [] t = leaf ->   \* a:H/24 -all exp=%{p}
            [terms |-> <<T("a", H, {"self", "near"}), All("fail")>>,
             redirect |-> NoArg, exp |-> PMacro]
       [] t = back ->   \* redirect=%{p}
            [terms |-> <<>>, redirect |-> PMacro, exp |-> NoArg]
       [] t = soft ->   \* a:%{p} ip6:...
            [terms |-> <<T("a", PMacro, {"self"}), T("ip6", NoArg, {"self"})>>,
             redirect |-> NoArg, exp |-> NoArg]
       [] t = garbage -> BadSyntax
       [] OTHER -> NotSpf]

MCExpOf ==
  [t \in MCText |-> CASE t = plain -> "plain"
                      [] t = pmacro -> "pmacro"
                      [] t = soft -> "pbad"
                      [] OTHER -> "bad"]

Ok(s)  == [rcode |-> "NOERROR", answers |-> s]
Absent == [rcode |-> "NXDOMAIN", answers |-> <<>>]
Empty  == Ok(<<>>)
Silent == [rcode |-> "TIMEOUT", answers |-> <<>>]

MCReply ==
  [k \in MCKey |->
     CASE k = <<R, "TXT">> -> {Ok(<<mixed>>), Ok(<<other, walks>>),
                               Ok(<<loops>>), Ok(<<back>>), Ok(<<garbage>>),
                               Ok(<<mixed, walks>>), Ok(<<other>>), Silent}
       [] k = <<I, "TXT">> -> {Ok(<<leaf>>), Ok(<<back>>), Ok(<<soft>>), Absent,
                               Silent}
       [] k = <<H, "TXT">> -> {Ok(<<plain>>), Ok(<<pmacro>>), Ok(<<soft>>),
                               Ok(<<plain, plain>>), Empty, Silent}
       [] k = <<H, "A">>   -> {Ok(<<"self">>), Ok(<<"far", "near">>),
                               Ok(<<"far">>), Absent, Silent}
       [] k = <<R, "A">>   -> {Ok(<<"near">>), Ok(<<"self">>), Absent}
       [] k = <<R, "MX">>  -> {Ok(<<R, H>>), Ok(<<H, I, R>>), Empty, Silent}
       [] k = <<V, "PTR">> -> {Ok(<<H>>), Ok(<<I, R, H>>), Ok(<<H, R>>), Empty,
                               Silent}
       [] OTHER -> {Absent}]

OneStart == {R}
AnyStart == {R, Malformed, BadIp}
=============================================================================
