----------------------------- MODULE MCPrefetch -----------------------------
(***************************************************************************)
(* Values for the constants of Prefetch: the sender's domain R, a domain I *)
(* it includes, a host H and the reverse name V of the client.  The texts  *)
(* are chosen so that a record is speculated while another is evaluated.   *)
(***************************************************************************)
EXTENDS Prefetch

CONSTANTS R, I, H, V,                       \* names
  wide, tree, fails, twice, leaf, loop, bad, plain  \* TXT strings

MCName == {R, I, H, V}
MCKey  == MCName \X RType
MCText == {wide, tree, fails, twice, leaf, loop, bad, plain}

Below2 == {<<R, R>>, <<I, I>>, <<H, H>>, <<H, R>>}

T(name, arg) == [name |-> name, qualifier |-> "pass", arg |-> arg,
                 hit |-> {"self"}]
Record(terms, redirect, e) == [terms |-> terms, redirect |-> redirect, exp |-> e]

MCPolicyOf ==
  [t \in MCText |->
     CASE t = wide -> Record(<<T("mx", Implicit), T("include", I)>>, NoArg, NoArg)
       [] t = tree -> Record(<<T("exists", PMacro)>>, I, NoArg)
       [] t = fails -> Record(<<[T("a", H) EXCEPT !.qualifier = "fail"],
                                T("include", I)>>, NoArg, H)
       [] t = twice -> Record(<<T("ptr", Implicit), T("ptr", H)>>, NoArg, NoArg)
       [] t = leaf -> Record(<<T("a", H), T("ptr", R)>>, NoArg, NoArg)
       [] t = loop -> Record(<<T("include", R)>>, NoArg, NoArg)
       [] t = bad -> BadSyntax
       [] t = plain -> NotSpf]

MCExpOf == [t \in MCText |-> "plain"]

Ok(s)  == [rcode |-> "NOERROR", answers |-> s]
Absent == [rcode |-> "NXDOMAIN", answers |-> <<>>]
Silent == [rcode |-> "TIMEOUT", answers |-> <<>>]

\* Every reply but the root's is one of these; the root's is given by the run.
Zone(roots) ==
  [k \in MCKey |->
     CASE k = <<R, "TXT">> -> roots
       [] k = <<I, "TXT">> -> {Ok(<<leaf>>), Ok(<<loop>>), Ok(<<bad>>)}
       [] k = <<H, "TXT">> -> {Ok(<<plain>>)}
       [] k = <<H, "A">>   -> {Ok(<<"self">>), Ok(<<"far">>)}
       [] k = <<R, "MX">>  -> {Ok(<<H, I>>)}
       [] k = <<V, "PTR">> -> {Ok(<<H, I>>)}
       [] OTHER -> {Absent}]

WideZone  == Zone({Ok(<<wide>>)})
RootsZone == Zone({Ok(<<tree>>), Ok(<<fails>>), Ok(<<twice>>)})
FailsZone == Zone({Ok(<<fails>>)})

NoKeys  == {}
NoNames == {}
OnlyI   == {I}
HostKey == {<<H, "A">>}
OneStart == {R}
AnyStart == {R, Malformed, BadIp}
=============================================================================
