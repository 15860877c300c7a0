----------------------------- MODULE MCSession -----------------------------
(***************************************************************************)
(* Values for the constants of Session: three names, each with a definite  *)
(* answer that is void and another that is not or a failure that is        *)
(* retried, so that the void limit can be passed and passed again.         *)
(***************************************************************************)
EXTENDS Session

CONSTANTS a, b, c,
  MaxRecords,  \* bound on the records a behaviour makes
  MaxSent      \* bound on the lookups a behaviour sends

MCKey == {a, b, c}
NoKeys == {}

Found  == [rcode |-> "NOERROR", answers |-> <<"addr">>]
Empty  == [rcode |-> "NOERROR", answers |-> <<>>]
Absent == [rcode |-> "NXDOMAIN", answers |-> <<>>]
Broken == [rcode |-> "SERVFAIL", answers |-> <<>>]
Silent == [rcode |-> "TIMEOUT", answers |-> <<>>]

MCReply == [k \in MCKey |-> CASE k = a -> {Found, Empty}
                              [] k = b -> {Absent, Broken}
                              [] k = c -> {Empty, Silent}]

Bounded ==
  Len(queries') <= MaxRecords /\ network_queries' <= MaxSent

MCSpec == SessionInit /\ [][SessionNext /\ Bounded]_sessionVars
=============================================================================
