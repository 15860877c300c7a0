------------------------------- MODULE Zone -------------------------------
(***************************************************************************)
(* ZoneResolver._lookup() (src/spftrace/resolver.py): the CNAME chase of   *)
(* the in-memory zone that the RFC 7208 corpus and the tests answer from.  *)
(*                                                                         *)
(* An entry is None (the name is absent), Silent (the entry is 'TIMEOUT')  *)
(* or the types of its records and the target of the first CNAME, if it    *)
(* has one.  Only the type that is asked for ("A"), "*" and CNAME matter.  *)
(***************************************************************************)
EXTENDS Naturals, Sequences

CONSTANTS Name, None, Silent

Records == [has : SUBSET {"A", "*"}, cname : Name \cup {None}]
Entry   == {None, Silent} \cup Records

ASSUME ZoneAssumption ==
  /\ None # Silent
  /\ None \notin Name \cup Records /\ Silent \notin Records

VARIABLES
  zone,       \* ZoneResolver.zone
  asked,      \* the name of the query
  current,    \* key
  seen,       \* the names whose CNAME was followed
  result      \* what _lookup() returns

zoneVars == <<zone, asked, current, seen, result>>

Pending  == [rcode |-> "NONE", found |-> FALSE]
Returns(rcode, found) == [rcode |-> rcode, found |-> found]

ZoneInit ==
  /\ zone \in [Name -> Entry]
  /\ asked \in Name /\ current = asked
  /\ seen = {}
  /\ result = Pending

\* A CNAME counts when there is no record of the type and no "*".
IsAlias(n) == zone[n] \in Records /\ zone[n].has = {} /\ zone[n].cname # None
Target(n)  == zone[n].cname

FollowsAgain(n) == TRUE      \* mutant: the loop has no memory
FollowsOnce(n) == seen = {}  \* mutant: one CNAME is enough
Follows(n) == n \notin seen

\* One turn of the loop that takes the CNAME.
Follow ==
  /\ result = Pending
  /\ IsAlias(current) /\ Follows(current)
  /\ seen' = seen \cup {current}
  /\ current' = Target(current)
  /\ UNCHANGED <<zone, asked, result>>

AnswerOf(e) ==
  CASE e = None   -> Returns("NXDOMAIN", FALSE)
    [] e = Silent -> Returns("TIMEOUT", FALSE)
    [] e \in Records /\ "A" \in e.has -> Returns("NOERROR", TRUE)
    [] e \in Records /\ e.has = {"*"}  -> Returns("TIMEOUT", FALSE)
    [] e \in Records /\ e.has = {}     -> Returns("NOERROR", FALSE)

\* The turn that returns.
Return ==
  /\ result = Pending
  /\ ~(IsAlias(current) /\ Follows(current))
  /\ result' = AnswerOf(zone[current])
  /\ UNCHANGED <<zone, asked, current, seen>>

ZoneNext == Follow \/ Return
ZoneSpec == ZoneInit /\ [][ZoneNext]_zoneVars

\* The loop holds no await: once entered it runs on.
ZoneFairSpec == ZoneSpec /\ WF_zoneVars(ZoneNext)

-----------------------------------------------------------------------------
\* The names that n leads to, itself among them: they are in every set that
\* has n and the target of each of its aliases.
Closed(S) == \A m \in S : IsAlias(m) => Target(m) \in S
Chain(n)  == {m \in Name : \A S \in SUBSET Name : n \in S /\ Closed(S) => m \in S}

\* The answer is that of the one name in the chain that is no alias; a chain
\* of aliases only is a loop, and its answer is the empty NOERROR that counts
\* as a void lookup.
LookupIsChase ==
  result # Pending =>
    /\ \A m \in Chain(asked) : ~IsAlias(m) => result = AnswerOf(zone[m])
    /\ (\A m \in Chain(asked) : IsAlias(m)) => result = Returns("NOERROR", FALSE)

\* The chase ends, whatever loops the zone has.
LookupEnds == <>(result # Pending)
=============================================================================
